------------------------ MODULE SchemaProperties_proofs -----------------------
(***************************************************************************)
(* Proofs about SchemaProperties, for any schema with a sound layout, any  *)
(* even number of byte values, any requests and values of plugins, and any *)
(* number of blocks, calls and collection elements.  In order: numbers and *)
(* texts, which values a field gives back; memory and one part of a path;  *)
(* whole paths; what each operation does to the entity's references; two   *)
(* paths side by side, which share their first parts when they come to the *)
(* same cells; then what a write or a resize can change for another path,  *)
(* and the field and the index under which the network hears of it.        *)
(***************************************************************************)
EXTENDS SchemaProperties, FiniteSetTheorems, SequenceTheorems, WellFoundedInduction, TLAPS

-----------------------------------------------------------------------------
(* Numbers.                                                                *)

LEMMA Evenness == \E h \in Nat \ {0} : Byte = 2 * h /\ Byte \in Nat /\ MaxInteger = h * Byte - 1
<1>1. PICK h \in Nat \ {0} : Byte = 2 * h
  BY BoundsAssumption
<1>. DEFINE k == h * Byte
<1>2. k \in Nat /\ Byte * Byte = 2 * k
  BY <1>1
<1>3. Span(2) \div 2 = k
  <2>. HIDE DEF k
  <2>1. (2 * k) \div 2 = k
    BY <1>2
  <2>. QED  BY <1>2, <2>1 DEF Span
<1>. QED  BY <1>1, <1>3 DEF MaxInteger

\* Division by a positive number.
LEMMA DivMod ==
    ASSUME NEW n \in Int, NEW m \in Nat \ {0}
    PROVE  /\ n \div m \in Int /\ n % m \in 0..(m - 1)
           /\ n = (m * (n \div m)) + (n % m)
OBVIOUS

LEMMA Residue ==
    ASSUME NEW n \in Int, NEW m \in Nat \ {0}
    PROVE  /\ n \in 0..(m - 1) => n % m = n
           /\ n \in (-m)..(-1) => n % m = n + m
OBVIOUS

LEMMA Quotient ==
    ASSUME NEW n \in Int, NEW m \in Nat \ {0}
    PROVE  /\ n \in 0..((m * m) - 1) => n \div m \in 0..(m - 1)
           /\ n \in (-(m * m))..(-1) => n \div m \in (-m)..(-1)
OBVIOUS

LEMMA EncodeShape ==
    ASSUME NEW n \in Int, NEW w \in {1, 2}
    PROVE  Encode(n, w) \in Seq(0..(Byte - 1)) /\ Len(Encode(n, w)) = w
<1>1. Byte \in Nat \ {0}
  BY BoundsAssumption
<1>. DEFINE digit(k) == (IF k = 1 THEN n ELSE n \div Byte) % Byte
<1>2. ASSUME NEW k \in 1..w PROVE digit(k) \in 0..(Byte - 1)
  <2>1. n \div Byte \in Int
    BY <1>1, DivMod
  <2>. DEFINE x == IF k = 1 THEN n ELSE n \div Byte
  <2>2. x \in Int
    BY <2>1
  <2>. HIDE DEF x
  <2>3. x % Byte \in 0..(Byte - 1)
    BY <1>1, <2>2, DivMod
  <2>. QED  BY <2>3 DEF x
<1>. HIDE DEF digit
<1>3. [k \in 1..w |-> digit(k)] \in Seq(0..(Byte - 1)) /\ Len([k \in 1..w |-> digit(k)]) = w
  <2>1. w \in Nat
    OBVIOUS
  <2>2. [k \in 1..w |-> digit(k)] \in [1..w -> 0..(Byte - 1)]
    BY <1>2
  <2>. DEFINE f == [k \in 1..w |-> digit(k)]
  <2>3. f \in Seq(0..(Byte - 1))
    BY <2>1, <2>2, SeqDef
  <2>4. DOMAIN f = 1..w
    OBVIOUS
  <2>. HIDE DEF f
  <2>5. Len(f) = w
    BY <2>1, <2>3, <2>4, LenProperties
  <2>. QED  BY <2>3, <2>5 DEF f
<1>. QED  BY <1>3 DEF Encode, digit

\* The number that w bytes hold, and how a negative one is told from it.
LEMMA NumberOfEncode ==
    ASSUME NEW n \in Int, NEW w \in {1, 2}, n \in (-Span(w))..(Span(w) - 1)
    PROVE  /\ n >= 0 => Number(Encode(n, w)) = n
           /\ n < 0 => Number(Encode(n, w)) = n + Span(w)
<1>1. Byte \in Nat \ {0}
  BY BoundsAssumption
<1>2. Len(Encode(n, w)) = w
  BY EncodeShape
<1>3. CASE w = 1
  <2>1. Encode(n, w)[1] = n % Byte
    BY <1>3 DEF Encode
  <2>2. Span(w) = Byte
    BY <1>3 DEF Span
  <2>3. Number(Encode(n, w)) = n % Byte
    BY <1>2, <1>3, <2>1 DEF Number
  <2>4. n \in 0..(Byte - 1) \/ n \in (-Byte)..(-1)
    BY <1>1, <2>2
  <2>. QED  BY <1>1, <2>2, <2>3, <2>4, Residue
<1>4. CASE w = 2
  <2>. DEFINE d == n \div Byte
              r == n % Byte
  <2>1. Encode(n, w)[1] = r /\ Encode(n, w)[2] = d % Byte
    BY <1>4 DEF Encode
  <2>2. Span(w) = Byte * Byte
    BY <1>4 DEF Span
  <2>3. Number(Encode(n, w)) = r + Byte * (d % Byte)
    BY <1>2, <1>4, <2>1 DEF Number
  <2>4. d \in Int /\ r \in 0..(Byte - 1) /\ n = (Byte * d) + r
    BY <1>1, DivMod
  <2>5. n >= 0 => d \in 0..(Byte - 1)
    <3>1. n >= 0 => n \in 0..((Byte * Byte) - 1)
      BY <1>1, <2>2
    <3>. QED  BY <1>1, <3>1, Quotient
  <2>6. n < 0 => d \in (-Byte)..(-1)
    <3>1. n < 0 => n \in (-(Byte * Byte))..(-1)
      BY <1>1, <2>2
    <3>. QED  BY <1>1, <3>1, Quotient
  <2>. HIDE DEF d, r
  <2>7. n >= 0 => d % Byte = d
    BY <1>1, <2>4, <2>5, Residue
  <2>8. n < 0 => d % Byte = d + Byte
    BY <1>1, <2>4, <2>6, Residue
  <2>9. Byte * (d + Byte) = (Byte * d) + (Byte * Byte)
    BY <1>1, <2>4
  <2>10. Byte * d \in Int /\ Byte * Byte \in Int
    BY <1>1, <2>4
  <2>. QED  BY <2>2, <2>3, <2>4, <2>7, <2>8, <2>9, <2>10
<1>. QED  BY <1>3, <1>4

LEMMA SpanFacts ==
    ASSUME NEW w \in {1, 2}
    PROVE  \E h \in Nat \ {0} : Span(w) = 2 * h
<1>1. PICK h \in Nat \ {0} : Byte = 2 * h /\ Byte \in Nat
  BY Evenness
<1>2. Byte * Byte = 2 * (h * Byte) /\ h * Byte \in Nat \ {0}
  BY <1>1
<1>. QED  BY <1>1, <1>2 DEF Span

\* What fits into w bytes is read back from them.
LEMMA UnsignedRoundTrip ==
    ASSUME NEW n \in Int, NEW w \in {1, 2}, n >= 0, UnsignedFits(n, w)
    PROVE  Number(Encode(n, w)) = n
<1>1. Span(w) \in Nat
  BY SpanFacts
<1>2. n \in (-Span(w))..(Span(w) - 1)
  BY <1>1 DEF UnsignedFits
<1>. QED  BY <1>2, NumberOfEncode

LEMMA SignedRoundTrip ==
    ASSUME NEW n \in Int, NEW w \in {1, 2}, SignedFits(n, w)
    PROVE  Signed(Encode(n, w)) = n
<1>1. PICK h \in Nat \ {0} : Span(w) = 2 * h
  BY SpanFacts
<1>2. n \in (-Span(w))..(Span(w) - 1) /\ 2 * n >= -Span(w) /\ 2 * n < Span(w)
  BY <1>1 DEF SignedFits
<1>3. /\ n >= 0 => Number(Encode(n, w)) = n
      /\ n < 0 => Number(Encode(n, w)) = n + Span(w)
  BY <1>2, NumberOfEncode
<1>4. Len(Encode(n, w)) = w
  BY EncodeShape
<1>. QED  BY <1>1, <1>2, <1>3, <1>4 DEF Signed

-----------------------------------------------------------------------------
(* Texts.                                                                  *)

\* Strict inclusion of finite sets is well-founded, and so is the order of numbers.
LEMMA LeastNumber ==
    ASSUME NEW T \in SUBSET Nat, T # {}
    PROVE  \E n \in T : \A m \in T : n <= m
<1>. DEFINE Below == {0..n : n \in T}
<1>1. Below \subseteq FiniteSubsetsOf(Nat)
  <2>1. SUFFICES ASSUME NEW n \in T PROVE 0..n \in FiniteSubsetsOf(Nat)
    OBVIOUS
  <2>2. IsFiniteSet(0..n) /\ 0..n \subseteq Nat
    BY FS_Interval
  <2>. QED  BY <2>2 DEF FiniteSubsetsOf
<1>2. Below # {}
  OBVIOUS
<1>3. PICK B \in Below : \A C \in Below : <<C, B>> \notin StrictSubsetOrdering(Nat)
  <2>. HIDE DEF Below
  <2>. QED  BY <1>1, <1>2, FS_StrictSubsetOrderingWellFounded, WFMin
<1>4. PICK n \in T : B = 0..n
  OBVIOUS
<1>5. ASSUME NEW m \in T, m < n PROVE FALSE
  <2>1. 0..m \in Below /\ 0..n \in Below
    OBVIOUS
  <2>2. 0..m \subseteq 0..n /\ n \in 0..n /\ n \notin 0..m
    BY <1>5
  <2>3. 0..m \in SUBSET Nat /\ 0..n \in SUBSET Nat /\ 0..m # 0..n
    BY <2>2
  <2>4. <<0..m, 0..n>> \in StrictSubsetOrdering(Nat)
    BY <2>2, <2>3 DEF StrictSubsetOrdering
  <2>. QED  BY <1>3, <1>4, <2>1, <2>4
<1>. QED  BY <1>5

\* Where a text ends: before its first NUL, if it has one.
EndsBefore(s, k) == k \in DOMAIN s /\ s[k] = 0 /\ \A j \in 1..(k - 1) : s[j] # 0

LEMMA NulFound ==
    ASSUME NEW S, NEW s \in Seq(S), NEW k, EndsBefore(s, k)
    PROVE  UpToNul(s) = SubSeq(s, 1, k - 1)
<1>. DEFINE nul == {j \in DOMAIN s : s[j] = 0}
<1>1. DOMAIN s = 1..Len(s) /\ Len(s) \in Nat
  BY LenProperties
<1>2. k \in nul /\ k \in Nat /\ nul \subseteq Nat
  BY <1>1 DEF EndsBefore
<1>3. \A j \in nul : k <= j
  BY <1>1, <1>2 DEF EndsBefore
<1>4. First(nul) = {k}
  BY <1>2, <1>3 DEF First
<1>5. (CHOOSE j \in First(nul) : TRUE) = k
  BY <1>4
<1>6. nul # {}
  BY <1>2
<1>. HIDE DEF nul
<1>7. (IF nul = {} THEN s ELSE SubSeq(s, 1, (CHOOSE j \in First(nul) : TRUE) - 1)) = SubSeq(s, 1, k - 1)
  BY <1>5, <1>6
<1>. QED  BY <1>7 DEF UpToNul, nul

LEMMA NulMissing ==
    ASSUME NEW S, NEW s \in Seq(S), \A k \in 1..Len(s) : s[k] # 0
    PROVE  UpToNul(s) = s
<1>1. DOMAIN s = 1..Len(s)
  BY LenProperties
<1>. QED  BY <1>1 DEF UpToNul

LEMMA UpToNulFacts ==
    ASSUME NEW S, NEW s \in Seq(S)
    PROVE  UpToNul(s) \in Seq(S) /\ \A k \in 1..Len(UpToNul(s)) : UpToNul(s)[k] # 0
<1>1. DOMAIN s = 1..Len(s) /\ Len(s) \in Nat /\ \A k \in 1..Len(s) : s[k] \in S
  BY LenProperties, ElementOfSeq
<1>2. CASE \A k \in 1..Len(s) : s[k] # 0
  BY <1>2, NulMissing
<1>3. CASE ~ \A k \in 1..Len(s) : s[k] # 0
  <2>. DEFINE T == {k \in 1..Len(s) : s[k] = 0}
  <2>1. T \in SUBSET Nat /\ T # {}
    BY <1>3
  <2>2. PICK k \in T : \A m \in T : k <= m
    <3>. HIDE DEF T
    <3>. QED  BY <2>1, LeastNumber
  <2>3. k \in 1..Len(s) /\ s[k] = 0 /\ \A j \in 1..(k - 1) : s[j] # 0
    BY <1>1, <2>2
  <2>4. EndsBefore(s, k)
    BY <1>1, <2>3 DEF EndsBefore
  <2>. DEFINE u == SubSeq(s, 1, k - 1)
  <2>5. UpToNul(s) = u
    BY <2>4, NulFound
  <2>6. \A j \in 1..(k - 1) : s[j] \in S
    BY <1>1, <2>3
  <2>7. /\ u \in Seq(S) /\ Len(u) = (IF 1 <= k - 1 THEN (k - 1) - 1 + 1 ELSE 0)
        /\ \A j \in 1..((k - 1) - 1 + 1) : u[j] = s[1 + j - 1]
    BY <2>3, <2>6, SubSeqProperties
  <2>. HIDE DEF u
  <2>8. Len(u) = k - 1 /\ \A j \in 1..(k - 1) : u[j] = s[j]
    BY <2>3, <2>7
  <2>. QED  BY <2>3, <2>5, <2>7, <2>8
<1>. QED  BY <1>2, <1>3

\* A text that is stored with its NUL is read back.
LEMMA TextRoundTrip ==
    ASSUME NEW S, NEW u \in Seq(S), \A k \in 1..Len(u) : u[k] # 0, NEW n \in Nat, Len(u) < n
    PROVE  UpToNul([k \in 1..n |-> IF k <= Len(u) THEN u[k] ELSE 0]) = u
<1>. DEFINE m == Len(u)
            s == [k \in 1..n |-> IF k <= Len(u) THEN u[k] ELSE 0]
<1>1. m \in Nat /\ m + 1 \in 1..n /\ \A k \in 1..m : u[k] \in S /\ k \in 1..n
  BY LenProperties, ElementOfSeq
<1>2. s \in Seq(S \cup {0})
  <2>1. s \in [1..n -> S \cup {0}]
    <3>1. ASSUME NEW k \in 1..n PROVE (IF k <= Len(u) THEN u[k] ELSE 0) \in S \cup {0}
      BY <1>1
    <3>. QED  BY <3>1
  <2>. QED  BY <2>1, SeqDef
<1>3. DOMAIN s = 1..n /\ s[m + 1] = 0 /\ \A k \in 1..m : s[k] = u[k]
  BY <1>1
<1>. HIDE DEF s
<1>4. EndsBefore(s, m + 1)
  BY <1>1, <1>3 DEF EndsBefore
<1>5. UpToNul(s) = SubSeq(s, 1, (m + 1) - 1)
  BY <1>2, <1>4, NulFound
<1>6. (m + 1) - 1 = m
  BY <1>1
<1>. DEFINE t == SubSeq(s, 1, m)
<1>7. \A k \in 1..m : s[k] \in S
  BY <1>1, <1>3
<1>8. /\ t \in Seq(S) /\ Len(t) = (IF 1 <= m THEN m - 1 + 1 ELSE 0)
      /\ \A k \in 1..(m - 1 + 1) : t[k] = s[1 + k - 1]
  BY <1>1, <1>7, SubSeqProperties
<1>. HIDE DEF t
<1>9. Len(t) = Len(u) /\ \A k \in 1..Len(u) : t[k] = u[k]
  BY <1>1, <1>3, <1>8
<1>10. t = u
  BY <1>8, <1>9, SeqEqual
<1>. QED  BY <1>5, <1>6, <1>10 DEF s, t

-----------------------------------------------------------------------------
(* Values.  What is stored of a value is loaded again.                     *)

\* What read_value has read for a field of a type.
Accepted(t, v) == IsValue(v) /\ Converts(Kind(t), v)

LEMMA TextType ==
    ASSUME NEW t \in FieldTypes, IsText(t)
    PROVE  t.cat = "array" /\ t.count \in Nat /\ t.size = t.count
<1>1. t.cat = "array" /\ t.elem.cat = "char"
  BY DEF IsText
<1>2. t.elem \in FieldTypes
  BY <1>1, TypesAssumption
<1>3. t.elem.size = 1
  BY <1>1, <1>2, TypesAssumption DEF WellFormed
<1>4. t.count \in Nat /\ t.size = t.count * t.elem.size
  BY <1>1, TypesAssumption DEF WellFormed
<1>. QED  BY <1>1, <1>3, <1>4

\* The types a value can be stored in.
LEMMA LeafTypes ==
    ASSUME NEW t \in FieldTypes, ~Aggregate(t), NEW v, Accepted(t, v)
    PROVE  \/ t.cat \in {"int", "char"} /\ t.size \in {1, 2} /\ v.as = "integer"
           \/ t.cat = "uint" /\ t.size \in {1, 2} /\ v.as = "digits"
           \/ t.cat \in {"float", "double"} /\ t.size = 1 /\ v.as = "float" /\ Kind(t) = "float"
           \/ t.cat \in {"vector", "pointer"} /\ t.size = 1 /\ v.as = t.cat /\ Kind(t) = t.cat
           \/ t.cat = "handle" /\ t.size = 1 /\ v.as \in {"nil", "handle"} /\ Kind(t) = "handle"
           \/ IsText(t) /\ v.as = "text"
<1>1. WellFormed(t)
  BY TypesAssumption
<1>2. v.as \in {"integer", "digits", "float", "text", "vector", "handle", "pointer", "nil"}
  BY DEF Accepted, IsValue
<1>3. CASE t.cat = "array"
  <2>1. IsText(t)
    BY <1>3 DEF Aggregate
  <2>2. Kind(t) = "text"
    BY <2>1 DEF Kind
  <2>. QED  BY <2>1, <2>2, <1>2 DEF Accepted, Converts
<1>4. CASE t.cat # "array"
  <2>1. ~IsText(t) /\ t.cat # "collection"
    BY <1>4 DEF Aggregate, IsText
  <2>2. Kind(t) = CASE t.cat \in {"int", "char"} -> "integer"
                    [] t.cat = "uint" -> "unsigned"
                    [] t.cat = "double" -> "float"
                    [] t.cat \in {"class", "bits"} -> "raw"
                    [] OTHER -> t.cat
    BY <1>4, <2>1 DEF Kind
  <2>3. CASE t.cat \in {"int", "uint"} /\ t.size \in {1, 2}
    BY <1>2, <2>2, <2>3 DEF Accepted, Converts
  <2>4. CASE t.cat \in {"char", "float", "double", "vector", "handle", "bits"} /\ t.size = 1
    BY <1>2, <2>2, <2>4 DEF Accepted, Converts
  <2>5. CASE t.cat = "pointer" /\ t.size = 1
    BY <1>2, <2>2, <2>5 DEF Accepted, Converts
  <2>6. CASE t.cat = "class"
    BY <1>2, <2>2, <2>6 DEF Accepted, Converts
  <2>. QED  BY <1>1, <1>4, <2>1, <2>3, <2>4, <2>5, <2>6 DEF WellFormed
<1>. QED  BY <1>3, <1>4

\* What is stored has the cells of the type, and is read as the value it was.
LEMMA StoredIsLoaded ==
    ASSUME NEW t \in FieldTypes, ~Aggregate(t), NEW v, Accepted(t, v),
           Stored(t, v) # <<>>
    PROVE  /\ t.size \in Nat /\ Stored(t, v) = [k \in 1..t.size |-> Stored(t, v)[k]]
           /\ Len(Stored(t, v)) = t.size
           /\ Loaded(t, Stored(t, v)) = Held(t, v)
<1>. DEFINE cells == Stored(t, v)
<1>0. v = Lua(v.as, v.v) /\ (v.as \in {"integer", "digits"} => v.v \in Int)
      /\ (v.as = "digits" => v.v >= 0)
  BY DEF Accepted, IsValue
<1>1. CASE t.cat \in {"int", "char"} /\ t.size \in {1, 2} /\ v.as = "integer"
  <2>1. v.v \in Int
    BY <1>0, <1>1
  <2>2. cells = Encode(v.v, t.size) /\ SignedFits(v.v, t.size)
    BY <1>1 DEF Stored
  <2>3. Signed(cells) = v.v /\ Len(cells) = t.size
    BY <1>1, <2>1, <2>2, SignedRoundTrip, EncodeShape
  <2>4. Loaded(t, cells) = Lua("integer", v.v)
    BY <1>1, <2>3 DEF Loaded, IsText
  <2>5. Held(t, v) = v
    BY <1>1 DEF Held
  <2>6. cells = [k \in 1..t.size |-> cells[k]]
    BY <2>2 DEF Encode
  <2>. QED  BY <1>0, <1>1, <2>3, <2>4, <2>5, <2>6
<1>2. CASE t.cat = "uint" /\ t.size \in {1, 2} /\ v.as = "digits"
  <2>1. v.v \in Int /\ v.v >= 0
    BY <1>0, <1>2
  <2>2. cells = Encode(v.v, t.size) /\ UnsignedFits(v.v, t.size)
    BY <1>2 DEF Stored
  <2>3. Number(cells) = v.v /\ Len(cells) = t.size
    BY <1>2, <2>1, <2>2, UnsignedRoundTrip, EncodeShape
  <2>4. Loaded(t, cells) = PushUint64(v.v)
    BY <1>2, <2>3 DEF Loaded, IsText
  <2>5. Held(t, v) = IF v.v <= MaxInteger THEN Lua("integer", v.v) ELSE v
    BY <1>2 DEF Held
  <2>6. PushUint64(v.v) = Held(t, v)
    BY <1>0, <1>2, <2>5 DEF PushUint64
  <2>7. cells = [k \in 1..t.size |-> cells[k]]
    BY <2>2 DEF Encode
  <2>. QED  BY <1>2, <2>3, <2>4, <2>6, <2>7
<1>3. CASE t.cat \in {"float", "double"} /\ t.size = 1 /\ v.as = "float" /\ Kind(t) = "float"
  <2>1. PICK x : cells = <<x>> /\ x = IF t.cat = "double" THEN v.v ELSE Narrow[v.v]
    BY <1>3 DEF Stored, IsText
  <2>2. Loaded(t, cells) = Lua("float", x)
    BY <1>3, <2>1 DEF Loaded, IsText
  <2>3. Held(t, v) = Lua("float", x)
    BY <1>0, <1>3, <2>1 DEF Held
  <2>4. cells = [k \in 1..t.size |-> cells[k]] /\ Len(cells) = 1
    BY <1>3, <2>1
  <2>. QED  BY <1>3, <2>2, <2>3, <2>4
<1>4. CASE t.cat \in {"vector", "pointer"} /\ t.size = 1 /\ v.as = t.cat /\ Kind(t) = t.cat
  <2>1. PICK x : cells = <<x>> /\ x = IF t.cat = "vector" THEN Narrow[v.v] ELSE v.v
    BY <1>4 DEF Stored, IsText
  <2>2. Loaded(t, cells) = Lua(t.cat, x)
    BY <1>4, <2>1 DEF Loaded, IsText
  <2>3. Held(t, v) = Lua(t.cat, x)
    BY <1>0, <1>4, <2>1 DEF Held
  <2>4. cells = [k \in 1..t.size |-> cells[k]] /\ Len(cells) = 1
    BY <1>4, <2>1
  <2>. QED  BY <1>4, <2>2, <2>3, <2>4
<1>5. CASE t.cat = "handle" /\ t.size = 1 /\ v.as \in {"nil", "handle"} /\ Kind(t) = "handle"
  <2>1. PICK x : cells = <<x>> /\ x = IF v.as = "nil" THEN -1 ELSE v.v
    BY <1>5 DEF Stored, IsText
  <2>2. Loaded(t, cells) = Lua("handle", x)
    BY <1>5, <2>1 DEF Loaded, IsText
  <2>3. Held(t, v) = IF v.as = "nil" THEN Lua("handle", -1) ELSE v
    BY <1>5 DEF Held
  <2>4. cells = [k \in 1..t.size |-> cells[k]] /\ Len(cells) = 1
    BY <1>5, <2>1
  <2>. QED  BY <1>0, <1>5, <2>1, <2>2, <2>3, <2>4
<1>6. CASE IsText(t) /\ v.as = "text"
  <2>1. t.cat = "array" /\ t.count \in Nat /\ t.size = t.count
    BY <1>6, TextType
  <2>2. v.v \in Seq(0..(Byte - 1))
    BY <1>6 DEF Accepted, IsValue
  <2>. DEFINE u == UpToNul(v.v)
              padded == [k \in 1..t.count |-> IF k <= Len(u) THEN u[k] ELSE 0]
  <2>3. cells = padded /\ Len(u) < t.count
    BY <1>6, <2>1 DEF Stored
  <2>4. u \in Seq(0..(Byte - 1)) /\ \A k \in 1..Len(u) : u[k] # 0
    BY <2>2, UpToNulFacts
  <2>. HIDE DEF u
  <2>5. UpToNul(padded) = u
    BY <2>1, <2>3, <2>4, TextRoundTrip
  <2>6. DOMAIN padded = 1..t.count
    OBVIOUS
  <2>7. padded \in Seq(0..(Byte - 1) \cup {0})
    <3>1. Len(u) \in Nat /\ \A k \in 1..Len(u) : u[k] \in 0..(Byte - 1)
      BY <2>4, LenProperties, ElementOfSeq
    <3>2. ASSUME NEW k \in 1..t.count
          PROVE  (IF k <= Len(u) THEN u[k] ELSE 0) \in 0..(Byte - 1) \cup {0}
      BY <3>1
    <3>3. padded \in [1..t.count -> 0..(Byte - 1) \cup {0}]
      BY <3>2
    <3>. QED  BY <2>1, <3>3, SeqDef
  <2>8. padded = [k \in 1..t.count |-> padded[k]]
    OBVIOUS
  <2>. HIDE DEF padded
  <2>9. Len(padded) = t.count
    BY <2>1, <2>6, <2>7, LenProperties
  <2>10. Loaded(t, cells) = Lua("text", UpToNul(cells))
    BY <1>6, <2>1 DEF Loaded
  <2>11. Held(t, v) = Lua("text", u)
    BY <1>6 DEF Held, u
  <2>. HIDE DEF cells
  <2>12. cells = [k \in 1..t.size |-> cells[k]] /\ Len(cells) = t.size
    BY <2>1, <2>3, <2>8, <2>9
  <2>. QED  BY <2>1, <2>3, <2>5, <2>10, <2>11, <2>12 DEF cells
<1>. QED  BY <1>1, <1>2, <1>3, <1>4, <1>5, <1>6, LeafTypes

-----------------------------------------------------------------------------
(* Memory.                                                                 *)

LEMMA IsSequence ==
    ASSUME NEW n \in Nat, NEW f, f = [k \in 1..n |-> f[k]]
    PROVE  f \in Seq(ToSet(f)) /\ Len(f) = n /\ DOMAIN f = 1..n
<1>1. DOMAIN f = 1..n
  OBVIOUS
<1>2. f \in [1..n -> ToSet(f)]
  <2>1. ASSUME NEW k \in 1..n PROVE f[k] \in ToSet(f)
    BY <1>1 DEF ToSet
  <2>. QED  BY <2>1
<1>3. f \in Seq(ToSet(f))
  BY <1>2, SeqDef
<1>. QED  BY <1>1, <1>3, LenProperties

LEMMA BlockFacts ==
    ASSUME NEW m, IsMemory(m), NEW b \in Blocks
    PROVE  Len(m[b]) \in Nat /\ DOMAIN m[b] = 1..Len(m[b])
           /\ m[b] = [k \in 1..Len(m[b]) |-> m[b][k]]
<1>1. m[b] \in Seq(ToSet(m[b]))
  BY DEF IsMemory
<1>2. Len(m[b]) \in Nat /\ DOMAIN m[b] = 1..Len(m[b])
  BY <1>1, LenProperties
<1>3. m[b] = [k \in DOMAIN m[b] |-> m[b][k]]
  BY <1>1
<1>. QED  BY <1>2, <1>3

\* Write changes the cells it is given, and no length.
Written(a, cells) ==
    /\ IsMemory(mem')
    /\ \A b \in Blocks : Len(mem'[b]) = Len(mem[b]) /\ (b # a[1] => mem'[b] = mem[b])
    /\ \A k \in 1..Len(mem[a[1]]) :
         mem'[a[1]][k] = IF k - a[2] \in DOMAIN cells THEN cells[k - a[2]] ELSE mem[a[1]][k]

LEMMA WriteFacts ==
    ASSUME IsMemory(mem), NEW a, a[1] \in Blocks, NEW cells, Write(a, cells)
    PROVE  Written(a, cells)
<1>. DEFINE n == Len(mem[a[1]])
            new(k) == IF k - a[2] \in DOMAIN cells THEN cells[k - a[2]] ELSE mem[a[1]][k]
            block == [k \in 1..n |-> new(k)]
<1>1. n \in Nat /\ DOMAIN mem[a[1]] = 1..n
  BY BlockFacts
<1>2. DOMAIN mem = Blocks
  BY DEF IsMemory
<1>3. mem' = [mem EXCEPT ![a[1]] = block]
  BY <1>1 DEF Write
<1>4. DOMAIN mem' = Blocks /\ mem'[a[1]] = block /\ \A b \in Blocks : b # a[1] => mem'[b] = mem[b]
  <2>. HIDE DEF block
  <2>. QED  BY <1>2, <1>3
<1>5. block = [k \in 1..n |-> block[k]] /\ \A k \in 1..n : block[k] = new(k)
  OBVIOUS
<1>. HIDE DEF block, new
<1>6. block \in Seq(ToSet(block)) /\ Len(block) = n
  <2>. HIDE DEF n
  <2>. QED  BY <1>1, <1>5, IsSequence
<1>7. IsMemory(mem')
  <2>1. ASSUME NEW b \in Blocks PROVE mem'[b] \in Seq(ToSet(mem'[b]))
    <3>1. CASE b = a[1]
      BY <1>4, <1>6, <3>1
    <3>2. CASE b # a[1]
      BY <1>4, <3>2 DEF IsMemory
    <3>. QED  BY <3>1, <3>2
  <2>. QED  BY <1>4, <2>1 DEF IsMemory
<1>8. \A b \in Blocks : Len(mem'[b]) = Len(mem[b]) /\ (b # a[1] => mem'[b] = mem[b])
  BY <1>4, <1>6
<1>9. \A k \in 1..n : mem'[a[1]][k] = new(k)
  BY <1>4, <1>5
<1>. QED  BY <1>7, <1>8, <1>9 DEF Written, new

-----------------------------------------------------------------------------
(* Types and their references.                                             *)

LEMMA SizesAreNumbers ==
    ASSUME NEW t \in FieldTypes
    PROVE  t.size \in Nat
<1>1. WellFormed(t)
  BY TypesAssumption
<1>2. CASE t.cat = "array"
  <2>1. t.elem \in FieldTypes /\ t.elem.cat # "array"
    BY <1>1, <1>2, TypesAssumption DEF WellFormed
  <2>2. WellFormed(t.elem)
    BY <2>1, TypesAssumption
  <2>3. t.elem.size \in Nat
    BY <2>1, <2>2, TypesAssumption DEF WellFormed
  <2>4. t.count \in Nat /\ t.size = t.count * t.elem.size
    BY <1>1, <1>2 DEF WellFormed
  <2>. QED  BY <2>3, <2>4
<1>. QED  BY <1>1, <1>2, TypesAssumption DEF WellFormed

\* The references of some cells are at numbered cells of them.
Inner(refs, n) == \A p \in refs : p = <<p[1], p[2]>> /\ p[1] \in 0..(n - 1)

LEMMA ReferencesAreInner ==
    ASSUME NEW c \in Classes
    PROVE  Inner(References[c], Sizes[c])
BY LayoutAssumption DEF Inner

LEMMA ScatteredIsInner ==
    ASSUME NEW t \in FieldTypes
    PROVE  Inner(Scattered(t), t.size)
<1>1. CASE t.cat \in {"pointer", "collection"}
  <2>1. t.size = 1
    BY <1>1, TypesAssumption DEF WellFormed
  <2>. QED  BY <1>1, <2>1 DEF Inner, Scattered
<1>2. CASE t.cat = "class"
  <2>1. t.class \in Classes /\ t.size = Sizes[t.class]
    BY <1>2, TypesAssumption DEF WellFormed
  <2>2. Scattered(t) = References[t.class]
    BY <1>2 DEF Scattered
  <2>. QED  BY <2>1, <2>2, ReferencesAreInner
<1>3. CASE t.cat \notin {"pointer", "collection", "class"}
  BY <1>3 DEF Inner, Scattered
<1>. QED  BY <1>1, <1>2, <1>3

\* What lies in a part of some cells lies in the cells.
LEMMA SharesInside ==
    ASSUME NEW refs, NEW n \in Nat, NEW whole, NEW a \in Nat, NEW o \in Nat, NEW k \in Nat,
           NEW part, Inner(refs, n), o + k \in Nat, NEW size \in Nat, o + k <= size,
           Inner(part, k),
           Shares(refs, a, size, whole), Shares(whole, o, k, part)
    PROVE  Shares(refs, a + o, k, part)
<1>1. ASSUME NEW p \in refs, p[1] >= a + o, p[1] < (a + o) + k
      PROVE  <<p[1] - (a + o), p[2]>> \in part
  <2>1. p[1] \in Nat /\ p[1] >= a /\ p[1] < a + size
    BY <1>1 DEF Inner
  <2>. DEFINE q == <<p[1] - a, p[2]>>
  <2>2. q \in whole
    BY <2>1 DEF Shares
  <2>3. q[1] = p[1] - a /\ q[2] = p[2]
    OBVIOUS
  <2>4. q[1] >= o /\ q[1] < o + k
    BY <1>1, <2>1, <2>3
  <2>. HIDE DEF q
  <2>5. <<q[1] - o, q[2]>> \in part
    BY <2>2, <2>4 DEF Shares
  <2>6. q[1] - o = p[1] - (a + o)
    BY <2>1, <2>3
  <2>. QED  BY <2>3, <2>5, <2>6
<1>2. ASSUME NEW p \in part PROVE <<(a + o) + p[1], p[2]>> \in refs
  <2>. DEFINE q == <<o + p[1], p[2]>>
  <2>1. q \in whole /\ q[1] = o + p[1] /\ q[2] = p[2] /\ p[1] \in Nat
    BY DEF Shares, Inner
  <2>. HIDE DEF q
  <2>2. <<a + q[1], q[2]>> \in refs
    BY <2>1 DEF Shares
  <2>3. a + q[1] = (a + o) + p[1]
    BY <2>1
  <2>. QED  BY <2>1, <2>2, <2>3
<1>. QED  BY <1>1, <1>2 DEF Shares

\* The elements of an array lie side by side.
LEMMA Beside ==
    ASSUME NEW i \in Nat, NEW j \in Nat, NEW n \in Nat, i < j
    PROVE  i * n + n <= j * n
<1>1. PICK d \in Nat : j = i + 1 + d
  <2>1. j - (i + 1) \in Nat /\ j = i + 1 + (j - (i + 1))
    OBVIOUS
  <2>. QED  BY <2>1
<1>2. j * n = i * n + n + d * n
  BY <1>1
<1>3. d * n \in Nat /\ i * n \in Nat
  OBVIOUS
<1>. QED  BY <1>2, <1>3

LEMMA ElementType ==
    ASSUME NEW t \in FieldTypes, t.cat = "array"
    PROVE  /\ t.elem \in FieldTypes /\ t.elem.size \in Nat /\ t.count \in Nat
           /\ t.size = t.count * t.elem.size /\ RefsOf(t.elem) = Scattered(t.elem)
<1>1. t.elem \in FieldTypes /\ WellFormed(t)
  BY TypesAssumption
<1>2. t.count \in Nat /\ t.size = t.count * t.elem.size /\ t.elem.cat # "array"
  BY <1>1 DEF WellFormed
<1>. QED  BY <1>1, <1>2, SizesAreNumbers DEF RefsOf

LEMMA RefsOfIsInner ==
    ASSUME NEW t \in FieldTypes
    PROVE  Inner(RefsOf(t), t.size)
<1>1. CASE t.cat # "array"
  BY <1>1, ScatteredIsInner DEF RefsOf
<1>2. CASE t.cat = "array"
  <2>. DEFINE n == t.elem.size
  <2>1. t.elem \in FieldTypes /\ n \in Nat /\ t.count \in Nat /\ t.size = t.count * n
    BY <1>2, ElementType
  <2>2. Inner(Scattered(t.elem), n)
    BY <2>1, ScatteredIsInner
  <2>3. ASSUME NEW p \in RefsOf(t) PROVE p = <<p[1], p[2]>> /\ p[1] \in 0..(t.size - 1)
    <3>1. PICK i \in 0..(t.count - 1), q \in Scattered(t.elem) : p = <<i * n + q[1], q[2]>>
      BY <1>2 DEF RefsOf
    <3>2. q[1] \in 0..(n - 1)
      BY <2>2 DEF Inner
    <3>. HIDE DEF n
    <3>3. i * n + n <= t.count * n
      BY <2>1, Beside
    <3>4. i * n \in Nat /\ t.count * n \in Nat
      BY <2>1
    <3>5. i * n + q[1] \in 0..(t.size - 1)
      BY <2>1, <3>2, <3>3, <3>4
    <3>. QED  BY <3>1, <3>5
  <2>. QED  BY <2>3 DEF Inner
<1>. QED  BY <1>1, <1>2

LEMMA ElementShares ==
    ASSUME NEW t \in FieldTypes, t.cat = "array", NEW i \in 0..(t.count - 1)
    PROVE  Shares(RefsOf(t), i * t.elem.size, t.elem.size, RefsOf(t.elem))
<1>. DEFINE n == t.elem.size
            own == Scattered(t.elem)
<1>1. t.elem \in FieldTypes /\ n \in Nat /\ t.count \in Nat /\ RefsOf(t.elem) = own
  BY ElementType
<1>2. Inner(own, n)
  BY <1>1, ScatteredIsInner
<1>3. RefsOf(t) = {<<j * n + p[1], p[2]>> : j \in 0..(t.count - 1), p \in own}
  BY DEF RefsOf
<1>. HIDE DEF n, own
<1>4. ASSUME NEW p \in RefsOf(t), p[1] >= i * n, p[1] < i * n + n
      PROVE  <<p[1] - i * n, p[2]>> \in own
  <2>1. PICK j \in 0..(t.count - 1), q \in own : p = <<j * n + q[1], q[2]>>
    BY <1>3
  <2>2. q = <<q[1], q[2]>> /\ q[1] \in 0..(n - 1)
    BY <1>2 DEF Inner
  <2>3. i * n \in Nat /\ j * n \in Nat /\ p[1] = j * n + q[1] /\ p[2] = q[2]
    BY <1>1, <2>1
  <2>4. ~(i < j)
    <3>1. i < j => i * n + n <= j * n
      BY <1>1, Beside
    <3>. QED  BY <1>1, <1>4, <2>2, <2>3, <3>1
  <2>5. ~(j < i)
    <3>1. j < i => j * n + n <= i * n
      BY <1>1, Beside
    <3>. QED  BY <1>1, <1>4, <2>2, <2>3, <3>1
  <2>6. j = i
    BY <1>1, <2>4, <2>5
  <2>7. p[1] - i * n = q[1]
    BY <2>2, <2>3, <2>6
  <2>. QED  BY <2>2, <2>3, <2>7
<1>5. ASSUME NEW p \in own PROVE <<i * n + p[1], p[2]>> \in RefsOf(t)
  BY <1>3
<1>6. Shares(RefsOf(t), i * n, n, own)
  BY <1>4, <1>5 DEF Shares
<1>. QED  BY <1>1, <1>6 DEF n

-----------------------------------------------------------------------------
(* One part of a path.                                                     *)

\* An object of class c is at a. In the entity its references are where the class has
\* them; an object elsewhere has none.
ObjectAt(c, a) ==
    /\ c \in Classes /\ a[1] \in live /\ a[2] \in Nat
    /\ a[2] + Sizes[c] <= Len(mem[a[1]])
    /\ IF a[1] = Ent THEN Shares(References[Root], a[2], Sizes[c], References[c])
       ELSE References[c] = {}

\* The same of a value of a type.
Placed(r) ==
    /\ Inside(r)
    /\ IF r.addr[1] = Ent THEN Shares(References[Root], r.addr[2], r.type.size, RefsOf(r.type))
       ELSE RefsOf(r.type) = {}

\* A record that a resolution goes through.
Shaped(r) ==
    r = [addr |-> r.addr, type |-> r.type, depth |-> r.depth, root |-> r.root, index |-> r.index]

Good(r) == Shaped(r) /\ (r = Start \/ Placed(r))

LEMMA RootIsThere ==
    ASSUME HeapOK
    PROVE  ObjectAt(Root, <<Ent, 0>>)
<1>1. Root \in Classes /\ Ent \in Blocks
  BY BoundsAssumption
<1>2. Inner(References[Root], Sizes[Root])
  BY <1>1, ReferencesAreInner
<1>3. Shares(References[Root], 0, Sizes[Root], References[Root])
  <2>1. ASSUME NEW p \in References[Root] PROVE <<p[1] - 0, p[2]>> = p /\ <<0 + p[1], p[2]>> = p
    BY <1>2 DEF Inner
  <2>. QED  BY <2>1 DEF Shares
<1>4. Sizes[Root] \in Nat
  BY <1>1, TypesAssumption
<1>5. 0 + Sizes[Root] <= Len(mem[Ent])
  BY <1>4 DEF HeapOK
<1>. QED  BY <1>1, <1>3, <1>5 DEF HeapOK, ObjectAt

\* A pointer or a collection that a path comes to is one of the entity's.
LEMMA ReferenceAt ==
    ASSUME NEW r, Placed(r), r.type.cat \in {"pointer", "collection"}
    PROVE  r.addr[1] = Ent /\ <<r.addr[2], r.type>> \in References[Root]
<1>1. RefsOf(r.type) = {<<0, r.type>>}
  BY DEF RefsOf, Scattered
<1>2. r.addr[1] = Ent
  BY <1>1 DEF Placed
<1>3. <<r.addr[2] + 0, r.type>> \in References[Root]
  BY <1>1, <1>2 DEF Placed, Shares
<1>4. r.addr[2] + 0 = r.addr[2]
  BY DEF Placed, Inside
<1>. QED  BY <1>2, <1>3, <1>4

\* What it refers to.
LEMMA ReferenceLeads ==
    ASSUME HeapOK, NEW r, Placed(r), r.type.cat \in {"pointer", "collection"}, Cell(r.addr) # Null
    PROVE  /\ r.addr[1] = Ent
           /\ Cell(r.addr) \in live \ {Ent}
           /\ r.type.cat = "pointer" =>
                Sizes[r.type.class] <= Len(mem[Cell(r.addr)]) /\ References[r.type.class] = {}
           /\ r.type.cat = "collection" => RefsOf(r.type.elem) = {}
<1>. DEFINE p == <<r.addr[2], r.type>>
<1>1. p \in References[Root] /\ r.addr[1] = Ent
  BY ReferenceAt
<1>2. Cell(r.addr) = mem[Ent][p[1] + 1] /\ p[2] = r.type
  BY <1>1 DEF Cell
<1>. HIDE DEF p
<1>3. ReferencesLead(mem, live)
  BY DEF HeapOK
<1>4. /\ Cell(r.addr) \in live \ {Ent}
      /\ r.type.cat = "pointer" => Sizes[r.type.class] <= Len(mem[Cell(r.addr)])
  BY <1>1, <1>2, <1>3 DEF ReferencesLead
<1>5. /\ r.type.cat = "pointer" => References[r.type.class] = {}
      /\ r.type.cat = "collection" => RefsOf(r.type.elem) = {}
  BY <1>1, <1>2, BoundsAssumption, LayoutAssumption
<1>. QED  BY <1>1, <1>4, <1>5

\* Where a part of a path starts from: an object of a class.
LEMMA DescendFacts ==
    ASSUME HeapOK, NEW r, Good(r), NEW d \in Descend(r)
    PROVE  /\ Shaped(d) /\ ObjectAt(d.type.class, d.addr)
           /\ Descend(r) = {d}
<1>1. Descend(r) = {d}
  BY DEF Descend
<1>2. CASE r = Start
  <2>1. r.type.cat = "class" /\ r.type.class = Root /\ r.addr = <<Ent, 0>>
    BY <1>2 DEF Start, Embedded
  <2>2. d = r
    BY <2>1 DEF Descend
  <2>. QED  BY <1>1, <2>1, <2>2, RootIsThere DEF Good
<1>3. CASE Placed(r) /\ r.type.cat = "class"
  <2>1. d = r
    BY <1>3 DEF Descend
  <2>2. r.type \in FieldTypes
    BY <1>3 DEF Placed, Inside
  <2>3. r.type.class \in Classes /\ r.type.size = Sizes[r.type.class]
    BY <1>3, <2>2, TypesAssumption DEF WellFormed
  <2>4. RefsOf(r.type) = References[r.type.class]
    BY <1>3 DEF RefsOf, Scattered
  <2>5. ObjectAt(r.type.class, r.addr)
    BY <1>3, <2>3, <2>4 DEF Placed, Inside, ObjectAt
  <2>. QED  BY <1>1, <2>1, <2>5 DEF Good
<1>4. CASE Placed(r) /\ r.type.cat # "class"
  <2>1. r.type.cat = "pointer" /\ Cell(r.addr) # Null /\ d = [r EXCEPT !.addr = <<Cell(r.addr), 0>>]
    BY <1>4 DEF Descend
  <2>. DEFINE b == Cell(r.addr)
  <2>2. /\ b \in live \ {Ent} /\ Sizes[r.type.class] <= Len(mem[b])
        /\ References[r.type.class] = {}
    BY <1>4, <2>1, ReferenceLeads
  <2>3. r.type \in FieldTypes
    BY <1>4 DEF Placed, Inside
  <2>4. r.type.class \in Classes
    BY <2>1, <2>3, TypesAssumption DEF WellFormed
  <2>5. Sizes[r.type.class] \in Nat
    BY <2>4, TypesAssumption
  <2>. HIDE DEF b
  <2>6. Shaped(d) /\ d.type = r.type /\ d.addr = <<b, 0>>
    BY <2>1 DEF Good, Shaped, b
  <2>7. d.addr[1] = b /\ d.addr[2] = 0
    BY <2>6
  <2>8. ObjectAt(r.type.class, d.addr)
    BY <2>2, <2>4, <2>5, <2>7 DEF ObjectAt
  <2>. QED  BY <1>1, <2>6, <2>8
<1>. QED  BY <1>2, <1>3, <1>4 DEF Good

\* A field of the object.
LEMMA AtFieldFacts ==
    ASSUME HeapOK, NEW d, Shaped(d), ObjectAt(d.type.class, d.addr), NEW name \in Names,
           NEW x \in AtField(d, name)
    PROVE  Shaped(x) /\ Placed(x) /\ AtField(d, name) = {x} /\ x.addr[1] = d.addr[1]
<1>. DEFINE c == d.type.class
            moved(f) == [d EXCEPT !.addr = <<@[1], @[2] + f.offset>>, !.type = f.type, !.depth = @ + 1,
                                  !.root = IF d.depth = 0 THEN f.offset ELSE @]
<1>1. AtField(d, name) = {moved(f) : f \in FindField[name][c]}
  BY DEF AtField
<1>2. PICK f \in FindField[name][c] : x = moved(f)
  BY <1>1
<1>3. c \in Classes
  BY DEF ObjectAt
<1>4. /\ FindField[name][c] = {f} /\ f.type \in FieldTypes /\ f.offset \in Nat
      /\ f.offset + f.type.size <= Sizes[c]
      /\ Shares(References[c], f.offset, f.type.size, RefsOf(f.type))
  BY <1>2, <1>3, LayoutAssumption
<1>5. AtField(d, name) = {x}
  BY <1>1, <1>2, <1>4
<1>6. Shaped(x) /\ x.addr = <<d.addr[1], d.addr[2] + f.offset>> /\ x.type = f.type
  BY <1>2 DEF Shaped
<1>7. f.type.size \in Nat /\ Sizes[c] \in Nat
  BY <1>3, <1>4, SizesAreNumbers, TypesAssumption
<1>. HIDE DEF c, moved
<1>8. x.addr[1] = d.addr[1] /\ x.addr[2] = d.addr[2] + f.offset
  BY <1>6
<1>9. d.addr[1] \in live /\ d.addr[2] \in Nat /\ d.addr[2] + Sizes[c] <= Len(mem[d.addr[1]])
  BY DEF ObjectAt, c
<1>10. Len(mem[d.addr[1]]) \in Nat
  BY <1>9, BlockFacts DEF HeapOK
<1>11. Inside(x)
  BY <1>4, <1>6, <1>7, <1>8, <1>9, <1>10 DEF Inside
<1>12. CASE d.addr[1] = Ent
  <2>1. Shares(References[Root], d.addr[2], Sizes[c], References[c])
    BY <1>12 DEF ObjectAt, c
  <2>2. Inner(References[Root], Sizes[Root]) /\ Sizes[Root] \in Nat /\ Inner(RefsOf(f.type), f.type.size)
    BY <1>4, ReferencesAreInner, RefsOfIsInner, BoundsAssumption, TypesAssumption
  <2>3. f.offset + f.type.size \in Nat
    BY <1>4, <1>7
  <2>4. Shares(References[Root], d.addr[2] + f.offset, f.type.size, RefsOf(f.type))
    BY <1>4, <1>7, <1>9, <2>1, <2>2, <2>3, SharesInside
  <2>. QED  BY <1>5, <1>6, <1>8, <1>11, <1>12, <2>4 DEF Placed
<1>13. CASE d.addr[1] # Ent
  <2>1. References[c] = {}
    BY <1>13 DEF ObjectAt, c
  <2>2. RefsOf(f.type) = {}
    BY <1>4, <2>1 DEF Shares
  <2>. QED  BY <1>5, <1>6, <1>8, <1>11, <1>13, <2>2 DEF Placed
<1>. QED  BY <1>12, <1>13

\* An element of the field, or all of it.
LEMMA ElementFacts ==
    ASSUME HeapOK, NEW r, Shaped(r), Placed(r), NEW i \in Nat \cup {-1}, NEW x \in Element(r, i)
    PROVE  /\ Shaped(x) /\ Placed(x) /\ Element(r, i) = {x}
           /\ x.addr[1] # r.addr[1] => r.type.cat = "collection" /\ r.addr[1] = Ent /\ i # -1
           /\ x.addr[1] = Ent => r.type.cat # "collection" \/ i = -1
<1>. DEFINE t == r.type
            n == r.type.elem.size
            element(a) == [r EXCEPT !.addr = a, !.type = @.elem, !.index = IF r.depth = 1 THEN i ELSE @]
<1>1. Element(r, i) = {x}
  BY DEF Element
<1>2. t \in FieldTypes /\ r.addr[1] \in live /\ r.addr[2] \in Nat
  BY DEF Placed, Inside
<1>3. Len(mem[r.addr[1]]) \in Nat
  BY <1>2, BlockFacts DEF HeapOK
<1>4. CASE i = -1
  <2>1. x = r
    BY <1>4 DEF Element
  <2>. QED  BY <1>1, <1>4, <2>1
<1>5. CASE i # -1 /\ t.cat = "array"
  <2>1. i < t.count /\ x = element(<<r.addr[1], r.addr[2] + i * n>>)
    BY <1>5 DEF Element
  <2>2. Shaped(x) /\ x.type = t.elem /\ x.addr = <<r.addr[1], r.addr[2] + i * n>>
    BY <2>1 DEF Shaped
  <2>3. t.elem \in FieldTypes /\ n \in Nat /\ t.count \in Nat /\ t.size = t.count * n
    BY <1>2, <1>5, ElementType
  <2>4. i \in 0..(t.count - 1)
    BY <1>5, <2>1, <2>3
  <2>5. Shares(RefsOf(t), i * n, n, RefsOf(t.elem))
    BY <1>2, <1>5, <2>4, ElementShares
  <2>6. x.addr[1] = r.addr[1] /\ x.addr[2] = r.addr[2] + i * n
    BY <2>2
  <2>7. r.addr[2] + t.size <= Len(mem[r.addr[1]])
    BY DEF Placed, Inside
  <2>8. Inner(RefsOf(t.elem), n)
    BY <2>3, RefsOfIsInner
  <2>9. (r.addr[1] = Ent /\ Shares(References[Root], r.addr[2], t.size, RefsOf(t)))
        \/ (r.addr[1] # Ent /\ RefsOf(t) = {})
    BY DEF Placed
  <2>10. x.type.size = n
    BY <2>2
  <2>. HIDE DEF t, n, element
  <2>11. i * n + n <= t.count * n /\ i * n \in Nat /\ t.size \in Nat
    BY <2>3, <2>4, Beside
  <2>12. Inside(x)
    <3>1. i * n + n <= t.size
      BY <2>3, <2>11
    <3>2. (r.addr[2] + i * n) + n <= Len(mem[r.addr[1]]) /\ r.addr[2] + i * n \in Nat
      <4>. DEFINE j == i * n
                  a == r.addr[2]
                  size == Len(mem[r.addr[1]])
      <4>1. j \in Nat /\ j + n <= t.size /\ a \in Nat /\ size \in Nat /\ a + t.size <= size
        BY <1>2, <1>3, <2>7, <2>11, <3>1
      <4>. HIDE DEF j, a, size
      <4>2. (a + j) + n <= size /\ a + j \in Nat
        BY <2>3, <2>11, <4>1
      <4>. QED  BY <4>2 DEF j, a, size
    <3>. QED  BY <1>2, <2>2, <2>3, <2>6, <2>10, <3>2 DEF Inside
  <2>13. CASE r.addr[1] = Ent
    <3>1. Inner(References[Root], Sizes[Root]) /\ Sizes[Root] \in Nat
      BY ReferencesAreInner, BoundsAssumption, TypesAssumption
    <3>2. i * n + n \in Nat /\ i * n + n <= t.size
      BY <2>3, <2>11
    <3>3. Shares(References[Root], r.addr[2] + i * n, n, RefsOf(t.elem))
      BY <1>2, <2>3, <2>5, <2>8, <2>9, <2>11, <2>13, <3>1, <3>2, SharesInside
    <3>4. Placed(x)
      BY <2>2, <2>6, <2>10, <2>12, <2>13, <3>3 DEF Placed
    <3>. QED  BY <1>1, <1>5, <2>2, <2>6, <3>4 DEF t
  <2>14. CASE r.addr[1] # Ent
    <3>1. RefsOf(t.elem) = {}
      BY <2>5, <2>9, <2>14 DEF Shares
    <3>2. Placed(x)
      BY <2>2, <2>6, <2>12, <2>14, <3>1 DEF Placed
    <3>. QED  BY <1>1, <1>5, <2>2, <2>6, <3>2 DEF t
  <2>. QED  BY <2>13, <2>14
<1>6. CASE i # -1 /\ t.cat # "array"
  <2>. DEFINE b == Cell(r.addr)
  <2>1. t.cat = "collection" /\ i < Count(r.addr, t) /\ x = element(<<b, i * n>>)
    BY <1>6 DEF Element
  <2>2. b # Null /\ i < Len(mem[b]) \div n
    BY <1>6, <2>1 DEF Count
  <2>3. /\ r.addr[1] = Ent /\ b \in live \ {Ent} /\ RefsOf(t.elem) = {}
    BY <2>1, <2>2, ReferenceLeads
  <2>4. Shaped(x) /\ x.type = t.elem /\ x.addr = <<b, i * n>>
    BY <2>1 DEF Shaped
  <2>5. x.addr[1] = b /\ x.addr[2] = i * n
    BY <2>4
  <2>6. t.elem \in FieldTypes /\ n \in Nat \ {0}
    BY <1>2, <2>1, TypesAssumption DEF WellFormed
  <2>. HIDE DEF b
  <2>7. Len(mem[b]) \in Nat
    BY <2>3, BlockFacts DEF HeapOK
  <2>8. x.type.size = n
    BY <2>4
  <2>. HIDE DEF t, n, element
  <2>. DEFINE k == Len(mem[b]) \div n
  <2>9. k \in Nat /\ n * k <= Len(mem[b])
    <3>. DEFINE m == Len(mem[b])
    <3>1. m \in Nat
      BY <2>7
    <3>. HIDE DEF m
    <3>2. m \div n \in Int /\ m % n \in 0..(n - 1) /\ m = (n * (m \div n)) + (m % n)
      BY <2>6, <3>1, DivMod
    <3>3. m \div n \in Nat /\ n * (m \div n) <= m
      BY <2>6, <3>1, <3>2
    <3>. QED  BY <3>3 DEF m
  <2>10. i * n + n <= k * n /\ k * n = n * k /\ i * n \in Nat
    <3>. HIDE DEF k
    <3>1. i \in Nat /\ i < k
      BY <1>6, <2>2 DEF k
    <3>. QED  BY <2>6, <2>9, <3>1, Beside
  <2>. HIDE DEF k
  <2>11. n * k \in Nat
    BY <2>6, <2>9
  <2>12. Inside(x)
    BY <2>3, <2>4, <2>5, <2>6, <2>7, <2>8, <2>9, <2>10, <2>11 DEF Inside
  <2>13. Placed(x)
    BY <2>3, <2>4, <2>5, <2>12 DEF Placed
  <2>. QED  BY <1>1, <1>6, <2>1, <2>3, <2>4, <2>5, <2>13 DEF t
<1>. QED  BY <1>4, <1>5, <1>6

\* Where a resolution stands is one place at most.
GoodSet(R) == (\A r \in R : Good(r)) /\ \A r, s \in R : r = s

PartSet == [name : Names, index : Nat \cup {-1}]

\* The steps of one part.
Steps(r, d, f, y, part) ==
    d \in Descend(r) /\ f \in AtField(d, part.name) /\ y \in Element(f, part.index)

LEMMA FollowSteps ==
    ASSUME NEW R, NEW part
    PROVE  \A y : y \in Follow(R, part) <=> \E r \in R : \E d, f : Steps(r, d, f, y, part)
<1>1. ASSUME NEW y, y \in Follow(R, part) PROVE \E r \in R : \E d, f : Steps(r, d, f, y, part)
  BY <1>1 DEF Follow, Steps
<1>2. ASSUME NEW y, NEW r \in R, NEW d, NEW f, Steps(r, d, f, y, part) PROVE y \in Follow(R, part)
  BY <1>2 DEF Follow, Steps
<1>. QED  BY <1>1, <1>2

LEMMA StepsFacts ==
    ASSUME HeapOK, NEW r, Good(r), NEW part \in PartSet, NEW d, NEW f, NEW y,
           Steps(r, d, f, y, part)
    PROVE  /\ Shaped(d) /\ ObjectAt(d.type.class, d.addr) /\ Descend(r) = {d}
           /\ Shaped(f) /\ Placed(f) /\ AtField(d, part.name) = {f}
           /\ Shaped(y) /\ Placed(y) /\ Element(f, part.index) = {y}
           /\ f.addr[1] = d.addr[1]
<1>0. part.name \in Names /\ part.index \in Nat \cup {-1}
  BY DEF PartSet
<1>1. Shaped(d) /\ ObjectAt(d.type.class, d.addr) /\ Descend(r) = {d}
  BY DescendFacts DEF Steps
<1>2. Shaped(f) /\ Placed(f) /\ AtField(d, part.name) = {f} /\ f.addr[1] = d.addr[1]
  BY <1>0, <1>1, AtFieldFacts DEF Steps
<1>3. Shaped(y) /\ Placed(y) /\ Element(f, part.index) = {y}
  BY <1>0, <1>2, ElementFacts DEF Steps
<1>. QED  BY <1>1, <1>2, <1>3

LEMMA FollowFacts ==
    ASSUME HeapOK, NEW R, GoodSet(R), NEW part \in PartSet
    PROVE  GoodSet(Follow(R, part)) /\ \A y \in Follow(R, part) : Placed(y)
<1>1. ASSUME NEW y \in Follow(R, part) PROVE Shaped(y) /\ Placed(y)
  <2>1. PICK r, d, f : r \in R /\ Steps(r, d, f, y, part)
    BY FollowSteps
  <2>. QED  BY <2>1, StepsFacts DEF GoodSet
<1>2. ASSUME NEW y \in Follow(R, part), NEW z \in Follow(R, part) PROVE y = z
  <2>1. PICK r, d, f : r \in R /\ Steps(r, d, f, y, part)
    BY FollowSteps
  <2>2. PICK s, e, g : s \in R /\ Steps(s, e, g, z, part)
    BY FollowSteps
  <2>3. r = s /\ Good(r) /\ Good(s)
    BY <2>1, <2>2 DEF GoodSet
  <2>4. Descend(r) = {d} /\ AtField(d, part.name) = {f} /\ Element(f, part.index) = {y}
    BY <2>1, <2>3, StepsFacts
  <2>5. Descend(s) = {e} /\ AtField(e, part.name) = {g} /\ Element(g, part.index) = {z}
    BY <2>2, <2>3, StepsFacts
  <2>. QED  BY <2>3, <2>4, <2>5
<1>. QED  BY <1>1, <1>2 DEF GoodSet, Good

\* A path that is in the entity has followed no reference, so that it does not matter
\* what memory holds.
LEMMA InEntityWhatever ==
    ASSUME HeapOK, NEW R, GoodSet(R), NEW part \in PartSet,
           NEW y \in Follow(R, part), y.addr[1] = Ent
    PROVE  \E r \in R : r.addr[1] = Ent /\ \A S : r \in S => y \in Follow(S, part)'
<1>1. PICK r, d, f : r \in R /\ Steps(r, d, f, y, part)
  BY FollowSteps
<1>2. Good(r)
  BY <1>1 DEF GoodSet
<1>3. /\ Descend(r) = {d} /\ Shaped(f) /\ Placed(f) /\ AtField(d, part.name) = {f}
      /\ Element(f, part.index) = {y} /\ f.addr[1] = d.addr[1]
  BY <1>1, <1>2, StepsFacts
<1>4. part.index \in Nat \cup {-1}
  BY DEF PartSet
<1>5. f.type.cat # "collection" \/ part.index = -1
  BY <1>1, <1>3, <1>4, ElementFacts DEF Steps
<1>6. f.addr[1] = Ent
  BY <1>1, <1>3, <1>4, <1>5, ElementFacts DEF Steps
<1>7. r.type.cat = "class" /\ d = r /\ r.addr[1] = Ent
  <2>1. CASE r.type.cat = "class"
    <3>1. d = r
      BY <2>1, <1>1 DEF Steps, Descend
    <3>. QED  BY <2>1, <3>1, <1>3, <1>6
  <2>2. CASE r.type.cat # "class"
    <3>1. r.type.cat = "pointer" /\ Cell(r.addr) # Null /\ d = [r EXCEPT !.addr = <<Cell(r.addr), 0>>]
      BY <2>2, <1>1 DEF Steps, Descend
    <3>2. r # Start
      BY <2>2 DEF Start, Embedded
    <3>3. Cell(r.addr) # Ent
      BY <1>2, <3>1, <3>2, ReferenceLeads DEF Good
    <3>4. d.addr = <<Cell(r.addr), 0>>
      BY <3>1, <1>2 DEF Good, Shaped
    <3>. QED  BY <3>3, <3>4, <1>3, <1>6
  <2>. QED  BY <2>1, <2>2
<1>8. r \in Descend(r)'
  BY <1>7 DEF Descend
<1>9. f \in AtField(r, part.name)'
  <2>1. f \in AtField(r, part.name)
    BY <1>3, <1>7
  <2>. QED  BY <2>1 DEF AtField
<1>10. y \in Element(f, part.index)'
  BY <1>1, <1>5 DEF Steps, Element
<1>11. ASSUME NEW S, r \in S PROVE y \in Follow(S, part)'
  BY <1>8, <1>9, <1>10, <1>11 DEF Follow
<1>. QED  BY <1>1, <1>7, <1>11

\* What a path depends on: the references of the entity, and how long blocks are.
SameReferences ==
    /\ \A p \in References[Root] : mem'[Ent][p[1] + 1] = mem[Ent][p[1] + 1]
    /\ \A b \in Blocks : Len(mem'[b]) = Len(mem[b])

LEMMA SameCell ==
    ASSUME HeapOK, SameReferences, NEW r, Placed(r), r.type.cat \in {"pointer", "collection"}
    PROVE  /\ Cell(r.addr)' = Cell(r.addr)
           /\ r.type.cat = "collection" => Count(r.addr, r.type)' = Count(r.addr, r.type)
<1>1. r.addr[1] = Ent /\ <<r.addr[2], r.type>> \in References[Root]
  BY ReferenceAt
<1>2. Cell(r.addr)' = Cell(r.addr)
  BY <1>1 DEF Cell, SameReferences
<1>3. Cell(r.addr) # Null => Cell(r.addr) \in Blocks
  BY ReferenceLeads DEF HeapOK
<1>4. Cell(r.addr) # Null => Len(mem'[Cell(r.addr)]) = Len(mem[Cell(r.addr)])
  BY <1>3 DEF SameReferences
<1>5. Count(r.addr, r.type)' = Count(r.addr, r.type)
  BY <1>2, <1>4 DEF Count
<1>. QED  BY <1>2, <1>5

LEMMA SameSteps ==
    ASSUME HeapOK, SameReferences, NEW r, Good(r), NEW part \in PartSet, NEW d, NEW f, NEW y
    PROVE  Steps(r, d, f, y, part)' <=> Steps(r, d, f, y, part)
<1>1. Descend(r)' = Descend(r)
  <2>1. r.type.cat = "pointer" => r # Start
    BY DEF Start, Embedded
  <2>2. r.type.cat = "pointer" => Cell(r.addr)' = Cell(r.addr)
    BY <2>1, SameCell DEF Good
  <2>. QED  BY <2>2 DEF Descend
<1>2. AtField(d, part.name)' = AtField(d, part.name)
  BY DEF AtField
<1>3. ASSUME d \in Descend(r), f \in AtField(d, part.name)
      PROVE  Element(f, part.index)' = Element(f, part.index)
  <2>1. Placed(f)
    BY <1>3, DescendFacts, AtFieldFacts DEF PartSet
  <2>2. f.type.cat = "collection" =>
          Cell(f.addr)' = Cell(f.addr) /\ Count(f.addr, f.type)' = Count(f.addr, f.type)
    BY <2>1, SameCell
  <2>. QED  BY <2>2 DEF Element
<1>. QED  BY <1>1, <1>2, <1>3 DEF Steps

LEMMA SameFollow ==
    ASSUME HeapOK, SameReferences, NEW R, GoodSet(R), NEW part \in PartSet
    PROVE  Follow(R, part)' = Follow(R, part)
<1>1. \A r \in R : Good(r)
  BY DEF GoodSet
<1>2. ASSUME NEW y PROVE y \in Follow(R, part)' <=> \E r \in R : \E d, f : Steps(r, d, f, y, part)'
  BY DEF Follow, Steps
<1>3. ASSUME NEW y PROVE y \in Follow(R, part) <=> \E r \in R : \E d, f : Steps(r, d, f, y, part)
  BY DEF Follow, Steps
<1>4. ASSUME NEW y PROVE y \in Follow(R, part)' <=> y \in Follow(R, part)
  BY <1>1, <1>2, <1>3, SameSteps
<1>. QED  BY <1>4

-----------------------------------------------------------------------------
(* Whole paths, by induction over their parts.                             *)

\* Induction up to a bound, over a set.
LEMMA UpTo ==
    ASSUME NEW n \in Nat, NEW T, 0 \in T, \A k \in 0..(n - 1) : k \in T => k + 1 \in T
    PROVE  0..n \subseteq T
<1>1. SUFFICES ASSUME (0..n) \ T # {} PROVE FALSE
  OBVIOUS
<1>2. (0..n) \ T \in SUBSET Nat
  OBVIOUS
<1>3. PICK k \in (0..n) \ T : \A m \in (0..n) \ T : k <= m
  BY <1>1, <1>2, LeastNumber
<1>4. k # 0 /\ k - 1 \in 0..(n - 1) /\ k - 1 \in 0..n
  OBVIOUS
<1>5. k - 1 \in T
  BY <1>3, <1>4
<1>6. (k - 1) + 1 \in T
  BY <1>4, <1>5
<1>. QED  BY <1>3, <1>6

\* The walk of Resolve, from one part to the next.
WalkOf(f, parts) ==
    f[0] = {Start} /\ \A n \in 1..Len(parts) : f[n] = Follow(f[n - 1], parts[n])

WalkBy(f, parts) ==
    f = [n \in 0..Len(parts) |-> IF n = 0 THEN {Start} ELSE Follow(f[n - 1], parts[n])]

LEMMA WalkExists ==
    ASSUME NEW parts, Len(parts) \in Nat
    PROVE  \E f : WalkBy(f, parts)
<1>. DEFINE N == Len(parts)
            Step(f, n) == Follow(f[n - 1], parts[n])
            Starts(f, n) == f[0] = {Start} /\ \A m \in 1..n : f[m] = Step(f, m)
            T == {n \in 0..N : \E f : Starts(f, n)}
<1>1. 0 \in T
  <2>1. Starts([n \in 0..N |-> {Start}], 0)
    OBVIOUS
  <2>. HIDE DEF Starts
  <2>. QED  BY <2>1
<1>2. ASSUME NEW k \in 0..(N - 1), k \in T PROVE k + 1 \in T
  <2>1. PICK f : Starts(f, k)
    BY <1>2
  <2>. DEFINE s == Step(f, k + 1)
              g == [n \in 0..N |-> IF n = k + 1 THEN s ELSE f[n]]
  <2>. HIDE DEF s
  <2>2. \A n \in 0..N : g[n] = IF n = k + 1 THEN s ELSE f[n]
    OBVIOUS
  <2>. HIDE DEF g
  <2>3. g[0] = {Start}
    BY <2>1, <2>2
  <2>4. ASSUME NEW m \in 1..(k + 1) PROVE g[m] = Step(g, m)
    <3>1. m - 1 \in 0..N /\ m - 1 # k + 1 /\ m \in 0..N
      OBVIOUS
    <3>2. g[m - 1] = f[m - 1]
      BY <2>2, <3>1
    <3>3. CASE m = k + 1
      <4>1. g[m] = Step(f, m)
        BY <2>2, <3>1, <3>3 DEF s
      <4>. QED  BY <3>2, <4>1
    <3>4. CASE m # k + 1
      <4>1. m \in 1..k
        BY <3>4
      <4>2. g[m] = f[m] /\ f[m] = Step(f, m)
        BY <2>1, <2>2, <3>1, <3>4, <4>1
      <4>. QED  BY <3>2, <4>2
    <3>. QED  BY <3>3, <3>4
  <2>5. Starts(g, k + 1)
    BY <2>3, <2>4
  <2>6. k + 1 \in 0..N
    OBVIOUS
  <2>. HIDE DEF Starts
  <2>. QED  BY <2>5, <2>6
<1>3. N \in T
  <2>. HIDE DEF T
  <2>1. 0..N \subseteq T
    BY <1>1, <1>2, UpTo
  <2>. QED  BY <2>1
<1>4. PICK f : Starts(f, N)
  BY <1>3
<1>. DEFINE h == [n \in 0..N |-> f[n]]
<1>5. \A n \in 0..N : h[n] = f[n]
  OBVIOUS
<1>6. h = [n \in 0..N |-> h[n]]
  OBVIOUS
<1>. HIDE DEF h
<1>7. ASSUME NEW n \in 0..N PROVE h[n] = IF n = 0 THEN {Start} ELSE Follow(h[n - 1], parts[n])
  <2>1. CASE n = 0
    BY <1>4, <1>5, <2>1
  <2>2. CASE n # 0
    <3>1. n \in 1..N /\ n - 1 \in 0..N
      BY <2>2
    <3>2. h[n - 1] = f[n - 1] /\ h[n] = f[n]
      BY <1>5, <3>1
    <3>3. f[n] = Follow(f[n - 1], parts[n])
      BY <1>4, <3>1
    <3>. QED  BY <2>2, <3>2, <3>3
  <2>. QED  BY <2>1, <2>2
<1>8. h = [n \in 0..N |-> IF n = 0 THEN {Start} ELSE Follow(h[n - 1], parts[n])]
  BY <1>6, <1>7
<1>. QED  BY <1>8 DEF WalkBy

\* An index argument and another index in the path contradict each other.
Contradicts(q) == q[2] >= 0 /\ Index(q) >= 0 /\ q[2] # Index(q)

Found(f, q) == IF Contradicts(q) THEN {} ELSE f[Len(Parts(q))]

Path(a) == Len(a) \in Nat \ {0} /\ DOMAIN a = 1..Len(a) /\ \A n \in 1..Len(a) : a[n] \in PartSet

LEMMA PartsFacts ==
    ASSUME NEW q \in Requests
    PROVE  Path(Parts(q))
<1>. DEFINE s == q[1]
            n == Len(s)
<1>1. s \in Seq(ToSet(s)) /\ s # <<>> /\ q[2] \in Nat \cup {-1}
  BY RequestsAssumption
<1>2. ToSet(s) \subseteq PartSet
  <2>1. ASSUME NEW p \in ToSet(s) PROVE p \in PartSet
    <3>1. p.name \in Names /\ p.index \in Nat \cup {-1} /\ p = Part(p.name, p.index)
      BY RequestsAssumption
    <3>. QED  BY <3>1 DEF Part, PartSet
  <2>. QED  BY <2>1
<1>3. s \in Seq(PartSet)
  BY <1>1, <1>2
<1>4. n \in Nat \ {0} /\ DOMAIN s = 1..n /\ \A k \in 1..n : s[k] \in PartSet
  BY <1>1, <1>3, LenProperties, ElementOfSeq, EmptySeq
<1>5. CASE q[2] = -1
  <2>1. Parts(q) = s
    BY <1>5 DEF Parts
  <2>. QED  BY <1>4, <2>1 DEF Path
<1>6. CASE q[2] # -1
  <2>. DEFINE a == SubSeq(s, 1, n - 1)
              e == Part(s[n].name, q[2])
  <2>1. Parts(q) = a \o <<e>>
    BY <1>6 DEF Parts, Front, Last
  <2>2. e \in PartSet
    <3>1. s[n] \in PartSet
      BY <1>4
    <3>2. s[n].name \in Names /\ q[2] \in Nat \cup {-1}
      BY <1>1, <3>1 DEF PartSet
    <3>. QED  BY <3>2 DEF Part, PartSet
  <2>3. a \in Seq(PartSet)
    <3>1. \A k \in 1..(n - 1) : s[k] \in PartSet
      BY <1>4
    <3>2. n - 1 \in Int /\ 1 \in Int
      BY <1>4
    <3>. QED  BY <3>1, <3>2, SubSeqProperties
  <2>. HIDE DEF a, e
  <2>4. <<e>> \in Seq(PartSet) /\ Len(<<e>>) = 1
    BY <2>2
  <2>. DEFINE t == a \o <<e>>
  <2>5. t \in Seq(PartSet) /\ Len(t) = Len(a) + Len(<<e>>)
    BY <2>3, <2>4, ConcatProperties
  <2>. HIDE DEF t
  <2>6. Len(t) \in Nat \ {0} /\ DOMAIN t = 1..Len(t) /\ \A k \in 1..Len(t) : t[k] \in PartSet
    BY <2>3, <2>4, <2>5, LenProperties, ElementOfSeq
  <2>. QED  BY <2>1, <2>6 DEF t, Path
<1>. QED  BY <1>5, <1>6

LEMMA ResolveWalk ==
    \A q \in Requests : \E f : WalkOf(f, Parts(q)) /\ Resolve(q) = Found(f, q)
<1>1. SUFFICES ASSUME NEW q \in Requests
               PROVE  \E f : WalkOf(f, Parts(q)) /\ Resolve(q) = Found(f, q)
  OBVIOUS
<1>. DEFINE parts == Parts(q)
            N == Len(parts)
            walk == CHOOSE f : WalkBy(f, parts)
<1>2. N \in Nat \ {0}
  BY PartsFacts DEF Path
<1>3. WalkBy(walk, parts)
  <2>1. \E f : WalkBy(f, parts)
    BY <1>2, WalkExists
  <2>. QED  BY <2>1
<1>4. Resolve(q) = Found(walk, q)
  BY DEF Resolve, WalkBy, Found, Contradicts
<1>. HIDE DEF walk
<1>5. walk[0] = {Start}
  <2>1. 0 \in 0..N
    BY <1>2
  <2>. QED  BY <1>3, <2>1 DEF WalkBy
<1>6. ASSUME NEW n \in 1..N PROVE walk[n] = Follow(walk[n - 1], parts[n])
  <2>1. n \in 0..N /\ n # 0
    BY <1>2
  <2>. HIDE DEF parts
  <2>. QED  BY <1>3, <2>1 DEF WalkBy
<1>7. WalkOf(walk, parts)
  BY <1>5, <1>6 DEF WalkOf
<1>. QED  BY <1>4, <1>7

LEMMA ResolveWalkNext ==
    \A q \in Requests : \E f : WalkOf(f, Parts(q))' /\ Resolve(q)' = Found(f, q)
<1>1. (\A q \in Requests : \E f : WalkOf(f, Parts(q)) /\ Resolve(q) = Found(f, q))'
  BY ResolveWalk, PTL
<1>. QED  BY <1>1

LEMMA WalkIsGood ==
    ASSUME HeapOK, NEW parts, Path(parts), NEW f, WalkOf(f, parts)
    PROVE  \A n \in 0..Len(parts) :
             GoodSet(f[n]) /\ (n # 0 => \A r \in f[n] : Placed(r))
<1>. DEFINE N == Len(parts)
            Holds(n) == GoodSet(f[n]) /\ (n # 0 => \A r \in f[n] : Placed(r))
            T == {n \in 0..N : Holds(n)}
<1>1. N \in Nat \ {0} /\ \A n \in 1..N : parts[n] \in PartSet
  BY DEF Path
<1>2. f[0] = {Start} /\ \A n \in 1..N : f[n] = Follow(f[n - 1], parts[n])
  BY DEF WalkOf
<1>3. 0 \in T
  <2>1. Shaped(Start)
    BY DEF Start, Shaped
  <2>2. GoodSet(f[0])
    BY <1>2, <2>1 DEF GoodSet, Good
  <2>. QED  BY <1>1, <2>2
<1>4. ASSUME NEW k \in 0..(N - 1), k \in T PROVE k + 1 \in T
  <2>1. k + 1 \in 1..N /\ (k + 1) - 1 = k /\ k + 1 \in 0..N
    BY <1>1
  <2>2. f[k + 1] = Follow(f[k], parts[k + 1]) /\ parts[k + 1] \in PartSet /\ GoodSet(f[k])
    BY <1>1, <1>2, <1>4, <2>1
  <2>3. Holds(k + 1)
    BY <2>2, FollowFacts
  <2>. HIDE DEF Holds
  <2>. QED  BY <2>1, <2>3
<1>5. 0..N \subseteq T
  <2>. HIDE DEF T
  <2>. QED  BY <1>1, <1>3, <1>4, UpTo
<1>. QED  BY <1>5

\* What a path leads to: one place at most, inside a block.
LEMMA ResolveFacts ==
    HeapOK => \A q \in Requests : \A r \in Resolve(q) :
                 Shaped(r) /\ Placed(r) /\ Resolve(q) = {r}
<1>1. SUFFICES ASSUME HeapOK, NEW q \in Requests, NEW r \in Resolve(q)
               PROVE  Shaped(r) /\ Placed(r) /\ Resolve(q) = {r}
  OBVIOUS
<1>2. PICK f : WalkOf(f, Parts(q)) /\ Resolve(q) = Found(f, q)
  BY ResolveWalk
<1>. DEFINE N == Len(Parts(q))
<1>3. N \in 0..N /\ N # 0
  BY PartsFacts DEF Path
<1>4. Resolve(q) = f[N]
  BY <1>2 DEF Found
<1>5. GoodSet(f[N]) /\ \A x \in f[N] : Placed(x)
  BY <1>1, <1>2, <1>3, PartsFacts, WalkIsGood
<1>. QED  BY <1>4, <1>5 DEF GoodSet, Good

LEMMA ResolveFactsNext ==
    HeapOK' => \A q \in Requests : \A r \in Resolve(q)' : Resolve(q)' = {r}
<1>1. (HeapOK => \A q \in Requests : \A r \in Resolve(q) :
                    Shaped(r) /\ Placed(r) /\ Resolve(q) = {r})'
  BY ResolveFacts, PTL
<1>. QED  BY <1>1

\* A step that leaves the references of the entity alone changes no resolution.
LEMMA SameResolve ==
    ASSUME HeapOK, SameReferences, NEW q \in Requests
    PROVE  Resolve(q)' = Resolve(q)
<1>1. PICK f : WalkOf(f, Parts(q)) /\ Resolve(q) = Found(f, q)
  BY ResolveWalk
<1>2. PICK g : WalkOf(g, Parts(q))' /\ Resolve(q)' = Found(g, q)
  BY ResolveWalkNext
<1>. DEFINE parts == Parts(q)
            N == Len(parts)
            T == {n \in 0..N : g[n] = f[n]}
<1>3. N \in Nat \ {0} /\ \A n \in 1..N : parts[n] \in PartSet
  BY PartsFacts DEF Path
<1>4. f[0] = {Start} /\ \A n \in 1..N : f[n] = Follow(f[n - 1], parts[n])
  BY <1>1 DEF WalkOf
<1>5. g[0] = {Start} /\ \A n \in 1..N : g[n] = Follow(g[n - 1], parts[n])'
  BY <1>2 DEF WalkOf
<1>6. \A n \in 0..N : GoodSet(f[n])
  BY <1>1, PartsFacts, WalkIsGood
<1>. HIDE DEF parts
<1>7. 0 \in T
  <2>1. 0 \in 0..N
    BY <1>3
  <2>. QED  BY <1>4, <1>5, <2>1
<1>8. ASSUME NEW k \in 0..(N - 1), k \in T PROVE k + 1 \in T
  <2>1. k + 1 \in 1..N /\ (k + 1) - 1 = k /\ k + 1 \in 0..N /\ k \in 0..N
    BY <1>3
  <2>2. f[k + 1] = Follow(f[k], parts[k + 1]) /\ parts[k + 1] \in PartSet /\ GoodSet(f[k])
    BY <1>3, <1>4, <1>6, <2>1
  <2>3. g[k + 1] = Follow(f[k], parts[k + 1])'
    <3>1. g[k] = f[k]
      BY <1>8
    <3>2. g[k + 1] = Follow(g[k], parts[k + 1])'
      BY <1>5, <2>1
    <3>. QED  BY <3>1, <3>2
  <2>4. Follow(f[k], parts[k + 1])' = Follow(f[k], parts[k + 1])
    BY <2>2, SameFollow
  <2>. QED  BY <2>1, <2>2, <2>3, <2>4
<1>9. N \in T
  <2>. HIDE DEF T
  <2>1. 0..N \subseteq T
    BY <1>3, <1>7, <1>8, UpTo
  <2>. QED  BY <1>3, <2>1
<1>. QED  BY <1>1, <1>2, <1>9 DEF Found, parts

\* A path to a place in the entity leads there whatever happens to memory.
LEMMA InEntityStays ==
    ASSUME HeapOK, NEW q \in Requests, NEW r \in Resolve(q), r.addr[1] = Ent
    PROVE  r \in Resolve(q)'
<1>1. PICK f : WalkOf(f, Parts(q)) /\ Resolve(q) = Found(f, q)
  BY ResolveWalk
<1>2. PICK g : WalkOf(g, Parts(q))' /\ Resolve(q)' = Found(g, q)
  BY ResolveWalkNext
<1>. DEFINE parts == Parts(q)
            N == Len(parts)
            T == {n \in 0..N : \A x \in f[n] : x.addr[1] = Ent => x \in g[n]}
<1>3. N \in Nat \ {0} /\ \A n \in 1..N : parts[n] \in PartSet
  BY PartsFacts DEF Path
<1>4. f[0] = {Start} /\ \A n \in 1..N : f[n] = Follow(f[n - 1], parts[n])
  BY <1>1 DEF WalkOf
<1>5. g[0] = {Start} /\ \A n \in 1..N : g[n] = Follow(g[n - 1], parts[n])'
  BY <1>2 DEF WalkOf
<1>6. \A n \in 0..N : GoodSet(f[n])
  BY <1>1, PartsFacts, WalkIsGood
<1>. HIDE DEF parts
<1>7. 0 \in T
  <2>1. 0 \in 0..N
    BY <1>3
  <2>. QED  BY <1>4, <1>5, <2>1
<1>8. ASSUME NEW k \in 0..(N - 1), k \in T PROVE k + 1 \in T
  <2>1. k + 1 \in 1..N /\ (k + 1) - 1 = k /\ k + 1 \in 0..N /\ k \in 0..N
    BY <1>3
  <2>2. f[k + 1] = Follow(f[k], parts[k + 1]) /\ parts[k + 1] \in PartSet /\ GoodSet(f[k])
    BY <1>3, <1>4, <1>6, <2>1
  <2>3. g[k + 1] = Follow(g[k], parts[k + 1])'
    BY <1>5, <2>1
  <2>4. ASSUME NEW y \in f[k + 1], y.addr[1] = Ent PROVE y \in g[k + 1]
    <3>1. y \in Follow(f[k], parts[k + 1])
      BY <2>2
    <3>2. PICK x \in f[k] : x.addr[1] = Ent /\ \A S : x \in S => y \in Follow(S, parts[k + 1])'
      BY <2>2, <2>4, <3>1, InEntityWhatever
    <3>3. x \in g[k]
      BY <1>8, <3>2
    <3>4. y \in Follow(g[k], parts[k + 1])'
      BY <3>2, <3>3
    <3>. QED  BY <2>3, <3>4
  <2>. QED  BY <2>1, <2>4
<1>9. N \in T
  <2>. HIDE DEF T
  <2>1. 0..N \subseteq T
    BY <1>3, <1>7, <1>8, UpTo
  <2>. QED  BY <1>3, <2>1
<1>10. ~Contradicts(q) /\ r \in f[N]
  BY <1>1 DEF Found, parts
<1>11. r \in g[N]
  BY <1>9, <1>10
<1>. QED  BY <1>2, <1>10, <1>11 DEF Found, parts

-----------------------------------------------------------------------------
(* The writes of plugins.                                                  *)

\* Cells that can be written at a place: they hold no reference, or are a null pointer.
Harmless(r, cells) ==
    /\ DOMAIN cells = 1..r.type.size
    /\ RefsOf(r.type) = {} \/ (r.type.cat = "pointer" /\ cells = <<Null>>)

LEMMA WriteOutsideReferences ==
    ASSUME HeapOK, NEW r, Placed(r), NEW cells, Write(r.addr, cells),
           DOMAIN cells = 1..r.type.size, RefsOf(r.type) = {}
    PROVE  SameReferences
<1>1. r.type \in FieldTypes /\ r.addr[1] \in Blocks /\ r.addr[2] \in Nat /\ r.type.size \in Nat
  BY SizesAreNumbers DEF Placed, Inside, HeapOK
<1>2. Written(r.addr, cells)
  BY <1>1, WriteFacts DEF HeapOK
<1>3. ASSUME NEW p \in References[Root] PROVE mem'[Ent][p[1] + 1] = mem[Ent][p[1] + 1]
  <2>1. CASE r.addr[1] # Ent
    BY <1>2, <2>1, BoundsAssumption DEF Written
  <2>2. CASE r.addr[1] = Ent
    <3>1. p[1] \in 0..(Sizes[Root] - 1) /\ Sizes[Root] \in Nat /\ Sizes[Root] <= Len(mem[Ent])
      BY BoundsAssumption, LayoutAssumption, TypesAssumption DEF HeapOK
    <3>2. Len(mem[Ent]) \in Nat
      BY BoundsAssumption, BlockFacts DEF HeapOK
    <3>3. p[1] + 1 \in 1..Len(mem[Ent])
      BY <3>1, <3>2
    <3>4. ~(p[1] >= r.addr[2] /\ p[1] < r.addr[2] + r.type.size)
      BY <2>2 DEF Placed, Shares
    <3>5. (p[1] + 1) - r.addr[2] \notin DOMAIN cells
      BY <1>1, <3>1, <3>4
    <3>. QED  BY <1>2, <2>2, <3>3, <3>5 DEF Written
  <2>. QED  BY <2>1, <2>2
<1>4. \A b \in Blocks : Len(mem'[b]) = Len(mem[b])
  BY <1>2 DEF Written
<1>. QED  BY <1>3, <1>4 DEF SameReferences

\* The pointer that is written is the only reference that changes.
LEMMA WriteOfPointer ==
    ASSUME HeapOK, NEW r, Placed(r), Write(r.addr, <<Null>>), r.type.cat = "pointer"
    PROVE  /\ \A p \in References[Root] :
                \/ mem'[Ent][p[1] + 1] = mem[Ent][p[1] + 1]
                \/ mem'[Ent][p[1] + 1] = Null
           /\ \A b \in Blocks : Len(mem'[b]) = Len(mem[b])
<1>1. r.addr[1] \in Blocks /\ r.addr[2] \in Nat
  BY DEF Placed, Inside, HeapOK
<1>2. Written(r.addr, <<Null>>)
  BY <1>1, WriteFacts DEF HeapOK
<1>3. r.addr[1] = Ent
  BY ReferenceAt
<1>4. ASSUME NEW p \in References[Root]
      PROVE  mem'[Ent][p[1] + 1] = mem[Ent][p[1] + 1] \/ mem'[Ent][p[1] + 1] = Null
  <2>1. p[1] \in 0..(Sizes[Root] - 1) /\ Sizes[Root] \in Nat /\ Sizes[Root] <= Len(mem[Ent])
    BY BoundsAssumption, LayoutAssumption, TypesAssumption DEF HeapOK
  <2>2. Len(mem[Ent]) \in Nat
    BY BoundsAssumption, BlockFacts DEF HeapOK
  <2>3. p[1] + 1 \in 1..Len(mem[Ent])
    BY <2>1, <2>2
  <2>4. DOMAIN <<Null>> = 1..1 /\ <<Null>>[1] = Null
    OBVIOUS
  <2>. DEFINE k == (p[1] + 1) - r.addr[2]
              cells == <<Null>>
  <2>5. mem'[Ent][p[1] + 1] = IF k \in DOMAIN cells THEN cells[k] ELSE mem[Ent][p[1] + 1]
    BY <1>2, <1>3, <2>3 DEF Written
  <2>6. k \in DOMAIN cells => k = 1
    BY <2>4
  <2>. QED  BY <2>4, <2>5, <2>6
<1>5. \A b \in Blocks : Len(mem'[b]) = Len(mem[b])
  BY <1>2 DEF Written
<1>. QED  BY <1>4, <1>5

LEMMA WriteKeepsHeap ==
    ASSUME HeapOK, NEW r, Placed(r), NEW cells, Harmless(r, cells), Write(r.addr, cells),
           live' = live
    PROVE  HeapOK'
<1>1. r.addr[1] \in Blocks
  BY DEF Placed, Inside, HeapOK
<1>2. Written(r.addr, cells)
  BY <1>1, WriteFacts DEF HeapOK
<1>3. /\ \A p \in References[Root] :
           mem'[Ent][p[1] + 1] = mem[Ent][p[1] + 1] \/ mem'[Ent][p[1] + 1] = Null
      /\ \A b \in Blocks : Len(mem'[b]) = Len(mem[b])
  <2>1. CASE RefsOf(r.type) = {}
    BY <2>1, WriteOutsideReferences DEF Harmless, SameReferences
  <2>2. CASE r.type.cat = "pointer" /\ cells = <<Null>>
    BY <2>2, WriteOfPointer
  <2>. QED  BY <2>1, <2>2 DEF Harmless
<1>4. ReferencesLead(mem', live)
  <2>1. ASSUME NEW p \in References[Root], mem'[Ent][p[1] + 1] # Null
        PROVE  LET b == mem'[Ent][p[1] + 1] IN
               /\ b \in live \ {Ent}
               /\ p[2].cat = "pointer" => Sizes[p[2].class] <= Len(mem'[b])
               /\ p[2].cat = "collection" =>
                    \A s \in References[Root] : mem'[Ent][s[1] + 1] = b => s = p
    <3>. DEFINE b == mem[Ent][p[1] + 1]
    <3>1. mem'[Ent][p[1] + 1] = b
      BY <1>3, <2>1
    <3>2. /\ b \in live \ {Ent}
          /\ p[2].cat = "pointer" => Sizes[p[2].class] <= Len(mem[b])
          /\ p[2].cat = "collection" =>
               \A s \in References[Root] : mem[Ent][s[1] + 1] = b => s = p
      BY <2>1, <3>1 DEF HeapOK, ReferencesLead
    <3>3. b \in Blocks
      BY <3>2 DEF HeapOK
    <3>4. Len(mem'[b]) = Len(mem[b])
      BY <1>3, <3>3
    <3>5. \A s \in References[Root] : mem'[Ent][s[1] + 1] = b => mem[Ent][s[1] + 1] = b
      BY <1>3, <2>1, <3>1
    <3>. HIDE DEF b
    <3>. QED  BY <3>1, <3>2, <3>4, <3>5
  <2>. QED  BY <2>1 DEF ReferencesLead
<1>5. Len(mem'[Ent]) = Len(mem[Ent])
  BY <1>3, BoundsAssumption
<1>6. IsMemory(mem')
  BY <1>2 DEF Written
<1>. QED  BY <1>4, <1>5, <1>6 DEF HeapOK

\* What set stores is harmless.
LEMMA StoredIsHarmless ==
    ASSUME NEW r, r.type \in FieldTypes, ~Aggregate(r.type), NEW v, Accepted(r.type, v),
           Stored(r.type, v) # <<>>
    PROVE  Harmless(r, Stored(r.type, v)) /\ Kind(r.type) # "raw"
<1>. DEFINE t == r.type
            cells == Stored(t, v)
<1>1. t.size \in Nat /\ cells = [k \in 1..t.size |-> cells[k]]
  BY StoredIsLoaded
<1>2. DOMAIN cells = 1..t.size
  <2>. HIDE DEF cells
  <2>. QED  BY <1>1
<1>3. CASE IsText(t)
  <2>1. t.cat = "array" /\ t.elem.cat = "char"
    BY <1>3 DEF IsText
  <2>2. RefsOf(t) = {}
    BY <2>1 DEF RefsOf, Scattered
  <2>3. Kind(t) = "text"
    BY <1>3 DEF Kind
  <2>. QED  BY <1>2, <2>2, <2>3 DEF Harmless
<1>4. CASE ~IsText(t)
  <2>1. \/ t.cat \in {"int", "char", "uint", "float", "double", "vector", "handle"}
        \/ t.cat = "pointer" /\ v.as = "pointer"
    BY <1>4, LeafTypes
  <2>2. Kind(t) # "raw"
    BY <1>4, <2>1 DEF Kind
  <2>3. CASE t.cat = "pointer"
    <3>1. v.v = Null
      BY <2>1, <2>3 DEF Accepted, IsValue
    <3>2. cells = <<Null>>
      BY <1>4, <2>3, <3>1 DEF Stored
    <3>. QED  BY <1>2, <2>2, <2>3, <3>2 DEF Harmless
  <2>4. CASE t.cat # "pointer"
    <3>1. RefsOf(t) = {}
      BY <2>1, <2>4 DEF RefsOf, Scattered
    <3>. QED  BY <1>2, <2>2, <3>1 DEF Harmless
  <2>. QED  BY <2>3, <2>4
<1>. QED  BY <1>3, <1>4

\* What a successful set has done.
Assigned(q, v, r) ==
    /\ Resolve(q) = {r} /\ Shaped(r) /\ Placed(r)
    /\ ~Aggregate(r.type) /\ Accepted(r.type, v) /\ Stored(r.type, v) # <<>>
    /\ Write(r.addr, Stored(r.type, v)) /\ live' = live
    /\ last'.request = q /\ last'.value = v

LEMMA AssignOutcome ==
    ASSUME HeapOK, NEW q \in Requests, NEW kind, NEW v, IsValue(v), Converts(kind, v),
           Assign(q, kind, v)
    PROVE  \/ UNCHANGED <<mem, live>> /\ last'.do # "set"
           \/ \E r : Assigned(q, v, r)
<1>1. CASE Failed
  BY <1>1 DEF Failed
<1>2. ASSUME NEW r \in Assignable(q, kind, v), Write(r.addr, Stored(r.type, v)), Done("set", q, v, r),
             UNCHANGED live
      PROVE  Assigned(q, v, r)
  <2>1. r \in Resolve(q) /\ ~Aggregate(r.type) /\ Kind(r.type) = kind /\ Stored(r.type, v) # <<>>
    BY <1>2 DEF Assignable
  <2>2. Resolve(q) = {r} /\ Shaped(r) /\ Placed(r)
    BY <2>1, ResolveFacts
  <2>3. Accepted(r.type, v)
    BY <2>1 DEF Accepted
  <2>4. last'.request = q /\ last'.value = v
    BY <1>2 DEF Done
  <2>. QED  BY <1>2, <2>1, <2>2, <2>3, <2>4 DEF Assigned
<1>. QED  BY <1>1, <1>2 DEF Assign

LEMMA AssignedKeepsHeap ==
    ASSUME HeapOK, NEW q \in Requests, NEW v, NEW r, Assigned(q, v, r)
    PROVE  HeapOK'
<1>1. r.type \in FieldTypes /\ Placed(r)
  BY DEF Assigned, Placed, Inside
<1>2. Harmless(r, Stored(r.type, v))
  BY <1>1, StoredIsHarmless DEF Assigned
<1>. QED  BY <1>1, <1>2, WriteKeepsHeap DEF Assigned

\* What it has written is what get finds.
LEMMA AssignedReadsBack ==
    ASSUME HeapOK, HeapOK', NEW q \in Requests, NEW v, NEW r, Assigned(q, v, r)
    PROVE  Resolve(q)' = {r} /\ Get(q)' = {Held(r.type, v)}
<1>. DEFINE t == r.type
            cells == Stored(t, v)
            a == r.addr
<1>1. /\ t \in FieldTypes /\ a[1] \in Blocks /\ a[2] \in Nat /\ t.size \in Nat
      /\ a[2] + t.size <= Len(mem[a[1]])
  BY SizesAreNumbers DEF Assigned, Placed, Inside, HeapOK
<1>2. Harmless(r, cells) /\ Kind(t) # "raw"
  BY <1>1, StoredIsHarmless DEF Assigned
<1>3. cells = [k \in 1..t.size |-> cells[k]] /\ Len(cells) = t.size /\ Loaded(t, cells) = Held(t, v)
  BY <1>1, StoredIsLoaded DEF Assigned
<1>4. Resolve(q)' = {r}
  <2>1. CASE RefsOf(t) = {}
    <3>1. SameReferences
      BY <1>2, <2>1, WriteOutsideReferences DEF Assigned, Harmless
    <3>. QED  BY <3>1, SameResolve DEF Assigned
  <2>2. CASE t.cat = "pointer"
    <3>1. r.addr[1] = Ent
      BY <2>2, ReferenceAt DEF Assigned
    <3>2. r \in Resolve(q)'
      BY <3>1, InEntityStays DEF Assigned
    <3>. QED  BY <3>2, ResolveFactsNext
  <2>. QED  BY <1>2, <2>1, <2>2 DEF Harmless
<1>5. Written(a, cells)
  BY <1>1, WriteFacts DEF Assigned, HeapOK
<1>. HIDE DEF cells
<1>6. Cells(a, t.size)' = cells
  <2>. DEFINE b == mem'[a[1]]
              s == SubSeq(b, a[2] + 1, a[2] + t.size)
  <2>1. Len(mem[a[1]]) \in Nat
    BY <1>1, BlockFacts DEF HeapOK
  <2>2. ASSUME NEW k \in 1..t.size PROVE b[a[2] + k] = cells[k]
    <3>1. a[2] + k \in 1..Len(mem[a[1]]) /\ (a[2] + k) - a[2] = k
      BY <1>1, <2>1
    <3>2. k \in DOMAIN cells
      BY <1>3
    <3>3. \A j \in 1..Len(mem[a[1]]) :
            mem'[a[1]][j] = IF j - a[2] \in DOMAIN cells THEN cells[j - a[2]] ELSE mem[a[1]][j]
      BY <1>5 DEF Written
    <3>. QED  BY <3>1, <3>2, <3>3
  <2>. HIDE DEF b
  <2>. DEFINE S == {cells[k] : k \in 1..t.size}
  <2>3. \A i \in (a[2] + 1)..(a[2] + t.size) : b[i] \in S
    <3>1. ASSUME NEW i \in (a[2] + 1)..(a[2] + t.size) PROVE b[i] \in S
      <4>1. i - a[2] \in 1..t.size /\ a[2] + (i - a[2]) = i
        BY <1>1
      <4>2. b[i] = cells[i - a[2]]
        BY <2>2, <4>1
      <4>. QED  BY <4>1, <4>2
    <3>. QED  BY <3>1
  <2>. HIDE DEF S
  <2>4. a[2] + 1 \in Int /\ a[2] + t.size \in Int
    BY <1>1
  <2>5. /\ s \in Seq(S)
        /\ Len(s) = (IF a[2] + 1 <= a[2] + t.size THEN (a[2] + t.size) - (a[2] + 1) + 1 ELSE 0)
        /\ \A i \in 1..((a[2] + t.size) - (a[2] + 1) + 1) : s[i] = b[(a[2] + 1) + i - 1]
    BY <2>3, <2>4, SubSeqProperties
  <2>. HIDE DEF s
  <2>6. Len(s) = t.size /\ \A i \in 1..t.size : s[i] = b[a[2] + i]
    <3>1. (a[2] + t.size) - (a[2] + 1) + 1 = t.size
      BY <1>1
    <3>2. \A i \in 1..t.size : (a[2] + 1) + i - 1 = a[2] + i
      BY <1>1
    <3>. QED  BY <1>1, <2>5, <3>1, <3>2
  <2>7. DOMAIN s = 1..t.size /\ s = [k \in DOMAIN s |-> s[k]]
    BY <2>5, <2>6, LenProperties
  <2>8. s = cells
    BY <1>3, <2>2, <2>6, <2>7
  <2>. QED  BY <2>8 DEF Cells, s, b
<1>7. Get(q)' = {Loaded(x.type, Cells(x.addr, x.type.size)') :
                   x \in {y \in Resolve(q)' : ~Aggregate(y.type) /\ Kind(y.type) # "raw"}}
  BY DEF Get, Loaded
<1>8. {y \in Resolve(q)' : ~Aggregate(y.type) /\ Kind(y.type) # "raw"} = {r}
  BY <1>2, <1>4 DEF Assigned
<1>9. Get(q)' = {Loaded(r.type, Cells(r.addr, r.type.size)')}
  BY <1>7, <1>8
<1>. QED  BY <1>3, <1>4, <1>6, <1>9

LEMMA SetRawKeepsHeap ==
    ASSUME HeapOK, NEW q \in Requests, NEW cells \in Raws, SetRaw(q, cells)
    PROVE  HeapOK'
<1>1. CASE Failed
  BY <1>1 DEF Failed, HeapOK
<1>2. ASSUME NEW r \in Resolve(q), r.type.cat # "collection", r.type.size = Len(cells), HoldsBytes(r.type),
             Write(r.addr, cells), UNCHANGED live
      PROVE  HeapOK'
  <2>1. Placed(r) /\ r.type \in FieldTypes
    BY ResolveFacts DEF Placed, Inside
  <2>2. DOMAIN cells = 1..r.type.size
    <3>1. cells \in Seq(0..(Byte - 1))
      BY RawsAssumption
    <3>. QED  BY <1>2, <3>1, LenProperties
  <2>3. RefsOf(r.type) = {}
    BY <1>2 DEF HoldsBytes, RefsOf, Scattered
  <2>. QED  BY <1>2, <2>1, <2>2, <2>3, WriteKeepsHeap DEF Harmless
<1>. QED  BY <1>1, <1>2 DEF SetRaw

-----------------------------------------------------------------------------
(* The moves of memory.                                                    *)

LEMMA ReferenceCells ==
    ASSUME HeapOK, NEW p \in References[Root]
    PROVE  /\ p = <<p[1], p[2]>> /\ p[1] \in Nat /\ p[1] + 1 \in 1..Len(mem[Ent])
           /\ \A s \in References[Root] : p[1] = s[1] => p = s
<1>1. /\ p = <<p[1], p[2]>> /\ p[1] \in 0..(Sizes[Root] - 1)
      /\ \A s \in References[Root] : p[1] = s[1] => p = s
  BY BoundsAssumption, LayoutAssumption
<1>2. Sizes[Root] \in Nat /\ Sizes[Root] <= Len(mem[Ent]) /\ Len(mem[Ent]) \in Nat
  BY BoundsAssumption, TypesAssumption, BlockFacts DEF HeapOK
<1>. QED  BY <1>1, <1>2

\* A collection gets a storage of its own, and what it had is referred to no more.
LEMMA ReallocateKeepsHeap ==
    ASSUME HeapOK, NEW r, Placed(r), r.type.cat = "collection", NEW n \in Nat,
           NEW b \in Blocks \cup {Null}, Reallocate(r.addr, r.type, n, b)
    PROVE  HeapOK'
<1>. DEFINE a == r.addr
            t == r.type
            p == <<r.addr[2], r.type>>
            old == IF Cell(a) = Null THEN <<>> ELSE mem[Cell(a)]
            new == [k \in 1..(n * t.elem.size) |-> IF k <= Len(old) THEN old[k] ELSE 0]
            header == [mem[Ent] EXCEPT ![a[2] + 1] = b]
<1>1. /\ a[1] = Ent /\ a[2] \in Nat /\ p \in References[Root] /\ p[1] = a[2] /\ p[2] = t
      /\ t \in FieldTypes
  BY ReferenceAt DEF Placed, Inside
<1>2. /\ b \in IF n = 0 THEN {Null} ELSE Blocks \ live
      /\ live' = (live \ {Cell(a)}) \cup ({b} \ {Null})
      /\ mem' = [x \in Blocks |-> IF x = b THEN new ELSE IF x = Ent THEN header ELSE mem[x]]
  BY <1>1 DEF Reallocate
<1>3. Cell(a) = mem[Ent][p[1] + 1]
  BY <1>1 DEF Cell
<1>4. Ent \in Blocks /\ Null \notin Blocks /\ Ent \in live /\ live \subseteq Blocks /\ b # Ent /\ b \notin live
  BY <1>2, BoundsAssumption DEF HeapOK
<1>5. new \in Seq(ToSet(new))
  <2>1. t.elem.size \in Nat
    BY <1>1, TypesAssumption DEF WellFormed
  <2>2. n * t.elem.size \in Nat
    BY <2>1
  <2>3. new = [k \in 1..(n * t.elem.size) |-> new[k]]
    OBVIOUS
  <2>. HIDE DEF new
  <2>. QED  BY <2>2, <2>3, IsSequence
<1>. HIDE DEF new, p
<1>6. /\ header \in Seq(ToSet(header)) /\ Len(header) = Len(mem[Ent])
      /\ \A k \in 1..Len(mem[Ent]) : header[k] = IF k = a[2] + 1 THEN b ELSE mem[Ent][k]
  <2>1. Len(mem[Ent]) \in Nat /\ mem[Ent] = [k \in 1..Len(mem[Ent]) |-> mem[Ent][k]]
    BY <1>4, BlockFacts DEF HeapOK
  <2>. DEFINE m == Len(mem[Ent])
              e == mem[Ent]
  <2>2. DOMAIN e = 1..m
    BY <1>4, BlockFacts DEF HeapOK
  <2>. HIDE DEF e, m
  <2>3. [e EXCEPT ![a[2] + 1] = b] = [k \in 1..m |-> IF k = a[2] + 1 THEN b ELSE e[k]]
    BY <2>2
  <2>4. header = [k \in 1..m |-> IF k = a[2] + 1 THEN b ELSE e[k]]
    BY <2>3 DEF e
  <2>. HIDE DEF header
  <2>5. header = [k \in 1..m |-> header[k]] /\ \A k \in 1..m : header[k] = IF k = a[2] + 1 THEN b ELSE e[k]
    BY <2>4
  <2>6. m \in Nat
    BY <2>1 DEF m
  <2>. QED  BY <2>5, <2>6, IsSequence DEF e, m
<1>. HIDE DEF header
<1>7. /\ mem'[Ent] = header
      /\ \A x \in Blocks : x # b /\ x # Ent => mem'[x] = mem[x]
      /\ b \in Blocks => mem'[b] = new
  BY <1>2, <1>4
<1>8. IsMemory(mem')
  <2>1. ASSUME NEW x \in Blocks PROVE mem'[x] \in Seq(ToSet(mem'[x]))
    <3>1. CASE x = b
      BY <1>5, <1>7, <3>1
    <3>2. CASE x = Ent
      BY <1>6, <1>7, <3>2
    <3>3. CASE x # b /\ x # Ent
      BY <1>7, <3>3 DEF HeapOK, IsMemory
    <3>. QED  BY <3>1, <3>2, <3>3
  <2>2. DOMAIN mem' = Blocks
    BY <1>2
  <2>. QED  BY <2>1, <2>2 DEF IsMemory
<1>9. \A s \in References[Root] : mem'[Ent][s[1] + 1] = IF s = p THEN b ELSE mem[Ent][s[1] + 1]
  <2>1. ASSUME NEW s \in References[Root]
        PROVE  mem'[Ent][s[1] + 1] = IF s = p THEN b ELSE mem[Ent][s[1] + 1]
    <3>1. s[1] \in Nat /\ s[1] + 1 \in 1..Len(mem[Ent]) /\ (p[1] = s[1] => p = s)
      BY <1>1, ReferenceCells
    <3>2. s[1] + 1 = a[2] + 1 <=> s = p
      BY <1>1, <3>1
    <3>. QED  BY <1>6, <1>7, <3>1, <3>2
  <2>. QED  BY <2>1
<1>10. ReferencesLead(mem', live')
  <2>1. ASSUME NEW s \in References[Root], mem'[Ent][s[1] + 1] # Null
        PROVE  LET x == mem'[Ent][s[1] + 1] IN
               /\ x \in live' \ {Ent}
               /\ s[2].cat = "pointer" => Sizes[s[2].class] <= Len(mem'[x])
               /\ s[2].cat = "collection" =>
                    \A u \in References[Root] : mem'[Ent][u[1] + 1] = x => u = s
    <3>. DEFINE x == mem'[Ent][s[1] + 1]
    <3>1. CASE s = p
      <4>1. x = b /\ b \in live'
        BY <1>2, <1>9, <2>1, <3>1
      <4>2. ASSUME NEW u \in References[Root], u # s PROVE mem'[Ent][u[1] + 1] # x
        <5>1. mem'[Ent][u[1] + 1] = mem[Ent][u[1] + 1]
          BY <1>9, <3>1, <4>2
        <5>2. mem[Ent][u[1] + 1] = Null \/ mem[Ent][u[1] + 1] \in live
          BY DEF HeapOK, ReferencesLead
        <5>. QED  BY <1>4, <2>1, <4>1, <5>1, <5>2
      <4>3. s[2].cat # "pointer"
        BY <1>1, <3>1
      <4>. QED  BY <1>4, <4>1, <4>2, <4>3
    <3>2. CASE s # p
      <4>1. x = mem[Ent][s[1] + 1]
        BY <1>9, <3>2
      <4>2. /\ x \in live \ {Ent}
            /\ s[2].cat = "pointer" => Sizes[s[2].class] <= Len(mem[x])
            /\ s[2].cat = "collection" =>
                 \A u \in References[Root] : mem[Ent][u[1] + 1] = x => u = s
        BY <2>1, <4>1 DEF HeapOK, ReferencesLead
      <4>3. x # Cell(a)
        <5>1. Cell(a) # Null => \A u \in References[Root] : mem[Ent][u[1] + 1] = Cell(a) => u = p
          BY <1>1, <1>3 DEF HeapOK, ReferencesLead
        <5>. QED  BY <1>4, <2>1, <3>2, <4>1, <5>1
      <4>4. x \in live' /\ mem'[x] = mem[x]
        BY <1>2, <1>4, <1>7, <4>2, <4>3
      <4>5. \A u \in References[Root] : mem'[Ent][u[1] + 1] = x => u # p /\ mem[Ent][u[1] + 1] = x
        BY <1>4, <1>9, <4>2
      <4>. HIDE DEF x
      <4>. QED  BY <4>2, <4>4, <4>5 DEF x
    <3>. QED  BY <3>1, <3>2
  <2>. QED  BY <2>1 DEF ReferencesLead
<1>11. Ent \in live' /\ live' \subseteq Blocks
  <2>1. Cell(a) # Ent
    BY <1>1, <1>3, <1>4 DEF HeapOK, ReferencesLead
  <2>. QED  BY <1>2, <1>4, <2>1
<1>12. Sizes[Root] <= Len(mem'[Ent])
  BY <1>6, <1>7 DEF HeapOK
<1>. QED  BY <1>8, <1>10, <1>11, <1>12 DEF HeapOK

LEMMA ResizeKeepsHeap ==
    ASSUME HeapOK, NEW q \in Requests, NEW n \in 0..MaxCount, NEW b \in Blocks \cup {Null},
           Resize(q, n, b) \/ ResizeFallsShort(q, n, b)
    PROVE  HeapOK'
<1>1. PICK r \in Resolve(q) :
         /\ r.type.cat = "collection"
         /\ UNCHANGED <<mem, live>> \/ Reallocate(r.addr, r.type, n, b)
  BY DEF Resize, ResizeFallsShort, SetCount
<1>2. Placed(r)
  BY ResolveFacts
<1>3. n \in Nat
  BY BoundsAssumption
<1>4. CASE UNCHANGED <<mem, live>>
  BY <1>4 DEF HeapOK
<1>5. CASE Reallocate(r.addr, r.type, n, b)
  BY <1>1, <1>2, <1>3, <1>5, ReallocateKeepsHeap
<1>. QED  BY <1>1, <1>4, <1>5

\* The references follow what the engine moves.
LEMMA EngineKeepsHeap ==
    ASSUME HeapOK, NEW b \in Blocks, NEW c \in Blocks \cup {Null}, EngineMoves(b, c)
    PROVE  HeapOK'
<1>. DEFINE moved(x) == IF x = b THEN c ELSE x
            new == [k \in DOMAIN mem[Ent] |-> moved(mem[Ent][k])]
<1>1. /\ b \in live \ {Ent} /\ c \in (Blocks \ live) \cup {Null}
      /\ live' = (live \ {b}) \cup ({c} \ {Null})
      /\ mem' = [x \in Blocks |-> IF x = Ent THEN new ELSE IF x = c THEN mem[b] ELSE mem[x]]
  BY DEF EngineMoves
<1>2. Ent \in Blocks /\ Null \notin Blocks /\ Ent \in live /\ live \subseteq Blocks /\ c # Ent /\ c \notin live
  BY <1>1, BoundsAssumption DEF HeapOK
<1>3. Len(mem[Ent]) \in Nat /\ DOMAIN mem[Ent] = 1..Len(mem[Ent])
  BY <1>2, BlockFacts DEF HeapOK
<1>4. /\ new \in Seq(ToSet(new)) /\ Len(new) = Len(mem[Ent])
      /\ \A k \in 1..Len(mem[Ent]) : new[k] = moved(mem[Ent][k])
  <2>. HIDE DEF moved
  <2>1. new = [k \in 1..Len(mem[Ent]) |-> new[k]] /\ \A k \in 1..Len(mem[Ent]) : new[k] = moved(mem[Ent][k])
    BY <1>3
  <2>. HIDE DEF new
  <2>. QED  BY <1>3, <2>1, IsSequence
<1>. HIDE DEF new
<1>5. /\ mem'[Ent] = new
      /\ \A x \in Blocks : x # Ent => mem'[x] = mem[IF x = c THEN b ELSE x]
  BY <1>1, <1>2
<1>6. IsMemory(mem')
  <2>1. ASSUME NEW x \in Blocks PROVE mem'[x] \in Seq(ToSet(mem'[x]))
    <3>1. CASE x = Ent
      BY <1>4, <1>5, <3>1
    <3>2. CASE x # Ent
      BY <1>5, <3>2 DEF HeapOK, IsMemory
    <3>. QED  BY <3>1, <3>2
  <2>2. DOMAIN mem' = Blocks
    BY <1>1
  <2>. QED  BY <2>1, <2>2 DEF IsMemory
<1>7. \A s \in References[Root] : mem'[Ent][s[1] + 1] = moved(mem[Ent][s[1] + 1])
  BY <1>4, <1>5, ReferenceCells
<1>8. \A s \in References[Root] : mem[Ent][s[1] + 1] = Null \/ mem[Ent][s[1] + 1] \in live \ {Ent}
  BY DEF HeapOK, ReferencesLead
<1>9. ReferencesLead(mem', live')
  <2>1. ASSUME NEW s \in References[Root], mem'[Ent][s[1] + 1] # Null
        PROVE  LET x == mem'[Ent][s[1] + 1] IN
               /\ x \in live' \ {Ent}
               /\ s[2].cat = "pointer" => Sizes[s[2].class] <= Len(mem'[x])
               /\ s[2].cat = "collection" =>
                    \A u \in References[Root] : mem'[Ent][u[1] + 1] = x => u = s
    <3>. DEFINE y == mem[Ent][s[1] + 1]
                x == mem'[Ent][s[1] + 1]
    <3>1. x = moved(y)
      BY <1>7
    <3>2. y \in live \ {Ent}
      BY <1>1, <1>2, <1>8, <2>1, <3>1
    <3>3. /\ s[2].cat = "pointer" => Sizes[s[2].class] <= Len(mem[y])
          /\ s[2].cat = "collection" => \A u \in References[Root] : mem[Ent][u[1] + 1] = y => u = s
      <4>1. y # Null
        BY <1>2, <3>2
      <4>. QED  BY <4>1 DEF HeapOK, ReferencesLead
    <3>. HIDE DEF x, y
    <3>4. x # Null
      BY <2>1 DEF x
    <3>5. x \in live' \ {Ent} /\ x \in Blocks /\ mem'[x] = mem[y]
      <4>1. CASE y = b
        <5>1. x = c
          BY <3>1, <4>1
        <5>. QED  BY <1>1, <1>2, <1>5, <3>4, <4>1, <5>1
      <4>2. CASE y # b
        <5>1. x = y /\ x # c
          BY <1>2, <3>1, <3>2, <4>2
        <5>. QED  BY <1>1, <1>2, <1>5, <3>2, <4>2, <5>1
      <4>. QED  BY <4>1, <4>2
    <3>6. ASSUME NEW u \in References[Root], mem'[Ent][u[1] + 1] = x PROVE mem[Ent][u[1] + 1] = y
      <4>. DEFINE z == mem[Ent][u[1] + 1]
      <4>1. x = moved(z) /\ (z = Null \/ z \in live)
        BY <1>7, <1>8, <3>6
      <4>. HIDE DEF z
      <4>2. z = y
        BY <1>1, <1>2, <3>1, <3>2, <3>4, <4>1
      <4>. QED  BY <4>2 DEF z
    <3>. QED  BY <3>3, <3>5, <3>6 DEF x
  <2>. QED  BY <2>1 DEF ReferencesLead
<1>10. Ent \in live' /\ live' \subseteq Blocks
  BY <1>1, <1>2
<1>11. Sizes[Root] <= Len(mem'[Ent])
  BY <1>4, <1>5 DEF HeapOK
<1>. QED  BY <1>6, <1>9, <1>10, <1>11 DEF HeapOK

-----------------------------------------------------------------------------
(* The calls in progress.                                                  *)

CallsOK ==
    /\ stack \in Seq(ToSet(stack)) /\ Len(stack) <= MaxNesting
    /\ \A f \in ToSet(stack) : f.request \in Requests

LEMMA CallBegins ==
    ASSUME CallsOK, NEW f, f.request \in Requests, Len(stack) < MaxNesting, stack' = <<f>> \o stack
    PROVE  CallsOK'
<1>. DEFINE S == ToSet(stack) \cup {f}
            t == <<f>> \o stack
<1>1. stack \in Seq(S) /\ <<f>> \in Seq(S) /\ Len(<<f>>) = 1
  BY DEF CallsOK
<1>. HIDE DEF S
<1>2. t \in Seq(S) /\ Len(t) = Len(<<f>>) + Len(stack)
  BY <1>1, ConcatProperties
<1>3. Len(stack) \in Nat /\ MaxNesting \in Nat
  BY <1>1, LenProperties, BoundsAssumption
<1>. HIDE DEF t
<1>4. Len(t) \in Nat /\ DOMAIN t = 1..Len(t) /\ t = [k \in 1..Len(t) |-> t[k]]
  BY <1>2, LenProperties
<1>5. t \in Seq(ToSet(t))
  <2>. DEFINE n == Len(t)
  <2>1. n \in Nat /\ t = [k \in 1..n |-> t[k]]
    BY <1>4
  <2>. HIDE DEF n
  <2>. QED  BY <2>1, IsSequence
<1>6. ToSet(t) \subseteq S
  BY <1>2, <1>4, ElementOfSeq DEF ToSet
<1>7. \A g \in ToSet(t) : g.request \in Requests
  BY <1>6 DEF S, CallsOK
<1>8. Len(t) <= MaxNesting
  BY <1>1, <1>2, <1>3
<1>9. stack' = t
  BY DEF t
<1>. QED  BY <1>5, <1>7, <1>8, <1>9 DEF CallsOK

LEMMA CallEnds ==
    ASSUME CallsOK, stack # <<>>, stack' = Tail(stack)
    PROVE  CallsOK' /\ Head(stack).request \in Requests
<1>. DEFINE S == ToSet(stack)
            t == Tail(stack)
<1>1. stack \in Seq(S)
  BY DEF CallsOK
<1>. HIDE DEF S
<1>2. Head(stack) \in S /\ t \in Seq(S) /\ Len(t) = Len(stack) - 1
  BY <1>1, HeadTailProperties
<1>3. Len(stack) \in Nat /\ MaxNesting \in Nat
  BY <1>1, LenProperties, BoundsAssumption
<1>. HIDE DEF t
<1>4. Len(t) \in Nat /\ DOMAIN t = 1..Len(t) /\ t = [k \in 1..Len(t) |-> t[k]]
  BY <1>2, LenProperties
<1>5. t \in Seq(ToSet(t))
  <2>. DEFINE n == Len(t)
  <2>1. n \in Nat /\ t = [k \in 1..n |-> t[k]]
    BY <1>4
  <2>. HIDE DEF n
  <2>. QED  BY <2>1, IsSequence
<1>6. ToSet(t) \subseteq S
  BY <1>2, <1>4, ElementOfSeq DEF ToSet
<1>7. \A g \in S : g.request \in Requests
  BY DEF S, CallsOK
<1>8. Len(t) <= MaxNesting
  BY <1>2, <1>3 DEF CallsOK
<1>9. stack' = t
  BY DEF t
<1>. QED  BY <1>2, <1>5, <1>6, <1>7, <1>8, <1>9 DEF CallsOK

LEMMA CallCounts ==
    ASSUME calls \in 0..MaxCalls, Call \/ calls' = calls
    PROVE  calls' \in 0..MaxCalls
BY BoundsAssumption DEF Call

-----------------------------------------------------------------------------
(* One lemma for each way a value is set.                                  *)

\* A step sets nothing, or has set a value.
SetsOrNot ==
    \/ UNCHANGED <<mem, live>> /\ last'.do # "set"
    \/ \E q \in Requests : \E v, r : Assigned(q, v, r)

LEMMA SetOutcome ==
    ASSUME TypeOK, NEW q \in Requests, NEW v \in Values, Set(q, v)
    PROVE  SetsOrNot /\ stack' = stack /\ Call
<1>1. PICK kind, x : x \in Coerce(v) /\ Converts(kind, x) /\ Assign(q, kind, x)
  BY DEF Set
<1>2. HeapOK /\ IsValue(x)
  BY <1>1, ValuesAssumption DEF TypeOK
<1>3. SetsOrNot
  BY <1>1, <1>2, AssignOutcome DEF SetsOrNot
<1>. QED  BY <1>3 DEF Set

LEMMA EndSetOutcome ==
    ASSUME TypeOK, NEW v \in Values, EndSet(v)
    PROVE  SetsOrNot /\ CallsOK' /\ calls' = calls
<1>1. /\ stack # <<>> /\ stack' = Tail(stack) /\ calls' = calls
      /\ Converts(v.as, v) /\ Assign(Head(stack).request, v.as, v)
  BY DEF EndSet
<1>2. CallsOK' /\ Head(stack).request \in Requests
  BY <1>1, CallEnds DEF TypeOK, CallsOK
<1>3. PICK q : q = Head(stack).request
  OBVIOUS
<1>4. HeapOK /\ q \in Requests /\ Assign(q, v.as, v) /\ IsValue(v)
  BY <1>1, <1>2, <1>3, ValuesAssumption DEF TypeOK
<1>5. SetsOrNot
  BY <1>1, <1>4, AssignOutcome DEF SetsOrNot
<1>. QED  BY <1>1, <1>2, <1>5

LEMMA SetsOrNotKeepsHeap ==
    ASSUME HeapOK, SetsOrNot
    PROVE  HeapOK'
<1>1. CASE UNCHANGED <<mem, live>>
  BY <1>1 DEF HeapOK
<1>2. CASE \E q \in Requests : \E v, r : Assigned(q, v, r)
  BY <1>2, AssignedKeepsHeap
<1>. QED  BY <1>1, <1>2 DEF SetsOrNot

-----------------------------------------------------------------------------
(* Init, and every step.                                                   *)

LEMMA InitEstablishes ==
    ASSUME Init
    PROVE  TypeOK
<1>1. mem \in Memories /\ live = Allocated(mem) /\ stack = <<>> /\ calls = 0
  BY DEF Init
<1>2. IsMemory(mem) /\ Sizes[Root] <= Len(mem[Ent]) /\ ReferencesLead(mem, live)
  BY <1>1, MemoriesAssumption
<1>3. Ent \in live /\ live \subseteq Blocks
  BY <1>1, BoundsAssumption DEF Allocated
<1>4. ToSet(stack) = {} /\ stack \in Seq(ToSet(stack)) /\ Len(stack) = 0
  BY <1>1 DEF ToSet
<1>5. calls \in 0..MaxCalls /\ Len(stack) <= MaxNesting
  BY <1>1, <1>4, BoundsAssumption
<1>. QED  BY <1>2, <1>3, <1>4, <1>5 DEF TypeOK, HeapOK

LEMMA StepKeeps ==
    ASSUME TypeOK, [Next]_vars
    PROVE  TypeOK'
<1>0. HeapOK /\ CallsOK /\ calls \in 0..MaxCalls
  BY DEF TypeOK, CallsOK
<1>. DEFINE Kept == HeapOK' /\ CallsOK' /\ calls' \in 0..MaxCalls
<1>1. ASSUME NEW q \in Requests, NEW v \in Values, Set(q, v) PROVE Kept
  BY <1>0, <1>1, SetOutcome, SetsOrNotKeepsHeap, CallCounts DEF CallsOK
<1>2. ASSUME NEW q \in Requests, BeginSet(q) PROVE Kept
  <2>1. PICK r : stack' = <<[request |-> q, metadata |-> r]>> \o stack
    BY <1>2 DEF BeginSet
  <2>2. Len(stack) < MaxNesting /\ UNCHANGED <<mem, live>> /\ Call
    BY <1>2 DEF BeginSet
  <2>3. [request |-> q, metadata |-> r].request \in Requests
    OBVIOUS
  <2>4. CallsOK'
    BY <1>0, <2>1, <2>2, <2>3, CallBegins
  <2>. QED  BY <1>0, <2>2, <2>4, CallCounts DEF HeapOK
<1>3. ASSUME NEW q \in Requests, NEW cells \in Raws, SetRaw(q, cells) PROVE Kept
  <2>1. HeapOK'
    BY <1>0, <1>3, SetRawKeepsHeap
  <2>2. stack' = stack /\ Call
    BY <1>3 DEF SetRaw
  <2>. QED  BY <1>0, <2>1, <2>2, CallCounts DEF CallsOK
<1>4. ASSUME NEW q \in Requests, NEW n \in 0..MaxCount, NEW b \in Blocks \cup {Null},
             Resize(q, n, b) \/ ResizeFallsShort(q, n, b)
      PROVE  Kept
  <2>1. HeapOK'
    BY <1>0, <1>4, ResizeKeepsHeap
  <2>2. stack' = stack /\ Call
    BY <1>4 DEF Resize, ResizeFallsShort
  <2>. QED  BY <1>0, <2>1, <2>2, CallCounts DEF CallsOK
<1>5. ASSUME NEW q \in Requests, ResizeFails(q) PROVE Kept
  <2>1. stack' = stack /\ Call /\ UNCHANGED <<mem, live>>
    BY <1>5 DEF ResizeFails, Failed
  <2>. QED  BY <1>0, <2>1, CallCounts DEF CallsOK, HeapOK
<1>6. ASSUME NEW v \in Values, EndSet(v) PROVE Kept
  BY <1>0, <1>6, EndSetOutcome, SetsOrNotKeepsHeap, CallCounts
<1>7. ASSUME SetRaises PROVE Kept
  <2>1. stack # <<>> /\ stack' = Tail(stack) /\ UNCHANGED <<mem, live>> /\ calls' = calls
    BY <1>7 DEF SetRaises, Failed
  <2>. QED  BY <1>0, <2>1, CallEnds DEF HeapOK
<1>8. ASSUME NEW b \in Blocks, NEW c \in Blocks \cup {Null}, EngineMoves(b, c) PROVE Kept
  <2>1. HeapOK'
    BY <1>0, <1>8, EngineKeepsHeap
  <2>2. stack' = stack /\ Call
    BY <1>8 DEF EngineMoves
  <2>. QED  BY <1>0, <2>1, <2>2, CallCounts DEF CallsOK
<1>9. ASSUME UNCHANGED vars PROVE Kept
  <2>1. UNCHANGED <<mem, live>> /\ stack' = stack /\ calls' = calls
    BY <1>9 DEF vars
  <2>2. HeapOK'
    BY <1>0, <2>1 DEF HeapOK
  <2>3. CallsOK'
    BY <1>0, <2>1 DEF CallsOK
  <2>. QED  BY <1>0, <2>1, <2>2, <2>3
<1>10. Kept
  <2>. HIDE DEF Kept
  <2>1. CASE Next
    BY <1>1, <1>2, <1>3, <1>4, <1>5, <1>6, <1>7, <1>8, <2>1 DEF Next
  <2>2. CASE UNCHANGED vars
    BY <1>9, <2>2
  <2>. QED  BY <2>1, <2>2
<1>. QED  BY <1>10 DEF TypeOK, CallsOK

\* A step that has not set a value says so.
LEMMA SetsAreSeen ==
    ASSUME TypeOK, Next, last'.do = "set"
    PROVE  \E q \in Requests : \E v, r : Assigned(q, v, r)
<1>. DEFINE Sets == \E q \in Requests : \E v, r : Assigned(q, v, r)
<1>1. ASSUME NEW q \in Requests, NEW v \in Values, Set(q, v) PROVE Sets
  BY <1>1, SetOutcome DEF SetsOrNot
<1>2. ASSUME NEW q \in Requests, BeginSet(q) PROVE FALSE
  BY <1>2 DEF BeginSet, Nothing
<1>3. ASSUME NEW q \in Requests, NEW cells \in Raws, SetRaw(q, cells) PROVE FALSE
  BY <1>3 DEF SetRaw, Failed, Done
<1>4. ASSUME NEW q \in Requests, NEW n \in 0..MaxCount, NEW b \in Blocks \cup {Null},
             Resize(q, n, b) \/ ResizeFallsShort(q, n, b)
      PROVE  FALSE
  BY <1>4 DEF Resize, ResizeFallsShort, Done
<1>5. ASSUME NEW q \in Requests, ResizeFails(q) PROVE FALSE
  BY <1>5 DEF ResizeFails, Failed
<1>6. ASSUME NEW v \in Values, EndSet(v) PROVE Sets
  BY <1>6, EndSetOutcome DEF SetsOrNot
<1>7. ASSUME SetRaises PROVE FALSE
  BY <1>7 DEF SetRaises, Failed
<1>8. ASSUME NEW b \in Blocks, NEW c \in Blocks \cup {Null}, EngineMoves(b, c) PROVE FALSE
  BY <1>8 DEF EngineMoves, Nothing
<1>. HIDE DEF Sets
<1>9. Sets
  BY <1>1, <1>2, <1>3, <1>4, <1>5, <1>6, <1>7, <1>8 DEF Next
<1>. QED  BY <1>9 DEF Sets

-----------------------------------------------------------------------------
(* What a path goes through.                                               *)

\* A place lies within another one, or behind a reference in it.
Within(y, e) ==
    \/ /\ y.addr[1] = e.addr[1]
       /\ e.addr[2] <= y.addr[2] /\ y.addr[2] + y.type.size <= e.addr[2] + e.type.size
    \/ /\ e.addr[1] = Ent /\ y.addr[1] # Ent
       /\ \E p \in References[Root] :
            /\ e.addr[2] <= p[1] /\ p[1] < e.addr[2] + e.type.size
            /\ mem[Ent][p[1] + 1] = y.addr[1]

Numbered(y) == y.addr[2] \in Nat /\ y.type.size \in Nat

LEMMA PlacedIsNumbered ==
    ASSUME NEW y, Placed(y)
    PROVE  Numbered(y)
BY SizesAreNumbers DEF Placed, Inside, Numbered

LEMMA WithinItself ==
    ASSUME NEW y, Numbered(y)
    PROVE  Within(y, y)
BY DEF Within, Numbered

LEMMA WithinIsTransitive ==
    ASSUME NEW x, NEW y, NEW z, Numbered(x), Numbered(y), Numbered(z), Within(x, y), Within(y, z)
    PROVE  Within(x, z)
<1>1. CASE x.addr[1] = y.addr[1] /\ y.addr[1] = z.addr[1]
  <2>1. y.addr[2] <= x.addr[2] /\ x.addr[2] + x.type.size <= y.addr[2] + y.type.size
    BY <1>1 DEF Within
  <2>2. z.addr[2] <= y.addr[2] /\ y.addr[2] + y.type.size <= z.addr[2] + z.type.size
    BY <1>1 DEF Within
  <2>. QED  BY <1>1, <2>1, <2>2 DEF Within, Numbered
<1>2. CASE x.addr[1] = y.addr[1] /\ y.addr[1] # z.addr[1]
  BY <1>2 DEF Within
<1>3. CASE x.addr[1] # y.addr[1]
  <2>1. PICK p \in References[Root] :
          /\ y.addr[2] <= p[1] /\ p[1] < y.addr[2] + y.type.size
          /\ mem[Ent][p[1] + 1] = x.addr[1]
    BY <1>3 DEF Within
  <2>2. y.addr[1] = Ent /\ x.addr[1] # Ent
    BY <1>3 DEF Within
  <2>3. /\ z.addr[1] = Ent
        /\ z.addr[2] <= y.addr[2] /\ y.addr[2] + y.type.size <= z.addr[2] + z.type.size
    BY <2>2 DEF Within
  <2>4. p[1] \in Nat
    BY BoundsAssumption, ReferencesAreInner DEF Inner
  <2>5. z.addr[2] <= p[1] /\ p[1] < z.addr[2] + z.type.size
    BY <2>1, <2>3, <2>4 DEF Numbered
  <2>. QED  BY <2>1, <2>2, <2>3, <2>5 DEF Within
<1>. QED  BY <1>1, <1>2, <1>3

\* A field lies within the object that it is a field of, or behind the pointer to it.
LEMMA FieldIsWithin ==
    ASSUME HeapOK, NEW r, Shaped(r), Placed(r), NEW d \in Descend(r), NEW name \in Names,
           NEW g \in AtField(d, name)
    PROVE  Within(g, r)
<1>1. /\ Shaped(d) /\ ObjectAt(d.type.class, d.addr)
  BY DescendFacts DEF Good
<1>2. Shaped(g) /\ Placed(g) /\ g.addr[1] = d.addr[1]
  BY <1>1, AtFieldFacts
<1>3. PICK f \in FindField[name][d.type.class] :
        g.addr = <<d.addr[1], d.addr[2] + f.offset>> /\ g.type = f.type
  <2>1. PICK f \in FindField[name][d.type.class] :
          g = [d EXCEPT !.addr = <<@[1], @[2] + f.offset>>, !.type = f.type, !.depth = @ + 1,
                        !.root = IF d.depth = 0 THEN f.offset ELSE @]
    BY DEF AtField
  <2>. QED  BY <1>1, <2>1 DEF Shaped
<1>4. f.offset \in Nat /\ f.offset + f.type.size <= Sizes[d.type.class]
  BY <1>1, LayoutAssumption DEF ObjectAt
<1>5. Sizes[d.type.class] \in Nat /\ d.addr[2] \in Nat /\ f.type.size \in Nat
  BY <1>1, <1>2, <1>3, TypesAssumption, SizesAreNumbers DEF ObjectAt, Placed, Inside
<1>6. CASE r.type.cat = "class"
  <2>1. d = r
    BY <1>6 DEF Descend
  <2>2. r.type \in FieldTypes
    BY DEF Placed, Inside
  <2>3. r.type.size = Sizes[r.type.class]
    BY <1>6, <2>2, TypesAssumption DEF WellFormed
  <2>4. g.addr[1] = r.addr[1] /\ g.addr[2] = r.addr[2] + f.offset
    BY <1>3, <2>1
  <2>5. r.addr[2] <= g.addr[2] /\ g.addr[2] + g.type.size <= r.addr[2] + r.type.size
    BY <1>3, <1>4, <1>5, <2>1, <2>3, <2>4
  <2>. QED  BY <2>4, <2>5 DEF Within
<1>7. CASE r.type.cat # "class"
  <2>1. r.type.cat = "pointer" /\ Cell(r.addr) # Null /\ d = [r EXCEPT !.addr = <<Cell(r.addr), 0>>]
    BY <1>7 DEF Descend
  <2>2. r.addr[1] = Ent /\ <<r.addr[2], r.type>> \in References[Root] /\ Cell(r.addr) \in live \ {Ent}
    BY <2>1, ReferenceAt, ReferenceLeads
  <2>3. g.addr[1] = Cell(r.addr)
    BY <1>2, <2>1 DEF Shaped
  <2>4. r.type.size = 1 /\ r.addr[2] \in Nat
    BY <2>1, TypesAssumption DEF WellFormed, Placed, Inside
  <2>. DEFINE p == <<r.addr[2], r.type>>
  <2>5. p \in References[Root] /\ p[1] = r.addr[2] /\ mem[Ent][p[1] + 1] = g.addr[1]
    BY <2>2, <2>3 DEF Cell
  <2>. HIDE DEF p
  <2>6. r.addr[2] <= p[1] /\ p[1] < r.addr[2] + r.type.size
    BY <2>4, <2>5
  <2>. QED  BY <2>2, <2>3, <2>5, <2>6 DEF Within
<1>. QED  BY <1>6, <1>7

\* Where the elements of an array and of a collection are.
LEMMA ElementAddress ==
    ASSUME HeapOK, NEW g, Shaped(g), Placed(g), NEW i \in Nat \cup {-1}, NEW x \in Element(g, i)
    PROVE  \/ i = -1 /\ x = g
           \/ /\ i # -1 /\ g.type.cat \in {"array", "collection"}
              /\ x.type = g.type.elem /\ g.type.elem.size \in Nat
              /\ x.index = IF g.depth = 1 THEN i ELSE g.index
              /\ x.depth = g.depth /\ x.root = g.root
              /\ IF g.type.cat = "array"
                 THEN /\ x.addr = <<g.addr[1], g.addr[2] + i * g.type.elem.size>>
                      /\ i * g.type.elem.size + g.type.elem.size <= g.type.size
                 ELSE /\ g.addr[1] = Ent /\ Cell(g.addr) \in live \ {Ent}
                      /\ x.addr = <<Cell(g.addr), i * g.type.elem.size>>
<1>. DEFINE n == g.type.elem.size
<1>1. CASE i = -1
  BY <1>1 DEF Element
<1>2. CASE i # -1 /\ g.type.cat = "array"
  <2>1. i < g.type.count
        /\ x = [g EXCEPT !.addr = <<g.addr[1], g.addr[2] + i * n>>, !.type = @.elem,
                         !.index = IF g.depth = 1 THEN i ELSE @]
    BY <1>2 DEF Element
  <2>2. /\ x.addr = <<g.addr[1], g.addr[2] + i * n>> /\ x.type = g.type.elem
        /\ x.index = (IF g.depth = 1 THEN i ELSE g.index) /\ x.depth = g.depth /\ x.root = g.root
    BY <2>1 DEF Shaped
  <2>3. g.type \in FieldTypes
    BY DEF Placed, Inside
  <2>4. n \in Nat /\ g.type.count \in Nat /\ g.type.size = g.type.count * n
    BY <1>2, <2>3, ElementType
  <2>5. i * n + n <= g.type.size
    <3>. HIDE DEF n
    <3>1. i * n + n <= g.type.count * n
      BY <1>2, <2>1, <2>4, Beside
    <3>. QED  BY <2>4, <3>1
  <2>. QED  BY <1>2, <2>2, <2>4, <2>5
<1>3. CASE i # -1 /\ g.type.cat # "array"
  <2>1. g.type.cat = "collection" /\ i < Count(g.addr, g.type)
        /\ x = [g EXCEPT !.addr = <<Cell(g.addr), i * n>>, !.type = @.elem,
                         !.index = IF g.depth = 1 THEN i ELSE @]
    BY <1>3 DEF Element
  <2>2. /\ x.addr = <<Cell(g.addr), i * n>> /\ x.type = g.type.elem
        /\ x.index = (IF g.depth = 1 THEN i ELSE g.index) /\ x.depth = g.depth /\ x.root = g.root
    BY <2>1 DEF Shaped
  <2>3. Cell(g.addr) # Null
    BY <1>3, <2>1 DEF Count
  <2>4. g.addr[1] = Ent /\ Cell(g.addr) \in live \ {Ent}
    BY <2>1, <2>3, ReferenceLeads
  <2>5. n \in Nat
    BY <2>1, TypesAssumption DEF WellFormed, Placed, Inside
  <2>. QED  BY <1>3, <2>1, <2>2, <2>4, <2>5
<1>. QED  BY <1>1, <1>2, <1>3

LEMMA ElementIsWithin ==
    ASSUME HeapOK, NEW g, Shaped(g), Placed(g), NEW i \in Nat \cup {-1}, NEW x \in Element(g, i)
    PROVE  Within(x, g)
<1>. DEFINE n == g.type.elem.size
<1>0. Numbered(g) /\ Numbered(x)
  BY PlacedIsNumbered, ElementFacts
<1>1. CASE x = g
  BY <1>0, <1>1, WithinItself
<1>2. CASE /\ i # -1 /\ g.type.cat = "array" /\ x.type = g.type.elem /\ n \in Nat
           /\ x.addr = <<g.addr[1], g.addr[2] + i * n>> /\ i * n + n <= g.type.size
  <2>1. x.addr[1] = g.addr[1] /\ x.addr[2] = g.addr[2] + i * n /\ x.type.size = n
    BY <1>2
  <2>2. i * n \in Nat
    BY <1>2
  <2>. DEFINE o == i * n
  <2>3. o \in Nat /\ o + n <= g.type.size /\ x.addr[2] = g.addr[2] + o
    BY <1>2, <2>1, <2>2
  <2>. HIDE DEF n, o
  <2>4. g.addr[2] <= x.addr[2] /\ x.addr[2] + x.type.size <= g.addr[2] + g.type.size
    BY <1>0, <1>2, <2>1, <2>3 DEF Numbered
  <2>. QED  BY <2>1, <2>4 DEF Within
<1>3. CASE /\ g.type.cat = "collection" /\ g.addr[1] = Ent /\ Cell(g.addr) \in live \ {Ent}
           /\ x.addr = <<Cell(g.addr), i * n>>
  <2>1. x.addr[1] = Cell(g.addr) /\ <<g.addr[2], g.type>> \in References[Root]
    BY <1>3, ReferenceAt
  <2>2. g.type.size = 1 /\ g.addr[2] \in Nat
    BY <1>3, TypesAssumption DEF WellFormed, Placed, Inside
  <2>. DEFINE p == <<g.addr[2], g.type>>
  <2>3. p \in References[Root] /\ p[1] = g.addr[2] /\ mem[Ent][p[1] + 1] = x.addr[1]
    BY <1>3, <2>1 DEF Cell
  <2>. HIDE DEF p
  <2>4. g.addr[2] <= p[1] /\ p[1] < g.addr[2] + g.type.size
    BY <2>2, <2>3
  <2>. QED  BY <1>3, <2>1, <2>3, <2>4 DEF Within
<1>. QED  BY <1>1, <1>2, <1>3, ElementAddress

\* A walk that fails does not get anywhere.
LEMMA WalkNeverFailed ==
    ASSUME NEW a, Path(a), NEW f, WalkOf(f, a), f[Len(a)] # {}, NEW n \in 0..Len(a)
    PROVE  f[n] # {}
<1>. DEFINE N == Len(a)
            T == {m \in 0..N : m >= n => f[m] = {}}
<1>1. SUFFICES ASSUME f[n] = {} PROVE FALSE
  OBVIOUS
<1>2. N \in Nat \ {0} /\ n \in Nat /\ n <= N
  BY DEF Path
<1>3. f[0] = {Start} /\ \A k \in 1..N : f[k] = Follow(f[k - 1], a[k])
  BY DEF WalkOf
<1>4. 0 \in T
  BY <1>1, <1>2
<1>5. ASSUME NEW k \in 0..(N - 1), k \in T PROVE k + 1 \in T
  <2>1. k + 1 \in 1..N /\ (k + 1) - 1 = k /\ k + 1 \in 0..N
    BY <1>2
  <2>2. CASE k + 1 = n
    BY <1>1, <2>1, <2>2
  <2>3. CASE k + 1 > n
    <3>1. f[k] = {}
      BY <1>2, <1>5, <2>3
    <3>2. f[k + 1] = Follow({}, a[k + 1])
      BY <1>3, <2>1, <3>1
    <3>3. f[k + 1] = {}
      BY <3>2 DEF Follow
    <3>. QED  BY <2>1, <3>3
  <2>4. CASE k + 1 < n
    BY <1>2, <2>1, <2>4
  <2>. QED  BY <1>2, <2>2, <2>3, <2>4
<1>6. N \in T
  <2>. HIDE DEF T
  <2>1. 0..N \subseteq T
    BY <1>2, <1>4, <1>5, UpTo
  <2>. QED  BY <1>2, <2>1
<1>. QED  BY <1>2, <1>6

\* Whatever comes later lies within what has been passed.
LEMMA WalkStaysWithin ==
    ASSUME HeapOK, NEW a, Path(a), NEW f, WalkOf(f, a), NEW n \in 1..Len(a), NEW x, f[n] = {x}
    PROVE  \A m \in n..Len(a) : \A y \in f[m] : Within(y, x)
<1>. DEFINE N == Len(a)
            T == {m \in 0..N : m >= n => \A y \in f[m] : Within(y, x)}
<1>1. N \in Nat \ {0} /\ n \in Nat /\ \A k \in 1..N : a[k] \in PartSet
  BY DEF Path
<1>2. f[0] = {Start} /\ \A k \in 1..N : f[k] = Follow(f[k - 1], a[k])
  BY DEF WalkOf
<1>3. \A k \in 0..N : GoodSet(f[k]) /\ (k # 0 => \A r \in f[k] : Placed(r))
  BY WalkIsGood
<1>4. n \in 0..N /\ n # 0
  BY <1>1
<1>5. Numbered(x)
  BY <1>3, <1>4, PlacedIsNumbered
<1>6. 0 \in T
  BY <1>1
<1>7. ASSUME NEW k \in 0..(N - 1), k \in T PROVE k + 1 \in T
  <2>1. k + 1 \in 1..N /\ (k + 1) - 1 = k /\ k + 1 \in 0..N /\ k \in 0..N
    BY <1>1
  <2>2. CASE k + 1 = n
    BY <1>5, <2>1, <2>2, WithinItself
  <2>3. CASE k + 1 > n
    <3>1. k >= n /\ k # 0
      BY <1>1, <2>3
    <3>2. ASSUME NEW y \in f[k + 1] PROVE Within(y, x)
      <4>1. y \in Follow(f[k], a[k + 1])
        BY <1>2, <2>1
      <4>2. PICK r, d, g : r \in f[k] /\ Steps(r, d, g, y, a[k + 1])
        BY <4>1, FollowSteps
      <4>3. Within(r, x) /\ Placed(r) /\ Shaped(r) /\ Good(r)
        BY <1>3, <1>7, <2>1, <3>1, <4>2 DEF GoodSet, Good
      <4>4. a[k + 1] \in PartSet /\ a[k + 1].name \in Names /\ a[k + 1].index \in Nat \cup {-1}
        BY <1>1, <2>1 DEF PartSet
      <4>5. /\ Shaped(g) /\ Placed(g) /\ Placed(y)
        BY <4>2, <4>3, <4>4, StepsFacts
      <4>6. Within(g, r) /\ Within(y, g)
        BY <4>2, <4>3, <4>4, <4>5, FieldIsWithin, ElementIsWithin DEF Steps
      <4>7. Numbered(r) /\ Numbered(g) /\ Numbered(y)
        BY <4>3, <4>5, PlacedIsNumbered
      <4>8. Within(y, r)
        BY <4>6, <4>7, WithinIsTransitive
      <4>. QED  BY <1>5, <4>3, <4>7, <4>8, WithinIsTransitive
    <3>. QED  BY <2>1, <3>2
  <2>4. CASE k + 1 < n
    BY <1>1, <2>1, <2>4
  <2>. QED  BY <1>1, <2>2, <2>3, <2>4
<1>8. 0..N \subseteq T
  <2>. HIDE DEF T
  <2>. QED  BY <1>1, <1>6, <1>7, UpTo
<1>9. \A m \in n..N : m \in 0..N /\ m >= n
  BY <1>1
<1>. QED  BY <1>8, <1>9

\* At part n the walk f of a path has come from r to the object d, its field g and x.
Passes(f, a, n, r, d, g, x) ==
    /\ f[n - 1] = {r} /\ f[n] = {x} /\ Good(r)
    /\ Steps(r, d, g, x, a[n]) /\ Descend(r) = {d} /\ AtField(d, a[n].name) = {g}
    /\ Shaped(g) /\ Placed(g) /\ Shaped(x) /\ Placed(x)
    /\ ObjectAt(d.type.class, d.addr) /\ Shaped(d) /\ g.addr[1] = d.addr[1]
    /\ n < Len(a) => x.type.cat \in {"class", "pointer"}

LEMMA WalkPasses ==
    ASSUME HeapOK, NEW a, Path(a), NEW f, WalkOf(f, a), NEW y \in f[Len(a)], NEW n \in 1..Len(a)
    PROVE  \E r, d, g, x : Passes(f, a, n, r, d, g, x) /\ Within(y, x) /\ Within(y, g)
<1>. DEFINE N == Len(a)
<1>1. N \in Nat \ {0} /\ n \in Nat /\ a[n] \in PartSet
  BY DEF Path
<1>2. \A k \in 1..N : f[k] = Follow(f[k - 1], a[k])
  BY DEF WalkOf
<1>3. \A k \in 0..N : GoodSet(f[k]) /\ (k # 0 => \A r \in f[k] : Placed(r))
  BY WalkIsGood
<1>4. \A k \in 0..N : f[k] # {}
  BY WalkNeverFailed
<1>5. n \in 0..N /\ n - 1 \in 0..N /\ n # 0 /\ N \in n..N /\ N \in 0..N /\ N # 0
  BY <1>1
<1>6. PICK x : f[n] = {x}
  <2>1. f[n] # {} /\ \A u, v \in f[n] : u = v
    BY <1>3, <1>4, <1>5 DEF GoodSet
  <2>. QED  BY <2>1
<1>7. PICK r, d, g : r \in f[n - 1] /\ Steps(r, d, g, x, a[n])
  <2>1. x \in Follow(f[n - 1], a[n])
    BY <1>2, <1>6
  <2>. QED  BY <2>1, FollowSteps
<1>8. f[n - 1] = {r} /\ Good(r)
  BY <1>3, <1>5, <1>7 DEF GoodSet
<1>9. /\ Shaped(d) /\ ObjectAt(d.type.class, d.addr) /\ Descend(r) = {d}
      /\ Shaped(g) /\ Placed(g) /\ AtField(d, a[n].name) = {g}
      /\ Shaped(x) /\ Placed(x) /\ g.addr[1] = d.addr[1]
  <2>1. PICK part \in PartSet : part = a[n]
    BY <1>1
  <2>2. Good(r) /\ Steps(r, d, g, x, part)
    BY <1>7, <1>8, <2>1
  <2>3. /\ Shaped(d) /\ ObjectAt(d.type.class, d.addr) /\ Descend(r) = {d}
        /\ Shaped(g) /\ Placed(g) /\ AtField(d, part.name) = {g}
        /\ Shaped(x) /\ Placed(x) /\ g.addr[1] = d.addr[1]
    BY <2>2, StepsFacts
  <2>. QED  BY <2>1, <2>3
<1>10. Within(y, x)
  BY <1>5, <1>6, WalkStaysWithin
<1>11. Within(x, g)
  BY <1>1, <1>7, <1>9, ElementIsWithin DEF Steps, PartSet
<1>12. Within(y, g)
  <2>1. Numbered(x) /\ Numbered(g) /\ Numbered(y)
    BY <1>3, <1>5, <1>9, PlacedIsNumbered
  <2>. QED  BY <1>10, <1>11, <2>1, WithinIsTransitive
<1>13. ASSUME n < N PROVE x.type.cat \in {"class", "pointer"}
  <2>1. n + 1 \in 1..N /\ n + 1 \in 0..N /\ (n + 1) - 1 = n
    BY <1>1, <1>13
  <2>2. PICK z : z \in f[n + 1]
    BY <1>4, <2>1
  <2>3. z \in Follow({x}, a[n + 1])
    BY <1>2, <1>6, <2>1, <2>2
  <2>4. PICK s, e, h : s \in {x} /\ Steps(s, e, h, z, a[n + 1])
    BY <2>3, FollowSteps
  <2>5. e \in Descend(x)
    BY <2>4 DEF Steps
  <2>. QED  BY <2>5 DEF Descend
<1>. QED  BY <1>6, <1>7, <1>8, <1>9, <1>10, <1>12, <1>13 DEF Passes

-----------------------------------------------------------------------------
(* Which places overlap, and which parts of two paths can tell them apart. *)

\* Two places have a cell in common.
Overlap(x, y) ==
    /\ x.addr[1] = y.addr[1]
    /\ \E k \in Nat : /\ x.addr[2] <= k /\ k < x.addr[2] + x.type.size
                      /\ y.addr[2] <= k /\ k < y.addr[2] + y.type.size

Disjoint(x, y) ==
    /\ x.addr[1] = y.addr[1]
    /\ \/ x.addr[2] + x.type.size <= y.addr[2]
       \/ y.addr[2] + y.type.size <= x.addr[2]

\* Two pointers of the entity lead to a block.
Aliased(b) ==
    \E r, s \in References[Root] : r # s /\ mem[Ent][r[1] + 1] = b /\ mem[Ent][s[1] + 1] = b

LEMMA DisjointWithin ==
    ASSUME HeapOK, NEW x, NEW y, NEW g, NEW h, Numbered(x), Numbered(y), Numbered(g), Numbered(h),
           Disjoint(g, h), Within(x, g), Within(y, h), Overlap(x, y)
    PROVE  Aliased(x.addr[1])
<1>1. g.addr[1] = h.addr[1] /\ x.addr[1] = y.addr[1]
  BY DEF Disjoint, Overlap
<1>2. CASE x.addr[1] = g.addr[1]
  <2>1. g.addr[2] <= x.addr[2] /\ x.addr[2] + x.type.size <= g.addr[2] + g.type.size
    BY <1>2 DEF Within
  <2>2. h.addr[2] <= y.addr[2] /\ y.addr[2] + y.type.size <= h.addr[2] + h.type.size
    BY <1>1, <1>2 DEF Within
  <2>3. PICK k \in Nat : /\ x.addr[2] <= k /\ k < x.addr[2] + x.type.size
                         /\ y.addr[2] <= k /\ k < y.addr[2] + y.type.size
    BY DEF Overlap
  <2>. QED  BY <2>1, <2>2, <2>3 DEF Disjoint, Numbered
<1>3. CASE x.addr[1] # g.addr[1]
  <2>1. PICK p \in References[Root] :
          /\ g.addr[2] <= p[1] /\ p[1] < g.addr[2] + g.type.size
          /\ mem[Ent][p[1] + 1] = x.addr[1]
    BY <1>3 DEF Within
  <2>2. PICK s \in References[Root] :
          /\ h.addr[2] <= s[1] /\ s[1] < h.addr[2] + h.type.size
          /\ mem[Ent][s[1] + 1] = x.addr[1]
    BY <1>1, <1>3 DEF Within
  <2>3. p[1] \in Nat /\ s[1] \in Nat
    BY ReferenceCells
  <2>4. p[1] # s[1]
    BY <2>1, <2>2, <2>3 DEF Disjoint, Numbered
  <2>. QED  BY <2>1, <2>2, <2>4 DEF Aliased
<1>. QED  BY <1>2, <1>3

\* The fields of one object, and the elements of one field.
LEMMA FieldsAreDisjoint ==
    ASSUME HeapOK, NEW d, Shaped(d), ObjectAt(d.type.class, d.addr), NEW name \in Names,
           NEW other \in Names, name # other, NEW g \in AtField(d, name), NEW h \in AtField(d, other)
    PROVE  Disjoint(g, h) \/ (g.type.cat = "bits" /\ h.type.cat = "bits")
<1>. DEFINE c == d.type.class
<1>1. c \in Classes /\ d.addr[2] \in Nat
  BY DEF ObjectAt
<1>2. PICK f \in FindField[name][c] : g.addr = <<d.addr[1], d.addr[2] + f.offset>> /\ g.type = f.type
  <2>1. PICK f \in FindField[name][c] :
          g = [d EXCEPT !.addr = <<@[1], @[2] + f.offset>>, !.type = f.type, !.depth = @ + 1,
                        !.root = IF d.depth = 0 THEN f.offset ELSE @]
    BY DEF AtField
  <2>. QED  BY <2>1 DEF Shaped
<1>3. PICK e \in FindField[other][c] : h.addr = <<d.addr[1], d.addr[2] + e.offset>> /\ h.type = e.type
  <2>1. PICK e \in FindField[other][c] :
          h = [d EXCEPT !.addr = <<@[1], @[2] + e.offset>>, !.type = e.type, !.depth = @ + 1,
                        !.root = IF d.depth = 0 THEN e.offset ELSE @]
    BY DEF AtField
  <2>. QED  BY <2>1 DEF Shaped
<1>. HIDE DEF c
<1>4. f.offset \in Nat /\ e.offset \in Nat /\ f.type.size \in Nat /\ e.type.size \in Nat
  BY <1>1, LayoutAssumption, SizesAreNumbers
<1>5. Apart(f, e)
  BY <1>1, LayoutAssumption
<1>. QED  BY <1>1, <1>2, <1>3, <1>4, <1>5 DEF Apart, Disjoint

LEMMA ElementsAreDisjoint ==
    ASSUME HeapOK, NEW g, Shaped(g), Placed(g), NEW i \in Nat, NEW j \in Nat, i # j,
           NEW x \in Element(g, i), NEW y \in Element(g, j)
    PROVE  Disjoint(x, y)
<1>. DEFINE n == g.type.elem.size
<1>0. g.addr[2] \in Nat
  BY DEF Placed, Inside
<1>1. /\ n \in Nat /\ x.type.size = n /\ y.type.size = n /\ x.addr[1] = y.addr[1]
      /\ \E o \in Nat : x.addr[2] = o + i * n /\ y.addr[2] = o + j * n
  <2>1. /\ g.type.cat \in {"array", "collection"} /\ x.type = g.type.elem /\ n \in Nat
        /\ IF g.type.cat = "array" THEN x.addr = <<g.addr[1], g.addr[2] + i * n>>
           ELSE x.addr = <<Cell(g.addr), i * n>>
    BY ElementAddress
  <2>2. /\ y.type = g.type.elem
        /\ IF g.type.cat = "array" THEN y.addr = <<g.addr[1], g.addr[2] + j * n>>
           ELSE y.addr = <<Cell(g.addr), j * n>>
    BY ElementAddress
  <2>3. i * n \in Nat /\ j * n \in Nat
    BY <2>1
  <2>. DEFINE ii == i * n
              jj == j * n
  <2>4. ii \in Nat /\ jj \in Nat
    BY <2>3
  <2>5. CASE g.type.cat = "array"
    <3>1. x.addr = <<g.addr[1], g.addr[2] + ii>> /\ y.addr = <<g.addr[1], g.addr[2] + jj>>
      BY <2>1, <2>2, <2>5
    <3>. HIDE DEF ii, jj
    <3>2. x.addr[1] = y.addr[1] /\ x.addr[2] = g.addr[2] + ii /\ y.addr[2] = g.addr[2] + jj
      BY <3>1
    <3>. QED  BY <1>0, <2>1, <2>2, <3>2 DEF ii, jj
  <2>6. CASE g.type.cat # "array"
    <3>1. x.addr = <<Cell(g.addr), ii>> /\ y.addr = <<Cell(g.addr), jj>>
      BY <2>1, <2>2, <2>6
    <3>. HIDE DEF ii, jj
    <3>2. x.addr[1] = y.addr[1] /\ x.addr[2] = 0 + ii /\ y.addr[2] = 0 + jj
      BY <2>4, <3>1
    <3>. QED  BY <2>1, <2>2, <3>2 DEF ii, jj
  <2>. QED  BY <2>5, <2>6
<1>2. PICK o \in Nat : x.addr[2] = o + i * n /\ y.addr[2] = o + j * n
  BY <1>1
<1>3. i < j => i * n + n <= j * n
  BY <1>1, Beside
<1>4. j < i => j * n + n <= i * n
  BY <1>1, Beside
<1>5. i * n \in Nat /\ j * n \in Nat
  BY <1>1
<1>. DEFINE ii == i * n
            jj == j * n
<1>6. /\ ii \in Nat /\ jj \in Nat /\ (i < j => ii + n <= jj) /\ (j < i => jj + n <= ii)
      /\ x.addr[2] = o + ii /\ y.addr[2] = o + jj
  BY <1>2, <1>3, <1>4, <1>5
<1>. HIDE DEF ii, jj, n
<1>7. i < j \/ j < i
  OBVIOUS
<1>. QED  BY <1>1, <1>6, <1>7 DEF Disjoint

\* The parts of two paths agree.
Agree(a, b, n) ==
    /\ a[n].name = b[n].name
    /\ a[n].index = b[n].index \/ -1 \in {a[n].index, b[n].index}

\* Two paths part only where they lead to memory of their own.
LEMMA CommonPart ==
    ASSUME HeapOK, NEW a, NEW b, Path(a), Path(b), NEW n \in 1..Len(a), n \in 1..Len(b),
           NEW f, NEW h, NEW r, NEW d, NEW g, NEW x, NEW s, NEW e, NEW k, NEW z,
           Passes(f, a, n, r, d, g, x), Passes(h, b, n, s, e, k, z), r = s,
           NEW y, NEW w, Numbered(y), Numbered(w),
           Within(y, x), Within(y, g), Within(w, z), Within(w, k), Overlap(y, w),
           ~Aliased(y.addr[1]), y.type.cat # "bits", n = Len(a) => y = x
    PROVE  /\ Agree(a, b, n) /\ g = k
           /\ n < Len(a) /\ n < Len(b) => x = z
<1>0. /\ a[n].name \in Names /\ b[n].name \in Names
      /\ a[n].index \in Nat \cup {-1} /\ b[n].index \in Nat \cup {-1}
  BY DEF Path, PartSet
<1>1. d = e
  <2>1. {d} = {e}
    BY DEF Passes
  <2>. QED  BY <2>1
<1>2. /\ Shaped(g) /\ Placed(g) /\ Shaped(k) /\ Placed(k) /\ Numbered(g) /\ Numbered(k)
      /\ Numbered(x) /\ Numbered(z) /\ Shaped(d) /\ ObjectAt(d.type.class, d.addr)
      /\ g \in AtField(d, a[n].name) /\ k \in AtField(d, b[n].name)
      /\ AtField(d, a[n].name) = {g} /\ AtField(d, b[n].name) = {k}
      /\ x \in Element(g, a[n].index) /\ z \in Element(k, b[n].index)
  BY <1>1, PlacedIsNumbered DEF Passes, Steps
<1>3. a[n].name = b[n].name
  <2>1. SUFFICES ASSUME a[n].name # b[n].name PROVE FALSE
    OBVIOUS
  <2>2. ~Disjoint(g, k)
    BY <1>2, DisjointWithin
  <2>3. g.type.cat = "bits"
    BY <1>0, <1>2, <2>1, <2>2, FieldsAreDisjoint
  <2>4. x = g
    BY <1>0, <1>2, <2>3, ElementAddress
  <2>5. ~(n < Len(a))
    BY <2>3, <2>4 DEF Passes
  <2>6. Len(a) \in Nat
    BY DEF Path
  <2>7. n = Len(a)
    BY <2>5, <2>6
  <2>. QED  BY <2>3, <2>4, <2>7
<1>4. g = k
  BY <1>2, <1>3
<1>5. a[n].index = b[n].index \/ -1 \in {a[n].index, b[n].index}
  <2>1. SUFFICES ASSUME a[n].index # b[n].index, a[n].index # -1, b[n].index # -1 PROVE FALSE
    OBVIOUS
  <2>2. a[n].index \in Nat /\ b[n].index \in Nat
    BY <1>0, <2>1
  <2>3. Disjoint(x, z)
    BY <1>2, <1>4, <2>1, <2>2, ElementsAreDisjoint
  <2>. QED  BY <1>2, <2>3, DisjointWithin
<1>6. ASSUME n < Len(a), n < Len(b) PROVE x = z
  <2>1. x.type.cat \in {"class", "pointer"} /\ z.type.cat \in {"class", "pointer"}
    BY <1>6 DEF Passes
  <2>2. CASE a[n].index = b[n].index
    BY <1>0, <1>2, <1>4, <2>2, ElementFacts
  <2>3. CASE a[n].index = -1
    <3>1. x = g
      BY <1>0, <1>2, <2>3, ElementAddress
    <3>2. z = k
      BY <1>0, <1>2, <1>4, <2>1, <3>1, ElementAddress
    <3>. QED  BY <1>4, <3>1, <3>2
  <2>4. CASE b[n].index = -1
    <3>1. z = k
      BY <1>0, <1>2, <2>4, ElementAddress
    <3>2. x = g
      BY <1>0, <1>2, <1>4, <2>1, <3>1, ElementAddress
    <3>. QED  BY <1>4, <3>1, <3>2
  <2>. QED  BY <1>5, <2>2, <2>3, <2>4
<1>. QED  BY <1>3, <1>4, <1>5, <1>6 DEF Agree

-----------------------------------------------------------------------------
(* Two paths that come to common cells share parts, or a pointer has an  *)
(* alias.                                                                  *)

\* A path that goes past a part comes to one place there, and on from it.
CommonUpTo(a, b, f, h, n) ==
    /\ \A m \in 1..n : Agree(a, b, m)
    /\ n < Len(a) /\ n < Len(b) => f[n] = h[n]

LEMMA CommonWalk ==
    ASSUME HeapOK, NEW a, NEW b, Path(a), Path(b), NEW f, NEW h, WalkOf(f, a), WalkOf(h, b),
           NEW y \in f[Len(a)], NEW w \in h[Len(b)], Overlap(y, w),
           ~Aliased(y.addr[1]), y.type.cat # "bits", NEW n \in Nat, n <= Len(a), n <= Len(b)
    PROVE  CommonUpTo(a, b, f, h, n)
<1>. DEFINE Holds(m) == CommonUpTo(a, b, f, h, m)
            T == {m \in 0..n : Holds(m)}
<1>1. Len(a) \in Nat \ {0} /\ Len(b) \in Nat \ {0}
  BY DEF Path
<1>2. Numbered(y) /\ Numbered(w)
  <2>1. Len(a) \in 0..Len(a) /\ Len(a) # 0 /\ Len(b) \in 0..Len(b) /\ Len(b) # 0
    BY <1>1
  <2>2. Placed(y) /\ Placed(w)
    BY <2>1, WalkIsGood
  <2>. QED  BY <2>2, PlacedIsNumbered
<1>3. 0 \in T
  <2>1. f[0] = h[0]
    BY DEF WalkOf
  <2>. QED  BY <2>1 DEF CommonUpTo
<1>4. ASSUME NEW k \in 0..(n - 1), k \in T PROVE k + 1 \in T
  <2>1. /\ k \in Nat /\ k + 1 \in 1..Len(a) /\ k + 1 \in 1..Len(b) /\ (k + 1) - 1 = k
        /\ k < Len(a) /\ k < Len(b) /\ k + 1 \in 0..n
    BY <1>1
  <2>2. f[k] = h[k] /\ \A m \in 1..k : Agree(a, b, m)
    BY <1>4, <2>1 DEF CommonUpTo
  <2>3. PICK m : m = k + 1
    OBVIOUS
  <2>4. m \in 1..Len(a) /\ m \in 1..Len(b) /\ m - 1 = k
    BY <2>1, <2>3
  <2>5. PICK r, d, g, x : Passes(f, a, m, r, d, g, x) /\ Within(y, x) /\ Within(y, g)
    BY <2>4, WalkPasses
  <2>6. PICK s, e, c, z : Passes(h, b, m, s, e, c, z) /\ Within(w, z) /\ Within(w, c)
    BY <2>4, WalkPasses
  <2>7. r = s
    <3>1. {r} = {s}
      BY <2>2, <2>4, <2>5, <2>6 DEF Passes
    <3>. QED  BY <3>1
  <2>8. m = Len(a) => y = x
    BY <2>5 DEF Passes
  <2>9. Agree(a, b, m) /\ (m < Len(a) /\ m < Len(b) => x = z)
    BY <1>2, <2>4, <2>5, <2>6, <2>7, <2>8, CommonPart
  <2>10. m < Len(a) /\ m < Len(b) => f[m] = h[m]
    BY <2>5, <2>6, <2>9 DEF Passes
  <2>11. \A j \in 1..m : Agree(a, b, j)
    BY <2>1, <2>2, <2>3, <2>9
  <2>12. Holds(m)
    BY <2>10, <2>11 DEF CommonUpTo
  <2>. HIDE DEF Holds
  <2>. QED  BY <2>1, <2>3, <2>12
<1>5. n \in T
  <2>. HIDE DEF T
  <2>1. 0..n \subseteq T
    BY <1>3, <1>4, UpTo
  <2>. QED  BY <2>1
<1>. QED  BY <1>5

\* Paths to places with a cell in common meet.
Meeting(a, b) == \A k \in DOMAIN a \cap DOMAIN b : Agree(a, b, k)

LEMMA OverlapMeets ==
    ASSUME HeapOK, NEW a, NEW b, Path(a), Path(b), NEW f, NEW h, WalkOf(f, a), WalkOf(h, b),
           NEW y \in f[Len(a)], NEW w \in h[Len(b)], Overlap(y, w),
           ~Aliased(y.addr[1]), y.type.cat # "bits"
    PROVE  Meeting(a, b)
<1>1. SUFFICES ASSUME NEW k \in DOMAIN a \cap DOMAIN b PROVE Agree(a, b, k)
  BY DEF Meeting
<1>2. k \in Nat /\ k <= Len(a) /\ k <= Len(b) /\ k \in 1..k
  BY DEF Path
<1>3. CommonUpTo(a, b, f, h, k)
  BY <1>2, CommonWalk
<1>. QED  BY <1>2, <1>3 DEF CommonUpTo

\* What is reached through a pointer or a collection is not in the entity.
LEMMA BehindPointer ==
    ASSUME HeapOK, NEW a, Path(a), NEW f, WalkOf(f, a), NEW y \in f[Len(a)], NEW n \in 1..Len(a),
           n < Len(a), NEW x, f[n] = {x}, x.type.cat = "pointer"
    PROVE  y.addr[1] # Ent
<1>1. Len(a) \in Nat \ {0}
  BY DEF Path
<1>2. PICK m : m = n + 1
  OBVIOUS
<1>3. m \in 1..Len(a) /\ m - 1 = n /\ n \in 0..Len(a) /\ n # 0
  BY <1>1, <1>2
<1>4. PICK r, d, g, z : Passes(f, a, m, r, d, g, z) /\ Within(y, z) /\ Within(y, g)
  BY <1>3, WalkPasses
<1>5. r = x
  <2>1. {r} = {x}
    BY <1>3, <1>4 DEF Passes
  <2>. QED  BY <2>1
<1>6. Placed(x) /\ Shaped(x)
  BY <1>3, WalkIsGood DEF GoodSet, Good
<1>7. d \in Descend(x) /\ g.addr[1] = d.addr[1]
  BY <1>4, <1>5 DEF Passes
<1>8. Cell(x.addr) # Null /\ d = [x EXCEPT !.addr = <<Cell(x.addr), 0>>]
  BY <1>7 DEF Descend
<1>9. d.addr[1] = Cell(x.addr) /\ Cell(x.addr) # Ent
  BY <1>6, <1>8, ReferenceLeads DEF Shaped
<1>. QED  BY <1>4, <1>7, <1>9 DEF Within

LEMMA NotAliasedEntity ==
    ASSUME HeapOK
    PROVE  ~Aliased(Ent)
BY BoundsAssumption DEF Aliased, HeapOK, ReferencesLead

\* Places of one reference are of one type, and have its cell.
LEMMA SamePlace ==
    ASSUME HeapOK, NEW x, NEW y, Placed(x), Placed(y), x.addr[2] = y.addr[2],
           x.type.cat \in {"pointer", "collection"}, y.type.cat \in {"pointer", "collection"}
    PROVE  x.type = y.type /\ Overlap(x, y)
<1>1. /\ <<x.addr[2], x.type>> \in References[Root] /\ <<y.addr[2], y.type>> \in References[Root]
      /\ x.addr[1] = y.addr[1]
  BY ReferenceAt
<1>2. <<x.addr[2], x.type>> = <<y.addr[2], y.type>>
  <2>. DEFINE p == <<x.addr[2], x.type>>
              s == <<y.addr[2], y.type>>
  <2>1. p \in References[Root] /\ s \in References[Root] /\ p[1] = s[1]
    BY <1>1
  <2>. HIDE DEF p, s
  <2>2. p = s
    BY <2>1, ReferenceCells
  <2>. QED  BY <2>2 DEF p, s
<1>3. x.type = y.type
  BY <1>2
<1>4. x.type.size = 1 /\ x.addr[2] \in Nat
  BY TypesAssumption DEF WellFormed, Placed, Inside
<1>5. x.addr[2] <= x.addr[2] /\ x.addr[2] < x.addr[2] + x.type.size
  BY <1>4
<1>6. Overlap(x, y)
  BY <1>1, <1>3, <1>4, <1>5 DEF Overlap
<1>. QED  BY <1>3, <1>6

\* Paths to a reference come to it from one field.
LEMMA SameField ==
    ASSUME HeapOK, NEW a, NEW b, Path(a), Path(b), NEW f, NEW h, WalkOf(f, a), WalkOf(h, b),
           NEW y \in f[Len(a)], NEW w \in h[Len(b)], y.addr[2] = w.addr[2],
           y.type.cat \in {"pointer", "collection"}, w.type.cat \in {"pointer", "collection"},
           Len(a) <= Len(b)
    PROVE  \E r, d, g, s, e, z :
             Passes(f, a, Len(a), r, d, g, y) /\ Passes(h, b, Len(a), s, e, g, z) /\ Within(w, z)
<1>. DEFINE m == Len(a)
<1>2. m \in Nat \ {0} /\ Len(b) \in Nat /\ m \in 1..Len(a) /\ m \in 1..Len(b) /\ m - 1 \in Nat
      /\ m - 1 < Len(a) /\ m - 1 < Len(b) /\ m \in 0..Len(a) /\ Len(b) \in 0..Len(b) /\ Len(b) # 0
  BY DEF Path
<1>3. Placed(y) /\ Placed(w)
  BY <1>2, WalkIsGood
<1>4. y.addr[1] = Ent /\ w.addr[1] = Ent
  BY <1>3, ReferenceAt
<1>5. Overlap(y, w) /\ Numbered(y) /\ Numbered(w) /\ y.type.cat # "bits"
  BY <1>3, SamePlace, PlacedIsNumbered
<1>6. ~Aliased(y.addr[1])
  BY <1>4, NotAliasedEntity
<1>7. f[m - 1] = h[m - 1]
  <2>1. PICK n \in Nat : n = m - 1
    BY <1>2
  <2>2. n <= Len(a) /\ n <= Len(b)
    BY <1>2, <2>1
  <2>3. CommonUpTo(a, b, f, h, n)
    BY <1>5, <1>6, <2>2, CommonWalk
  <2>. QED  BY <1>2, <2>1, <2>3 DEF CommonUpTo
<1>8. PICK r, d, g, x : Passes(f, a, m, r, d, g, x) /\ Within(y, x) /\ Within(y, g)
  BY <1>2, WalkPasses
<1>9. PICK s, e, c, z : Passes(h, b, m, s, e, c, z) /\ Within(w, z) /\ Within(w, c)
  BY <1>2, WalkPasses
<1>10. r = s /\ x = y
  <2>1. {r} = {s}
    BY <1>7, <1>8, <1>9 DEF Passes
  <2>2. {x} = f[m]
    BY <1>8 DEF Passes
  <2>. QED  BY <2>1, <2>2
<1>11. g = c
  BY <1>2, <1>5, <1>6, <1>8, <1>9, <1>10, CommonPart
<1>. QED  BY <1>8, <1>9, <1>10, <1>11

\* ... and no longer path leads there.
LEMMA NoLonger ==
    ASSUME HeapOK, NEW a, NEW b, Path(a), Path(b), NEW f, NEW h, WalkOf(f, a), WalkOf(h, b),
           NEW y \in f[Len(a)], NEW w \in h[Len(b)], y.addr[2] = w.addr[2],
           y.type.cat \in {"pointer", "collection"}, w.type.cat \in {"pointer", "collection"}
    PROVE  Len(b) <= Len(a)
<1>1. SUFFICES ASSUME Len(a) < Len(b) PROVE FALSE
  BY DEF Path
<1>. DEFINE m == Len(a)
<1>2. m \in 1..Len(a) /\ m \in 1..Len(b) /\ Len(a) <= Len(b) /\ Len(b) \in 0..Len(b) /\ Len(b) # 0
      /\ m \in 0..Len(a) /\ m # 0
  BY <1>1 DEF Path
<1>3. PICK r, d, g, s, e, z :
        Passes(f, a, m, r, d, g, y) /\ Passes(h, b, m, s, e, g, z) /\ Within(w, z)
  BY <1>2, SameField
<1>4. Placed(y) /\ Placed(w)
  BY <1>2, WalkIsGood
<1>5. y.addr[1] = Ent /\ w.addr[1] = Ent
  BY <1>4, ReferenceAt
<1>6. z.type.cat \in {"class", "pointer"} /\ h[m] = {z}
  BY <1>1, <1>3 DEF Passes
<1>7. /\ Shaped(g) /\ Placed(g) /\ Shaped(z) /\ Placed(z)
      /\ y \in Element(g, a[m].index) /\ z \in Element(g, b[m].index)
      /\ a[m].index \in Nat \cup {-1} /\ b[m].index \in Nat \cup {-1}
  BY <1>2, <1>3 DEF Passes, Steps, Path, PartSet
<1>8. z.type.cat # "pointer"
  BY <1>1, <1>2, <1>5, <1>6, BehindPointer
<1>9. z.addr[1] # Ent
  <2>1. y = g \/ (g.type.cat = "array" /\ y.type = g.type.elem)
    BY <1>5, <1>7, ElementAddress, ReferenceAt, ElementFacts
  <2>2. CASE y = g
    BY <1>6, <1>7, <1>8, <2>2, ElementAddress
  <2>3. CASE g.type.cat = "array" /\ y.type = g.type.elem
    BY <1>6, <1>7, <1>8, <2>3, ElementAddress
  <2>. QED  BY <2>1, <2>2, <2>3
<1>10. w.addr[1] # Ent
  BY <1>3, <1>9 DEF Within
<1>. QED  BY <1>5, <1>10

\* The walk of a path reads the entity's reference at an offset with part n: it looks an element
\* of that collection up, or the next part follows that pointer.
Reads(h, b, n, at) ==
    \/ /\ b[n].index # -1
       /\ \E r, d, g : /\ h[n - 1] = {r} /\ d \in Descend(r) /\ g \in AtField(d, b[n].name)
                       /\ g.type.cat = "collection" /\ g.addr[2] = at
    \/ /\ n < Len(b)
       /\ \E x : h[n] = {x} /\ x.type.cat = "pointer" /\ x.addr[2] = at

\* The first parts of a path, the last of them with another index, are a path.
LEMMA FirstParts ==
    ASSUME NEW b, Path(b), NEW h, WalkOf(h, b), NEW n \in 1..Len(b), NEW part \in PartSet
    PROVE  \E c, k : /\ Path(c) /\ Len(c) = n /\ WalkOf(k, c)
                     /\ c[n] = part /\ \A m \in 1..(n - 1) : c[m] = b[m]
                     /\ k[n] = Follow(h[n - 1], part) /\ k[n - 1] = h[n - 1]
<1>. DEFINE c == [m \in 1..n |-> IF m = n THEN part ELSE b[m]]
            k == [m \in 0..n |-> IF m = n THEN Follow(h[n - 1], part) ELSE h[m]]
<1>1. n \in Nat \ {0} /\ Len(b) \in Nat
  BY DEF Path
<1>2. /\ \A m \in 1..n : c[m] = IF m = n THEN part ELSE b[m]
      /\ \A m \in 0..n : k[m] = IF m = n THEN Follow(h[n - 1], part) ELSE h[m]
      /\ c = [m \in 1..n |-> c[m]]
  OBVIOUS
<1>. HIDE DEF c, k
<1>3. Len(c) = n /\ DOMAIN c = 1..n
  BY <1>1, <1>2, IsSequence
<1>4. ASSUME NEW m \in 1..n PROVE c[m] \in PartSet /\ k[m] = Follow(k[m - 1], c[m])
  <2>1. m \in 1..Len(b) /\ m \in 0..n /\ m - 1 \in 0..n /\ m - 1 # n
    BY <1>1
  <2>2. k[m - 1] = h[m - 1]
    BY <1>2, <2>1
  <2>3. CASE m = n
    BY <1>2, <2>1, <2>2, <2>3
  <2>4. CASE m # n
    BY <1>2, <2>1, <2>2, <2>4 DEF Path, WalkOf
  <2>. QED  BY <2>3, <2>4
<1>5. k[0] = {Start}
  BY <1>1, <1>2 DEF WalkOf
<1>6. Path(c) /\ WalkOf(k, c)
  BY <1>1, <1>3, <1>4, <1>5 DEF Path, WalkOf
<1>7. /\ c[n] = part /\ \A m \in 1..(n - 1) : c[m] = b[m]
      /\ k[n] = Follow(h[n - 1], part) /\ k[n - 1] = h[n - 1]
  BY <1>1, <1>2
<1>. QED  BY <1>3, <1>6, <1>7

\* Paths to one reference meet; a path goes to a collection without an index.
LEMMA ReferenceMeets ==
    ASSUME HeapOK, NEW a, NEW b, Path(a), Path(b), NEW f, NEW h, WalkOf(f, a), WalkOf(h, b),
           NEW y \in f[Len(a)], NEW w \in h[Len(b)], y.addr[2] = w.addr[2],
           y.type.cat \in {"pointer", "collection"}, w.type.cat \in {"pointer", "collection"}
    PROVE  /\ Len(a) = Len(b) /\ \A m \in 1..Len(a) : Agree(a, b, m)
           /\ w.type.cat = "collection" /\ b[Len(b)].index = -1 => a[Len(a)].index = -1
<1>1. Len(a) = Len(b)
  <2>1. Len(b) <= Len(a)
    BY NoLonger
  <2>2. w.addr[2] = y.addr[2]
    OBVIOUS
  <2>3. Len(a) <= Len(b)
    BY <2>2, NoLonger
  <2>4. Len(a) \in Nat /\ Len(b) \in Nat
    BY DEF Path
  <2>. QED  BY <2>1, <2>3, <2>4
<1>. DEFINE m == Len(a)
<1>2. m \in Nat \ {0} /\ m \in 1..m /\ DOMAIN a = 1..m /\ DOMAIN b = 1..m /\ m \in 0..m
  BY <1>1 DEF Path
<1>3. Placed(y) /\ Placed(w)
  BY <1>1, <1>2, WalkIsGood
<1>4. y.addr[1] = Ent /\ Overlap(y, w) /\ y.type.cat # "bits"
  BY <1>3, ReferenceAt, SamePlace
<1>5. ~Aliased(y.addr[1])
  BY <1>4, NotAliasedEntity
<1>6. Meeting(a, b)
  BY <1>4, <1>5, OverlapMeets
<1>7. ASSUME w.type.cat = "collection", b[m].index = -1 PROVE a[m].index = -1
  <2>1. PICK r, d, g, s, e, z :
          Passes(f, a, m, r, d, g, y) /\ Passes(h, b, m, s, e, g, z) /\ Within(w, z)
    BY <1>1, SameField
  <2>2. z = w
    BY <1>1, <2>1 DEF Passes
  <2>3. /\ Shaped(g) /\ Placed(g) /\ y \in Element(g, a[m].index) /\ w \in Element(g, -1)
        /\ a[m].index \in Nat \cup {-1}
    BY <1>2, <1>7, <2>1, <2>2 DEF Passes, Steps, Path, PartSet
  <2>4. w = g
    BY <2>3, ElementAddress
  <2>. QED  BY <1>4, <1>7, <2>3, <2>4, ElementFacts
<1>. QED  BY <1>1, <1>2, <1>6, <1>7 DEF Meeting

\* A path that reads what another one leads to meets it.
LEMMA ReadsMeet ==
    ASSUME HeapOK, NEW a, NEW b, Path(a), Path(b), NEW f, NEW h, WalkOf(f, a), WalkOf(h, b),
           NEW y \in f[Len(a)], y.type.cat \in {"pointer", "collection"},
           NEW n \in 1..Len(b), Reads(h, b, n, y.addr[2])
    PROVE  Meeting(a, b)
<1>1. n \in Nat \ {0} /\ b[n] \in PartSet /\ n \in 1..n /\ Len(b) \in Nat
  BY DEF Path
<1>2. \A m \in 1..n : m = n \/ m \in 1..(n - 1)
  BY <1>1
<1>3. Meeting(a, b) <=> \A m \in 1..Len(a) \cap 1..Len(b) : Agree(a, b, m)
  BY DEF Meeting, Path
<1>4. ASSUME b[n].index # -1, NEW r, NEW d, NEW g, h[n - 1] = {r}, d \in Descend(r),
             g \in AtField(d, b[n].name), g.type.cat = "collection", g.addr[2] = y.addr[2]
      PROVE  Meeting(a, b)
  <2>. DEFINE part == [b[n] EXCEPT !.index = -1]
  <2>1. part \in PartSet /\ part.name = b[n].name /\ part.index = -1
    BY <1>1 DEF PartSet
  <2>. HIDE DEF part
  <2>2. PICK c, k : /\ Path(c) /\ Len(c) = n /\ WalkOf(k, c)
                    /\ c[n] = part /\ \A m \in 1..(n - 1) : c[m] = b[m]
                    /\ k[n] = Follow(h[n - 1], part) /\ k[n - 1] = h[n - 1]
    BY <2>1, FirstParts
  <2>3. g \in k[n]
    <3>1. g \in Element(g, part.index)
      BY <2>1 DEF Element
    <3>2. Steps(r, d, g, g, part)
      BY <1>4, <2>1, <3>1 DEF Steps
    <3>3. g \in Follow({r}, part)
      BY <3>2, FollowSteps
    <3>. QED  BY <1>4, <2>2, <3>3
  <2>4. /\ Len(a) = n /\ \A m \in 1..Len(a) : Agree(a, c, m)
        /\ a[n].index = -1
    BY <1>4, <2>1, <2>2, <2>3, ReferenceMeets
  <2>5. Agree(a, b, n)
    BY <1>1, <2>1, <2>2, <2>4 DEF Agree
  <2>6. \A m \in 1..(n - 1) : Agree(a, b, m)
    BY <1>1, <2>2, <2>4 DEF Agree
  <2>. QED  BY <1>2, <1>3, <2>4, <2>5, <2>6
<1>5. ASSUME NEW x, h[n] = {x}, x.type.cat = "pointer", x.addr[2] = y.addr[2]
      PROVE  Meeting(a, b)
  <2>2. PICK c, k : /\ Path(c) /\ Len(c) = n /\ WalkOf(k, c)
                    /\ c[n] = b[n] /\ \A m \in 1..(n - 1) : c[m] = b[m]
                    /\ k[n] = Follow(h[n - 1], b[n]) /\ k[n - 1] = h[n - 1]
    BY <1>1, FirstParts
  <2>3. x \in k[n]
    BY <1>5, <2>2 DEF WalkOf
  <2>4. Len(a) = n /\ \A m \in 1..Len(a) : Agree(a, c, m)
    BY <1>5, <2>2, <2>3, ReferenceMeets
  <2>5. \A m \in 1..n : Agree(a, b, m)
    BY <1>1, <1>2, <2>2, <2>4 DEF Agree
  <2>. QED  BY <1>3, <2>4, <2>5
<1>. QED  BY <1>4, <1>5 DEF Reads

-----------------------------------------------------------------------------
(* What one change of a reference changes.                                 *)

\* All references but the one at an offset stay, with what they refer to.
OthersStay(at) ==
    \A p \in References[Root] : p[1] # at =>
        LET b == mem[Ent][p[1] + 1] IN
        /\ mem'[Ent][p[1] + 1] = b
        /\ b \in Blocks => Len(mem'[b]) = Len(mem[b])

LEMMA OtherCell ==
    ASSUME HeapOK, NEW at, OthersStay(at), NEW r, Placed(r), r.type.cat \in {"pointer", "collection"},
           r.addr[2] # at
    PROVE  /\ Cell(r.addr)' = Cell(r.addr)
           /\ r.type.cat = "collection" => Count(r.addr, r.type)' = Count(r.addr, r.type)
<1>. DEFINE p == <<r.addr[2], r.type>>
<1>1. r.addr[1] = Ent /\ p \in References[Root] /\ p[1] = r.addr[2]
  BY ReferenceAt
<1>. HIDE DEF p
<1>2. Cell(r.addr)' = Cell(r.addr) /\ Cell(r.addr) = mem[Ent][p[1] + 1]
  BY <1>1 DEF Cell, OthersStay
<1>3. Cell(r.addr) # Null => Cell(r.addr) \in Blocks
  BY ReferenceLeads DEF HeapOK
<1>4. Cell(r.addr) # Null => Len(mem'[Cell(r.addr)]) = Len(mem[Cell(r.addr)])
  BY <1>1, <1>2, <1>3 DEF OthersStay
<1>5. Count(r.addr, r.type)' = Count(r.addr, r.type)
  BY <1>2, <1>4 DEF Count
<1>. QED  BY <1>2, <1>5

\* A part that reads another reference, or none, goes where it went.
LEMMA OtherFollow ==
    ASSUME HeapOK, NEW at, OthersStay(at), NEW r, Good(r), NEW part \in PartSet,
           r.type.cat = "pointer" => r.addr[2] # at,
           part.index # -1 =>
             \A d \in Descend(r) : \A g \in AtField(d, part.name) :
                g.type.cat = "collection" => g.addr[2] # at
    PROVE  Follow({r}, part)' = Follow({r}, part)
<1>1. Descend(r)' = Descend(r)
  <2>1. r.type.cat = "pointer" => r # Start
    BY DEF Start, Embedded
  <2>2. r.type.cat = "pointer" => Cell(r.addr)' = Cell(r.addr)
    BY <2>1, OtherCell DEF Good
  <2>. QED  BY <2>2 DEF Descend
<1>2. ASSUME NEW d PROVE AtField(d, part.name)' = AtField(d, part.name)
  BY DEF AtField
<1>3. ASSUME NEW d, NEW g, d \in Descend(r), g \in AtField(d, part.name)
      PROVE  Element(g, part.index)' = Element(g, part.index)
  <2>1. Placed(g)
    BY <1>3, DescendFacts, AtFieldFacts DEF PartSet
  <2>2. CASE part.index = -1
    BY <2>2 DEF Element
  <2>3. CASE part.index # -1
    <3>1. g.type.cat = "collection" =>
            Cell(g.addr)' = Cell(g.addr) /\ Count(g.addr, g.type)' = Count(g.addr, g.type)
      BY <1>3, <2>1, <2>3, OtherCell
    <3>. QED  BY <3>1 DEF Element
  <2>. QED  BY <2>2, <2>3
<1>4. ASSUME NEW d, NEW g, NEW y PROVE Steps(r, d, g, y, part)' <=> Steps(r, d, g, y, part)
  BY <1>1, <1>2, <1>3 DEF Steps
<1>5. ASSUME NEW y PROVE y \in Follow({r}, part)' <=> \E d, g : Steps(r, d, g, y, part)'
  BY DEF Follow, Steps
<1>6. ASSUME NEW y PROVE y \in Follow({r}, part) <=> \E d, g : Steps(r, d, g, y, part)
  BY DEF Follow, Steps
<1>7. ASSUME NEW y PROVE y \in Follow({r}, part)' <=> y \in Follow({r}, part)
  BY <1>4, <1>5, <1>6
<1>. QED  BY <1>7

\* A walk before and after the change differs only once it has read the reference.
LEMMA ChangeIsRead ==
    ASSUME HeapOK, NEW at, OthersStay(at), NEW b, Path(b), NEW h, WalkOf(h, b),
           NEW k, WalkOf(k, b)', h[Len(b)] # k[Len(b)]
    PROVE  \E m \in 1..Len(b) : Reads(h, b, m, at) /\ h[m - 1] = k[m - 1]
<1>. DEFINE N == Len(b)
            Read(n) == \E m \in 1..n : Reads(h, b, m, at) /\ h[m - 1] = k[m - 1]
            Same(n) == \A m \in 0..n : h[m] = k[m]
            T == {n \in 0..N : Read(n) \/ Same(n)}
<1>1. N \in Nat \ {0} /\ \A n \in 1..N : b[n] \in PartSet
  BY DEF Path
<1>2. h[0] = {Start} /\ \A n \in 1..N : h[n] = Follow(h[n - 1], b[n])
  BY DEF WalkOf
<1>3. k[0] = {Start} /\ \A n \in 1..N : k[n] = Follow(k[n - 1], b[n])'
  BY DEF WalkOf
<1>4. \A n \in 0..N : GoodSet(h[n])
  BY WalkIsGood
<1>5. 0 \in T
  <2>1. 0 \in 0..N /\ 0..0 = {0} /\ h[0] = k[0]
    BY <1>1, <1>2, <1>3
  <2>2. Same(0)
    BY <2>1
  <2>. HIDE DEF Read, Same
  <2>. QED  BY <2>1, <2>2
<1>6. ASSUME NEW n \in 0..(N - 1), n \in T PROVE n + 1 \in T
  <2>1. n + 1 \in 1..N /\ (n + 1) - 1 = n /\ n + 1 \in 0..N /\ n \in 0..N /\ n < N /\ n \in Nat
    BY <1>1
  <2>2. CASE Read(n)
    <3>1. \A m \in 1..n : m \in 1..(n + 1)
      BY <2>1
    <3>2. Read(n + 1)
      BY <2>2, <3>1
    <3>. HIDE DEF Read, Same
    <3>. QED  BY <2>1, <3>2
  <2>3. CASE Same(n) /\ ~Read(n)
    <3>1. h[n] = k[n] /\ (n # 0 => h[n - 1] = k[n - 1] /\ n \in 1..n)
      BY <2>1, <2>3
    <3>2. PICK part \in PartSet : part = b[n + 1]
      BY <1>1, <2>1
    <3>3. h[n + 1] = Follow(h[n], part)
      BY <1>2, <2>1, <3>2
    <3>4. k[n + 1] = Follow(h[n], part)'
      <4>1. k[n + 1] = Follow(k[n], b[n + 1])'
        BY <1>3, <2>1
      <4>. QED  BY <3>1, <3>2, <4>1
    <3>5. CASE h[n] = {}
      <4>1. Follow(h[n], part) = {} /\ Follow(h[n], part)' = {}
        BY <3>5 DEF Follow
      <4>2. h[n + 1] = k[n + 1]
        BY <3>3, <3>4, <4>1
      <4>3. \A m \in 0..(n + 1) : m \in 0..n \/ m = n + 1
        BY <2>1
      <4>4. Same(n + 1)
        BY <2>3, <4>2, <4>3
      <4>. HIDE DEF Read, Same
      <4>. QED  BY <2>1, <4>4
    <3>6. ASSUME NEW r, r \in h[n] PROVE n + 1 \in T
      <4>1. h[n] = {r} /\ Good(r)
        BY <1>4, <2>1, <3>6 DEF GoodSet
      <4>2. CASE r.type.cat = "pointer" /\ r.addr[2] = at
        <5>1. n # 0
          BY <1>2, <4>1, <4>2 DEF Start, Embedded
        <5>2. Reads(h, b, n, at)
          BY <2>1, <4>1, <4>2 DEF Reads
        <5>. QED  BY <2>3, <3>1, <5>1, <5>2
      <4>3. CASE /\ part.index # -1
                 /\ \E d \in Descend(r) : \E g \in AtField(d, part.name) :
                       g.type.cat = "collection" /\ g.addr[2] = at
        <5>1. Reads(h, b, n + 1, at)
          BY <2>1, <3>2, <4>1, <4>3 DEF Reads
        <5>2. n + 1 \in 1..(n + 1) /\ h[(n + 1) - 1] = k[(n + 1) - 1]
          BY <2>1, <3>1
        <5>3. Read(n + 1)
          BY <5>1, <5>2
        <5>. HIDE DEF Read, Same
        <5>. QED  BY <2>1, <5>3
      <4>4. CASE /\ ~(r.type.cat = "pointer" /\ r.addr[2] = at)
                 /\ ~(/\ part.index # -1
                      /\ \E d \in Descend(r) : \E g \in AtField(d, part.name) :
                            g.type.cat = "collection" /\ g.addr[2] = at)
        <5>1. Follow({r}, part)' = Follow({r}, part)
          BY <4>1, <4>4, OtherFollow
        <5>2. h[n + 1] = k[n + 1]
          BY <3>3, <3>4, <4>1, <5>1
        <5>3. \A m \in 0..(n + 1) : m \in 0..n \/ m = n + 1
          BY <2>1
        <5>4. Same(n + 1)
          BY <2>3, <5>2, <5>3
        <5>. HIDE DEF Read, Same
        <5>. QED  BY <2>1, <5>4
      <4>. QED  BY <4>2, <4>3, <4>4
    <3>. HIDE DEF T
    <3>. QED  BY <3>5, <3>6
  <2>4. Read(n) \/ Same(n)
    BY <1>6
  <2>. HIDE DEF Read, Same, T
  <2>. QED  BY <2>2, <2>3, <2>4
<1>7. N \in T
  <2>. HIDE DEF T
  <2>1. 0..N \subseteq T
    BY <1>1, <1>5, <1>6, UpTo
  <2>. QED  BY <1>1, <2>1
<1>8. ~Same(N)
  BY <1>1
<1>. QED  BY <1>7, <1>8

\* Parts of two sequences.
LEMMA SamePiece ==
    ASSUME NEW s, NEW t, NEW m \in Int, NEW n \in Int, \A k \in m..n : s[k] = t[k]
    PROVE  SubSeq(s, m, n) = SubSeq(t, m, n)
<1>. DEFINE S == {s[k] : k \in m..n}
            x == SubSeq(s, m, n)
            y == SubSeq(t, m, n)
<1>1. \A k \in m..n : s[k] \in S /\ t[k] \in S
  OBVIOUS
<1>. HIDE DEF S
<1>2. /\ x \in Seq(S) /\ Len(x) = (IF m <= n THEN n - m + 1 ELSE 0)
      /\ \A i \in 1..(n - m + 1) : x[i] = s[m + i - 1]
  BY <1>1, SubSeqProperties
<1>3. /\ y \in Seq(S) /\ Len(y) = (IF m <= n THEN n - m + 1 ELSE 0)
      /\ \A i \in 1..(n - m + 1) : y[i] = t[m + i - 1]
  BY <1>1, SubSeqProperties
<1>. HIDE DEF x, y
<1>4. \A i \in 1..Len(x) : x[i] = y[i]
  <2>1. SUFFICES ASSUME NEW i \in 1..Len(x) PROVE x[i] = y[i]
    OBVIOUS
  <2>2. i \in 1..(n - m + 1) /\ m + i - 1 \in m..n
    BY <1>2
  <2>. QED  BY <1>2, <1>3, <2>2
<1>5. x = y
  BY <1>2, <1>3, <1>4, SeqEqual
<1>. QED  BY <1>5 DEF x, y

\* Cells of a place that have changed are cells of the place that was written.
LEMMA ChangeOverlaps ==
    ASSUME HeapOK, NEW y, Placed(y), NEW cells, DOMAIN cells \subseteq 1..y.type.size,
           Written(y.addr, cells), NEW w, Placed(w), Cells(w.addr, w.type.size)' # Cells(w.addr, w.type.size)
    PROVE  Overlap(y, w)
<1>. DEFINE m == w.addr[2] + 1
            n == w.addr[2] + w.type.size
<1>1. /\ Numbered(y) /\ Numbered(w) /\ w.addr[1] \in Blocks
      /\ w.addr[2] + w.type.size <= Len(mem[w.addr[1]])
      /\ Len(mem[w.addr[1]]) \in Nat
  BY PlacedIsNumbered, BlockFacts DEF Placed, Inside, HeapOK
<1>2. PICK k \in m..n : mem'[w.addr[1]][k] # mem[w.addr[1]][k]
  <2>1. m \in Int /\ n \in Int
    BY <1>1 DEF Numbered
  <2>. HIDE DEF m, n
  <2>2. SubSeq(mem'[w.addr[1]], m, n) # SubSeq(mem[w.addr[1]], m, n)
    BY DEF Cells, m, n
  <2>. QED  BY <2>1, <2>2, SamePiece
<1>3. w.addr[1] = y.addr[1]
  BY <1>1, <1>2 DEF Written
<1>4. k \in 1..Len(mem[y.addr[1]])
  BY <1>1, <1>2, <1>3 DEF Numbered
<1>5. k - y.addr[2] \in DOMAIN cells
  BY <1>2, <1>3, <1>4 DEF Written
<1>6. k - 1 \in Nat /\ /\ y.addr[2] <= k - 1 /\ k - 1 < y.addr[2] + y.type.size
                       /\ w.addr[2] <= k - 1 /\ k - 1 < w.addr[2] + w.type.size
  BY <1>1, <1>2, <1>5 DEF Numbered
<1>. QED  BY <1>3, <1>6 DEF Overlap

-----------------------------------------------------------------------------
(* What a write changes.                                                   *)

\* What get_raw finds changes with the path or with cells.
LEMMA RawChange ==
    ASSUME NEW q, Resolve(q)' = Resolve(q), GetRaw(q)' # GetRaw(q)
    PROVE  \E w \in Resolve(q) : Cells(w.addr, w.type.size)' # Cells(w.addr, w.type.size)
<1>. DEFINE R == {x \in Resolve(q) : x.type.cat # "collection"}
<1>1. SUFFICES ASSUME \A w \in Resolve(q) : Cells(w.addr, w.type.size)' = Cells(w.addr, w.type.size)
               PROVE  FALSE
  OBVIOUS
<1>2. GetRaw(q) = {Cells(w.addr, w.type.size) : w \in R}
  BY DEF GetRaw
<1>3. GetRaw(q)' = {Cells(w.addr, w.type.size)' : w \in {x \in Resolve(q)' : x.type.cat # "collection"}}
  BY DEF GetRaw
<1>4. {x \in Resolve(q)' : x.type.cat # "collection"} = R
  OBVIOUS
<1>5. {Cells(w.addr, w.type.size)' : w \in R} = {Cells(w.addr, w.type.size) : w \in R}
  BY <1>1
<1>. QED  BY <1>2, <1>3, <1>4, <1>5

LEMMA PointerWriteKeepsOthers ==
    ASSUME HeapOK, NEW y, Placed(y), y.type.cat = "pointer", Written(y.addr, <<Null>>)
    PROVE  OthersStay(y.addr[2])
<1>1. y.addr[1] = Ent /\ y.addr[2] \in Nat
  BY ReferenceAt DEF Placed, Inside
<1>2. ASSUME NEW p \in References[Root], p[1] # y.addr[2]
      PROVE  mem'[Ent][p[1] + 1] = mem[Ent][p[1] + 1]
  <2>1. p[1] \in Nat /\ p[1] + 1 \in 1..Len(mem[Ent])
    BY ReferenceCells
  <2>. DEFINE k == (p[1] + 1) - y.addr[2]
              cells == <<Null>>
  <2>2. mem'[Ent][p[1] + 1] = IF k \in DOMAIN cells THEN cells[k] ELSE mem[Ent][p[1] + 1]
    BY <1>1, <2>1 DEF Written
  <2>3. DOMAIN cells = {1} /\ k # 1
    BY <1>1, <1>2, <2>1
  <2>. QED  BY <2>2, <2>3
<1>3. \A b \in Blocks : Len(mem'[b]) = Len(mem[b])
  BY DEF Written
<1>. QED  BY <1>2, <1>3 DEF OthersStay

LEMMA MeetingIsMeet ==
    ASSUME NEW p, NEW q
    PROVE  Meet(p, q) <=> Meeting(Parts(p), Parts(q))
BY DEF Meet, Meeting, Agree

LEMMA AliasedIsSameObject ==
    ASSUME NEW p, NEW q, NEW y \in Resolve(p), NEW w \in Resolve(q), y.addr[1] = w.addr[1],
           Aliased(y.addr[1])
    PROVE  SameObject(p, q)
BY DEF SameObject, Aliased

\* What a resolution has found before and after a step, and that it has not failed.
LEMMA WalksOf ==
    ASSUME NEW q \in Requests, Resolve(q) # {} \/ Resolve(q)' # {}
    PROVE  \E h, k : /\ WalkOf(h, Parts(q)) /\ Resolve(q) = h[Len(Parts(q))]
                     /\ WalkOf(k, Parts(q))' /\ Resolve(q)' = k[Len(Parts(q))]
<1>1. PICK h : WalkOf(h, Parts(q)) /\ Resolve(q) = Found(h, q)
  BY ResolveWalk
<1>2. PICK k : WalkOf(k, Parts(q))' /\ Resolve(q)' = Found(k, q)
  BY ResolveWalkNext
<1>3. ~Contradicts(q)
  BY <1>1, <1>2 DEF Found
<1>. QED  BY <1>1, <1>2, <1>3 DEF Found

LEMMA WalkOfRequest ==
    ASSUME NEW p \in Requests, NEW y \in Resolve(p)
    PROVE  \E f : WalkOf(f, Parts(p)) /\ y \in f[Len(Parts(p))]
<1>1. PICK f : WalkOf(f, Parts(p)) /\ Resolve(p) = Found(f, p)
  BY ResolveWalk
<1>. QED  BY <1>1 DEF Found

\* Cells that two requests share.
LEMMA SharedMeet ==
    ASSUME HeapOK, NEW p \in Requests, NEW q \in Requests, NEW y \in Resolve(p), NEW w \in Resolve(q),
           Overlap(y, w), y.type.cat # "bits"
    PROVE  Meet(p, q) \/ (Aliased(y.addr[1]) /\ SameObject(p, q))
<1>1. CASE Aliased(y.addr[1])
  BY <1>1, AliasedIsSameObject DEF Overlap
<1>2. CASE ~Aliased(y.addr[1])
  <2>1. PICK f : WalkOf(f, Parts(p)) /\ y \in f[Len(Parts(p))]
    BY WalkOfRequest
  <2>2. PICK h : WalkOf(h, Parts(q)) /\ w \in h[Len(Parts(q))]
    BY WalkOfRequest
  <2>3. Path(Parts(p)) /\ Path(Parts(q))
    BY PartsFacts
  <2>4. Meeting(Parts(p), Parts(q))
    BY <1>2, <2>1, <2>2, <2>3, OverlapMeets
  <2>. QED  BY <2>4, MeetingIsMeet
<1>. QED  BY <1>1, <1>2

\* A resolution that a change of a reference changes has read it.
LEMMA ResolveChangeMeets ==
    ASSUME HeapOK, NEW p \in Requests, NEW q \in Requests, NEW y \in Resolve(p),
           y.type.cat \in {"pointer", "collection"}, OthersStay(y.addr[2]), Resolve(q)' # Resolve(q)
    PROVE  Meet(p, q)
<1>1. PICK f : WalkOf(f, Parts(p)) /\ y \in f[Len(Parts(p))]
  BY WalkOfRequest
<1>2. PICK h, k : /\ WalkOf(h, Parts(q)) /\ Resolve(q) = h[Len(Parts(q))]
                  /\ WalkOf(k, Parts(q))' /\ Resolve(q)' = k[Len(Parts(q))]
  BY WalksOf
<1>3. Path(Parts(p)) /\ Path(Parts(q))
  BY PartsFacts
<1>. DEFINE b == Parts(q)
            a == Parts(p)
<1>4. PICK m \in 1..Len(b) : Reads(h, b, m, y.addr[2])
  <2>1. h[Len(b)] # k[Len(b)]
    BY <1>2
  <2>. QED  BY <1>2, <1>3, <2>1, ChangeIsRead
<1>5. Meeting(a, b)
  <2>. HIDE DEF a, b
  <2>. QED  BY <1>1, <1>2, <1>3, <1>4, ReadsMeet DEF a, b
<1>. QED  BY <1>5, MeetingIsMeet

LEMMA WriteMeets ==
    ASSUME HeapOK, NEW p \in Requests, NEW q \in Requests, NEW y \in Resolve(p), y.type.cat # "bits",
           NEW cells, Harmless(y, cells), Write(y.addr, cells), GetRaw(q)' # GetRaw(q)
    PROVE  Meet(p, q) \/ SameObject(p, q)
<1>1. Placed(y) /\ y.addr[1] \in Blocks
  BY ResolveFacts DEF Placed, Inside, HeapOK
<1>2. Written(y.addr, cells)
  BY <1>1, WriteFacts DEF HeapOK
<1>3. CASE Resolve(q)' = Resolve(q)
  <2>1. PICK w \in Resolve(q) : Cells(w.addr, w.type.size)' # Cells(w.addr, w.type.size)
    BY <1>3, RawChange
  <2>2. Placed(w)
    BY ResolveFacts
  <2>3. Overlap(y, w)
    BY <1>1, <1>2, <2>1, <2>2, ChangeOverlaps DEF Harmless
  <2>. QED  BY <2>3, SharedMeet
<1>4. CASE Resolve(q)' # Resolve(q)
  <2>1. RefsOf(y.type) # {}
    <3>1. SUFFICES ASSUME RefsOf(y.type) = {} PROVE FALSE
      OBVIOUS
    <3>2. SameReferences
      BY <1>1, <3>1, WriteOutsideReferences DEF Harmless
    <3>. QED  BY <1>4, <3>2, SameResolve
  <2>2. y.type.cat = "pointer" /\ cells = <<Null>>
    BY <2>1 DEF Harmless
  <2>3. OthersStay(y.addr[2])
    BY <1>1, <1>2, <2>2, PointerWriteKeepsOthers
  <2>. QED  BY <1>4, <2>2, <2>3, ResolveChangeMeets
<1>. QED  BY <1>3, <1>4

-----------------------------------------------------------------------------
(* What a resize changes.                                                  *)

\* The header of the collection, and storage that nobody had; the elements that remain
\* are in it.
Reallocated(y, n, b) ==
    LET old == IF Cell(y.addr) = Null THEN <<>> ELSE mem[Cell(y.addr)]
    IN  /\ b \notin live /\ Cell(y.addr)' = b
        /\ \A x \in Blocks : x # b /\ x # Ent => mem'[x] = mem[x]
        /\ \A k \in 1..Len(mem[Ent]) : k # y.addr[2] + 1 => mem'[Ent][k] = mem[Ent][k]
        /\ live' = (live \ {Cell(y.addr)}) \cup ({b} \ {Null})
        /\ b \in Blocks =>
             \A k \in 1..(n * y.type.elem.size) : k <= Len(old) => mem'[b][k] = old[k]
        /\ b \in Blocks => DOMAIN mem'[b] = 1..(n * y.type.elem.size)

LEMMA ReallocateFacts ==
    ASSUME HeapOK, NEW y, Placed(y), y.type.cat = "collection", NEW n \in Nat,
           NEW b \in Blocks \cup {Null}, Reallocate(y.addr, y.type, n, b)
    PROVE  Reallocated(y, n, b)
<1>. DEFINE a == y.addr
            t == y.type
            old == IF Cell(a) = Null THEN <<>> ELSE mem[Cell(a)]
            new == [k \in 1..(n * t.elem.size) |-> IF k <= Len(old) THEN old[k] ELSE 0]
            header == [mem[Ent] EXCEPT ![a[2] + 1] = b]
<1>1. a[1] = Ent /\ a[2] \in Nat /\ <<a[2], t>> \in References[Root]
  BY ReferenceAt DEF Placed, Inside
<1>2. /\ b \in IF n = 0 THEN {Null} ELSE Blocks \ live
      /\ live' = (live \ {Cell(a)}) \cup ({b} \ {Null})
      /\ mem' = [x \in Blocks |-> IF x = b THEN new ELSE IF x = Ent THEN header ELSE mem[x]]
  BY <1>1 DEF Reallocate
<1>3. Ent \in Blocks /\ Null \notin Blocks /\ Ent \in live /\ live \subseteq Blocks /\ b # Ent /\ b \notin live
  BY <1>2, BoundsAssumption DEF HeapOK
<1>4. a[2] + 1 \in 1..Len(mem[Ent]) /\ DOMAIN mem[Ent] = 1..Len(mem[Ent])
  <2>. DEFINE p == <<a[2], t>>
  <2>1. p \in References[Root] /\ p[1] = a[2]
    BY <1>1
  <2>. HIDE DEF p
  <2>2. a[2] + 1 \in 1..Len(mem[Ent])
    BY <2>1, ReferenceCells
  <2>. QED  BY <1>3, <2>2, BlockFacts DEF HeapOK
<1>5. header[a[2] + 1] = b /\ \A k \in 1..Len(mem[Ent]) : k # a[2] + 1 => header[k] = mem[Ent][k]
  BY <1>4
<1>6. \A k \in 1..(n * t.elem.size) : k <= Len(old) => new[k] = old[k]
  OBVIOUS
<1>7. DOMAIN new = 1..(n * t.elem.size)
  OBVIOUS
<1>. HIDE DEF new, header, old
<1>8. /\ mem'[Ent] = header
      /\ \A x \in Blocks : x # b /\ x # Ent => mem'[x] = mem[x]
      /\ b \in Blocks => mem'[b] = new
  BY <1>2, <1>3
<1>9. Cell(a)' = b
  BY <1>1, <1>5, <1>8 DEF Cell
<1>10. \A k \in 1..Len(mem[Ent]) : k # a[2] + 1 => mem'[Ent][k] = mem[Ent][k]
  BY <1>5, <1>8
<1>. QED  BY <1>2, <1>3, <1>6, <1>7, <1>8, <1>9, <1>10 DEF Reallocated, old

LEMMA ReallocateKeepsOthers ==
    ASSUME HeapOK, NEW y, Placed(y), y.type.cat = "collection", NEW n, NEW b, Reallocated(y, n, b)
    PROVE  OthersStay(y.addr[2])
<1>1. ASSUME NEW p \in References[Root], p[1] # y.addr[2]
      PROVE  LET x == mem[Ent][p[1] + 1] IN
             mem'[Ent][p[1] + 1] = x /\ (x \in Blocks => Len(mem'[x]) = Len(mem[x]))
  <2>. DEFINE x == mem[Ent][p[1] + 1]
  <2>1. p[1] \in Nat /\ p[1] + 1 \in 1..Len(mem[Ent]) /\ y.addr[2] \in Nat
    BY ReferenceCells DEF Placed, Inside
  <2>2. mem'[Ent][p[1] + 1] = x
    BY <1>1, <2>1 DEF Reallocated
  <2>3. x \in Blocks => x \in live \ {Ent}
    BY BoundsAssumption DEF HeapOK, ReferencesLead
  <2>. HIDE DEF x
  <2>4. x \in Blocks => mem'[x] = mem[x]
    BY <2>3 DEF Reallocated
  <2>. QED  BY <2>2, <2>4 DEF x
<1>. QED  BY <1>1 DEF OthersStay

\* The same element, in the storage b before and in c after.
Moved(x, z, b, c) ==
    /\ x.addr[1] = b /\ z.addr[1] = c /\ z.addr[2] = x.addr[2] /\ z.type = x.type
    /\ Shaped(z) /\ Placed(x)

LEMMA MovedFirst ==
    ASSUME HeapOK, NEW g, Shaped(g), Placed(g), g.type.cat = "collection", NEW i \in Nat,
           NEW x \in Element(g, i), NEW z, z \in Element(g, i)'
    PROVE  Moved(x, z, Cell(g.addr), Cell(g.addr)')
<1>. DEFINE n == g.type.elem.size
<1>1. i # -1 /\ g.type.cat # "array"
  OBVIOUS
<1>2. x = [g EXCEPT !.addr = <<Cell(g.addr), i * n>>, !.type = @.elem,
                    !.index = IF g.depth = 1 THEN i ELSE @]
  BY <1>1 DEF Element
<1>3. z = [g EXCEPT !.addr = <<Cell(g.addr)', i * n>>, !.type = @.elem,
                    !.index = IF g.depth = 1 THEN i ELSE @]
  BY <1>1 DEF Element
<1>4. x.addr = <<Cell(g.addr), i * n>> /\ x.type = g.type.elem
  BY <1>2 DEF Shaped
<1>5. z.addr = <<Cell(g.addr)', i * n>> /\ z.type = g.type.elem /\ Shaped(z)
  BY <1>3 DEF Shaped
<1>6. Placed(x)
  BY ElementFacts
<1>. QED  BY <1>4, <1>5, <1>6 DEF Moved

LEMMA MovedNext ==
    ASSUME HeapOK, NEW r, NEW s, NEW b, NEW c, b # Ent, Good(r), Moved(r, s, b, c), NEW part \in PartSet,
           NEW x \in Follow({r}, part), NEW z, z \in Follow({s}, part)'
    PROVE  Moved(x, z, b, c)
<1>0. part.name \in Names /\ part.index \in Nat \cup {-1}
  BY DEF PartSet
<1>1. r.type.cat \notin {"pointer", "collection"}
  BY ReferenceAt DEF Moved
<1>2. PICK d, g : Steps(r, d, g, x, part)
  <2>1. PICK r0, d, g : r0 \in {r} /\ Steps(r0, d, g, x, part)
    BY FollowSteps
  <2>. QED  BY <2>1
<1>3. PICK e, k : e \in Descend(s)' /\ k \in AtField(e, part.name) /\ z \in Element(k, part.index)'
  <2>1. \A e : AtField(e, part.name)' = AtField(e, part.name)
    BY DEF AtField
  <2>2. PICK e, k : e \in Descend(s)' /\ k \in AtField(e, part.name)' /\ z \in Element(k, part.index)'
    BY DEF Follow
  <2>. QED  BY <2>1, <2>2
<1>4. d = r /\ e = s /\ r.type.cat = "class"
  BY <1>1, <1>2, <1>3 DEF Steps, Descend, Moved
<1>5. /\ Shaped(r) /\ ObjectAt(r.type.class, r.addr) /\ Shaped(g) /\ Placed(g) /\ Placed(x)
      /\ g.addr[1] = r.addr[1] /\ g \in AtField(r, part.name) /\ x \in Element(g, part.index)
  BY <1>2, <1>4, StepsFacts DEF Steps
<1>6. PICK f : f \in FindField[part.name][r.type.class] /\
               g = [r EXCEPT !.addr = <<@[1], @[2] + f.offset>>, !.type = f.type, !.depth = @ + 1,
                             !.root = IF r.depth = 0 THEN f.offset ELSE @]
  BY <1>5 DEF AtField
<1>7. PICK f2 : f2 \in FindField[part.name][r.type.class] /\
               k = [s EXCEPT !.addr = <<@[1], @[2] + f2.offset>>, !.type = f2.type, !.depth = @ + 1,
                             !.root = IF s.depth = 0 THEN f2.offset ELSE @]
  BY <1>3, <1>4 DEF AtField, Moved
<1>8. f = f2
  BY <1>0, <1>5, <1>6, <1>7, LayoutAssumption DEF ObjectAt
<1>9. g.addr = <<r.addr[1], r.addr[2] + f.offset>> /\ g.type = f.type
  BY <1>5, <1>6 DEF Shaped
<1>10. k.addr = <<s.addr[1], s.addr[2] + f.offset>> /\ k.type = f.type /\ Shaped(k)
  BY <1>7, <1>8 DEF Shaped, Moved
<1>11. k.addr[1] = c /\ k.addr[2] = g.addr[2] /\ k.type = g.type /\ g.addr[1] = b
  BY <1>9, <1>10 DEF Moved
<1>12. g.type.cat # "collection"
  BY <1>5, <1>11, ReferenceAt
<1>13. CASE part.index = -1
  <2>1. x = g /\ z = k
    BY <1>3, <1>5, <1>13 DEF Element
  <2>. QED  BY <1>5, <1>10, <1>11, <2>1 DEF Moved
<1>14. CASE part.index # -1
  <2>. DEFINE i == part.index
              n == g.type.elem.size
  <2>1. x = [g EXCEPT !.addr = <<g.addr[1], g.addr[2] + i * n>>, !.type = @.elem,
                      !.index = IF g.depth = 1 THEN i ELSE @]
    BY <1>5, <1>12, <1>14 DEF Element
  <2>2. z = [k EXCEPT !.addr = <<k.addr[1], k.addr[2] + i * n>>, !.type = @.elem,
                      !.index = IF k.depth = 1 THEN i ELSE @]
    BY <1>3, <1>11, <1>12, <1>14 DEF Element
  <2>3. x.addr = <<g.addr[1], g.addr[2] + i * n>> /\ x.type = g.type.elem
    BY <1>5, <2>1 DEF Shaped
  <2>4. z.addr = <<k.addr[1], k.addr[2] + i * n>> /\ z.type = k.type.elem /\ Shaped(z)
    BY <1>10, <2>2 DEF Shaped
  <2>. QED  BY <1>5, <1>11, <2>3, <2>4 DEF Moved
<1>. QED  BY <1>13, <1>14

\* A path into the storage leads to the same element as before, if to any.
LEMMA MovedWalk ==
    ASSUME HeapOK, NEW b, NEW c, b # Ent, NEW a, Path(a), NEW h, WalkOf(h, a), NEW k, WalkOf(k, a)',
           NEW m \in 1..Len(a), \A x \in h[m] : \A z \in k[m] : Moved(x, z, b, c)
    PROVE  \A x \in h[Len(a)] : \A z \in k[Len(a)] : Moved(x, z, b, c)
<1>. DEFINE N == Len(a)
            T == {n \in 0..N : n >= m => \A x \in h[n] : \A z \in k[n] : Moved(x, z, b, c)}
<1>1. N \in Nat \ {0} /\ m \in Nat \ {0} /\ m <= N /\ \A n \in 1..N : a[n] \in PartSet
  BY DEF Path
<1>2. \A n \in 1..N : h[n] = Follow(h[n - 1], a[n])
  BY DEF WalkOf
<1>3. \A n \in 1..N : k[n] = Follow(k[n - 1], a[n])'
  BY DEF WalkOf
<1>4. \A n \in 0..N : GoodSet(h[n])
  BY WalkIsGood
<1>5. 0 \in T
  BY <1>1
<1>6. ASSUME NEW n \in 0..(N - 1), n \in T PROVE n + 1 \in T
  <2>1. n + 1 \in 1..N /\ (n + 1) - 1 = n /\ n + 1 \in 0..N /\ n \in 0..N
    BY <1>1
  <2>2. CASE n + 1 = m
    BY <2>1, <2>2
  <2>3. CASE n + 1 < m
    BY <1>1, <2>1, <2>3
  <2>4. CASE n + 1 > m
    <3>1. n >= m
      BY <1>1, <2>1, <2>4
    <3>2. ASSUME NEW x \in h[n + 1], NEW z \in k[n + 1] PROVE Moved(x, z, b, c)
      <4>1. PICK part \in PartSet : part = a[n + 1]
        BY <1>1, <2>1
      <4>2. h[n + 1] = Follow(h[n], part)
        BY <1>2, <2>1, <4>1
      <4>3. k[n + 1] = Follow(k[n], part)'
        <5>1. k[n + 1] = Follow(k[n], a[n + 1])'
          BY <1>3, <2>1
        <5>. QED  BY <4>1, <5>1
      <4>4. PICK r : r \in h[n] /\ x \in Follow({r}, part)
        BY <4>2 DEF Follow
      <4>5. PICK s : s \in k[n] /\ z \in Follow({s}, part)'
        BY <4>3 DEF Follow
      <4>6. Good(r) /\ Moved(r, s, b, c)
        BY <1>4, <1>6, <2>1, <3>1, <4>4, <4>5 DEF GoodSet
      <4>. QED  BY <4>4, <4>5, <4>6, MovedNext
    <3>. QED  BY <2>1, <3>2
  <2>. QED  BY <1>1, <2>2, <2>3, <2>4
<1>7. N \in T
  <2>. HIDE DEF T
  <2>1. 0..N \subseteq T
    BY <1>1, <1>5, <1>6, UpTo
  <2>. QED  BY <1>1, <2>1
<1>. QED  BY <1>1, <1>7

LEMMA InsideNext ==
    HeapOK' => \A q \in Requests : \A r \in Resolve(q)' : Inside(r)'
<1>1. (HeapOK => \A q \in Requests : \A r \in Resolve(q) :
                    Shaped(r) /\ Placed(r) /\ Resolve(q) = {r})'
  BY ResolveFacts, PTL
<1>2. \A r : Placed(r)' => Inside(r)'
  BY DEF Placed
<1>. QED  BY <1>1, <1>2

\* A path that goes to an element of the collection finds the same cells after the
\* resize, if it finds any before and after.
LEMMA ElementsRemain ==
    ASSUME HeapOK, HeapOK', NEW q \in Requests, NEW y, Placed(y), y.type.cat = "collection",
           NEW n \in Nat, NEW b \in Blocks \cup {Null}, Reallocated(y, n, b),
           NEW h, WalkOf(h, Parts(q)), NEW k, WalkOf(k, Parts(q))',
           NEW m \in 1..Len(Parts(q)), Reads(h, Parts(q), m, y.addr[2]), h[m - 1] = k[m - 1],
           NEW w, Resolve(q) = {w}, w \in h[Len(Parts(q))],
           NEW z, Resolve(q)' = {z}, z \in k[Len(Parts(q))]
    PROVE  GetRaw(q)' = GetRaw(q)
<1>. DEFINE a == Parts(q)
<1>1. Path(a) /\ Len(a) \in Nat /\ \A j \in 1..Len(a) : a[j] \in PartSet
  BY PartsFacts DEF Path
<1>2. m \in Nat \ {0} /\ m - 1 \in 0..Len(a) /\ m \in 0..Len(a)
  BY <1>1
<1>3. \A j \in 0..Len(a) : GoodSet(h[j]) /\ (j # 0 => \A r \in h[j] : Placed(r))
  BY <1>1, WalkIsGood
<1>4. PICK part \in PartSet : part = a[m]
  BY <1>1
<1>5. part.name \in Names /\ part.index \in Nat \cup {-1}
  BY DEF PartSet
<1>. DEFINE p == <<y.addr[2], y.type>>
<1>6. p \in References[Root] /\ p[1] = y.addr[2] /\ p[2] = y.type /\ y.addr[1] = Ent
  BY ReferenceAt
<1>. HIDE DEF a, p
<1>7. ~(\E x : h[m] = {x} /\ x.type.cat = "pointer" /\ x.addr[2] = y.addr[2])
  <2>1. SUFFICES ASSUME NEW x, h[m] = {x}, x.type.cat = "pointer", x.addr[2] = y.addr[2] PROVE FALSE
    OBVIOUS
  <2>2. Placed(x)
    BY <1>2, <1>3, <2>1
  <2>3. x.type = y.type
    BY <2>1, <2>2, SamePlace
  <2>. QED  BY <2>1, <2>3
<1>8. PICK r, d, g : /\ h[m - 1] = {r} /\ d \in Descend(r) /\ g \in AtField(d, part.name)
                     /\ g.type.cat = "collection" /\ g.addr[2] = y.addr[2] /\ part.index # -1
  BY <1>4, <1>7 DEF Reads, a
<1>9. Good(r)
  BY <1>2, <1>3, <1>8 DEF GoodSet
<1>10. Shaped(g) /\ Placed(g)
  BY <1>5, <1>8, <1>9, DescendFacts, AtFieldFacts
<1>11. g.addr[1] = Ent /\ Cell(g.addr) = Cell(y.addr) /\ Cell(g.addr)' = b
  <2>1. g.addr[1] = Ent
    BY <1>8, <1>10, ReferenceAt
  <2>2. Cell(g.addr) = Cell(y.addr) /\ Cell(g.addr)' = Cell(y.addr)'
    BY <1>6, <1>8, <2>1 DEF Cell
  <2>. QED  BY <2>1, <2>2 DEF Reallocated
<1>12. g.type = y.type
  BY <1>8, <1>10, SamePlace
<1>13. \A x \in h[m] : \A u \in k[m] : Moved(x, u, Cell(y.addr), b)
  <2>1. SUFFICES ASSUME NEW x \in h[m], NEW u \in k[m] PROVE Moved(x, u, Cell(y.addr), b)
    OBVIOUS
  <2>2. h[m] = Follow({r}, part)
    BY <1>4, <1>8 DEF WalkOf, a
  <2>3. k[m] = Follow({r}, part)'
    <3>1. k[m] = Follow(k[m - 1], a[m])'
      BY DEF WalkOf, a
    <3>2. k[m - 1] = {r}
      BY <1>8
    <3>. QED  BY <1>4, <3>1, <3>2
  <2>4. Descend(r) = {d} /\ AtField(d, part.name) = {g}
    BY <1>5, <1>8, <1>9, DescendFacts, AtFieldFacts
  <2>5. x \in Element(g, part.index)
    BY <2>2, <2>4 DEF Follow
  <2>6. u \in Element(g, part.index)'
    <3>1. \A e : AtField(e, part.name)' = AtField(e, part.name)
      BY DEF AtField
    <3>2. PICK e, c : e \in Descend(r)' /\ c \in AtField(e, part.name)' /\ u \in Element(c, part.index)'
      BY <2>3 DEF Follow
    <3>3. e = d
      <4>1. r = Start \/ r.addr[1] = Ent \/ r.type.cat # "pointer"
        BY <1>9, ReferenceAt DEF Good
      <4>2. CASE r.type.cat = "class"
        BY <1>8, <3>2, <4>2 DEF Descend
      <4>3. CASE r.type.cat # "class"
        <5>1. r.type.cat = "pointer" /\ Cell(r.addr) # Null /\ d = [r EXCEPT !.addr = <<Cell(r.addr), 0>>]
          BY <1>8, <4>3 DEF Descend
        <5>2. Shaped(r) /\ Placed(r)
          BY <1>9, <5>1 DEF Good, Start, Embedded
        <5>3. d.addr[1] # Ent
          BY <5>1, <5>2, ReferenceLeads DEF Shaped
        <5>4. g.addr[1] = d.addr[1]
          BY <1>5, <1>8, <1>9, DescendFacts, AtFieldFacts
        <5>. QED  BY <1>11, <5>3, <5>4
      <4>. QED  BY <4>2, <4>3
    <3>4. c = g
      BY <2>4, <3>1, <3>2, <3>3
    <3>. QED  BY <3>2, <3>4
  <2>7. part.index \in Nat
    BY <1>5, <1>8
  <2>. QED  BY <1>8, <1>10, <1>11, <2>5, <2>6, <2>7, MovedFirst
<1>14. Cell(y.addr) # Ent
  BY BoundsAssumption, <1>6 DEF HeapOK, ReferencesLead, Cell
<1>15. Moved(w, z, Cell(y.addr), b)
  BY <1>1, <1>13, <1>14, MovedWalk DEF a
<1>16. Placed(w) /\ Inside(w) /\ Inside(z)' /\ Numbered(w)
  BY ResolveFacts, InsideNext, PlacedIsNumbered DEF Placed
<1>17. b \in Blocks /\ Cell(y.addr) \in Blocks /\ Cell(y.addr) # Null
  <2>1. b \in live' /\ Cell(y.addr) \in live
    BY <1>15, <1>16 DEF Inside, Moved
  <2>. QED  BY <2>1, BoundsAssumption DEF HeapOK
<1>. DEFINE o == w.addr[2]
            s == w.type.size
            c == Cell(y.addr)
<1>18. /\ z.addr[1] = b /\ z.addr[2] = o /\ z.type = w.type /\ w.addr[1] = c
  BY <1>15 DEF Moved
<1>19. o + s <= Len(mem[c]) /\ o + s <= Len(mem'[b]) /\ o \in Nat /\ s \in Nat
  BY <1>16, <1>18 DEF Inside, Numbered
<1>20. Len(mem[c]) \in Nat /\ Len(mem'[b]) \in Nat /\ DOMAIN mem'[b] = 1..Len(mem'[b])
  <2>1. IsMemory(mem) /\ IsMemory(mem')
    BY DEF HeapOK
  <2>2. b \in Blocks /\ c \in Blocks
    BY <1>17
  <2>. HIDE DEF c
  <2>. QED  BY <2>1, <2>2, BlockFacts
<1>21. \A i \in (o + 1)..(o + s) : mem'[b][i] = mem[c][i]
  <2>1. SUFFICES ASSUME NEW i \in (o + 1)..(o + s) PROVE mem'[b][i] = mem[c][i]
    OBVIOUS
  <2>2. i \in DOMAIN mem'[b] /\ i <= Len(mem[c])
    <3>. HIDE DEF o, s, c
    <3>1. i \in Nat /\ 1 <= i /\ i <= o + s
      BY <1>19
    <3>2. i <= Len(mem[c]) /\ i <= Len(mem'[b])
      BY <1>19, <1>20, <3>1
    <3>. QED  BY <1>20, <3>1, <3>2
  <2>3. DOMAIN mem'[b] = 1..(n * y.type.elem.size)
    BY <1>17 DEF Reallocated
  <2>. QED  BY <1>17, <2>2, <2>3 DEF Reallocated
<1>22. Cells(z.addr, z.type.size)' = Cells(w.addr, w.type.size)
  <2>. HIDE DEF o, s, c
  <2>1. o + 1 \in Int /\ o + s \in Int
    BY <1>19
  <2>2. SubSeq(mem'[b], o + 1, o + s) = SubSeq(mem[c], o + 1, o + s)
    BY <1>21, <2>1, SamePiece
  <2>. QED  BY <1>18, <2>2 DEF Cells, o, s
<1>23. GetRaw(q) = {Cells(x.addr, x.type.size) : x \in {u \in {w} : u.type.cat # "collection"}}
  BY DEF GetRaw
<1>24. GetRaw(q)' = {Cells(x.addr, x.type.size)' : x \in {u \in {z} : u.type.cat # "collection"}}
  BY DEF GetRaw
<1>. HIDE DEF o, s, c
<1>25. CASE w.type.cat = "collection"
  <2>1. z.type.cat = "collection"
    BY <1>18, <1>25
  <2>. QED  BY <1>23, <1>24, <1>25, <2>1
<1>26. CASE w.type.cat # "collection"
  <2>1. z.type.cat # "collection"
    BY <1>18, <1>26
  <2>2. GetRaw(q) = {Cells(w.addr, w.type.size)}
    BY <1>23, <1>26
  <2>3. GetRaw(q)' = {Cells(z.addr, z.type.size)'}
    BY <1>24, <2>1
  <2>. QED  BY <1>22, <2>2, <2>3
<1>. QED  BY <1>25, <1>26

LEMMA ResizeMeets ==
    ASSUME HeapOK, HeapOK', NEW p \in Requests, NEW q \in Requests, NEW y \in Resolve(p),
           y.type.cat = "collection", NEW n \in Nat, NEW b \in Blocks \cup {Null},
           Reallocate(y.addr, y.type, n, b), GetRaw(q)' # GetRaw(q)
    PROVE  /\ Meet(p, q)
           /\ {} \in {GetRaw(q), GetRaw(q)'} \/ \E r \in Resolve(q) : r.addr[1] = Ent
<1>1. Placed(y) /\ y.addr[1] = Ent
  BY ResolveFacts, ReferenceAt
<1>2. Reallocated(y, n, b)
  BY <1>1, ReallocateFacts
<1>3. OthersStay(y.addr[2])
  BY <1>1, <1>2, ReallocateKeepsOthers
<1>4. CASE Resolve(q)' = Resolve(q)
  <2>1. PICK w \in Resolve(q) : Cells(w.addr, w.type.size)' # Cells(w.addr, w.type.size)
    BY <1>4, RawChange
  <2>2. Placed(w) /\ Numbered(w) /\ Numbered(y)
    BY <1>1, ResolveFacts, PlacedIsNumbered
  <2>3. w.addr[1] = Ent
    <3>1. SUFFICES ASSUME w.addr[1] # Ent PROVE FALSE
      OBVIOUS
    <3>2. w.addr[1] \in live /\ w.addr[1] \in Blocks
      BY <2>2 DEF Placed, Inside, HeapOK
    <3>3. mem'[w.addr[1]] = mem[w.addr[1]]
      BY <1>2, <3>1, <3>2 DEF Reallocated
    <3>. QED  BY <2>1, <3>3 DEF Cells
  <2>. DEFINE from == w.addr[2] + 1
              to == w.addr[2] + w.type.size
  <2>4. PICK k \in from..to : mem'[Ent][k] # mem[Ent][k]
    <3>1. from \in Int /\ to \in Int
      BY <2>2 DEF Numbered
    <3>. HIDE DEF from, to
    <3>2. SubSeq(mem'[Ent], from, to) # SubSeq(mem[Ent], from, to)
      BY <2>1, <2>3 DEF Cells, from, to
    <3>. QED  BY <3>1, <3>2, SamePiece
  <2>5. k \in 1..Len(mem[Ent])
    <3>1. Len(mem[Ent]) \in Nat
      BY BoundsAssumption, BlockFacts DEF HeapOK
    <3>2. w.addr[2] + w.type.size <= Len(mem[Ent])
      BY <2>2, <2>3 DEF Placed, Inside
    <3>. QED  BY <2>2, <3>1, <3>2 DEF Numbered
  <2>6. k = y.addr[2] + 1
    BY <1>2, <2>4, <2>5 DEF Reallocated
  <2>7. y.type.size = 1
    BY <1>1, TypesAssumption DEF WellFormed, Placed, Inside
  <2>8. /\ y.addr[2] \in Nat /\ y.addr[2] <= y.addr[2] /\ y.addr[2] < y.addr[2] + y.type.size
        /\ w.addr[2] <= y.addr[2] /\ y.addr[2] < w.addr[2] + w.type.size
    BY <2>2, <2>4, <2>6, <2>7 DEF Numbered
  <2>9. Overlap(y, w)
    BY <1>1, <2>3, <2>8 DEF Overlap
  <2>10. Meet(p, q)
    BY <1>1, <2>9, SharedMeet, NotAliasedEntity
  <2>. QED  BY <2>3, <2>10
<1>5. CASE Resolve(q)' # Resolve(q)
  <2>1. Meet(p, q)
    BY <1>3, <1>5, ResolveChangeMeets
  <2>2. ASSUME {} \notin {GetRaw(q), GetRaw(q)'} PROVE FALSE
    <3>1. Resolve(q) # {} /\ Resolve(q)' # {}
      BY <2>2 DEF GetRaw
    <3>2. PICK h, k : /\ WalkOf(h, Parts(q)) /\ Resolve(q) = h[Len(Parts(q))]
                      /\ WalkOf(k, Parts(q))' /\ Resolve(q)' = k[Len(Parts(q))]
      BY <3>1, WalksOf
    <3>3. PICK w : Resolve(q) = {w}
      BY <3>1, ResolveFacts
    <3>4. PICK z : Resolve(q)' = {z}
      BY <3>1, ResolveFactsNext
    <3>5. PICK a : a = Parts(q)
      OBVIOUS
    <3>6. Path(a)
      BY <3>5, PartsFacts
    <3>7. WalkOf(h, a) /\ WalkOf(k, a)' /\ h[Len(a)] # k[Len(a)]
      BY <1>5, <3>2, <3>5 DEF WalkOf, Parts, Part, Index
    <3>8. PICK m \in 1..Len(a) : Reads(h, a, m, y.addr[2]) /\ h[m - 1] = k[m - 1]
      BY <1>3, <3>6, <3>7, ChangeIsRead
    <3>9. w \in h[Len(Parts(q))] /\ z \in k[Len(Parts(q))]
      BY <3>2, <3>3, <3>4
    <3>10. m \in 1..Len(Parts(q)) /\ Reads(h, Parts(q), m, y.addr[2])
      BY <3>5, <3>8
    <3>. QED  BY <1>1, <1>2, <3>2, <3>3, <3>4, <3>8, <3>9, <3>10, ElementsRemain
  <2>. QED  BY <2>1, <2>2
<1>. QED  BY <1>4, <1>5

-----------------------------------------------------------------------------
(* What each operation changes, and what it tells.                         *)

\* A step that writes cells at the place of a request, and one that resizes there.
Writes(p, y, cells) ==
    /\ y \in Resolve(p) /\ y.type.cat # "bits"
    /\ Harmless(y, cells) /\ Write(y.addr, cells) /\ live' = live
    /\ last'.do \in {"set", "set_raw"} /\ last'.request = p /\ last'.told = <<y.root, y.index>>

Resizes(p, y, n, b) ==
    /\ y \in Resolve(p) /\ y.type.cat = "collection"
    /\ Reallocate(y.addr, y.type, n, b)
    /\ last'.do \in {"resize", "short"} /\ last'.request = p
    /\ last'.do = "resize" => last'.told = <<y.root, -1>>

\* ... or none of both.
Outcome ==
    \/ last'.do = "nothing"
    \/ UNCHANGED <<mem, live>>
    \/ \E p \in Requests : \E y, cells : Writes(p, y, cells)
    \/ \E p \in Requests, n \in Nat, b \in Blocks \cup {Null} : \E y : Resizes(p, y, n, b)

LEMMA AssignWrites ==
    ASSUME HeapOK, NEW q \in Requests, NEW kind, NEW v, IsValue(v), Converts(kind, v),
           Assign(q, kind, v)
    PROVE  Outcome
<1>1. CASE Failed
  BY <1>1 DEF Failed, Outcome
<1>2. ASSUME NEW r \in Assignable(q, kind, v), Write(r.addr, Stored(r.type, v)), Done("set", q, v, r),
             UNCHANGED live
      PROVE  Outcome
  <2>1. /\ r \in Resolve(q) /\ ~Aggregate(r.type) /\ r.type.cat # "bits"
        /\ Kind(r.type) = kind /\ Stored(r.type, v) # <<>>
    BY <1>2 DEF Assignable
  <2>2. r.type \in FieldTypes
    BY <2>1, ResolveFacts DEF Placed, Inside
  <2>3. Accepted(r.type, v)
    BY <2>1 DEF Accepted
  <2>4. Harmless(r, Stored(r.type, v))
    BY <2>1, <2>2, <2>3, StoredIsHarmless
  <2>5. /\ last'.do = "set" /\ last'.request = q /\ last'.told = <<r.root, r.index>>
    BY <1>2 DEF Done
  <2>6. Writes(q, r, Stored(r.type, v))
    BY <1>2, <2>1, <2>4, <2>5 DEF Writes
  <2>. QED  BY <2>6 DEF Outcome
<1>. QED  BY <1>1, <1>2 DEF Assign

LEMMA SetRawWrites ==
    ASSUME HeapOK, NEW q \in Requests, NEW cells \in Raws, SetRaw(q, cells)
    PROVE  Outcome
<1>1. CASE Failed
  BY <1>1 DEF Failed, Outcome
<1>2. ASSUME NEW r \in Resolve(q), r.type.cat \notin {"collection", "bits"}, r.type.size = Len(cells),
             HoldsBytes(r.type), Write(r.addr, cells), Done("set_raw", q, cells, r), UNCHANGED live
      PROVE  Outcome
  <2>1. DOMAIN cells = 1..r.type.size
    <3>1. cells \in Seq(0..(Byte - 1))
      BY RawsAssumption
    <3>. QED  BY <1>2, <3>1, LenProperties
  <2>2. RefsOf(r.type) = {}
    BY <1>2 DEF HoldsBytes, RefsOf, Scattered
  <2>3. Harmless(r, cells)
    BY <2>1, <2>2 DEF Harmless
  <2>4. /\ last'.do = "set_raw" /\ last'.request = q /\ last'.told = <<r.root, r.index>>
    BY <1>2 DEF Done
  <2>5. Writes(q, r, cells)
    BY <1>2, <2>3, <2>4 DEF Writes
  <2>. QED  BY <2>5 DEF Outcome
<1>. QED  BY <1>1, <1>2 DEF SetRaw

LEMMA ResizeResizes ==
    ASSUME HeapOK, NEW q \in Requests, NEW n \in 0..MaxCount, NEW b \in Blocks \cup {Null},
           Resize(q, n, b) \/ ResizeFallsShort(q, n, b)
    PROVE  Outcome
<1>1. PICK r \in Resolve(q) :
         /\ r.type.cat = "collection"
         /\ UNCHANGED <<mem, live>> \/ Reallocate(r.addr, r.type, n, b)
         /\ \/ Done("resize", q, n, [r EXCEPT !.index = -1])
            \/ last' = [do |-> "short", request |-> q]
  BY DEF Resize, ResizeFallsShort, SetCount
<1>2. Shaped(r)
  BY ResolveFacts
<1>3. n \in Nat
  BY BoundsAssumption
<1>4. /\ last'.do \in {"resize", "short"} /\ last'.request = q
      /\ last'.do = "resize" => last'.told = <<r.root, -1>>
  <2>1. [r EXCEPT !.index = -1].root = r.root /\ [r EXCEPT !.index = -1].index = -1
    BY <1>2 DEF Shaped
  <2>. QED  BY <1>1, <2>1 DEF Done
<1>5. UNCHANGED <<mem, live>> \/ Resizes(q, r, n, b)
  BY <1>1, <1>4 DEF Resizes
<1>. QED  BY <1>3, <1>5 DEF Outcome

LEMMA StepOutcome ==
    ASSUME TypeOK, Next
    PROVE  Outcome
<1>0. HeapOK
  BY DEF TypeOK
<1>1. ASSUME NEW q \in Requests, NEW v \in Values, Set(q, v) PROVE Outcome
  <2>1. PICK kind, x : x \in Coerce(v) /\ Converts(kind, x) /\ Assign(q, kind, x)
    BY <1>1 DEF Set
  <2>2. IsValue(x)
    BY <2>1, ValuesAssumption
  <2>. QED  BY <1>0, <2>1, <2>2, AssignWrites
<1>2. ASSUME NEW q \in Requests, BeginSet(q) PROVE Outcome
  BY <1>2 DEF BeginSet, Outcome
<1>3. ASSUME NEW q \in Requests, NEW cells \in Raws, SetRaw(q, cells) PROVE Outcome
  BY <1>0, <1>3, SetRawWrites
<1>4. ASSUME NEW q \in Requests, NEW n \in 0..MaxCount, NEW b \in Blocks \cup {Null},
             Resize(q, n, b) \/ ResizeFallsShort(q, n, b)
      PROVE  Outcome
  BY <1>0, <1>4, ResizeResizes
<1>5. ASSUME NEW q \in Requests, ResizeFails(q) PROVE Outcome
  BY <1>5 DEF ResizeFails, Failed, Outcome
<1>6. ASSUME NEW v \in Values, EndSet(v) PROVE Outcome
  <2>1. /\ stack # <<>> /\ stack' = Tail(stack) /\ Converts(v.as, v) /\ IsValue(v)
        /\ Assign(Head(stack).request, v.as, v)
    BY <1>6, ValuesAssumption DEF EndSet
  <2>2. Head(stack).request \in Requests
    BY <2>1, CallEnds DEF TypeOK, CallsOK
  <2>3. PICK q \in Requests : q = Head(stack).request
    BY <2>2
  <2>4. Assign(q, v.as, v)
    BY <2>1, <2>3
  <2>. QED  BY <1>0, <2>1, <2>4, AssignWrites
<1>7. ASSUME SetRaises PROVE Outcome
  BY <1>7 DEF SetRaises, Failed, Outcome
<1>8. ASSUME NEW b \in Blocks, NEW c \in Blocks \cup {Null}, EngineMoves(b, c) PROVE Outcome
  BY <1>8 DEF EngineMoves, Nothing, Outcome
<1>. QED  BY <1>1, <1>2, <1>3, <1>4, <1>5, <1>6, <1>7, <1>8 DEF Next

\* Memory that is free stays as it is.
LEMMA FreeStays ==
    ASSUME HeapOK, HeapOK', Outcome, last'.do # "nothing", NEW x \in Blocks \ live'
    PROVE  mem'[x] = mem[x]
<1>1. CASE UNCHANGED <<mem, live>>
  BY <1>1
<1>2. ASSUME NEW p \in Requests, NEW y, NEW cells, Writes(p, y, cells) PROVE mem'[x] = mem[x]
  <2>1. Placed(y) /\ y.addr[1] \in live
    BY <1>2, ResolveFacts DEF Writes, Placed, Inside
  <2>2. y.addr[1] \in Blocks /\ x # y.addr[1]
    BY <1>2, <2>1 DEF Writes, HeapOK
  <2>3. Written(y.addr, cells)
    BY <1>2, <2>2, WriteFacts DEF Writes, HeapOK
  <2>. QED  BY <2>2, <2>3 DEF Written
<1>3. ASSUME NEW p \in Requests, NEW n \in Nat, NEW b \in Blocks \cup {Null}, NEW y, Resizes(p, y, n, b)
      PROVE  mem'[x] = mem[x]
  <2>1. Placed(y)
    BY <1>3, ResolveFacts DEF Resizes
  <2>2. Reallocated(y, n, b)
    BY <1>3, <2>1, ReallocateFacts DEF Resizes
  <2>3. x # Ent /\ x # b
    BY <2>2, BoundsAssumption DEF Reallocated, HeapOK
  <2>. QED  BY <2>2, <2>3 DEF Reallocated
<1>. QED  BY <1>1, <1>2, <1>3 DEF Outcome

LEMMA OnlyThePathChanges ==
    ASSUME HeapOK, HeapOK', Outcome, last'.do # "nothing", NEW q \in Requests, GetRaw(q)' # GetRaw(q)
    PROVE  /\ last'.do # "fail"
           /\ Meet(last'.request, q) \/ SameObject(last'.request, q)
           /\ last'.do \in {"resize", "short"} =>
                {} \in {GetRaw(q), GetRaw(q)'} \/ \E r \in Resolve(q) : r.addr[1] = Ent
<1>1. ASSUME UNCHANGED <<mem, live>> PROVE FALSE
  <2>1. SameReferences
    BY <1>1 DEF SameReferences
  <2>2. Resolve(q)' = Resolve(q)
    BY <2>1, SameResolve
  <2>3. PICK w \in Resolve(q) : Cells(w.addr, w.type.size)' # Cells(w.addr, w.type.size)
    BY <2>2, RawChange
  <2>. QED  BY <1>1, <2>3 DEF Cells
<1>2. CASE \E p \in Requests : \E y, cells : Writes(p, y, cells)
  <2>1. PICK p, y, cells : p \in Requests /\ Writes(p, y, cells)
    BY <1>2
  <2>2. Meet(p, q) \/ SameObject(p, q)
    BY <2>1, WriteMeets DEF Writes
  <2>. QED  BY <2>1, <2>2 DEF Writes
<1>3. CASE \E p \in Requests, n \in Nat, b \in Blocks \cup {Null} : \E y : Resizes(p, y, n, b)
  <2>1. PICK p, n, b, y : p \in Requests /\ n \in Nat /\ b \in Blocks \cup {Null} /\ Resizes(p, y, n, b)
    BY <1>3
  <2>2. /\ Meet(p, q)
        /\ {} \in {GetRaw(q), GetRaw(q)'} \/ \E r \in Resolve(q) : r.addr[1] = Ent
    BY <2>1, ResizeMeets DEF Resizes
  <2>. QED  BY <2>1, <2>2 DEF Resizes
<1>. QED  BY <1>1, <1>2, <1>3 DEF Outcome

-----------------------------------------------------------------------------
(* What the network is told.                                               *)

\* The index of the element that a cell is in.
LEMMA IndexOf ==
    ASSUME NEW n \in Nat, NEW i \in Nat, NEW k \in Nat, i * n <= k, k < i * n + n
    PROVE  k \div n = i
<1>. DEFINE q == k \div n
            ii == i * n
            qq == q * n
<1>1. ii \in Nat
  OBVIOUS
<1>2. n \in Nat \ {0}
  <2>. HIDE DEF ii
  <2>1. ii <= k /\ k < ii + n
    BY DEF ii
  <2>. QED  BY <1>1, <2>1
<1>3. q \in Int /\ k % n \in 0..(n - 1) /\ k = (n * q) + (k % n)
  BY <1>2, DivMod
<1>4. q \in Nat
  <2>1. 0 * n <= k
    OBVIOUS
  <2>. QED  BY <1>2
<1>. HIDE DEF q
<1>5. n * q = qq /\ qq \in Nat
  BY <1>2, <1>4
<1>6. q < i => qq + n <= ii
  BY <1>2, <1>4, Beside
<1>7. i < q => ii + n <= qq
  BY <1>2, <1>4, Beside
<1>8. ii <= k /\ k < ii + n
  OBVIOUS
<1>. HIDE DEF ii, qq
<1>9. ~(q < i) /\ ~(i < q)
  BY <1>1, <1>2, <1>3, <1>5, <1>6, <1>7, <1>8
<1>. QED  BY <1>4, <1>9 DEF q

\* A field has the depth, root and index of the object, one part further on.
LEMMA FieldKeepsRoot ==
    ASSUME NEW d, Shaped(d), NEW name, NEW g \in AtField(d, name)
    PROVE  \E f \in FindField[name][d.type.class] :
             /\ g.addr = <<d.addr[1], d.addr[2] + f.offset>> /\ g.type = f.type
             /\ g.depth = d.depth + 1 /\ g.index = d.index
             /\ g.root = IF d.depth = 0 THEN f.offset ELSE d.root
<1>1. PICK f \in FindField[name][d.type.class] :
        g = [d EXCEPT !.addr = <<@[1], @[2] + f.offset>>, !.type = f.type, !.depth = @ + 1,
                      !.root = IF d.depth = 0 THEN f.offset ELSE @]
  BY DEF AtField
<1>. QED  BY <1>1 DEF Shaped

LEMMA DescendKeepsRoot ==
    ASSUME NEW r, Shaped(r), NEW d \in Descend(r)
    PROVE  d.depth = r.depth /\ d.root = r.root /\ d.index = r.index
BY DEF Descend, Shaped

\* What a path goes through keeps the offset and the index of its first part.
KeepsFirst(z, n, o, i) == z.depth = n /\ z.root = o /\ z.index = i

LEMMA FirstIsKept ==
    ASSUME HeapOK, NEW a, Path(a), NEW f, WalkOf(f, a), NEW o, NEW i,
           \A z \in f[1] : KeepsFirst(z, 1, o, i)
    PROVE  \A z \in f[Len(a)] : KeepsFirst(z, Len(a), o, i)
<1>. DEFINE N == Len(a)
            T == {n \in 0..N : n >= 1 => \A z \in f[n] : KeepsFirst(z, n, o, i)}
<1>1. N \in Nat \ {0} /\ \A n \in 1..N : a[n] \in PartSet
  BY DEF Path
<1>2. \A n \in 1..N : f[n] = Follow(f[n - 1], a[n])
  BY DEF WalkOf
<1>3. \A n \in 0..N : GoodSet(f[n])
  BY WalkIsGood
<1>4. 0 \in T
  BY <1>1
<1>5. ASSUME NEW n \in 0..(N - 1), n \in T PROVE n + 1 \in T
  <2>1. n + 1 \in 1..N /\ (n + 1) - 1 = n /\ n + 1 \in 0..N /\ n \in 0..N /\ n \in Nat
    BY <1>1
  <2>2. CASE n = 0
    BY <2>1, <2>2
  <2>3. CASE n # 0
    <3>1. ASSUME NEW z \in f[n + 1] PROVE KeepsFirst(z, n + 1, o, i)
      <4>1. PICK part \in PartSet : part = a[n + 1]
        BY <1>1, <2>1
      <4>2. PICK r, d, g : r \in f[n] /\ Steps(r, d, g, z, part)
        <5>1. z \in Follow(f[n], part)
          BY <1>2, <2>1, <4>1
        <5>. QED  BY <5>1, FollowSteps
      <4>3. KeepsFirst(r, n, o, i) /\ Good(r) /\ Shaped(r)
        BY <1>3, <1>5, <2>1, <2>3, <4>2 DEF GoodSet, Good
      <4>4. Shaped(d) /\ Shaped(g) /\ Placed(g) /\ part.index \in Nat \cup {-1}
        BY <4>2, <4>3, StepsFacts DEF PartSet
      <4>5. KeepsFirst(d, n, o, i)
        BY <4>2, <4>3, DescendKeepsRoot DEF Steps, KeepsFirst
      <4>6. KeepsFirst(g, n + 1, o, i)
        BY <2>3, <4>2, <4>4, <4>5, FieldKeepsRoot DEF Steps, KeepsFirst
      <4>7. g.depth # 1
        BY <2>1, <2>3, <4>6 DEF KeepsFirst
      <4>8. z = g \/ (z.index = (IF g.depth = 1 THEN part.index ELSE g.index)
                      /\ z.depth = g.depth /\ z.root = g.root)
        BY <4>2, <4>4, ElementAddress DEF Steps
      <4>. QED  BY <4>6, <4>7, <4>8 DEF KeepsFirst
    <3>. QED  BY <2>1, <3>1
  <2>. QED  BY <2>2, <2>3
<1>6. N \in T
  <2>. HIDE DEF T
  <2>1. 0..N \subseteq T
    BY <1>1, <1>4, <1>5, UpTo
  <2>. QED  BY <1>1, <2>1
<1>. QED  BY <1>1, <1>6

\* The field of the entity that a path begins with, and the element of it.
BeginsWith(y, f, g, x) ==
    /\ g.addr = <<Ent, f.offset>> /\ g.type = f.type /\ g.depth = 1
    /\ Shaped(g) /\ Placed(g) /\ x \in Element(g, y.index) /\ Placed(x)
    /\ Within(y, x) /\ Within(y, g)
    /\ y.root = f.offset /\ y.index \in Nat \cup {-1}

LEMMA FirstPart ==
    ASSUME HeapOK, NEW p \in Requests, NEW y \in Resolve(p)
    PROVE  \E name \in Names : \E f \in FindField[name][Root] : \E g, x : BeginsWith(y, f, g, x)
<1>1. PICK h : WalkOf(h, Parts(p)) /\ y \in h[Len(Parts(p))]
  BY WalkOfRequest
<1>2. PICK a : a = Parts(p)
  OBVIOUS
<1>3. Path(a) /\ WalkOf(h, a) /\ y \in h[Len(a)]
  BY <1>1, <1>2, PartsFacts
<1>4. 1 \in 1..Len(a) /\ 1 - 1 = 0
  BY <1>3 DEF Path
<1>5. PICK r, d, g, x : Passes(h, a, 1, r, d, g, x) /\ Within(y, x) /\ Within(y, g)
  BY <1>3, <1>4, WalkPasses
<1>6. a[1].name \in Names /\ a[1].index \in Nat \cup {-1}
  BY <1>3, <1>4 DEF Path, PartSet
<1>7. r = Start
  BY <1>3, <1>4, <1>5 DEF Passes, WalkOf
<1>8. d = Start /\ Shaped(d)
  BY <1>5, <1>7 DEF Passes, Descend, Start, Embedded
<1>9. /\ g \in AtField(d, a[1].name) /\ x \in Element(g, a[1].index)
      /\ Shaped(g) /\ Placed(g) /\ Placed(x) /\ h[1] = {x}
  BY <1>5 DEF Passes, Steps
<1>10. PICK f \in FindField[a[1].name][d.type.class] :
             /\ g.addr = <<d.addr[1], d.addr[2] + f.offset>> /\ g.type = f.type
             /\ g.depth = d.depth + 1 /\ g.index = d.index
             /\ g.root = IF d.depth = 0 THEN f.offset ELSE d.root
  BY <1>8, <1>9, FieldKeepsRoot
<1>11. d.type.class = Root /\ d.addr = <<Ent, 0>> /\ d.depth = 0 /\ d.index = -1
  BY <1>8 DEF Start, Embedded
<1>12. f \in FindField[a[1].name][Root] /\ f.offset \in Nat
  BY <1>6, <1>10, <1>11, BoundsAssumption, LayoutAssumption
<1>13. g.addr = <<Ent, f.offset>> /\ g.depth = 1 /\ g.index = -1 /\ g.root = f.offset
  BY <1>10, <1>11, <1>12
<1>14. KeepsFirst(x, 1, f.offset, a[1].index)
  <2>1. \/ a[1].index = -1 /\ x = g
        \/ /\ x.index = IF g.depth = 1 THEN a[1].index ELSE g.index
           /\ x.depth = g.depth /\ x.root = g.root
    BY <1>6, <1>9, ElementAddress
  <2>. QED  BY <1>13, <2>1 DEF KeepsFirst
<1>15. KeepsFirst(y, Len(a), f.offset, a[1].index)
  BY <1>3, <1>9, <1>14, FirstIsKept
<1>16. BeginsWith(y, f, g, x)
  BY <1>5, <1>6, <1>9, <1>10, <1>13, <1>15 DEF BeginsWith, KeepsFirst
<1>. QED  BY <1>6, <1>12, <1>16

\* A change within the place is told.
LEMMA ChangeIsTold ==
    ASSUME HeapOK, NEW p \in Requests, NEW y \in Resolve(p), NEW k \in Nat,
           y.addr[2] + 1 <= k, k <= y.addr[2] + y.type.size,
           last'.told = <<y.root, y.index>> \/ last'.told = <<y.root, -1>>
    PROVE  \E name \in Names : \E f \in FindField[name][Root] : Told(f, y.addr[1], k)
<1>1. PICK name, f, g, x : /\ name \in Names /\ f \in FindField[name][Root]
                           /\ BeginsWith(y, f, g, x)
  BY FirstPart
<1>2. /\ g.addr = <<Ent, f.offset>> /\ g.type = f.type /\ g.depth = 1
      /\ Shaped(g) /\ Placed(g) /\ x \in Element(g, y.index) /\ Placed(x)
      /\ Within(y, x) /\ Within(y, g)
      /\ y.root = f.offset /\ y.index \in Nat \cup {-1}
  BY <1>1 DEF BeginsWith
<1>3. Numbered(y) /\ Numbered(g) /\ Numbered(x)
  BY <1>2, ResolveFacts, PlacedIsNumbered
<1>. DEFINE b == y.addr[1]
            o == f.offset
            cells == o + 1 .. o + f.type.size
            i == last'.told[2]
            n == f.type.elem.size
            element(c) == i >= 0 => c \div n = i
<1>4. o \in Nat /\ g.addr[1] = Ent /\ g.addr[2] = o /\ f.type.size \in Nat
  BY <1>2, <1>3 DEF Numbered
<1>5. last'.told[1] = o /\ (i = -1 \/ i = y.index)
  BY <1>2
<1>6. SUFFICES /\ i >= 0 => f.type.cat \in {"array", "collection"}
               /\ IF b = Ent THEN k \in cells /\ element(k - 1 - o)
                  ELSE \E j \in cells :
                         /\ mem[Ent][j] = b
                         /\ element(IF f.type.cat = "collection" THEN k - 1 ELSE j - 1 - o)
  BY <1>1, <1>5 DEF Told
<1>7. CASE i = -1
  <2>1. ~(i >= 0)
    BY <1>7
  <2>2. CASE b = Ent
    <3>1. g.addr[2] <= y.addr[2] /\ y.addr[2] + y.type.size <= g.addr[2] + g.type.size
      BY <1>2, <2>2 DEF Within
    <3>2. k \in cells
      BY <1>2, <1>3, <1>4, <3>1 DEF Numbered
    <3>. QED  BY <2>1, <2>2, <3>2
  <2>3. CASE b # Ent
    <3>1. PICK s \in References[Root] :
            g.addr[2] <= s[1] /\ s[1] < g.addr[2] + g.type.size /\ mem[Ent][s[1] + 1] = b
      BY <1>2, <1>4, <2>3 DEF Within
    <3>2. s[1] \in Nat
      BY ReferenceCells
    <3>3. s[1] + 1 \in cells
      BY <1>2, <1>3, <1>4, <3>1, <3>2 DEF Numbered
    <3>. QED  BY <2>1, <2>3, <3>1, <3>3
  <2>. QED  BY <2>2, <2>3
<1>8. CASE i # -1
  <2>1. i = y.index /\ i \in Nat
    BY <1>2, <1>5, <1>8
  <2>2. /\ g.type.cat \in {"array", "collection"} /\ x.type = g.type.elem /\ n \in Nat
        /\ IF g.type.cat = "array"
           THEN x.addr = <<g.addr[1], g.addr[2] + i * n>> /\ i * n + n <= g.type.size
           ELSE x.addr = <<Cell(g.addr), i * n>> /\ Cell(g.addr) \in live \ {Ent}
    BY <1>2, <1>8, <2>1, ElementAddress
  <2>. DEFINE ii == i * n
  <2>3. ii \in Nat
    BY <2>1, <2>2
  <2>4. x.type.size = n
    BY <1>2, <2>2
  <2>5. CASE g.type.cat = "array"
    <3>1. x.addr[1] = Ent /\ x.addr[2] = o + ii /\ ii + n <= f.type.size
      BY <1>2, <1>4, <2>2, <2>5
    <3>2. CASE b = Ent
      <4>1. x.addr[2] <= y.addr[2] /\ y.addr[2] + y.type.size <= x.addr[2] + x.type.size
        BY <1>2, <3>1, <3>2 DEF Within
      <4>2. k - 1 - o \in Nat /\ ii <= k - 1 - o /\ k - 1 - o < ii + n /\ k \in cells
        <5>. HIDE DEF ii, n
        <5>. QED  BY <1>3, <1>4, <2>2, <2>3, <2>4, <3>1, <4>1 DEF Numbered
      <4>3. (k - 1 - o) \div n = i
        <5>1. PICK c \in Nat : c = k - 1 - o
          BY <4>2
        <5>2. c \div n = i
          BY <2>1, <2>2, <4>2, <5>1, IndexOf
        <5>. QED  BY <5>1, <5>2
      <4>. QED  BY <1>2, <2>2, <3>2, <4>2, <4>3
    <3>3. CASE b # Ent
      <4>1. PICK s \in References[Root] :
              x.addr[2] <= s[1] /\ s[1] < x.addr[2] + x.type.size /\ mem[Ent][s[1] + 1] = b
        BY <1>2, <3>1, <3>3 DEF Within
      <4>2. PICK j : j = s[1] + 1
        OBVIOUS
      <4>3. s[1] \in Nat
        BY ReferenceCells
      <4>4. j - 1 - o \in Nat /\ ii <= j - 1 - o /\ j - 1 - o < ii + n /\ j \in cells
        <5>. HIDE DEF ii, n
        <5>. QED  BY <1>3, <1>4, <2>2, <2>3, <2>4, <3>1, <4>1, <4>2, <4>3 DEF Numbered
      <4>5. (j - 1 - o) \div n = i
        <5>1. PICK c \in Nat : c = j - 1 - o
          BY <4>4
        <5>2. c \div n = i
          BY <2>1, <2>2, <4>4, <5>1, IndexOf
        <5>. QED  BY <5>1, <5>2
      <4>6. f.type.cat = "array" /\ mem[Ent][j] = b
        BY <1>2, <2>5, <4>1, <4>2
      <4>. QED  BY <3>3, <4>4, <4>5, <4>6
    <3>. QED  BY <3>2, <3>3
  <2>6. CASE g.type.cat = "collection"
    <3>1. x.addr[1] = Cell(g.addr) /\ x.addr[1] # Ent /\ x.addr[2] = ii
      BY <2>2, <2>6
    <3>2. /\ b = Cell(g.addr) /\ b # Ent
          /\ x.addr[2] <= y.addr[2] /\ y.addr[2] + y.type.size <= x.addr[2] + x.type.size
      BY <1>2, <3>1 DEF Within
    <3>3. PICK j : j = o + 1
      OBVIOUS
    <3>4. mem[Ent][j] = b
      BY <1>2, <3>2, <3>3 DEF Cell
    <3>5. g.type.size = 1
      BY <1>2, <2>6, TypesAssumption DEF WellFormed, Placed, Inside
    <3>6. j \in cells
      BY <1>2, <1>4, <3>3, <3>5
    <3>7. k - 1 \in Nat /\ ii <= k - 1 /\ k - 1 < ii + n
      <4>. HIDE DEF ii, n
      <4>. QED  BY <1>3, <2>2, <2>3, <2>4, <3>1, <3>2 DEF Numbered
    <3>8. (k - 1) \div n = i
      <4>1. PICK c \in Nat : c = k - 1
        BY <3>7
      <4>2. c \div n = i
        BY <2>1, <2>2, <3>7, <4>1, IndexOf
      <4>. QED  BY <4>1, <4>2
    <3>9. f.type.cat = "collection"
      BY <1>2, <2>6
    <3>. QED  BY <3>2, <3>4, <3>6, <3>8, <3>9
  <2>. QED  BY <2>2, <2>5, <2>6
<1>. QED  BY <1>7, <1>8

LEMMA OutcomeIsTold ==
    ASSUME HeapOK, HeapOK', Outcome, last'.do \in {"set", "set_raw", "resize"}, NEW b \in live,
           NEW k \in DOMAIN mem[b] \cap DOMAIN mem'[b], mem'[b][k] # mem[b][k]
    PROVE  \E name \in Names : \E f \in FindField[name][Root] : Told(f, b, k)
<1>1. ~UNCHANGED <<mem, live>> /\ last'.do # "nothing"
  OBVIOUS
<1>2. b \in Blocks
  BY DEF HeapOK
<1>3. k \in 1..Len(mem[b]) /\ Len(mem[b]) \in Nat /\ k \in Nat
  <2>1. PICK m : m = mem
    OBVIOUS
  <2>2. IsMemory(m)
    BY <2>1 DEF HeapOK
  <2>3. Len(m[b]) \in Nat /\ DOMAIN m[b] = 1..Len(m[b])
    BY <1>2, <2>2, BlockFacts
  <2>4. k \in DOMAIN m[b]
    BY <2>1
  <2>5. k \in 1..Len(m[b]) /\ k \in Nat
    BY <2>3, <2>4
  <2>. QED  BY <2>1, <2>3, <2>5
<1>4. ASSUME NEW p \in Requests, NEW y, NEW cells, Writes(p, y, cells)
      PROVE  \E name \in Names : \E f \in FindField[name][Root] : Told(f, b, k)
  <2>1. Placed(y) /\ y.addr[1] \in Blocks /\ Numbered(y) /\ y \in Resolve(p)
    BY <1>4, ResolveFacts, PlacedIsNumbered DEF Writes, Placed, Inside, HeapOK
  <2>2. Written(y.addr, cells)
    BY <1>4, <2>1, WriteFacts DEF Writes, HeapOK
  <2>3. b = y.addr[1]
    BY <1>2, <2>2 DEF Written
  <2>4. k - y.addr[2] \in DOMAIN cells
    BY <1>3, <2>2, <2>3 DEF Written
  <2>5. k - y.addr[2] \in 1..y.type.size
    BY <1>4, <2>4 DEF Writes, Harmless
  <2>6. y.addr[2] + 1 <= k /\ k <= y.addr[2] + y.type.size
    BY <1>3, <2>1, <2>5 DEF Numbered
  <2>7. last'.told = <<y.root, y.index>>
    BY <1>4 DEF Writes
  <2>. QED  BY <1>3, <2>1, <2>3, <2>6, <2>7, ChangeIsTold
<1>5. ASSUME NEW p \in Requests, NEW n \in Nat, NEW c \in Blocks \cup {Null}, NEW y, Resizes(p, y, n, c)
      PROVE  \E name \in Names : \E f \in FindField[name][Root] : Told(f, b, k)
  <2>1. Placed(y) /\ Numbered(y) /\ y \in Resolve(p) /\ y.type.cat = "collection"
    BY <1>5, ResolveFacts, PlacedIsNumbered DEF Resizes
  <2>2. Reallocated(y, n, c) /\ y.addr[1] = Ent
    BY <1>5, <2>1, ReallocateFacts, ReferenceAt DEF Resizes
  <2>3. b = Ent
    BY <1>2, <2>2 DEF Reallocated
  <2>4. k = y.addr[2] + 1
    BY <1>3, <2>2, <2>3 DEF Reallocated
  <2>5. y.type.size = 1
    BY <2>1, TypesAssumption DEF WellFormed, Placed, Inside
  <2>6. y.addr[2] + 1 <= k /\ k <= y.addr[2] + y.type.size
    BY <2>1, <2>4, <2>5 DEF Numbered
  <2>7. last'.told = <<y.root, -1>>
    BY <1>5 DEF Resizes
  <2>8. \E name \in Names : \E f \in FindField[name][Root] : Told(f, y.addr[1], k)
    BY <1>3, <2>1, <2>6, <2>7, ChangeIsTold
  <2>. QED  BY <2>2, <2>3, <2>8
<1>. QED  BY <1>1, <1>4, <1>5 DEF Outcome

-----------------------------------------------------------------------------
(* The theorems.                                                           *)

\* Memory keeps its shape under every call of the properties module and every move of
\* the engine: the entity's pointers are null or lead to objects of their class, and
\* nothing else leads to the storage of a collection.
THEOREM TypeCorrect == Spec => []TypeOK
<1>1. Init => TypeOK
  BY InitEstablishes
<1>2. TypeOK /\ [Next]_vars => TypeOK'
  BY StepKeeps
<1>. QED  BY <1>1, <1>2, PTL DEF Spec

\* resolve_schema_property (game_api_advanced_verified_build.cpp:173): a path that
\* follows at most one pointer or collection of the entity, with any embedded classes
\* and fixed arrays before and behind it (LayoutAssumption), stays within the block it
\* has come to, whatever was written, resized or moved before.
THEOREM PathsStay == Spec => []PathsStayInside
<1>1. TypeOK => PathsStayInside
  BY ResolveFacts DEF TypeOK, PathsStayInside, Placed
<1>. QED  BY <1>1, TypeCorrect, PTL

\* What set stored get gives back, for every byte, every width and every narrowing of
\* doubles: exactly, but for what the float32 of the field or of the vector cannot hold
\* and for text behind a NUL (game_api_advanced_verified_build.cpp:500).
THEOREM ReadsBack == Spec => SetReadsBack
<1>. DEFINE Back ==
       last'.do = "set" =>
         (\E r \in Resolve(last.request) :
             Get(last.request) = {Held(r.type, last.value)})'
<1>1. TypeOK /\ TypeOK' /\ Next => Back
  <2>1. SUFFICES ASSUME TypeOK, TypeOK', Next, last'.do = "set"
                 PROVE  (\E r \in Resolve(last.request) :
                            Get(last.request) = {Held(r.type, last.value)})'
    OBVIOUS
  <2>2. PICK q \in Requests : \E v, r : Assigned(q, v, r)
    BY <2>1, SetsAreSeen
  <2>3. PICK v, r : Assigned(q, v, r)
    BY <2>2
  <2>4. last'.request = q /\ last'.value = v
    BY <2>3 DEF Assigned
  <2>5. HeapOK /\ HeapOK'
    BY <2>1 DEF TypeOK
  <2>6. Resolve(q)' = {r} /\ Get(q)' = {Held(r.type, v)}
    BY <2>3, <2>5, AssignedReadsBack
  <2>7. Get(last.request)' = Get(q)' /\ Resolve(last.request)' = Resolve(q)'
    BY <2>4 DEF Get
  <2>8. Held(r.type, last.value)' = Held(r.type, v)
    BY <2>4 DEF Held
  <2>. QED  BY <2>6, <2>7, <2>8
<1>2. [Next]_vars /\ TypeOK /\ TypeOK' => [Back]_vars
  BY <1>1
<1>. QED  BY <1>2, TypeCorrect, PTL DEF Spec, SetReadsBack

\* properties.set, set_raw and resize (game_api_advanced_verified_build.cpp:504) change
\* what their path names and nothing else, for the paths of LayoutAssumption: a request
\* reads something new only if it meets the one that was made, field for field and
\* element for element, or goes through a pointer that leads to the same object; a call
\* that fails changes nothing, unless the engine gave a collection another size than was
\* asked for; a resize loses no element of a collection that it keeps, and no call
\* touches memory that is free.
THEOREM OthersUntouched == Spec => OnlyItsPathChanges
<1>. DEFINE Kept ==
       last'.do # "nothing" =>
         /\ \A q \in Requests :
              LET before == GetRaw(q)
                  after == GetRaw(q)'
              IN  before # after =>
                    /\ last'.do # "fail"
                    /\ Meet(last'.request, q) \/ SameObject(last'.request, q)
                    /\ last'.do \in {"resize", "short"} =>
                         {} \in {before, after} \/ \E r \in Resolve(q) : r.addr[1] = Ent
         /\ \A b \in Blocks \ live' : mem'[b] = mem[b]
<1>1. TypeOK /\ TypeOK' /\ Next => Kept
  <2>1. SUFFICES ASSUME TypeOK, TypeOK', Next, last'.do # "nothing"
                 PROVE  /\ \A q \in Requests : GetRaw(q) # GetRaw(q)' =>
                             /\ last'.do # "fail"
                             /\ Meet(last'.request, q) \/ SameObject(last'.request, q)
                             /\ last'.do \in {"resize", "short"} =>
                                  \/ {} \in {GetRaw(q), GetRaw(q)'}
                                  \/ \E r \in Resolve(q) : r.addr[1] = Ent
                        /\ \A b \in Blocks \ live' : mem'[b] = mem[b]
    OBVIOUS
  <2>2. HeapOK /\ HeapOK' /\ Outcome
    BY <2>1, StepOutcome DEF TypeOK
  <2>. QED  BY <2>1, <2>2, OnlyThePathChanges, FreeStays
<1>2. [Next]_vars /\ TypeOK /\ TypeOK' => [Kept]_vars
  BY <1>1
<1>. QED  BY <1>2, TypeCorrect, PTL DEF Spec, OnlyItsPathChanges

\* Whatever a call that succeeds changes along a path of LayoutAssumption, it reports
\* (NetworkStateChanged, game_api_advanced_verified_build.cpp:676) with the offset of a field of the entity,
\* and the index of the element in it, that hold the cell that has changed or the
\* reference that leads to it.
THEOREM NetworkIsTold == Spec => ChangesAreAnnounced
<1>. DEFINE Announced ==
       last'.do \in {"set", "set_raw", "resize"} =>
         \A b \in live : \A k \in DOMAIN mem[b] \cap DOMAIN mem'[b] :
            mem'[b][k] # mem[b][k] =>
              \E name \in Names : \E f \in FindField[name][Root] : Told(f, b, k)
<1>1. TypeOK /\ TypeOK' /\ Next => Announced
  <2>1. SUFFICES ASSUME TypeOK, TypeOK', Next, last'.do \in {"set", "set_raw", "resize"},
                        NEW b \in live, NEW k \in DOMAIN mem[b] \cap DOMAIN mem'[b],
                        mem'[b][k] # mem[b][k]
                 PROVE  \E name \in Names : \E f \in FindField[name][Root] : Told(f, b, k)
    OBVIOUS
  <2>2. HeapOK /\ HeapOK' /\ Outcome
    BY <2>1, StepOutcome DEF TypeOK
  <2>. QED  BY <2>1, <2>2, OutcomeIsTold
<1>2. [Next]_vars /\ TypeOK /\ TypeOK' => [Announced]_vars
  BY <1>1
<1>. QED  BY <1>2, TypeCorrect, PTL DEF Spec, ChangesAreAnnounced
===============================================================================
