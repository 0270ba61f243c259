-------------------------- MODULE SchemaProperties ---------------------------
(***************************************************************************)
(* cs2.properties: reads and writes of one entity's memory along a path of *)
(* schema fields, through inherited fields, embedded classes, pointers,    *)
(* fixed arrays and dynamic collections.  Memory is a set of blocks of     *)
(* cells: the entity, the objects it points to and the storage of its      *)
(* collections.  A cell is a byte of Byte values, or holds a whole float,  *)
(* vector, handle or pointer.  properties.set looks the metadata up,       *)
(* converts the value and looks the field up again to write; to convert a  *)
(* table it asks the table's metamethods, which may call anything here.    *)
(***************************************************************************)
EXTENDS Integers, SequencesExt

CONSTANTS
    Classes, Root,  \* schema classes, and that of the entity
    Fields,         \* Fields[c]: the fields of class c itself, in order
    Bases,          \* Bases[c]: its base classes with their offsets
    Sizes,          \* Sizes[c]: how many cells an object of class c has
    References,     \* References[c]: where it has its pointers and collections
    Blocks, Ent,    \* blocks of memory; the entity's
    Byte,           \* how many values a byte has
    Requests,       \* what plugins ask for: <<path, index argument>>
    Values, Raws,   \* the values and the raw bytes that they give
    Coerce(_),      \* Coerce(v): the values that the readers of Lua make of v
    Narrow,         \* Narrow[x]: the nearest float32 of a double, or of a vector's
    Memories,       \* what memory may hold at first
    Targets,        \* entity indexes that hold an entity
    Null,
    Inf,            \* what is not finite
    MaxCount,       \* bound: size of a collection
    MaxNesting,     \* bound: calls of set in progress
    MaxCalls        \* bound: calls, and moves of the engine

(* Schema types.  Sizes are in cells.                                      *)
Scalar(cat, n) == [cat |-> cat, size |-> n]
Array(t, n) == [cat |-> "array", elem |-> t, count |-> n, size |-> n * t.size]
Collection(t) == [cat |-> "collection", elem |-> t, size |-> 1]
Pointer(c) == [cat |-> "pointer", class |-> c, size |-> 1]
Embedded(c, n) == [cat |-> "class", class |-> c, size |-> n]
Field(name, type, offset) == [name |-> name, type |-> type, offset |-> offset]
Part(name, index) == [name |-> name, index |-> index]

\* The types of the fields and of their elements, and the widths that types have.
FieldTypes ==
    LET T == {f.type : f \in UNION {ToSet(Fields[c]) : c \in Classes}}
    IN  T \cup {t.elem : t \in {x \in T : x.cat \in {"array", "collection"}}}

WellFormed(t) ==
    \/ t.cat \in {"int", "uint"} /\ t.size \in {1, 2}
    \/ t.cat \in {"char", "float", "double", "vector", "handle", "bits"} /\ t.size = 1
    \/ t.cat = "pointer" /\ t.size = 1 /\ t.class \in Classes
    \/ t.cat = "collection" /\ t.size = 1 /\ t.elem.size \in Nat \ {0}
    \/ t.cat = "class" /\ t.class \in Classes /\ t.size = Sizes[t.class]
    \/ t.cat = "array" /\ t.count \in Nat /\ t.size = t.count * t.elem.size /\ t.elem.cat # "array"

ASSUME TypesAssumption ==
    /\ DOMAIN Fields = Classes /\ DOMAIN Bases = Classes /\ Sizes \in [Classes -> Nat]
    /\ \A t \in FieldTypes :
         /\ WellFormed(t)
         /\ t.cat \in {"array", "collection"} => t.elem \in FieldTypes

\* A block is a sequence of cells.
IsMemory(m) == DOMAIN m = Blocks /\ \A b \in Blocks : m[b] \in Seq(ToSet(m[b]))

ASSUME BoundsAssumption ==
    /\ Root \in Classes /\ Ent \in Blocks /\ Null \notin Blocks
    /\ Byte \in Nat \ {0} /\ Byte % 2 = 0
    /\ {MaxCount, MaxNesting, MaxCalls} \subseteq Nat

VARIABLES
    mem,    \* mem[b]: the cells of block b
    live,   \* the blocks that are allocated
    stack,  \* calls of set that convert their value, innermost first
    last,   \* the last call: what it did and what it told the network
    calls

vars == <<mem, live, stack, last, calls>>

Cell(a) == mem[a[1]][a[2] + 1]
Cells(a, n) == SubSeq(mem[a[1]], a[2] + 1, a[2] + n)
Write(a, cells) ==
    mem' = [mem EXCEPT ![a[1]] =
              [k \in DOMAIN @ |-> IF k - a[2] \in DOMAIN cells THEN cells[k - a[2]] ELSE @[k]]]

-----------------------------------------------------------------------------
(* From a path to an address.  A search or a resolution is the set of what *)
(* it finds: one element, or none when it fails.                           *)

First(K) == {k \in K : \A j \in K : k <= j}
OwnFields(c, name) == First({k \in DOMAIN Fields[c] : Fields[c][k].name = name})

Names == {f.name : f \in UNION {ToSet(Fields[c]) : c \in Classes}}

\* schema_find_field: the class itself first, then its bases, depth first.
FindField ==
    [name \in Names |->
        LET find[c \in Classes] ==
              IF OwnFields(c, name) # {} THEN {Fields[c][k] : k \in OwnFields(c, name)}
              ELSE UNION {{[f EXCEPT !.offset = @ + Bases[c][k].offset] :
                             f \in find[Bases[c][k].class]} :
                            k \in First({j \in DOMAIN Bases[c] : find[Bases[c][j].class] # {}})}
        IN  find]

\* Where a type has its references: <<offset, type>>.
Scattered(t) ==
    IF t.cat \in {"pointer", "collection"} THEN {<<0, t>>}
    ELSE IF t.cat = "class" THEN References[t.class]
    ELSE {}

RefsOf(t) ==
    IF t.cat = "array"
    THEN {<<i * t.elem.size + p[1], p[2]>> : i \in 0..(t.count - 1), p \in Scattered(t.elem)}
    ELSE Scattered(t)

\* The references of n cells from one on are these, and no others.
Shares(refs, from, n, own) ==
    /\ \A p \in refs : p[1] >= from /\ p[1] < from + n => <<p[1] - from, p[2]>> \in own
    /\ \A p \in own : <<from + p[1], p[2]>> \in refs

\* Fields share no cell, unless they are bit fields.
Apart(f, g) ==
    \/ f.offset + f.type.size <= g.offset
    \/ g.offset + g.type.size <= f.offset
    \/ f.type.cat = "bits" /\ g.type.cat = "bits"

\* How a compiler lays out objects: one field of a name, inside the object and apart
\* from all others; where a reference is there is nothing else. What is modelled: the
\* objects that an entity points to and the elements of its collections hold no
\* references.
ASSUME LayoutAssumption ==
    \A c \in Classes :
        /\ \A name \in Names : \A f \in FindField[name][c] :
             /\ FindField[name][c] = {f}
             /\ f.type \in FieldTypes /\ f.offset \in Nat
             /\ f.offset + f.type.size <= Sizes[c]
             /\ Shares(References[c], f.offset, f.type.size, RefsOf(f.type))
        /\ \A name, other \in Names :
             name # other => \A f \in FindField[name][c], g \in FindField[other][c] : Apart(f, g)
        /\ \A p \in References[c] :
             /\ p = <<p[1], p[2]>> /\ p[1] \in 0..(Sizes[c] - 1) /\ p[2] \in FieldTypes
             /\ \/ p[2].cat = "pointer" /\ References[p[2].class] = {}
                \/ p[2].cat = "collection" /\ RefsOf(p[2].elem) = {}
             /\ \A r \in References[c] : p[1] = r[1] => p = r

\* A reference is null or leads to an allocated block, large enough for the object; no
\* other one leads to the storage of a collection.
ReferencesLead(m, allocated) ==
    \A p \in References[Root] :
        LET b == m[Ent][p[1] + 1] IN
        b # Null =>
          /\ b \in allocated \ {Ent}
          /\ p[2].cat = "pointer" => Sizes[p[2].class] <= Len(m[b])
          /\ p[2].cat = "collection" =>
               \A r \in References[Root] : m[Ent][r[1] + 1] = b => r = p

\* The manipulator of a collection: its header cell names its storage.
Count(a, t) == IF Cell(a) = Null THEN 0 ELSE Len(mem[Cell(a)]) \div t.elem.size

\* Where a resolution stands: the address and the type that the parts so far denote,
\* and the offset and index of the first of them.
Start ==
    [addr |-> <<Ent, 0>>, type |-> Embedded(Root, 0), depth |-> 0, root |-> 0, index |-> -1]

\* Into the class that the part before denotes, or points to.
Descend(r) ==
    IF r.type.cat = "class" THEN {r}
    ELSE IF r.type.cat = "pointer" /\ Cell(r.addr) # Null
    THEN {[r EXCEPT !.addr = <<Cell(r.addr), 0>>]}
    ELSE {}

\* Mutant: the root is the field at the end of the path.
AtFieldLeaf(r, name) ==
    {[r EXCEPT !.addr = <<@[1], @[2] + f.offset>>, !.type = f.type, !.depth = @ + 1,
               !.root = f.offset] :
       f \in FindField[name][r.type.class]}

AtField(r, name) ==
    {[r EXCEPT !.addr = <<@[1], @[2] + f.offset>>, !.type = f.type, !.depth = @ + 1,
               !.root = IF r.depth = 0 THEN f.offset ELSE @] :
       f \in FindField[name][r.type.class]}

\* Mutant: an index into a collection has no bound.
ElementUnbounded(r, i) ==
    LET element(a) == [r EXCEPT !.addr = a, !.type = @.elem,
                                !.index = IF r.depth = 1 THEN i ELSE @]
    IN  IF i = -1 THEN {r}
        ELSE IF r.type.cat = "array" /\ i < r.type.count
        THEN {element(<<r.addr[1], r.addr[2] + i * r.type.elem.size>>)}
        ELSE IF r.type.cat = "collection" /\ Cell(r.addr) # Null
        THEN {element(<<Cell(r.addr), i * r.type.elem.size>>)}
        ELSE {}

Element(r, i) ==
    LET element(a) == [r EXCEPT !.addr = a, !.type = @.elem,
                                !.index = IF r.depth = 1 THEN i ELSE @]
    IN  IF i = -1 THEN {r}
        ELSE IF r.type.cat = "array" /\ i < r.type.count
        THEN {element(<<r.addr[1], r.addr[2] + i * r.type.elem.size>>)}
        ELSE IF r.type.cat = "collection" /\ i < Count(r.addr, r.type)
        THEN {element(<<Cell(r.addr), i * r.type.elem.size>>)}
        ELSE {}

Follow(R, part) ==
    UNION {Element(f, part.index) :
             f \in UNION {AtField(d, part.name) : d \in UNION {Descend(r) : r \in R}}}

\* A request is a path and an index argument, or -1: the index of the last part. Both
\* may be given if they are equal.
Index(q) == Last(q[1]).index
Parts(q) == IF q[2] = -1 THEN q[1] ELSE Front(q[1]) \o <<Part(Last(q[1]).name, q[2])>>

Resolve(q) ==
    LET parts == Parts(q)
        walk[n \in 0..Len(parts)] ==
            IF n = 0 THEN {Start} ELSE Follow(walk[n - 1], parts[n])
    IN  IF q[2] >= 0 /\ Index(q) >= 0 /\ q[2] # Index(q) THEN {} ELSE walk[Len(parts)]

ASSUME RequestsAssumption ==
    \A q \in Requests :
        /\ q[1] \in Seq(ToSet(q[1])) /\ q[1] # <<>> /\ q[2] \in Nat \cup {-1}
        /\ \A part \in ToSet(q[1]) :
             /\ part.name \in Names /\ part.index \in Nat \cup {-1}
             /\ part = Part(part.name, part.index)

-----------------------------------------------------------------------------
(* Metadata.                                                               *)

IsText(t) == t.cat = "array" /\ t.elem.cat = "char"

\* classify, with the corrections of schema_finalize_info.
Kind(t) ==
    LET kind(c) == CASE c \in {"int", "char"} -> "integer"
                     [] c = "uint" -> "unsigned"
                     [] c = "double" -> "float"
                     [] c \in {"class", "bits"} -> "raw"
                     [] OTHER -> c
    IN  IF IsText(t) THEN "text"
        ELSE IF t.cat \in {"array", "collection"} THEN kind(t.elem.cat)
        ELSE kind(t.cat)

Aggregate(t) == t.cat = "collection" \/ (t.cat = "array" /\ ~IsText(t))

\* fetch_info: an index argument and an index in the last part exclude each other.
Info(q) == IF q[2] >= 0 /\ Index(q) >= 0 THEN {} ELSE Resolve(q)

-----------------------------------------------------------------------------
(* Values.  Two bytes make the widest number, so that Span(2) is 2^64.      *)

Lua(as, v) == [as |-> as, v |-> v]

\* How many numbers w bytes can hold.
Span(w) == IF w = 1 THEN Byte ELSE Byte * Byte

Number(cells) == IF Len(cells) = 1 THEN cells[1] ELSE cells[1] + Byte * cells[2]
Signed(cells) ==
    LET n == Number(cells)
        top == Span(Len(cells))
    IN  IF 2 * n >= top THEN n - top ELSE n
Encode(n, w) == [k \in 1..w |-> (IF k = 1 THEN n ELSE n \div Byte) % Byte]
MaxInteger == Span(2) \div 2 - 1

\* Mutant: a larger number wraps into a negative integer.
PushUint64Wrapping(n) == Lua("integer", IF n <= MaxInteger THEN n ELSE n - Span(2))

\* push_uint64_exact: a number that no integer can hold becomes decimal digits.
PushUint64(n) == Lua(IF n <= MaxInteger THEN "integer" ELSE "digits", n)

\* A C string ends at its first NUL.
UpToNul(text) ==
    LET nul == {k \in DOMAIN text : text[k] = 0}
    IN  IF nul = {} THEN text ELSE SubSeq(text, 1, (CHOOSE k \in First(nul) : TRUE) - 1)

\* read_value: which of the readings of a Lua value is good for a kind. A vector is
\* narrowed when it is read and must then be finite.
Converts(kind, x) ==
    /\ \/ kind = "unsigned" /\ x.as = "digits"
       \/ kind = "handle" /\ x.as = "nil"
       \/ kind \in {"integer", "float", "text", "vector", "pointer", "handle"} /\ x.as = kind
    /\ kind = "float" => x.v # Inf
    /\ kind = "vector" => Narrow[x.v] # Inf

\* signed_value_fits and unsigned_value_fits.
SignedFits(v, w) == -Span(w) <= 2 * v /\ 2 * v < Span(w)
UnsignedFits(v, w) == v < Span(w)

\* What Lua holds and read_value reads: integers of 64 bits, numbers that
\* read_uint64_exact reads from an integer or from digits, doubles, strings of bytes;
\* and no pointer but null, since plugins forge none.
IsValue(v) ==
    /\ v = Lua(v.as, v.v)
    /\ v.as \in {"integer", "digits", "float", "text", "vector", "handle", "pointer", "nil"}
    /\ v.as = "integer" => v.v \in Int /\ SignedFits(v.v, 2)
    /\ v.as = "digits" => v.v \in Nat
    /\ v.as \in {"float", "vector"} => v.v \in DOMAIN Narrow
    /\ v.as = "text" => v.v \in Seq(0..(Byte - 1))
    /\ v.as = "pointer" => v.v = Null

ASSUME ValuesAssumption ==
    /\ \A v \in Values : IsValue(v) /\ \A x \in Coerce(v) : IsValue(x)
    /\ \A x \in DOMAIN Narrow : Narrow[x] \in DOMAIN Narrow /\ Narrow[Narrow[x]] = Narrow[x]

ASSUME RawsAssumption == Raws \subseteq Seq(0..(Byte - 1))

\* write_schema_property: the cells that a value becomes, or none.
Stored(t, v) ==
    IF t.cat \in {"int", "char"} THEN IF SignedFits(v.v, t.size) THEN Encode(v.v, t.size) ELSE <<>>
    ELSE IF t.cat = "uint" THEN IF UnsignedFits(v.v, t.size) THEN Encode(v.v, t.size) ELSE <<>>
    ELSE IF t.cat \in {"float", "vector"} THEN <<Narrow[v.v]>>
    ELSE IF t.cat = "handle" THEN IF v.as = "nil" THEN <<-1>> ELSE IF v.v \in Targets THEN <<v.v>> ELSE <<>>
    ELSE IF IsText(t)
    THEN LET text == UpToNul(v.v)
         IN  IF Len(text) < t.count
             THEN [k \in 1..t.count |-> IF k <= Len(text) THEN text[k] ELSE 0] ELSE <<>>
    ELSE <<v.v>>

\* read_schema_property and push_value.
Loaded(t, cells) ==
    CASE t.cat \in {"int", "char"} -> Lua("integer", Signed(cells))
      [] t.cat = "uint" -> PushUint64(Number(cells))
      [] IsText(t) -> Lua("text", UpToNul(cells))
      [] OTHER -> Lua(Kind(t), cells[1])

-----------------------------------------------------------------------------
(* The operations.                                                         *)

Get(q) ==
    {Loaded(r.type, Cells(r.addr, r.type.size)) :
       r \in {x \in Resolve(q) : ~Aggregate(x.type) /\ Kind(x.type) # "raw"}}

GetRaw(q) ==
    {Cells(r.addr, r.type.size) : r \in {x \in Resolve(q) : x.type.cat # "collection"}}

Nothing == [do |-> "nothing"]
Failed == last' = [do |-> "fail"] /\ UNCHANGED <<mem, live>>

\* The calls ask for NetworkStateChanged; without it they do the same and tell nobody.
Done(do, q, v, r) ==
    last' = [do |-> do, request |-> q, value |-> v, told |-> <<r.root, r.index>>]

Call == calls < MaxCalls /\ calls' = calls + 1

\* property_set: resolves again, and refuses what is not of the kind asked for.
Assignable(q, kind, v) ==
    {r \in Resolve(q) : /\ ~Aggregate(r.type) /\ r.type.cat # "bits"
                        /\ Kind(r.type) = kind /\ Stored(r.type, v) # <<>>}

Assign(q, kind, v) ==
    \/ /\ Assignable(q, kind, v) = {}
       /\ Failed
    \/ \E r \in Assignable(q, kind, v) :
         /\ Write(r.addr, Stored(r.type, v))
         /\ Done("set", q, v, r)
         /\ UNCHANGED live

\* properties.set of a value that Lua converts by itself; one of another type raises.
Set(q, v) ==
    /\ Call /\ v.as \notin {"vector", "handle"}
    /\ \E r \in Info(q), x \in Coerce(v) :
         /\ Converts(Kind(r.type), x)
         /\ Assign(q, Kind(r.type), x)
    /\ UNCHANGED stack

\* ... and of a table: the metadata is there, the table's metamethods run.
BeginSet(q) ==
    /\ Call /\ Len(stack) < MaxNesting
    /\ \E r \in Info(q) :
         /\ Kind(r.type) \in {"vector", "handle"}
         /\ stack' = <<[request |-> q, metadata |-> r]>> \o stack
    /\ last' = Nothing
    /\ UNCHANGED <<mem, live>>

\* Mutant: writes where the metadata said the field was.
EndSetStale(v) ==
    /\ stack # <<>>
    /\ LET f == Head(stack) IN
         /\ v.as = Kind(f.metadata.type) /\ Converts(v.as, v)
         /\ \E r \in Assignable(f.request, v.as, v) :
              /\ Write(f.metadata.addr, Stored(r.type, v))
              /\ Done("set", f.request, v, r)
    /\ stack' = Tail(stack)
    /\ UNCHANGED <<live, calls>>

EndSet(v) ==
    /\ stack # <<>>
    /\ LET f == Head(stack) IN
         /\ v.as = Kind(f.metadata.type) /\ Converts(v.as, v)
         /\ Assign(f.request, v.as, v)
    /\ stack' = Tail(stack)
    /\ UNCHANGED calls

\* The conversion raises: a field of the table is missing or not finite, or a
\* metamethod raises.
SetRaises ==
    /\ stack # <<>>
    /\ stack' = Tail(stack)
    /\ Failed
    /\ UNCHANGED calls

\* property_set_raw: as many bytes as the type has. Plugins forge no pointers.
HoldsBytes(t) ==
    t.cat = "collection" \/ (IF t.cat = "array" THEN t.elem.cat ELSE t.cat) \in {"int", "uint", "char", "bits"}

SetRaw(q, cells) ==
    LET R == {r \in Resolve(q) : r.type.cat \notin {"collection", "bits"} /\ r.type.size = Len(cells)}
    IN
    /\ Call /\ \A r \in Resolve(q) : HoldsBytes(r.type)
    /\ \/ R = {} /\ Failed
       \/ \E r \in R :
            /\ Write(r.addr, cells)
            /\ Done("set_raw", q, cells, r)
            /\ UNCHANGED live
    /\ UNCHANGED stack

\* SET_COUNT: the engine moves the elements to storage of the new size.
Reallocate(a, t, n, b) ==
    LET old == IF Cell(a) = Null THEN <<>> ELSE mem[Cell(a)]
    IN  /\ b \in IF n = 0 THEN {Null} ELSE Blocks \ live
        /\ live' = (live \ {Cell(a)}) \cup ({b} \ {Null})
        /\ mem' = [x \in Blocks |->
                     IF x = b THEN [k \in 1..(n * t.elem.size) |-> IF k <= Len(old) THEN old[k] ELSE 0]
                     ELSE IF x = a[1] THEN [mem[x] EXCEPT ![a[2] + 1] = b]
                     ELSE mem[x]]

SetCount(a, t, n, b) ==
    IF Count(a, t) = n THEN b = Null /\ UNCHANGED <<mem, live>> ELSE Reallocate(a, t, n, b)

\* property_collection_resize.
Resize(q, n, b) ==
    /\ Call /\ q[2] = -1
    /\ \E r \in Resolve(q) :
         /\ r.type.cat = "collection"
         /\ SetCount(r.addr, r.type, n, b)
         /\ Done("resize", q, n, [r EXCEPT !.index = -1])
    /\ UNCHANGED stack

\* The engine applied another size m than was asked for: the call fails after the
\* collection has changed, and tells nobody.
ResizeFallsShort(q, m, b) ==
    /\ Call /\ q[2] = -1
    /\ \E r \in Resolve(q) :
         /\ r.type.cat = "collection"
         /\ SetCount(r.addr, r.type, m, b)
    /\ last' = [do |-> "short", request |-> q]
    /\ UNCHANGED stack

\* No collection is there, or it has no manipulator.
ResizeFails(q) ==
    /\ Call /\ q[2] = -1
    /\ Failed
    /\ UNCHANGED stack

\* The engine, between two calls or in one that a metamethod makes: an object or a
\* storage moves to another block, or goes.
EngineMoves(b, c) ==
    /\ Call /\ b \in live \ {Ent} /\ c \in (Blocks \ live) \cup {Null}
    /\ live' = (live \ {b}) \cup ({c} \ {Null})
    /\ mem' = [x \in Blocks |->
                 IF x = Ent THEN [k \in DOMAIN mem[x] |-> IF mem[x][k] = b THEN c ELSE mem[x][k]]
                 ELSE IF x = c THEN mem[b]
                 ELSE mem[x]]
    /\ last' = Nothing
    /\ UNCHANGED stack

\* The blocks that are allocated when memory is m.
Allocated(m) == {Ent} \cup (ToSet(m[Ent]) \cap Blocks)

ASSUME MemoriesAssumption ==
    \A m \in Memories :
        IsMemory(m) /\ Sizes[Root] <= Len(m[Ent]) /\ ReferencesLead(m, Allocated(m))

Init ==
    /\ mem \in Memories
    /\ live = Allocated(mem)
    /\ stack = <<>> /\ last = Nothing /\ calls = 0

Next ==
    \/ \E q \in Requests :
         \/ \E v \in Values : Set(q, v)
         \/ BeginSet(q)
         \/ \E cells \in Raws : SetRaw(q, cells)
         \/ \E n \in 0..MaxCount, b \in Blocks \cup {Null} :
              Resize(q, n, b) \/ ResizeFallsShort(q, n, b)
    \/ \E q \in Requests : ResizeFails(q)
    \/ \E v \in Values : EndSet(v)
    \/ SetRaises
    \/ \E b \in Blocks, c \in Blocks \cup {Null} : EngineMoves(b, c)

Spec == Init /\ [][Next]_vars

-----------------------------------------------------------------------------
\* The references of the entity lead to objects that are there.
HeapOK ==
    /\ IsMemory(mem)
    /\ Ent \in live /\ live \subseteq Blocks
    /\ Sizes[Root] <= Len(mem[Ent])
    /\ ReferencesLead(mem, live)

TypeOK ==
    /\ HeapOK
    /\ stack \in Seq(ToSet(stack)) /\ Len(stack) <= MaxNesting
    /\ \A f \in ToSet(stack) : f.request \in Requests
    /\ calls \in 0..MaxCalls

\* resolve_schema_property (game_api_advanced_verified_build.cpp:173): whatever was
\* written, resized or moved, a path that follows one pointer or collection leads to a
\* type of the schema, and all its cells are cells of one block that is allocated.
Inside(r) ==
    /\ r.type \in FieldTypes
    /\ r.addr[1] \in live
    /\ r.addr[2] \in Nat /\ r.addr[2] + r.type.size <= Len(mem[r.addr[1]])

PathsStayInside == \A q \in Requests : \A r \in Resolve(q) : Inside(r)

\* What a field of type t makes of a value: a number is an integer if one can hold it,
\* a float32 keeps what it can represent, a text ends at a NUL, a null handle has no
\* index.
Held(t, v) ==
    IF v.as = "digits" /\ v.v <= MaxInteger THEN Lua("integer", v.v)
    ELSE IF v.as \in {"float", "vector"} /\ t.cat # "double" THEN Lua(v.as, Narrow[v.v])
    ELSE IF v.as = "text" THEN Lua("text", UpToNul(v.v))
    ELSE IF v.as = "nil" THEN Lua("handle", -1)
    ELSE v

\* read_value, write_schema_property, read_schema_property and push_value
\* (game_api_advanced_verified_build.cpp:500): what set stored get gives back, as far as
\* the field's type can hold it, at the limits of every width and also for what no Lua
\* integer can hold. Nothing but a float32 or a vector loses precision or range.
SetReadsBack ==
    [][last'.do = "set" =>
         (\E r \in Resolve(last.request) :
             Get(last.request) = {Held(r.type, last.value)})']_vars

\* Two requests meet if one of them leads to or through the other.
Meet(p, q) ==
    LET a == Parts(p)
        b == Parts(q)
    IN  \A k \in DOMAIN a \cap DOMAIN b :
          /\ a[k].name = b[k].name
          /\ a[k].index = b[k].index \/ -1 \in {a[k].index, b[k].index}

\* Two requests reach one object that two pointers of the entity lead to.
SameObject(p, q) ==
    \E b \in {r.addr[1] : r \in Resolve(p)} \cap {r.addr[1] : r \in Resolve(q)} :
        \E r, s \in References[Root] : r # s /\ mem[Ent][r[1] + 1] = b /\ mem[Ent][s[1] + 1] = b

\* A call changes what its path names and nothing beside it, and a failing one nothing
\* at all, unless the engine gave a collection another size than was asked for. A resize
\* keeps the elements that remain; what it changes in the entity is the header of the
\* collection. property_set resolves the path
\* when it writes, not when the metadata was read
\* (game_api_advanced_verified_build.cpp:504): metamethods may have moved the field
\* meanwhile, and memory that was freed is left alone.
OnlyItsPathChanges ==
    [][last'.do # "nothing" =>
         /\ \A q \in Requests :
              LET before == GetRaw(q)
                  after == GetRaw(q)'
              IN  before # after =>
                    /\ last'.do # "fail"
                    /\ Meet(last'.request, q) \/ SameObject(last'.request, q)
                    /\ last'.do \in {"resize", "short"} =>
                         {} \in {before, after} \/ \E r \in Resolve(q) : r.addr[1] = Ent
         /\ \A b \in Blocks \ live' : mem'[b] = mem[b]]_vars

\* NetworkStateChanged (game_api_advanced_verified_build.cpp:676): the field told is
\* the one of the entity that the changed memory lies in or is reached through, and
\* the index that of the element that was changed, or of the pointer that was followed.
Told(f, b, k) ==
    LET cells == f.offset + 1 .. f.offset + f.type.size
        i == last'.told[2]
        element(n) == i >= 0 => n \div f.type.elem.size = i
    IN  /\ f.offset = last'.told[1]
        /\ i >= 0 => f.type.cat \in {"array", "collection"}
        /\ IF b = Ent THEN k \in cells /\ element(k - 1 - f.offset)
           ELSE \E j \in cells :
                  /\ mem[Ent][j] = b
                  /\ element(IF f.type.cat = "collection" THEN k - 1 ELSE j - 1 - f.offset)

ChangesAreAnnounced ==
    [][last'.do \in {"set", "set_raw", "resize"} =>
         \A b \in live : \A k \in DOMAIN mem[b] \cap DOMAIN mem'[b] :
            mem'[b][k] # mem[b][k] =>
              \E name \in Names : \E f \in FindField[name][Root] : Told(f, b, k)]_vars

\* docs/properties/README.md:221: "numeric overflow" is among what returns
\* "explicit errors".
OverflowIsRefused ==
    [][last'.do = "set" =>
         (last.value.as = "float" => Lua("float", Inf) \notin Get(last.request))']_vars
=============================================================================
