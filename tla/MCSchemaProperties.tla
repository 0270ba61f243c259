------------------------- MODULE MCSchemaProperties --------------------------
(* A schema with a field of each kind: an entity class with a base class, an *)
(* embedded object and pointers to one, arrays and a collection.             *)
EXTENDS SchemaProperties, TLC

CONSTANTS
    b1, b2, b3,
    Huge, Tiny  \* a double beyond the range of a float32, and one that becomes zero

MCClasses == {"Base", "Entity", "State"}
MCFields == [c \in MCClasses |->
    CASE c = "Base" -> <<Field("health", Scalar("int", 1), 0)>>
      [] c = "State" -> <<Field("ammo", Array(Scalar("uint", 1), 2), 0),
                          Field("owner", Scalar("handle", 1), 2)>>
      [] c = "Entity" -> <<Field("score", Scalar("uint", 2), 2),
                           Field("speed", Scalar("float", 1), 4),
                           Field("tag", Array(Scalar("char", 1), 2), 5),
                           Field("state", Embedded("State", 3), 7),
                           Field("next", Pointer("State"), 10),
                           Field("points", Collection(Scalar("vector", 1)), 11),
                           Field("flags", Scalar("bits", 1), 12),
                           Field("links", Array(Pointer("State"), 2), 13),
                           Field("charge", Scalar("double", 1), 15)>>]
MCBases == [c \in MCClasses |->
    IF c = "Entity" THEN <<[class |-> "Base", offset |-> 1]>> ELSE <<>>]

MCSizes == [c \in MCClasses |-> CASE c = "Base" -> 1 [] c = "State" -> 3 [] c = "Entity" -> 16]
MCReferences == [c \in MCClasses |->
    IF c = "Entity"
    THEN {<<k, Pointer("State")>> : k \in {10, 13, 14}} \cup {<<11, Collection(Scalar("vector", 1))>>}
    ELSE {}]

Of(name) == <<Part(name, -1)>>
In(object, name, i) == <<Part(object, -1), Part(name, i)>>

\* With and without the index argument, in range and beyond, twice and in conflict.
MCRequests ==
    {<<Of(name), -1>> : name \in {"health", "score", "speed", "charge", "tag", "next", "points", "flags",
                              "state"}}
    \cup {<<Of("points"), 0>>, <<Of("points"), 1>>, <<<<Part("points", 1)>>, 1>>,
          <<<<Part("points", 1)>>, -1>>, <<In("state", "ammo", -1), 0>>,
          <<In("state", "ammo", 1), -1>>, <<In("state", "ammo", 1), 0>>,
          <<In("state", "ammo", -1), 2>>, <<In("next", "ammo", 1), -1>>,
          <<In("state", "owner", -1), -1>>, <<In("next", "owner", -1), -1>>,
          <<In("state", "ammo", -1), -1>>, <<Of("tag"), 0>>, <<Of("links"), 1>>,
          <<<<Part("links", 1), Part("owner", -1)>>, -1>>}

\* Doubles and vectors: 0, 1 and 2 are exact, 3 is not.
MCNarrow == [x \in {0, 1, 2, 3, Tiny, Huge, Inf} |->
    CASE x = 3 -> 2 [] x = Tiny -> 0 [] x = Huge -> Inf [] OTHER -> x]

\* What plugins give: an integer, a double, a string, a table.
MCValues == {Lua("integer", n) : n \in {-3, -2, -1, 1, 2, 7}}
           \cup {Lua("digits", n) : n \in {1, 2, 7, 8, 15}}
           \cup {Lua("float", x) : x \in {1, 2, 3, Tiny, Huge, Inf}}
           \cup {Lua("text", t) : t \in {<<>>, <<1>>, <<2>>, <<1, 2>>, <<0, 1>>}}
           \cup {Lua("vector", x) : x \in {1, 3, Huge}}
           \cup {Lua("nil", 0), Lua("handle", 1), Lua("handle", 2), Lua("handle", 7), Lua("pointer", Null)}

\* An integer is read as digits, double, text and index too, the string of the digits
\* 1 as a number, and the double 1 as an integer but not as digits.
MCCoerce(x) ==
    {x} \cup CASE x.as = "integer" /\ x.v > 0 ->
                   {Lua("digits", x.v), Lua("handle", x.v)}
                   \cup {Lua("float", n) : n \in {x.v} \cap {1, 2}}
                   \cup {Lua("text", <<n>>) : n \in {x.v} \cap {1, 2}}
             [] x.as = "text" /\ x.v = <<1>> ->
                   {Lua("integer", 1), Lua("digits", 1), Lua("float", 1)}
             [] x.as = "float" /\ x.v = 1 -> {Lua("integer", 1), Lua("text", <<1, 2>>)}
             [] OTHER -> {}
MCRaws == {<<2>>, <<1, 2>>}

\* The object and one element of the collection are there, and no two neighbours are
\* equal; or neither is, and all bytes are at their largest.
MCMemories ==
    {[b \in {Ent, b1, b2, b3} |->
        CASE b = Ent -> <<0, 3, 1, 2, 0, 1, 0, 3, 2, -1, b1, b2, 1, Null, b1, 0>>
          [] b = b1 -> <<0, 3, -1>>
          [] b = b2 -> <<0>>
          [] OTHER -> <<>>],
     [b \in {Ent, b1, b2, b3} |->
        IF b = Ent THEN <<0, 3, 3, 3, 0, 3, 3, 3, 3, -1, Null, Null, 3, Null, Null, 0>> ELSE <<>>]}
=============================================================================
