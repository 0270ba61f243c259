-------------------------- MODULE MCPluginManager ---------------------------
(* Instances of PluginManager: two packages, with keys of their own or with  *)
(* stems that normalise to one key.                                          *)
EXTENDS PluginManager, TLC

CONSTANTS a, b, n

Package(starts, name, cleanup, strict) ==
    [starts |-> starts, name |-> name, cleanup |-> cleanup, strict |-> strict]

MCFiles == {"a.smg", "b.smg"}
MCFileOrder == <<"a.smg", "b.smg">>
MCNames == {a, b, n}

MCContents ==
    {Package(FALSE, NoName, "none", FALSE),   \* does not start
     Package(TRUE, NoName, "none", FALSE),    \* declares nothing
     Package(TRUE, n, "returns", FALSE),      \* declares the name n
     Package(TRUE, a, "throws", FALSE),       \* declares the key of a.smg
     Package(TRUE, NoName, "none", TRUE),     \* strict, declares nothing
     Package(TRUE, n, "none", TRUE)}          \* strict, declares the name n

MCKeyOrder == <<a, b>>

DistinctKeys == [f \in MCFiles |-> IF f = "a.smg" THEN a ELSE b]
OneKey == [f \in MCFiles |-> a]
OnlyA == <<a>>
=============================================================================
