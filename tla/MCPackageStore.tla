--------------------------- MODULE MCPackageStore ----------------------------
(* Instances of PackageStore: one source file, one or two compilers.         *)
EXTENDS PackageStore, TLC

CONSTANTS c1, c2, k1, k2, v1, bad

MCSourceOrder == <<"a.lua">>
MCOutput == [s \in {"a.lua"} |-> "a.smg"]
MCPackages == {"a.smg"}

StoreSymmetry == Permutations({k1, k2}) \cup Permutations({c1, c2})
=============================================================================
