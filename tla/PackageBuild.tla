---------------------------- MODULE PackageBuild ----------------------------
(* What the compiler's reports promise, as one step each: a package changes  *)
(* at the moment it is reported compiled, "already compiled" is said of a    *)
(* package that holds that very value, and a failure changes nothing.        *)
(* Nothing is promised any more once two programs have been writing the      *)
(* same file at a time.                                                      *)
EXTENDS Naturals

CONSTANTS Packages, Values, Absent, Unsaid

VARIABLES
    package,  \* package[f]: the value in the file of f, or Absent
    said,     \* the last report
    clashed   \* TRUE: two programs have been writing one file

buildVars == <<package, said, clashed>>

BuildInit ==
    /\ package = [f \in Packages |-> Absent]
    /\ said = Unsaid
    /\ clashed = FALSE

Report(f, v, result) == said' = [package |-> f, value |-> v, result |-> result]

Compiled(f, v) ==
    /\ package' = [package EXCEPT ![f] = v]
    /\ Report(f, v, "compiled")

Cached(f, v) ==
    /\ package[f] = v
    /\ Report(f, v, "cached")
    /\ UNCHANGED package

Failed(f, v) ==
    /\ Report(f, v, "failed")
    /\ UNCHANGED package

BuildNext ==
    \/ clashed'
    \/ /\ UNCHANGED clashed
       /\ \E f \in Packages, v \in Values : Compiled(f, v) \/ Cached(f, v) \/ Failed(f, v)

BuildSpec == BuildInit /\ [][BuildNext]_buildVars
=============================================================================
