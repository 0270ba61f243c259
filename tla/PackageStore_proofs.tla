------------------------ MODULE PackageStore_proofs ------------------------
(***************************************************************************)
(* Proofs about PackageStore, for any number of compilers, sources,        *)
(* packages, keys and crashes: a file that only one process saves at a     *)
(* time goes from one whole value to the next.                             *)
(***************************************************************************)
EXTENDS PackageStore, SequenceTheorems, TLAPS

\* Where a process may be with which file in its hands.
Targets ==
    \A p \in Processes :
        /\ at[p] \in {"idle", "key", "readkey", "up", "next"} => target[p] = KeyFile
        /\ at[p] \in {"check", "compare", "load"} => target[p] \in Packages
        /\ at[p] \in {"next", "check", "compare"} => p # Server
        /\ at[p] \in {"up", "load"} => p = Server
        /\ at[p] \in Saving /\ p = Server => target[p] = KeyFile
        /\ at[p] \in {"readkey", "compare", "load"} => disk[target[p]] # Absent
        /\ target[p] # KeyFile /\ p # Server => text[p] \in Texts

\* What is on its way to a package, and what has arrived, compiles.
GoodFiles ==
    /\ \A p \in Processes :
         at[p] \in Saving /\ target[p] # KeyFile => text[p] \in Good
    /\ \A f \in Packages :
         /\ disk[f] \in Value => disk[f].text \in Good
         /\ tmp[f] # Absent /\ tmp[f].head # None => tmp[f].head.value.text \in Good

\* A file no two processes have been saving at a time has one saver at most,
\* and its temporary file holds what that process has written so far.
OneSaver ==
    \A f \in Paths : f \notin clash =>
        \A p \in Processes : at[p] \in Saving /\ target[p] = f =>
            /\ \A q \in Processes \ {p} : ~(at[q] \in Saving /\ target[q] = f)
            /\ at[p] = "write" => tmp[f] = Empty
            /\ at[p] = "half" => tmp[f] = [head |-> Data(p), rest |-> None]
            /\ at[p] \in {"close", "move"} =>
                 tmp[f] = [head |-> Data(p), rest |-> Data(p)]

\* A key is made only where there is none.
OneKey ==
    KeyFile \notin clash =>
        \A p \in Processes :
            at[p] \in Saving /\ target[p] = KeyFile => disk[KeyFile] = Absent

\* The server runs packages only while it is up.
RunsWhileUp ==
    at[Server] \notin {"up", "load"} => \A f \in Packages : running[f] = Absent

\* The inductive invariant.
StoreInv ==
    /\ TypeOK
    /\ Targets
    /\ GoodFiles
    /\ OneSaver
    /\ OneKey
    /\ RunsWhileUp
    /\ DamageNeedsClash
    /\ KeysAgree
    /\ RunsGoodText


-----------------------------------------------------------------------------
(* What the parts of an action do.                                         *)

LEMMA DataFacts ==
    ASSUME StoreInv, NEW p \in Processes, at[p] \in Saving
    PROVE  /\ Data(p) \in Chunk /\ Data(p) # None
           /\ Data(p).value \in Value /\ Data(p).value.key = key[p]
           /\ key[p] \in Keys
           /\ target[p] # KeyFile =>
                /\ Data(p).value.text \in Good
                /\ Data(p).value \in [key : Keys, text : Texts]
<1>1. key[p] \in Keys /\ text[p] \in Texts \cup {NoText}
  BY DEF StoreInv, TypeOK, HasKey
<1>2. Data(p) \in Chunk
  BY <1>1 DEF Data, Chunk, Value
<1>3. target[p] # KeyFile => text[p] \in Good
  BY DEF StoreInv, GoodFiles
<1>. QED  BY <1>1, <1>2, <1>3, StoreAssumption, MarkersAssumption DEF Data, Chunk


\* A process that gives its file up removes what nobody else has open.
LEMMA RemoveTmpFacts ==
    ASSUME StoreInv, NEW p \in Processes, tmp' = tmp \/ RemoveTmp(p)
    PROVE  /\ tmp' \in [Paths -> Temporary \cup {Absent}]
           /\ \A f \in Paths : /\ tmp'[f] \in {tmp[f], Absent}
                               /\ f # target[p] => tmp'[f] = tmp[f]
           /\ \A q \in Processes \ {p} :
                TmpOpen(q, target[q]) => tmp'[target[q]] = tmp[target[q]]
<1>1. tmp \in [Paths -> Temporary \cup {Absent}] /\ target \in [Processes -> Paths]
  BY DEF StoreInv, TypeOK
<1>. QED  BY <1>1 DEF RemoveTmp


LEMMA EditInv ==
    ASSUME StoreInv, NEW s \in Sources, NEW t \in Texts, Edit(s, t)
    PROVE  StoreInv'
<1>1. TypeOK'
  BY StoreAssumption, MarkersAssumption
  DEF StoreInv, Edit, TypeOK, HasKey, Saving, TmpOpen, Value, Chunk, Temporary, Empty,
      Data, Processes
<1>2. Targets'
  BY StoreAssumption, MarkersAssumption
  DEF StoreInv, Edit, TypeOK, Targets, Saving, HasKey, Processes
<1>3. GoodFiles'
  BY StoreAssumption, MarkersAssumption
  DEF StoreInv, Edit, TypeOK, Targets, GoodFiles, Saving, Temporary, Chunk, Value,
      Empty, Data, Processes
<1>4. OneSaver'
  BY StoreAssumption, MarkersAssumption
  DEF StoreInv, Edit, TypeOK, Targets, OneSaver, Saving, Empty, Data, Processes
<1>5. OneKey'
  BY StoreAssumption, MarkersAssumption
  DEF StoreInv, Edit, TypeOK, Targets, OneSaver, OneKey, Saving, Value, Data, Processes
<1>6. RunsWhileUp'
  BY StoreAssumption, MarkersAssumption
  DEF StoreInv, Edit, TypeOK, Targets, RunsWhileUp, Saving, Processes
<1>7. DamageNeedsClash'
  BY StoreAssumption, MarkersAssumption
  DEF StoreInv, Edit, TypeOK, Targets, OneSaver, DamageNeedsClash, Saving, Value, Chunk,
      Data, Processes
<1>8. KeysAgree'
  BY StoreAssumption, MarkersAssumption
  DEF StoreInv, Edit, TypeOK, Targets, OneSaver, OneKey, DamageNeedsClash, KeysAgree,
      HasKey, Saving, Value, Chunk, Data, Processes
<1>9. RunsGoodText'
  BY StoreAssumption, MarkersAssumption
  DEF StoreInv, Edit, TypeOK, Targets, GoodFiles, RunsWhileUp, RunsGoodText, HasKey,
      Saving, Value, Processes
<1>. QED  BY <1>1, <1>2, <1>3, <1>4, <1>5, <1>6, <1>7, <1>8, <1>9 DEF StoreInv

LEMMA RemoveKeyInv ==
    ASSUME StoreInv, RemoveKey
    PROVE  StoreInv'
<1>1. TypeOK'
  BY StoreAssumption, MarkersAssumption
  DEF StoreInv, RemoveKey, TypeOK, HasKey, Saving, TmpOpen, Value, Chunk, Temporary,
      Empty, Data, Processes
<1>2. Targets'
  BY StoreAssumption, MarkersAssumption
  DEF StoreInv, RemoveKey, TypeOK, Targets, Saving, HasKey, Processes
<1>3. GoodFiles'
  BY StoreAssumption, MarkersAssumption
  DEF StoreInv, RemoveKey, TypeOK, Targets, GoodFiles, Saving, Temporary, Chunk, Value,
      Empty, Data, Processes
<1>4. OneSaver'
  BY StoreAssumption, MarkersAssumption
  DEF StoreInv, RemoveKey, TypeOK, Targets, OneSaver, Saving, Empty, Data, Processes
<1>5. OneKey'
  BY StoreAssumption, MarkersAssumption
  DEF StoreInv, RemoveKey, TypeOK, Targets, OneSaver, OneKey, Saving, Value, Data,
      Processes
<1>6. RunsWhileUp'
  BY StoreAssumption, MarkersAssumption
  DEF StoreInv, RemoveKey, TypeOK, Targets, RunsWhileUp, Saving, Processes
<1>7. DamageNeedsClash'
  BY StoreAssumption, MarkersAssumption
  DEF StoreInv, RemoveKey, TypeOK, Targets, OneSaver, DamageNeedsClash, Saving, Value,
      Chunk, Data, Processes
<1>8. KeysAgree'
  BY StoreAssumption, MarkersAssumption
  DEF StoreInv, RemoveKey, TypeOK, Targets, OneSaver, OneKey, DamageNeedsClash,
      KeysAgree, HasKey, Saving, Value, Chunk, Data, Processes
<1>9. RunsGoodText'
  BY StoreAssumption, MarkersAssumption
  DEF StoreInv, RemoveKey, TypeOK, Targets, GoodFiles, RunsWhileUp, RunsGoodText,
      HasKey, Saving, Value, Processes
<1>. QED  BY <1>1, <1>2, <1>3, <1>4, <1>5, <1>6, <1>7, <1>8, <1>9 DEF StoreInv

LEMMA StartCompilerInv ==
    ASSUME StoreInv, NEW p \in Compilers, NEW S \in SUBSET Sources, S # {}, StartCompiler(p, S)
    PROVE  StoreInv'
<1>1. TypeOK'
  BY StoreAssumption, MarkersAssumption
  DEF StoreInv, StartCompiler, TypeOK, HasKey, Saving, TmpOpen, Value, Chunk, Temporary,
      Empty, Data, Processes
<1>2. Targets'
  BY StoreAssumption, MarkersAssumption
  DEF StoreInv, StartCompiler, TypeOK, Targets, Saving, HasKey, Processes
<1>3. GoodFiles'
  BY StoreAssumption, MarkersAssumption
  DEF StoreInv, StartCompiler, TypeOK, Targets, GoodFiles, Saving, Temporary, Chunk,
      Value, Empty, Data, Processes
<1>4. OneSaver'
  BY StoreAssumption, MarkersAssumption
  DEF StoreInv, StartCompiler, TypeOK, Targets, OneSaver, Saving, Empty, Data, Processes
<1>5. OneKey'
  BY StoreAssumption, MarkersAssumption
  DEF StoreInv, StartCompiler, TypeOK, Targets, OneSaver, OneKey, Saving, Value, Data,
      Processes
<1>6. RunsWhileUp'
  BY StoreAssumption, MarkersAssumption
  DEF StoreInv, StartCompiler, TypeOK, Targets, RunsWhileUp, Saving, Processes
<1>7. DamageNeedsClash'
  BY StoreAssumption, MarkersAssumption
  DEF StoreInv, StartCompiler, TypeOK, Targets, OneSaver, DamageNeedsClash, Saving,
      Value, Chunk, Data, Processes
<1>8. KeysAgree'
  BY StoreAssumption, MarkersAssumption
  DEF StoreInv, StartCompiler, TypeOK, Targets, OneSaver, OneKey, DamageNeedsClash,
      KeysAgree, HasKey, Saving, Value, Chunk, Data, Processes
<1>9. RunsGoodText'
  BY StoreAssumption, MarkersAssumption
  DEF StoreInv, StartCompiler, TypeOK, Targets, GoodFiles, RunsWhileUp, RunsGoodText,
      HasKey, Saving, Value, Processes
<1>. QED  BY <1>1, <1>2, <1>3, <1>4, <1>5, <1>6, <1>7, <1>8, <1>9 DEF StoreInv

LEMMA StartServerInv ==
    ASSUME StoreInv, StartServer
    PROVE  StoreInv'
<1>1. TypeOK'
  BY StoreAssumption, MarkersAssumption
  DEF StoreInv, StartServer, TypeOK, HasKey, Saving, TmpOpen, Value, Chunk, Temporary,
      Empty, Data, Processes
<1>2. Targets'
  BY StoreAssumption, MarkersAssumption
  DEF StoreInv, StartServer, TypeOK, Targets, Saving, HasKey, Processes
<1>3. GoodFiles'
  BY StoreAssumption, MarkersAssumption
  DEF StoreInv, StartServer, TypeOK, Targets, GoodFiles, Saving, Temporary, Chunk,
      Value, Empty, Data, Processes
<1>4. OneSaver'
  BY StoreAssumption, MarkersAssumption
  DEF StoreInv, StartServer, TypeOK, Targets, OneSaver, Saving, Empty, Data, Processes
<1>5. OneKey'
  BY StoreAssumption, MarkersAssumption
  DEF StoreInv, StartServer, TypeOK, Targets, OneSaver, OneKey, Saving, Value, Data,
      Processes
<1>6. RunsWhileUp'
  BY StoreAssumption, MarkersAssumption
  DEF StoreInv, StartServer, TypeOK, Targets, RunsWhileUp, Saving, Processes
<1>7. DamageNeedsClash'
  BY StoreAssumption, MarkersAssumption
  DEF StoreInv, StartServer, TypeOK, Targets, OneSaver, DamageNeedsClash, Saving, Value,
      Chunk, Data, Processes
<1>8. KeysAgree'
  BY StoreAssumption, MarkersAssumption
  DEF StoreInv, StartServer, TypeOK, Targets, OneSaver, OneKey, DamageNeedsClash,
      KeysAgree, HasKey, Saving, Value, Chunk, Data, Processes
<1>9. RunsGoodText'
  BY StoreAssumption, MarkersAssumption
  DEF StoreInv, StartServer, TypeOK, Targets, GoodFiles, RunsWhileUp, RunsGoodText,
      HasKey, Saving, Value, Processes
<1>. QED  BY <1>1, <1>2, <1>3, <1>4, <1>5, <1>6, <1>7, <1>8, <1>9 DEF StoreInv

LEMMA EndsInv ==
    ASSUME StoreInv, NEW p \in Processes, Ends(p), tmp' = tmp \/ (at[p] \in Saving /\ RemoveTmp(p)),
           UNCHANGED <<disk, source, clash>>, crashes' \in 0..MaxCrashes
    PROVE  StoreInv'
<1>1. TypeOK'
  <2>. QED
    BY RemoveTmpFacts, StoreAssumption, MarkersAssumption
    DEF StoreInv, Ends, TypeOK, HasKey, Saving, TmpOpen, Value, Chunk, Temporary, Empty,
        Data, Processes, Paths
<1>2. Targets'
  BY StoreAssumption, MarkersAssumption
  DEF StoreInv, Ends, TypeOK, Targets, Saving, HasKey, Processes
<1>3. GoodFiles'
  <2>. QED
    BY RemoveTmpFacts, StoreAssumption, MarkersAssumption
    DEF StoreInv, Ends, TypeOK, Targets, GoodFiles, Saving, Temporary, Chunk, Value,
        Empty, Data, Processes, Paths
<1>4. OneSaver'
  <2>. QED
    BY RemoveTmpFacts, StoreAssumption, MarkersAssumption
    DEF StoreInv, Ends, TypeOK, Targets, OneSaver, Saving, Empty, Data, Processes
<1>5. OneKey'
  BY StoreAssumption, MarkersAssumption
  DEF StoreInv, Ends, TypeOK, Targets, OneSaver, OneKey, Saving, Value, Data, Processes
<1>6. RunsWhileUp'
  BY StoreAssumption, MarkersAssumption
  DEF StoreInv, Ends, TypeOK, Targets, RunsWhileUp, Saving, Processes
<1>7. DamageNeedsClash'
  BY StoreAssumption, MarkersAssumption
  DEF StoreInv, Ends, TypeOK, Targets, OneSaver, DamageNeedsClash, Saving, Value, Chunk,
      Data, Processes
<1>8. KeysAgree'
  BY StoreAssumption, MarkersAssumption
  DEF StoreInv, Ends, TypeOK, Targets, OneSaver, OneKey, DamageNeedsClash, KeysAgree,
      HasKey, Saving, Value, Chunk, Data, Processes
<1>9. RunsGoodText'
  BY StoreAssumption, MarkersAssumption
  DEF StoreInv, Ends, TypeOK, Targets, GoodFiles, RunsWhileUp, RunsGoodText, HasKey,
      Saving, Value, Processes
<1>. QED  BY <1>1, <1>2, <1>3, <1>4, <1>5, <1>6, <1>7, <1>8, <1>9 DEF StoreInv

LEMMA NextSourceInv ==
    ASSUME StoreInv, NEW p \in Processes, NextSource(p), tmp' = tmp \/ (at[p] \in Saving /\ RemoveTmp(p)),
           at[p] \in {"check", "compare"} \cup Saving, target[p] # KeyFile,
           UNCHANGED <<disk, source, clash, crashes>>
    PROVE  StoreInv'
<1>1. TypeOK'
  <2>. QED
    BY RemoveTmpFacts, StoreAssumption, MarkersAssumption
    DEF StoreInv, NextSource, TypeOK, HasKey, Saving, TmpOpen, Value, Chunk, Temporary,
        Empty, Data, Processes, Paths
<1>2. Targets'
  BY StoreAssumption, MarkersAssumption
  DEF StoreInv, NextSource, TypeOK, Targets, Saving, HasKey, Processes
<1>3. GoodFiles'
  <2>. QED
    BY RemoveTmpFacts, StoreAssumption, MarkersAssumption
    DEF StoreInv, NextSource, TypeOK, Targets, GoodFiles, Saving, Temporary, Chunk,
        Value, Empty, Data, Processes, Paths
<1>4. OneSaver'
  <2>. QED
    BY RemoveTmpFacts, StoreAssumption, MarkersAssumption
    DEF StoreInv, NextSource, TypeOK, Targets, OneSaver, Saving, Empty, Data, Processes
<1>5. OneKey'
  BY StoreAssumption, MarkersAssumption
  DEF StoreInv, NextSource, TypeOK, Targets, OneSaver, OneKey, Saving, Value, Data,
      Processes
<1>6. RunsWhileUp'
  BY StoreAssumption, MarkersAssumption
  DEF StoreInv, NextSource, TypeOK, Targets, RunsWhileUp, Saving, Processes
<1>7. DamageNeedsClash'
  BY StoreAssumption, MarkersAssumption
  DEF StoreInv, NextSource, TypeOK, Targets, OneSaver, DamageNeedsClash, Saving, Value,
      Chunk, Data, Processes
<1>8. KeysAgree'
  BY StoreAssumption, MarkersAssumption
  DEF StoreInv, NextSource, TypeOK, Targets, OneSaver, OneKey, DamageNeedsClash,
      KeysAgree, HasKey, Saving, Value, Chunk, Data, Processes
<1>9. RunsGoodText'
  BY StoreAssumption, MarkersAssumption
  DEF StoreInv, NextSource, TypeOK, Targets, GoodFiles, RunsWhileUp, RunsGoodText,
      HasKey, Saving, Value, Processes
<1>. QED  BY <1>1, <1>2, <1>3, <1>4, <1>5, <1>6, <1>7, <1>8, <1>9 DEF StoreInv

LEMMA BeginSaveInv ==
    ASSUME StoreInv, NEW p \in Processes, at[p] \in {"check", "compare"}, text[p] \in Good,
           at' = [at EXCEPT ![p] = "open"], clash' = ClashOn(p, target[p]),
           UNCHANGED <<disk, tmp, source, target, key, text, left, create, running, crashes>>
    PROVE  StoreInv'
<1>1. TypeOK'
  BY StoreAssumption, MarkersAssumption
  DEF StoreInv, ClashOn, TypeOK, HasKey, Saving, TmpOpen, Value, Chunk, Temporary,
      Empty, Data, Processes
<1>2. Targets'
  BY StoreAssumption, MarkersAssumption
  DEF StoreInv, ClashOn, TypeOK, Targets, Saving, HasKey, Processes
<1>3. GoodFiles'
  BY StoreAssumption, MarkersAssumption
  DEF StoreInv, ClashOn, TypeOK, Targets, GoodFiles, Saving, Temporary, Chunk, Value,
      Empty, Data, Processes
<1>4. OneSaver'
  BY StoreAssumption, MarkersAssumption
  DEF StoreInv, ClashOn, TypeOK, Targets, OneSaver, Saving, Empty, Data, Processes
<1>5. OneKey'
  BY StoreAssumption, MarkersAssumption
  DEF StoreInv, ClashOn, TypeOK, Targets, OneSaver, OneKey, Saving, Value, Data,
      Processes
<1>6. RunsWhileUp'
  BY StoreAssumption, MarkersAssumption
  DEF StoreInv, ClashOn, TypeOK, Targets, RunsWhileUp, Saving, Processes
<1>7. DamageNeedsClash'
  BY StoreAssumption, MarkersAssumption
  DEF StoreInv, ClashOn, TypeOK, Targets, OneSaver, DamageNeedsClash, Saving, Value,
      Chunk, Data, Processes
<1>8. KeysAgree'
  BY StoreAssumption, MarkersAssumption
  DEF StoreInv, ClashOn, TypeOK, Targets, OneSaver, OneKey, DamageNeedsClash, KeysAgree,
      HasKey, Saving, Value, Chunk, Data, Processes
<1>9. RunsGoodText'
  BY StoreAssumption, MarkersAssumption
  DEF StoreInv, ClashOn, TypeOK, Targets, GoodFiles, RunsWhileUp, RunsGoodText, HasKey,
      Saving, Value, Processes
<1>. QED  BY <1>1, <1>2, <1>3, <1>4, <1>5, <1>6, <1>7, <1>8, <1>9 DEF StoreInv

LEMMA BeginCompareInv ==
    ASSUME StoreInv, NEW p \in Processes, at[p] = "check", disk[target[p]] # Absent, at' = [at EXCEPT ![p] = "compare"],
           UNCHANGED <<disk, tmp, source, target, key, text, left, create, running, clash, crashes>>
    PROVE  StoreInv'
<1>1. TypeOK'
  BY StoreAssumption, MarkersAssumption
  DEF StoreInv, TypeOK, HasKey, Saving, TmpOpen, Value, Chunk, Temporary, Empty, Data,
      Processes
<1>2. Targets'
  BY StoreAssumption, MarkersAssumption
  DEF StoreInv, TypeOK, Targets, Saving, HasKey, Processes
<1>3. GoodFiles'
  BY StoreAssumption, MarkersAssumption
  DEF StoreInv, TypeOK, Targets, GoodFiles, Saving, Temporary, Chunk, Value, Empty,
      Data, Processes
<1>4. OneSaver'
  BY StoreAssumption, MarkersAssumption
  DEF StoreInv, TypeOK, Targets, OneSaver, Saving, Empty, Data, Processes
<1>5. OneKey'
  BY StoreAssumption, MarkersAssumption
  DEF StoreInv, TypeOK, Targets, OneSaver, OneKey, Saving, Value, Data, Processes
<1>6. RunsWhileUp'
  BY StoreAssumption, MarkersAssumption
  DEF StoreInv, TypeOK, Targets, RunsWhileUp, Saving, Processes
<1>7. DamageNeedsClash'
  BY StoreAssumption, MarkersAssumption
  DEF StoreInv, TypeOK, Targets, OneSaver, DamageNeedsClash, Saving, Value, Chunk, Data,
      Processes
<1>8. KeysAgree'
  BY StoreAssumption, MarkersAssumption
  DEF StoreInv, TypeOK, Targets, OneSaver, OneKey, DamageNeedsClash, KeysAgree, HasKey,
      Saving, Value, Chunk, Data, Processes
<1>9. RunsGoodText'
  BY StoreAssumption, MarkersAssumption
  DEF StoreInv, TypeOK, Targets, GoodFiles, RunsWhileUp, RunsGoodText, HasKey, Saving,
      Value, Processes
<1>. QED  BY <1>1, <1>2, <1>3, <1>4, <1>5, <1>6, <1>7, <1>8, <1>9 DEF StoreInv

LEMMA FindKeyInv ==
    ASSUME StoreInv, NEW p \in Processes, FindKey(p)
    PROVE  StoreInv'
<1>1. TypeOK'
  BY StoreAssumption, MarkersAssumption
  DEF StoreInv, FindKey, TypeOK, HasKey, Saving, TmpOpen, Value, Chunk, Temporary,
      Empty, Data, Processes
<1>2. Targets'
  BY StoreAssumption, MarkersAssumption
  DEF StoreInv, FindKey, TypeOK, Targets, Saving, HasKey, Processes
<1>3. GoodFiles'
  BY StoreAssumption, MarkersAssumption
  DEF StoreInv, FindKey, TypeOK, Targets, GoodFiles, Saving, Temporary, Chunk, Value,
      Empty, Data, Processes
<1>4. OneSaver'
  BY StoreAssumption, MarkersAssumption
  DEF StoreInv, FindKey, TypeOK, Targets, OneSaver, Saving, Empty, Data, Processes
<1>5. OneKey'
  BY StoreAssumption, MarkersAssumption
  DEF StoreInv, FindKey, TypeOK, Targets, OneSaver, OneKey, Saving, Value, Data,
      Processes
<1>6. RunsWhileUp'
  BY StoreAssumption, MarkersAssumption
  DEF StoreInv, FindKey, TypeOK, Targets, RunsWhileUp, Saving, Processes
<1>7. DamageNeedsClash'
  BY StoreAssumption, MarkersAssumption
  DEF StoreInv, FindKey, TypeOK, Targets, OneSaver, DamageNeedsClash, Saving, Value,
      Chunk, Data, Processes
<1>8. KeysAgree'
  BY StoreAssumption, MarkersAssumption
  DEF StoreInv, FindKey, TypeOK, Targets, OneSaver, OneKey, DamageNeedsClash, KeysAgree,
      HasKey, Saving, Value, Chunk, Data, Processes
<1>9. RunsGoodText'
  BY StoreAssumption, MarkersAssumption
  DEF StoreInv, FindKey, TypeOK, Targets, GoodFiles, RunsWhileUp, RunsGoodText, HasKey,
      Saving, Value, Processes
<1>. QED  BY <1>1, <1>2, <1>3, <1>4, <1>5, <1>6, <1>7, <1>8, <1>9 DEF StoreInv

LEMMA KeyFoundInv ==
    ASSUME StoreInv, NEW p \in Processes, at[p] = "readkey", disk[KeyFile] # Damaged, KeyReady(p),
           key' = [key EXCEPT ![p] = disk[KeyFile].key],
           UNCHANGED <<disk, tmp, source, target, text, left, create, running, clash, crashes>>
    PROVE  StoreInv'
<1>1. TypeOK'
  <2>1. disk[KeyFile] \in Value
    BY DEF StoreInv, Targets, TypeOK
  <2>. QED
    BY <2>1, StoreAssumption, MarkersAssumption
    DEF StoreInv, KeyReady, TypeOK, HasKey, Saving, TmpOpen, Value, Processes
<1>2. Targets'
  BY StoreAssumption, MarkersAssumption
  DEF StoreInv, KeyReady, TypeOK, Targets, Saving, HasKey, Processes
<1>3. GoodFiles'
  BY StoreAssumption, MarkersAssumption
  DEF StoreInv, KeyReady, TypeOK, Targets, GoodFiles, Saving, Temporary, Chunk, Value,
      Empty, Data, Processes
<1>4. OneSaver'
  BY StoreAssumption, MarkersAssumption
  DEF StoreInv, KeyReady, TypeOK, Targets, OneSaver, Saving, Empty, Data, Processes
<1>5. OneKey'
  BY StoreAssumption, MarkersAssumption
  DEF StoreInv, KeyReady, TypeOK, Targets, OneSaver, OneKey, Saving, Value, Data,
      Processes
<1>6. RunsWhileUp'
  BY StoreAssumption, MarkersAssumption
  DEF StoreInv, KeyReady, TypeOK, Targets, RunsWhileUp, Saving, Processes
<1>7. DamageNeedsClash'
  BY StoreAssumption, MarkersAssumption
  DEF StoreInv, KeyReady, TypeOK, Targets, OneSaver, DamageNeedsClash, Saving, Value,
      Chunk, Data, Processes
<1>8. KeysAgree'
  BY StoreAssumption, MarkersAssumption
  DEF StoreInv, KeyReady, TypeOK, Targets, OneSaver, OneKey, DamageNeedsClash,
      KeysAgree, HasKey, Saving, Value, Chunk, Data, Processes
<1>9. RunsGoodText'
  BY StoreAssumption, MarkersAssumption
  DEF StoreInv, KeyReady, TypeOK, Targets, GoodFiles, RunsWhileUp, RunsGoodText, HasKey,
      Saving, Value, Processes
<1>. QED  BY <1>1, <1>2, <1>3, <1>4, <1>5, <1>6, <1>7, <1>8, <1>9 DEF StoreInv

LEMMA NewKeyInv ==
    ASSUME StoreInv, NEW p \in Processes, NEW k, at[p] = "key", disk[KeyFile] = Absent, k \in Keys,
           key' = [key EXCEPT ![p] = k], at' = [at EXCEPT ![p] = "open"],
           clash' = ClashOn(p, KeyFile),
           UNCHANGED <<disk, tmp, source, target, text, left, create, running, crashes>>
    PROVE  StoreInv'
<1>1. TypeOK'
  BY StoreAssumption, MarkersAssumption
  DEF StoreInv, ClashOn, TypeOK, HasKey, Saving, TmpOpen, Value, Chunk, Temporary,
      Empty, Data, Processes
<1>2. Targets'
  BY StoreAssumption, MarkersAssumption
  DEF StoreInv, ClashOn, TypeOK, Targets, Saving, HasKey, Processes
<1>3. GoodFiles'
  BY StoreAssumption, MarkersAssumption
  DEF StoreInv, ClashOn, TypeOK, Targets, GoodFiles, Saving, Temporary, Chunk, Value,
      Empty, Data, Processes
<1>4. OneSaver'
  BY StoreAssumption, MarkersAssumption
  DEF StoreInv, ClashOn, TypeOK, Targets, OneSaver, Saving, Empty, Data, Processes
<1>5. OneKey'
  BY StoreAssumption, MarkersAssumption
  DEF StoreInv, ClashOn, TypeOK, Targets, OneSaver, OneKey, Saving, Value, Data,
      Processes
<1>6. RunsWhileUp'
  BY StoreAssumption, MarkersAssumption
  DEF StoreInv, ClashOn, TypeOK, Targets, RunsWhileUp, Saving, Processes
<1>7. DamageNeedsClash'
  BY StoreAssumption, MarkersAssumption
  DEF StoreInv, ClashOn, TypeOK, Targets, OneSaver, DamageNeedsClash, Saving, Value,
      Chunk, Data, Processes
<1>8. KeysAgree'
  BY StoreAssumption, MarkersAssumption
  DEF StoreInv, ClashOn, TypeOK, Targets, OneSaver, OneKey, DamageNeedsClash, KeysAgree,
      HasKey, Saving, Value, Chunk, Data, Processes
<1>9. RunsGoodText'
  BY StoreAssumption, MarkersAssumption
  DEF StoreInv, ClashOn, TypeOK, Targets, GoodFiles, RunsWhileUp, RunsGoodText, HasKey,
      Saving, Value, Processes
<1>. QED  BY <1>1, <1>2, <1>3, <1>4, <1>5, <1>6, <1>7, <1>8, <1>9 DEF StoreInv

LEMMA OpenTmpInv ==
    ASSUME StoreInv, NEW p \in Processes, OpenTmp(p)
    PROVE  StoreInv'
<1>1. TypeOK'
  BY StoreAssumption, MarkersAssumption
  DEF StoreInv, OpenTmp, TypeOK, HasKey, Saving, TmpOpen, Value, Chunk, Temporary,
      Empty, Data, Processes
<1>2. Targets'
  BY StoreAssumption, MarkersAssumption
  DEF StoreInv, OpenTmp, TypeOK, Targets, Saving, HasKey, Processes
<1>3. GoodFiles'
  BY StoreAssumption, MarkersAssumption
  DEF StoreInv, OpenTmp, TypeOK, Targets, GoodFiles, Saving, Temporary, Chunk, Value,
      Empty, Data, Processes
<1>4. OneSaver'
  BY StoreAssumption, MarkersAssumption
  DEF StoreInv, OpenTmp, TypeOK, Targets, OneSaver, Saving, Empty, Data, Processes
<1>5. OneKey'
  BY StoreAssumption, MarkersAssumption
  DEF StoreInv, OpenTmp, TypeOK, Targets, OneSaver, OneKey, Saving, Value, Data,
      Processes
<1>6. RunsWhileUp'
  BY StoreAssumption, MarkersAssumption
  DEF StoreInv, OpenTmp, TypeOK, Targets, RunsWhileUp, Saving, Processes
<1>7. DamageNeedsClash'
  BY StoreAssumption, MarkersAssumption
  DEF StoreInv, OpenTmp, TypeOK, Targets, OneSaver, DamageNeedsClash, Saving, Value,
      Chunk, Data, Processes
<1>8. KeysAgree'
  BY StoreAssumption, MarkersAssumption
  DEF StoreInv, OpenTmp, TypeOK, Targets, OneSaver, OneKey, DamageNeedsClash, KeysAgree,
      HasKey, Saving, Value, Chunk, Data, Processes
<1>9. RunsGoodText'
  BY StoreAssumption, MarkersAssumption
  DEF StoreInv, OpenTmp, TypeOK, Targets, GoodFiles, RunsWhileUp, RunsGoodText, HasKey,
      Saving, Value, Processes
<1>. QED  BY <1>1, <1>2, <1>3, <1>4, <1>5, <1>6, <1>7, <1>8, <1>9 DEF StoreInv

LEMMA WriteAtOnceInv ==
    ASSUME StoreInv, NEW p \in Processes, WriteAtOnce(p)
    PROVE  StoreInv'
<1>1. TypeOK'
  BY StoreAssumption, MarkersAssumption
  DEF StoreInv, WriteAtOnce, TypeOK, HasKey, Saving, TmpOpen, Value, Chunk, Temporary,
      Empty, Data, Processes
<1>2. Targets'
  BY StoreAssumption, MarkersAssumption
  DEF StoreInv, WriteAtOnce, TypeOK, Targets, Saving, HasKey, Processes
<1>3. GoodFiles'
  BY StoreAssumption, MarkersAssumption
  DEF StoreInv, WriteAtOnce, TypeOK, Targets, GoodFiles, Saving, Temporary, Chunk,
      Value, Empty, Data, Processes
<1>4. OneSaver'
  BY StoreAssumption, MarkersAssumption
  DEF StoreInv, WriteAtOnce, TypeOK, Targets, OneSaver, Saving, Empty, Data, Processes
<1>5. OneKey'
  BY StoreAssumption, MarkersAssumption
  DEF StoreInv, WriteAtOnce, TypeOK, Targets, OneSaver, OneKey, Saving, Value, Data,
      Processes
<1>6. RunsWhileUp'
  BY StoreAssumption, MarkersAssumption
  DEF StoreInv, WriteAtOnce, TypeOK, Targets, RunsWhileUp, Saving, Processes
<1>7. DamageNeedsClash'
  BY StoreAssumption, MarkersAssumption
  DEF StoreInv, WriteAtOnce, TypeOK, Targets, OneSaver, DamageNeedsClash, Saving, Value,
      Chunk, Data, Processes
<1>8. KeysAgree'
  BY StoreAssumption, MarkersAssumption
  DEF StoreInv, WriteAtOnce, TypeOK, Targets, OneSaver, OneKey, DamageNeedsClash,
      KeysAgree, HasKey, Saving, Value, Chunk, Data, Processes
<1>9. RunsGoodText'
  BY StoreAssumption, MarkersAssumption
  DEF StoreInv, WriteAtOnce, TypeOK, Targets, GoodFiles, RunsWhileUp, RunsGoodText,
      HasKey, Saving, Value, Processes
<1>. QED  BY <1>1, <1>2, <1>3, <1>4, <1>5, <1>6, <1>7, <1>8, <1>9 DEF StoreInv

LEMMA WriteHeadInv ==
    ASSUME StoreInv, NEW p \in Processes, WriteHead(p)
    PROVE  StoreInv'
<1>1. TypeOK'
  <2>1. Data(p) \in Chunk
    BY DataFacts DEF WriteHead, Saving
  <2>2. tmp[target[p]] \in Temporary
    BY DEF StoreInv, TypeOK, WriteHead, TmpOpen
  <2>. QED
    BY <2>1, <2>2, StoreAssumption, MarkersAssumption
    DEF StoreInv, WriteHead, TypeOK, HasKey, Saving, TmpOpen, Temporary, Processes,
        Paths
<1>2. Targets'
  BY StoreAssumption, MarkersAssumption
  DEF StoreInv, WriteHead, TypeOK, Targets, Saving, HasKey, Processes
<1>3. GoodFiles'
  BY StoreAssumption, MarkersAssumption
  DEF StoreInv, WriteHead, TypeOK, Targets, GoodFiles, Saving, Temporary, Chunk, Value,
      Empty, Data, Processes
<1>4. OneSaver'
  BY StoreAssumption, MarkersAssumption
  DEF StoreInv, WriteHead, TypeOK, Targets, OneSaver, Saving, Empty, Data, Processes
<1>5. OneKey'
  BY StoreAssumption, MarkersAssumption
  DEF StoreInv, WriteHead, TypeOK, Targets, OneSaver, OneKey, Saving, Value, Data,
      Processes
<1>6. RunsWhileUp'
  BY StoreAssumption, MarkersAssumption
  DEF StoreInv, WriteHead, TypeOK, Targets, RunsWhileUp, Saving, Processes
<1>7. DamageNeedsClash'
  BY StoreAssumption, MarkersAssumption
  DEF StoreInv, WriteHead, TypeOK, Targets, OneSaver, DamageNeedsClash, Saving, Value,
      Chunk, Data, Processes
<1>8. KeysAgree'
  BY StoreAssumption, MarkersAssumption
  DEF StoreInv, WriteHead, TypeOK, Targets, OneSaver, OneKey, DamageNeedsClash,
      KeysAgree, HasKey, Saving, Value, Chunk, Data, Processes
<1>9. RunsGoodText'
  BY StoreAssumption, MarkersAssumption
  DEF StoreInv, WriteHead, TypeOK, Targets, GoodFiles, RunsWhileUp, RunsGoodText,
      HasKey, Saving, Value, Processes
<1>. QED  BY <1>1, <1>2, <1>3, <1>4, <1>5, <1>6, <1>7, <1>8, <1>9 DEF StoreInv

LEMMA WriteRestInv ==
    ASSUME StoreInv, NEW p \in Processes, WriteRest(p)
    PROVE  StoreInv'
<1>1. TypeOK'
  <2>1. Data(p) \in Chunk
    BY DataFacts DEF WriteRest, Saving
  <2>2. tmp[target[p]] \in Temporary
    BY DEF StoreInv, TypeOK, WriteRest, TmpOpen
  <2>3. PICK r \in Chunk \cup {Torn} : tmp' = [tmp EXCEPT ![target[p]].rest = r]
    BY <2>1 DEF WriteRest
  <2>4. [tmp[target[p]] EXCEPT !.rest = r] \in Temporary
    BY <2>2 DEF Temporary
  <2>5. tmp' \in [Paths -> Temporary \cup {Absent}] /\ tmp'[target[p]] # Absent /\ (\A f \in Paths \ {target[p]} : tmp'[f] = tmp[f])
    BY <2>3, <2>4, MarkersAssumption DEF StoreInv, TypeOK
  <2>6. at[p] = "half" /\ at' = [at EXCEPT ![p] = "close"]
    BY DEF WriteRest
  <2>7. UNCHANGED <<disk, source, target, key, text, left, create, running, clash, crashes>>
    BY DEF WriteRest
  <2>. QED
    BY <2>1, <2>2, <2>3, <2>4, <2>5, <2>6, <2>7, StoreAssumption, MarkersAssumption
    DEF StoreInv, TypeOK, HasKey, Saving, TmpOpen, Processes
<1>2. Targets'
  BY StoreAssumption, MarkersAssumption
  DEF StoreInv, WriteRest, TypeOK, Targets, Saving, HasKey, Processes
<1>3. GoodFiles'
  <2>1. tmp[target[p]] \in Temporary
    BY DEF StoreInv, TypeOK, WriteRest, TmpOpen
  <2>. QED
    BY <2>1, StoreAssumption, MarkersAssumption
    DEF StoreInv, WriteRest, TypeOK, GoodFiles, Saving, Temporary, Processes
<1>4. OneSaver'
  BY StoreAssumption, MarkersAssumption
  DEF StoreInv, WriteRest, TypeOK, Targets, OneSaver, Saving, Empty, Data, Processes,
      Paths
<1>5. OneKey'
  BY StoreAssumption, MarkersAssumption
  DEF StoreInv, WriteRest, TypeOK, Targets, OneSaver, OneKey, Saving, Value, Data,
      Processes
<1>6. RunsWhileUp'
  BY StoreAssumption, MarkersAssumption
  DEF StoreInv, WriteRest, TypeOK, Targets, RunsWhileUp, Saving, Processes
<1>7. DamageNeedsClash'
  BY StoreAssumption, MarkersAssumption
  DEF StoreInv, WriteRest, TypeOK, Targets, OneSaver, DamageNeedsClash, Saving, Value,
      Chunk, Data, Processes
<1>8. KeysAgree'
  BY StoreAssumption, MarkersAssumption
  DEF StoreInv, WriteRest, TypeOK, Targets, OneSaver, OneKey, DamageNeedsClash,
      KeysAgree, HasKey, Saving, Value, Chunk, Data, Processes
<1>9. RunsGoodText'
  BY StoreAssumption, MarkersAssumption
  DEF StoreInv, WriteRest, TypeOK, Targets, GoodFiles, RunsWhileUp, RunsGoodText,
      HasKey, Saving, Value, Processes
<1>. QED  BY <1>1, <1>2, <1>3, <1>4, <1>5, <1>6, <1>7, <1>8, <1>9 DEF StoreInv

LEMMA CloseTmpInv ==
    ASSUME StoreInv, NEW p \in Processes, CloseTmp(p)
    PROVE  StoreInv'
<1>1. TypeOK'
  BY StoreAssumption, MarkersAssumption
  DEF StoreInv, CloseTmp, TypeOK, HasKey, Saving, TmpOpen, Value, Chunk, Temporary,
      Empty, Data, Processes
<1>2. Targets'
  BY StoreAssumption, MarkersAssumption
  DEF StoreInv, CloseTmp, TypeOK, Targets, Saving, HasKey, Processes
<1>3. GoodFiles'
  BY StoreAssumption, MarkersAssumption
  DEF StoreInv, CloseTmp, TypeOK, Targets, GoodFiles, Saving, Temporary, Chunk, Value,
      Empty, Data, Processes
<1>4. OneSaver'
  BY StoreAssumption, MarkersAssumption
  DEF StoreInv, CloseTmp, TypeOK, Targets, OneSaver, Saving, Empty, Data, Processes
<1>5. OneKey'
  BY StoreAssumption, MarkersAssumption
  DEF StoreInv, CloseTmp, TypeOK, Targets, OneSaver, OneKey, Saving, Value, Data,
      Processes
<1>6. RunsWhileUp'
  BY StoreAssumption, MarkersAssumption
  DEF StoreInv, CloseTmp, TypeOK, Targets, RunsWhileUp, Saving, Processes
<1>7. DamageNeedsClash'
  BY StoreAssumption, MarkersAssumption
  DEF StoreInv, CloseTmp, TypeOK, Targets, OneSaver, DamageNeedsClash, Saving, Value,
      Chunk, Data, Processes
<1>8. KeysAgree'
  BY StoreAssumption, MarkersAssumption
  DEF StoreInv, CloseTmp, TypeOK, Targets, OneSaver, OneKey, DamageNeedsClash,
      KeysAgree, HasKey, Saving, Value, Chunk, Data, Processes
<1>9. RunsGoodText'
  BY StoreAssumption, MarkersAssumption
  DEF StoreInv, CloseTmp, TypeOK, Targets, GoodFiles, RunsWhileUp, RunsGoodText, HasKey,
      Saving, Value, Processes
<1>. QED  BY <1>1, <1>2, <1>3, <1>4, <1>5, <1>6, <1>7, <1>8, <1>9 DEF StoreInv

LEMMA MoveInv ==
    ASSUME StoreInv, NEW p \in Processes, Move(p)
    PROVE  StoreInv'
<1>1. TypeOK'
  BY StoreAssumption, MarkersAssumption
  DEF StoreInv, Move, MayMove, Moved, Whole, NextSource, KeyReady, TypeOK, HasKey,
      Saving, TmpOpen, Value, Chunk, Temporary, Empty, Data, Processes, Paths
<1>2. Targets'
  <2>1. disk' = [disk EXCEPT ![target[p]] = Moved(tmp[target[p]])] /\ Moved(tmp[target[p]]) # Absent
    BY DataFacts, MarkersAssumption
    DEF StoreInv, Move, MayMove, Moved, Whole, TypeOK, Temporary, Chunk
  <2>2. CASE target[p] = KeyFile
    BY <2>2, <2>1, StoreAssumption, MarkersAssumption
    DEF StoreInv, Move, MayMove, NextSource, KeyReady, TypeOK, Targets, Saving, HasKey,
        Processes
  <2>3. CASE target[p] # KeyFile
    BY <2>3, <2>1, StoreAssumption, MarkersAssumption
    DEF StoreInv, Move, MayMove, NextSource, KeyReady, TypeOK, Targets, Saving, HasKey,
        Processes
  <2>. QED  BY <2>2, <2>3 DEF Move, MayMove, Moved, Whole, NextSource
<1>3. GoodFiles'
  BY StoreAssumption, MarkersAssumption
  DEF StoreInv, Move, MayMove, Moved, Whole, NextSource, KeyReady, TypeOK, Targets,
      GoodFiles, Saving, Temporary, Chunk, Value, Empty, Data, Processes
<1>4. OneSaver'
  BY StoreAssumption, MarkersAssumption
  DEF StoreInv, Move, MayMove, Moved, Whole, NextSource, KeyReady, TypeOK, Targets,
      OneSaver, Saving, Empty, Data, Processes
<1>5. OneKey'
  <2>1. target[p] \notin clash => Moved(tmp[target[p]]) = Data(p).value
    BY DataFacts DEF StoreInv, OneSaver, TypeOK, Move, Saving, Moved, Whole
  <2>2. disk' = [disk EXCEPT ![target[p]] = Moved(tmp[target[p]])]
    BY DEF Move
  <2>3. Data(p) \in Chunk /\ Data(p).value \in Value /\ Data(p).value.key = key[p]
    BY DataFacts DEF Move, Saving
  <2>4. \A q \in Processes \ {p} : target[p] \notin clash => ~(at[q] \in Saving /\ target[q] = target[p])
    BY DEF StoreInv, TypeOK, OneSaver, Move, Saving
  <2>5. CASE target[p] = KeyFile
    BY <2>5, <2>1, <2>2, <2>3, <2>4, StoreAssumption, MarkersAssumption
    DEF StoreInv, Move, MayMove, NextSource, KeyReady, TypeOK, Targets, OneKey, Saving,
        Processes
  <2>6. CASE target[p] # KeyFile
    BY <2>6, <2>1, <2>2, <2>3, <2>4, StoreAssumption, MarkersAssumption
    DEF StoreInv, Move, MayMove, NextSource, KeyReady, TypeOK, Targets, OneKey, Saving,
        Processes
  <2>. QED  BY <2>5, <2>6 DEF Move, MayMove, Moved, Whole, NextSource
<1>6. RunsWhileUp'
  BY StoreAssumption, MarkersAssumption
  DEF StoreInv, Move, MayMove, Moved, Whole, NextSource, KeyReady, TypeOK, Targets,
      RunsWhileUp, Saving, Processes
<1>7. DamageNeedsClash'
  <2>1. target[p] \notin clash => Moved(tmp[target[p]]) = Data(p).value
    BY DataFacts DEF StoreInv, OneSaver, TypeOK, Move, Saving, Moved, Whole
  <2>2. disk' = [disk EXCEPT ![target[p]] = Moved(tmp[target[p]])]
    BY DEF Move
  <2>3. Data(p) \in Chunk /\ Data(p).value \in Value /\ Data(p).value.key = key[p]
    BY DataFacts DEF Move, Saving
  <2>4. \A q \in Processes \ {p} : target[p] \notin clash => ~(at[q] \in Saving /\ target[q] = target[p])
    BY DEF StoreInv, TypeOK, OneSaver, Move, Saving
  <2>5. CASE target[p] = KeyFile
    BY <2>5, <2>1, <2>2, <2>3, <2>4, StoreAssumption, MarkersAssumption
    DEF StoreInv, Move, MayMove, NextSource, KeyReady, TypeOK, DamageNeedsClash,
        Processes
  <2>6. CASE target[p] # KeyFile
    BY <2>6, <2>1, <2>2, <2>3, <2>4, StoreAssumption, MarkersAssumption
    DEF StoreInv, Move, MayMove, NextSource, KeyReady, TypeOK, DamageNeedsClash,
        Processes
  <2>. QED  BY <2>5, <2>6 DEF Move, MayMove, Moved, Whole, NextSource
<1>8. KeysAgree'
  <2>1. target[p] \notin clash => Moved(tmp[target[p]]) = Data(p).value
    BY DataFacts DEF StoreInv, OneSaver, TypeOK, Move, Saving, Moved, Whole
  <2>2. disk' = [disk EXCEPT ![target[p]] = Moved(tmp[target[p]])]
    BY DEF Move
  <2>3. Data(p) \in Chunk /\ Data(p).value \in Value /\ Data(p).value.key = key[p]
    BY DataFacts DEF Move, Saving
  <2>4. \A q \in Processes \ {p} : target[p] \notin clash => ~(at[q] \in Saving /\ target[q] = target[p])
    BY DEF StoreInv, TypeOK, OneSaver, Move, Saving
  <2>5. CASE target[p] = KeyFile
    BY <2>5, <2>1, <2>2, <2>3, <2>4, StoreAssumption, MarkersAssumption
    DEF StoreInv, Move, MayMove, NextSource, KeyReady, TypeOK, Targets, OneKey,
        KeysAgree, HasKey, Saving, Processes
  <2>6. CASE target[p] # KeyFile
    BY <2>6, <2>1, <2>2, <2>3, <2>4, StoreAssumption, MarkersAssumption
    DEF StoreInv, Move, MayMove, NextSource, KeyReady, TypeOK, Targets, OneKey,
        KeysAgree, HasKey, Saving, Processes, Paths
  <2>. QED  BY <2>5, <2>6 DEF Move, MayMove, Moved, Whole, NextSource
<1>9. RunsGoodText'
  BY StoreAssumption, MarkersAssumption
  DEF StoreInv, Move, MayMove, Moved, Whole, NextSource, KeyReady, TypeOK, Targets,
      GoodFiles, RunsWhileUp, RunsGoodText, HasKey, Saving, Value, Processes
<1>. QED  BY <1>1, <1>2, <1>3, <1>4, <1>5, <1>6, <1>7, <1>8, <1>9 DEF StoreInv

LEMMA ReadSourceInv ==
    ASSUME StoreInv, NEW p \in Processes, ReadSource(p)
    PROVE  StoreInv'
<1>1. TypeOK'
  <2>1. PICK s \in Sources : /\ text' = [text EXCEPT ![p] = source[s]]
                           /\ target' = [target EXCEPT ![p] = Output[s]]
                           /\ left' = [left EXCEPT ![p] = @ \ {s}]
    BY DEF StoreInv, TypeOK, ReadSource
  <2>2. source[s] \in Texts /\ Output[s] \in Packages /\ left[p] \ {s} \in SUBSET Sources
    BY StoreAssumption DEF StoreInv, TypeOK
  <2>3. at[p] = "next" /\ at' = [at EXCEPT ![p] = "check"] /\ p # Server
    BY DEF ReadSource, StoreInv, Targets
  <2>4. UNCHANGED <<disk, tmp, source, key, create, running, clash, crashes>>
    BY DEF ReadSource
  <2>. QED
    BY <2>1, <2>2, <2>3, <2>4, StoreAssumption, MarkersAssumption
    DEF StoreInv, TypeOK, HasKey, Saving, TmpOpen, Processes, Paths
<1>2. Targets'
  BY StoreAssumption, MarkersAssumption
  DEF StoreInv, ReadSource, TypeOK, Targets, Saving, HasKey, Processes
<1>3. GoodFiles'
  BY StoreAssumption, MarkersAssumption
  DEF StoreInv, ReadSource, TypeOK, Targets, GoodFiles, Saving, Temporary, Chunk, Value,
      Empty, Data, Processes
<1>4. OneSaver'
  BY StoreAssumption, MarkersAssumption
  DEF StoreInv, ReadSource, TypeOK, Targets, OneSaver, Saving, Empty, Data, Processes
<1>5. OneKey'
  BY StoreAssumption, MarkersAssumption
  DEF StoreInv, ReadSource, TypeOK, Targets, OneSaver, OneKey, Saving, Value, Data,
      Processes
<1>6. RunsWhileUp'
  BY StoreAssumption, MarkersAssumption
  DEF StoreInv, ReadSource, TypeOK, Targets, RunsWhileUp, Saving, Processes
<1>7. DamageNeedsClash'
  BY StoreAssumption, MarkersAssumption
  DEF StoreInv, ReadSource, TypeOK, Targets, OneSaver, DamageNeedsClash, Saving, Value,
      Chunk, Data, Processes
<1>8. KeysAgree'
  BY StoreAssumption, MarkersAssumption
  DEF StoreInv, ReadSource, TypeOK, Targets, OneSaver, OneKey, DamageNeedsClash,
      KeysAgree, HasKey, Saving, Value, Chunk, Data, Processes
<1>9. RunsGoodText'
  BY StoreAssumption, MarkersAssumption
  DEF StoreInv, ReadSource, TypeOK, Targets, GoodFiles, RunsWhileUp, RunsGoodText,
      HasKey, Saving, Value, Processes
<1>. QED  BY <1>1, <1>2, <1>3, <1>4, <1>5, <1>6, <1>7, <1>8, <1>9 DEF StoreInv

LEMMA OpenPackageInv ==
    ASSUME StoreInv, NEW f \in Packages, OpenPackage(f)
    PROVE  StoreInv'
<1>1. TypeOK'
  BY StoreAssumption, MarkersAssumption
  DEF StoreInv, OpenPackage, TypeOK, HasKey, Saving, TmpOpen, Value, Chunk, Temporary,
      Empty, Data, Processes, Paths
<1>2. Targets'
  BY StoreAssumption, MarkersAssumption
  DEF StoreInv, OpenPackage, TypeOK, Targets, Saving, HasKey, Processes
<1>3. GoodFiles'
  BY StoreAssumption, MarkersAssumption
  DEF StoreInv, OpenPackage, TypeOK, Targets, GoodFiles, Saving, Temporary, Chunk,
      Value, Empty, Data, Processes
<1>4. OneSaver'
  BY StoreAssumption, MarkersAssumption
  DEF StoreInv, OpenPackage, TypeOK, Targets, OneSaver, Saving, Empty, Data, Processes
<1>5. OneKey'
  BY StoreAssumption, MarkersAssumption
  DEF StoreInv, OpenPackage, TypeOK, Targets, OneSaver, OneKey, Saving, Value, Data,
      Processes
<1>6. RunsWhileUp'
  BY StoreAssumption, MarkersAssumption
  DEF StoreInv, OpenPackage, TypeOK, Targets, RunsWhileUp, Saving, Processes
<1>7. DamageNeedsClash'
  BY StoreAssumption, MarkersAssumption
  DEF StoreInv, OpenPackage, TypeOK, Targets, OneSaver, DamageNeedsClash, Saving, Value,
      Chunk, Data, Processes
<1>8. KeysAgree'
  BY StoreAssumption, MarkersAssumption
  DEF StoreInv, OpenPackage, TypeOK, Targets, OneSaver, OneKey, DamageNeedsClash,
      KeysAgree, HasKey, Saving, Value, Chunk, Data, Processes
<1>9. RunsGoodText'
  BY StoreAssumption, MarkersAssumption
  DEF StoreInv, OpenPackage, TypeOK, Targets, GoodFiles, RunsWhileUp, RunsGoodText,
      HasKey, Saving, Value, Processes
<1>. QED  BY <1>1, <1>2, <1>3, <1>4, <1>5, <1>6, <1>7, <1>8, <1>9 DEF StoreInv

LEMMA LoadPackageInv ==
    ASSUME StoreInv, LoadPackage
    PROVE  StoreInv'
<1>1. TypeOK'
  BY StoreAssumption, MarkersAssumption
  DEF StoreInv, LoadPackage, TypeOK, HasKey, Saving, TmpOpen, Value, Chunk, Temporary,
      Empty, Data, Processes, Paths
<1>2. Targets'
  BY StoreAssumption, MarkersAssumption
  DEF StoreInv, LoadPackage, TypeOK, Targets, Saving, HasKey, Processes
<1>3. GoodFiles'
  BY StoreAssumption, MarkersAssumption
  DEF StoreInv, LoadPackage, TypeOK, Targets, GoodFiles, Saving, Temporary, Chunk,
      Value, Empty, Data, Processes
<1>4. OneSaver'
  BY StoreAssumption, MarkersAssumption
  DEF StoreInv, LoadPackage, TypeOK, Targets, OneSaver, Saving, Empty, Data, Processes
<1>5. OneKey'
  BY StoreAssumption, MarkersAssumption
  DEF StoreInv, LoadPackage, TypeOK, Targets, OneSaver, OneKey, Saving, Value, Data,
      Processes
<1>6. RunsWhileUp'
  BY StoreAssumption, MarkersAssumption
  DEF StoreInv, LoadPackage, TypeOK, Targets, RunsWhileUp, Saving, Processes
<1>7. DamageNeedsClash'
  BY StoreAssumption, MarkersAssumption
  DEF StoreInv, LoadPackage, TypeOK, Targets, OneSaver, DamageNeedsClash, Saving, Value,
      Chunk, Data, Processes
<1>8. KeysAgree'
  BY StoreAssumption, MarkersAssumption
  DEF StoreInv, LoadPackage, TypeOK, Targets, OneSaver, OneKey, DamageNeedsClash,
      KeysAgree, HasKey, Saving, Value, Chunk, Data, Processes
<1>9. RunsGoodText'
  BY StoreAssumption, MarkersAssumption
  DEF StoreInv, LoadPackage, TypeOK, Targets, GoodFiles, RunsWhileUp, RunsGoodText,
      HasKey, Saving, Value, Processes
<1>. QED  BY <1>1, <1>2, <1>3, <1>4, <1>5, <1>6, <1>7, <1>8, <1>9 DEF StoreInv

-----------------------------------------------------------------------------
(* The invariant, and the theorems that follow from it.                    *)

LEMMA InitInv == Init => StoreInv
<1>. SUFFICES ASSUME Init PROVE StoreInv
  OBVIOUS
<1>1. TypeOK
  BY StoreAssumption DEF Init, TypeOK, HasKey, Saving, TmpOpen, Paths
<1>2. Targets /\ OneKey /\ RunsWhileUp
  BY DEF Init, Targets, OneKey, RunsWhileUp, Saving, Processes
<1>3. GoodFiles
  BY MarkersAssumption DEF Init, GoodFiles, Saving, Paths
<1>4. OneSaver
  BY DEF Init, OneSaver, Saving
<1>5. DamageNeedsClash
  BY MarkersAssumption DEF Init, DamageNeedsClash
<1>6. KeysAgree /\ RunsGoodText
  BY DEF Init, KeysAgree, RunsGoodText, HasKey
<1>. QED  BY <1>1, <1>2, <1>3, <1>4, <1>5, <1>6 DEF StoreInv

\* A process that ends, on its own or not, leaves the files as they are.
LEMMA LeaveInv ==
    ASSUME StoreInv, NEW p \in Processes, Crash(p) \/ Finish(p)
    PROVE  StoreInv'
<1>1. Ends(p) /\ UNCHANGED <<disk, tmp, source, clash>>
  BY DEF Crash, Finish
<1>2. crashes' \in 0..MaxCrashes
  BY StoreAssumption DEF StoreInv, TypeOK, Crash, Finish
<1>. QED  BY <1>1, <1>2, EndsInv

LEMMA ReadKeyInv ==
    ASSUME StoreInv, NEW p \in Processes, ReadKey(p)
    PROVE  StoreInv'
<1>1. crashes \in 0..MaxCrashes
  BY DEF StoreInv, TypeOK
<1>2. CASE disk[KeyFile] = Damaged /\ Ends(p)
  BY <1>1, <1>2, EndsInv DEF ReadKey
<1>3. CASE ~(disk[KeyFile] = Damaged /\ Ends(p))
  BY <1>3, KeyFoundInv DEF ReadKey
<1>. QED  BY <1>2, <1>3

LEMMA MissingKeyInv ==
    ASSUME StoreInv, NEW p \in Processes, MissingKey(p)
    PROVE  StoreInv'
<1>1. crashes \in 0..MaxCrashes
  BY DEF StoreInv, TypeOK
<1>2. CASE ~create[p] /\ Ends(p) /\ UNCHANGED clash
  BY <1>1, <1>2, EndsInv DEF MissingKey
<1>3. CASE ~(~create[p] /\ Ends(p) /\ UNCHANGED clash)
  BY <1>3, NewKeyInv DEF MissingKey
<1>. QED  BY <1>2, <1>3

LEMMA SaveFailedInv ==
    ASSUME StoreInv, NEW p \in Processes, WriteError(p) \/ MoveError(p)
    PROVE  StoreInv'
<1>1. crashes \in 0..MaxCrashes
  BY DEF StoreInv, TypeOK
<1>2. /\ at[p] \in Saving /\ RemoveTmp(p) /\ SaveFailed(p)
      /\ UNCHANGED <<disk, source, clash, crashes>>
  BY DEF WriteError, MoveError, Saving
<1>3. CASE target[p] = KeyFile /\ Ends(p)
  BY <1>1, <1>2, <1>3, EndsInv
<1>4. CASE target[p] # KeyFile /\ NextSource(p)
  BY <1>2, <1>4, NextSourceInv
<1>. QED  BY <1>2, <1>3, <1>4 DEF SaveFailed

LEMMA CheckInv ==
    ASSUME StoreInv, NEW p \in Processes, CheckPackage(p) \/ ComparePackage(p)
    PROVE  StoreInv'
<1>1. /\ at[p] \in {"check", "compare"} /\ target[p] # KeyFile
      /\ UNCHANGED <<disk, tmp, source, crashes>>
  BY StoreAssumption DEF StoreInv, Targets, CheckPackage, ComparePackage
<1>2. CASE NextSource(p) /\ UNCHANGED clash
  BY <1>1, <1>2, NextSourceInv
<1>3. CASE Compile(p)
  BY <1>1, <1>2, <1>3, BeginSaveInv DEF Compile
<1>4. CASE at[p] = "check" /\ disk[target[p]] # Absent /\ at' = [at EXCEPT ![p] = "compare"]
             /\ UNCHANGED <<target, key, text, left, create, running, said, clash>>
  BY <1>1, <1>4, BeginCompareInv
<1>. QED  BY <1>2, <1>3, <1>4 DEF CheckPackage, ComparePackage

LEMMA StepInv == ASSUME StoreInv, NEW p \in Processes, Step(p) PROVE StoreInv'
BY FindKeyInv, ReadKeyInv, MissingKeyInv, OpenTmpInv, WriteAtOnceInv, WriteHeadInv,
   WriteRestInv, CloseTmpInv, MoveInv, SaveFailedInv, ReadSourceInv, CheckInv, LeaveInv
DEF Step

LEMMA StutterInv == ASSUME StoreInv, UNCHANGED vars PROVE StoreInv'
BY DEF StoreInv, vars, TypeOK, Targets, GoodFiles, OneSaver, OneKey, RunsWhileUp,
       DamageNeedsClash, KeysAgree, RunsGoodText, TmpOpen, Data

LEMMA NextInv == StoreInv /\ [Next]_vars => StoreInv'
<1>. SUFFICES ASSUME StoreInv, [Next]_vars PROVE StoreInv'
  OBVIOUS
<1>1. CASE \E s \in Sources, t \in Texts : Edit(s, t)
  BY <1>1, EditInv
<1>2. CASE RemoveKey
  BY <1>2, RemoveKeyInv
<1>3. CASE \E p \in Processes : Crash(p) \/ Step(p)
  BY <1>3, LeaveInv, StepInv
<1>4. CASE \E p \in Compilers, S \in SUBSET Sources : S # {} /\ StartCompiler(p, S)
  BY <1>4, StartCompilerInv
<1>5. CASE StartServer
  BY <1>5, StartServerInv
<1>6. CASE \E f \in Packages : OpenPackage(f)
  BY <1>6, OpenPackageInv
<1>7. CASE LoadPackage
  BY <1>7, LoadPackageInv
<1>8. CASE UNCHANGED vars
  BY <1>8, StutterInv
<1>. QED  BY <1>1, <1>2, <1>3, <1>4, <1>5, <1>6, <1>7, <1>8 DEF Next

THEOREM Invariance == Spec => []StoreInv
BY InitInv, NextInv, PTL DEF Spec

\* Whatever dies or fails between two file operations, every process that is past
\* load_or_create_key has a key and every open temporary file is there.
THEOREM TypeCorrect == Spec => []TypeOK
<1>. StoreInv => TypeOK
  BY DEF StoreInv
<1>. QED  BY Invariance, PTL

\* smg::write: only two processes that save the same file at a time can damage it,
\* however many save, die or fail.
THEOREM OnlyClashesDamage == Spec => []DamageNeedsClash
<1>. StoreInv => DamageNeedsClash
  BY DEF StoreInv
<1>. QED  BY Invariance, PTL

\* load_or_create_key: unless two processes created the key at a time, every process
\* works with the key that is on disk.
THEOREM AllHoldOneKey == Spec => []KeysAgree
<1>. StoreInv => KeysAgree
  BY DEF StoreInv
<1>. QED  BY Invariance, PTL

\* smg::read: the server never runs a mixture of two writes, a text that does not
\* compile or a package under another key, clash or not.
THEOREM ServerRunsGoodText == Spec => []RunsGoodText
<1>. StoreInv => RunsGoodText
  BY DEF StoreInv
<1>. QED  BY Invariance, PTL

-----------------------------------------------------------------------------
(* The compiler's reports, as PackageBuild has them.                       *)

\* The values a package may have for PackageBuild, and the packages on disk.
BuildValues == [key : Keys, text : Texts]
OnDisk == [f \in Packages |-> disk[f]]

\* A report of one source: the step of PackageBuild that it claims to be.
Reported(p, result) ==
    /\ Report(p, result) /\ clash' = clash
    /\ target[p] \in Packages /\ Data(p).value \in BuildValues

LEMMA ReportSimulates ==
    ASSUME StoreInv, clash = {}, NEW p \in Processes,
           \/ Reported(p, "failed") /\ OnDisk' = OnDisk
           \/ Reported(p, "cached") /\ OnDisk' = OnDisk /\ disk[target[p]] = Data(p).value
           \/ Reported(p, "compiled") /\ OnDisk' = [OnDisk EXCEPT ![target[p]] = Data(p).value]
    PROVE  Builds!BuildNext
<1>. DEFINE f == target[p]
            v == Data(p).value
<1>1. f \in Packages /\ v \in BuildValues /\ (clash' # {}) = (clash # {})
  BY DEF Reported
<1>2. CASE Reported(p, "failed") /\ OnDisk' = OnDisk
  <2>1. Builds!Failed(f, v)
    BY <1>2 DEF Reported, Report, OnDisk, Builds!Failed, Builds!Report
  <2>2. \E g \in Packages, w \in BuildValues : Builds!Failed(g, w)
    BY <1>1, <2>1
  <2>. QED  BY <1>1, <2>2 DEF Builds!BuildNext, BuildValues
<1>3. CASE Reported(p, "cached") /\ OnDisk' = OnDisk /\ disk[target[p]] = Data(p).value
  <2>1. Builds!Cached(f, v)
    BY <1>1, <1>3 DEF Reported, Report, OnDisk, Builds!Cached, Builds!Report
  <2>2. \E g \in Packages, w \in BuildValues : Builds!Cached(g, w)
    BY <1>1, <2>1
  <2>. QED  BY <1>1, <2>2 DEF Builds!BuildNext, BuildValues
<1>4. CASE Reported(p, "compiled") /\ OnDisk' = [OnDisk EXCEPT ![target[p]] = Data(p).value]
  <2>1. Builds!Compiled(f, v)
    BY <1>4 DEF Reported, Report, OnDisk, Builds!Compiled, Builds!Report
  <2>2. \E g \in Packages, w \in BuildValues : Builds!Compiled(g, w)
    BY <1>1, <2>1
  <2>. QED  BY <1>1, <2>2 DEF Builds!BuildNext, BuildValues
<1>. QED  BY <1>2, <1>3, <1>4

\* What a step of one process does for a reader of reports: nothing, the first
\* clash, or a report that is true.
LEMMA StepReports ==
    ASSUME StoreInv, NEW p \in Processes, Step(p), clash = {}, clash' = {}
    PROVE  (OnDisk' = OnDisk /\ said' = said) \/ Builds!BuildNext
<1>1. CASE \/ FindKey(p) \/ ReadKey(p) \/ MissingKey(p) \/ OpenTmp(p) \/ WriteAtOnce(p)
           \/ WriteHead(p) \/ WriteRest(p) \/ CloseTmp(p) \/ ReadSource(p) \/ Finish(p)
  <2>1. UNCHANGED <<disk, said>>
    BY <1>1
    DEF FindKey, ReadKey, MissingKey, OpenTmp, WriteAtOnce, WriteHead, WriteRest,
        CloseTmp, ReadSource, Finish
  <2>. QED  BY <2>1 DEF OnDisk
<1>2. ASSUME at[p] \in Saving, target[p] # KeyFile
      PROVE  target[p] \in Packages /\ Data(p).value \in BuildValues
  BY <1>2, DataFacts DEF StoreInv, TypeOK, Paths, BuildValues
<1>3. CASE WriteError(p) \/ MoveError(p)
  <2>1. at[p] \in Saving /\ SaveFailed(p) /\ UNCHANGED <<disk, clash>>
    BY <1>3 DEF WriteError, MoveError, Saving
  <2>2. OnDisk' = OnDisk
    BY <2>1 DEF OnDisk
  <2>3. CASE target[p] = KeyFile /\ UNCHANGED said
    BY <2>2, <2>3
  <2>4. CASE target[p] # KeyFile /\ Report(p, "failed")
    BY <1>2, <2>1, <2>2, <2>4, ReportSimulates DEF Reported
  <2>. QED  BY <2>1, <2>3, <2>4 DEF SaveFailed
<1>4. CASE Move(p)
  <2>1. /\ at[p] \in Saving /\ UNCHANGED clash
        /\ disk' = [disk EXCEPT ![target[p]] = Moved(tmp[target[p]])]
    BY <1>4 DEF Move, Saving
  <2>2. CASE target[p] = KeyFile /\ UNCHANGED said
    BY <2>1, <2>2, StoreAssumption DEF OnDisk
  <2>3. CASE target[p] # KeyFile /\ Report(p, "compiled")
    <3>1. Moved(tmp[target[p]]) = Data(p).value
      BY <1>4, DataFacts DEF StoreInv, OneSaver, TypeOK, Move, Saving, Moved, Whole
    <3>2. OnDisk' = [OnDisk EXCEPT ![target[p]] = Data(p).value]
      BY <2>1, <3>1 DEF OnDisk, StoreInv, TypeOK, Paths
    <3>. QED  BY <1>2, <2>1, <2>3, <3>2, ReportSimulates DEF Reported
  <2>. QED  BY <1>4, <2>2, <2>3 DEF Move
<1>5. CASE CheckPackage(p) \/ ComparePackage(p)
  <2>1. at[p] \in {"check", "compare"} /\ UNCHANGED disk
    BY <1>5 DEF CheckPackage, ComparePackage
  <2>2. target[p] \in Packages /\ Data(p).value \in BuildValues
    BY <2>1, StoreAssumption DEF StoreInv, TypeOK, Targets, HasKey, Data, BuildValues
  <2>3. OnDisk' = OnDisk
    BY <2>1 DEF OnDisk
  <2>4. CASE UNCHANGED said
    BY <2>3, <2>4
  <2>5. CASE Report(p, "failed")
    BY <2>2, <2>3, <2>5, ReportSimulates DEF Reported
  <2>6. CASE IsUnchanged(p) /\ Report(p, "cached")
    BY <2>2, <2>3, <2>6, ReportSimulates DEF Reported, IsUnchanged
  <2>. QED  BY <1>5, <2>4, <2>5, <2>6 DEF CheckPackage, ComparePackage, Compile
<1>. QED  BY <1>1, <1>3, <1>4, <1>5 DEF Step

\* What two programs have saved at a time stays remembered.
LEMMA ClashStays == ASSUME [Next]_vars PROVE clash \subseteq clash'
BY DEF Next, Step, vars, Edit, RemoveKey, Crash, StartCompiler, StartServer, FindKey,
       ReadKey, MissingKey, OpenTmp, WriteAtOnce, WriteHead, WriteRest, CloseTmp,
       WriteError, Move, MoveError, ReadSource, CheckPackage, ComparePackage, Compile,
       ClashOn, Finish, OpenPackage, LoadPackage

LEMMA StepSimulates ==
    StoreInv /\ [Next]_vars => [Builds!BuildNext]_(<<OnDisk, said, clash # {}>>)
<1>. SUFFICES ASSUME StoreInv, [Next]_vars, ~Builds!BuildNext
              PROVE  UNCHANGED <<OnDisk, said, clash # {}>>
  OBVIOUS
<1>1. clash = {} /\ clash' = {}
  BY ClashStays DEF Builds!BuildNext
<1>2. CASE \E p \in Processes : Step(p)
  BY <1>1, <1>2, StepReports
<1>3. CASE ~\E p \in Processes : Step(p)
  <2>1. said' = said /\ \A f \in Packages : disk'[f] = disk[f]
    BY <1>3, StoreAssumption
    DEF StoreInv, TypeOK, Next, vars, Edit, RemoveKey, Crash, StartCompiler,
        StartServer, OpenPackage, LoadPackage, Paths
  <2>2. OnDisk' = OnDisk
    BY <2>1 DEF OnDisk
  <2>. QED  BY <1>1, <2>1, <2>2
<1>. QED  BY <1>2, <1>3

\* Every report of compile_one is true when it is made, and no package changes
\* without one, until two programs save one file at a time.
THEOREM Refinement == Spec => ImplementsBuilds
<1>1. Init => Builds!BuildInit
  BY StoreAssumption DEF Init, Builds!BuildInit, Paths
<1>2. StoreInv /\ [Next]_vars => [Builds!BuildNext]_(Builds!buildVars)
  BY StepSimulates DEF OnDisk, Builds!buildVars
<1>. QED  BY <1>1, <1>2, Invariance, PTL DEF Spec, ImplementsBuilds, Builds!BuildSpec
=============================================================================
