---------------------------- MODULE PackageStore ----------------------------
(***************************************************************************)
(* The files that the compiler and the server share: one encryption key    *)
(* (config/luacs.key) and one package per source file stem (plugins/*.smg).*)
(* Compilers and the server are processes of their own; nothing locks them *)
(* out of each other.  A file is saved by writing <path>.tmp and moving it *)
(* over <path>; all processes use the same temporary name.  One step is    *)
(* what a process does between two operations on files.                    *)
(***************************************************************************)
EXTENDS Naturals, SequencesExt

CONSTANTS
    Compilers, Server,   \* processes
    SourceOrder,         \* the source files in the order the compiler sorts them
    Packages, Output,    \* Output[s]: the package of the stem of s
    KeyFile,
    Texts, Good,         \* what a source may say; the texts that compile
    Keys,                \* what BCryptGenRandom may return
    None, NoText, Absent, Torn, Damaged, Unsaid,
    MaxCrashes           \* bound: processes that die

Processes == Compilers \cup {Server}
Sources == ToSet(SourceOrder)
Paths == Packages \cup {KeyFile}

ASSUME StoreAssumption ==
    /\ SourceOrder \in Seq(Sources)
    /\ Output \in [Sources -> Packages]
    /\ KeyFile \notin Packages /\ Server \notin Compilers
    /\ Good \subseteq Texts /\ NoText \notin Texts
    /\ None \notin Keys /\ MaxCrashes \in Nat

VARIABLES
    disk,     \* disk[f]: what the file holds
    tmp,      \* tmp[f]: what f's temporary file holds
    source,   \* source[s]: the text of source file s
    at,       \* at[p]: the next step of process p
    target,   \* target[p]: the file that p saves or reads
    key,      \* key[p]: the key in p's memory
    text,     \* text[p]: the source text p has read
    left,     \* left[p]: the sources compiler p still has to do
    create,   \* create[p]: p may create the key (create_if_missing)
    running,  \* running[f]: the value the server runs of package f
    said,     \* the last report of a compiler
    clash,    \* history: files that two processes were saving at a time
    crashes

vars == <<disk, tmp, source, at, target, key, text, left, create, running, said,
          clash, crashes>>

\* A key file holds a key, a package its text encrypted under a key.
Value == [key : Keys, text : Texts \cup {NoText}]
Chunk == [by : Processes, value : Value]
Temporary == [head : Chunk \cup {None}, rest : Chunk \cup {None, Torn}]

\* A file that is absent or damaged is no file with a value, and a part that was
\* not written is no part.
ASSUME MarkersAssumption ==
    /\ Absent \notin Value \cup Temporary
    /\ Damaged \notin Value \cup {Absent}
    /\ None \notin Chunk

\* A temporary file in two parts, as a stream writes a large package: a file is
\* whole when both are of one write (its header authenticates the rest).
Empty == [head |-> None, rest |-> None]
Whole(c) == c.head # None /\ c.head = c.rest
Moved(c) == IF Whole(c) THEN c.head.value ELSE Damaged

Saving == {"open", "write", "half", "close", "move"}
TmpOpen(p, f) == at[p] \in {"write", "half", "close"} /\ target[p] = f
Reads(p, f) == at[p] \in {"readkey", "compare", "load"} /\ target[p] = f

Init ==
    /\ disk = [f \in Paths |-> Absent]
    /\ tmp = [f \in Paths |-> Absent]
    /\ source \in [Sources -> Texts]
    /\ at = [p \in Processes |-> "idle"]
    /\ target = [p \in Processes |-> KeyFile]
    /\ key = [p \in Processes |-> None]
    /\ text = [p \in Processes |-> NoText]
    /\ left = [p \in Processes |-> {}]
    /\ create = [p \in Processes |-> FALSE]
    /\ running = [f \in Packages |-> Absent]
    /\ said = Unsaid
    /\ clash = {}
    /\ crashes = 0

-----------------------------------------------------------------------------
(* The user and the operating system.                                      *)

Edit(s, t) ==
    /\ source' = [source EXCEPT ![s] = t]
    /\ UNCHANGED <<disk, tmp, at, target, key, text, left, create, running, said,
                   clash, crashes>>

\* The key file is deleted while neither the compiler nor the server runs.
RemoveKey ==
    /\ \A p \in Processes : at[p] = "idle"
    /\ disk' = [disk EXCEPT ![KeyFile] = Absent]
    /\ UNCHANGED <<tmp, source, at, target, key, text, left, create, running, said,
                   clash, crashes>>

Ends(p) ==
    /\ at' = [at EXCEPT ![p] = "idle"]
    /\ target' = [target EXCEPT ![p] = KeyFile]
    /\ key' = [key EXCEPT ![p] = None]
    /\ text' = [text EXCEPT ![p] = NoText]
    /\ left' = [left EXCEPT ![p] = {}]
    /\ create' = [create EXCEPT ![p] = FALSE]
    /\ running' = IF p = Server THEN [f \in Packages |-> Absent] ELSE running

\* A process that dies closes its files and leaves them as they are.
Crash(p) ==
    /\ at[p] # "idle" /\ crashes < MaxCrashes
    /\ crashes' = crashes + 1
    /\ Ends(p)
    /\ UNCHANGED <<disk, tmp, source, said, clash>>

-----------------------------------------------------------------------------
(* Starting, and load_or_create_key.                                       *)

StartCompiler(p, S) ==
    /\ p \in Compilers /\ at[p] = "idle"
    /\ at' = [at EXCEPT ![p] = "key"]
    /\ left' = [left EXCEPT ![p] = S]
    /\ create' = [create EXCEPT ![p] = TRUE]
    /\ UNCHANGED <<disk, tmp, source, target, key, text, running, said, clash, crashes>>

\* initialize counts the packages before it looks for the key.
StartServer ==
    /\ at[Server] = "idle"
    /\ at' = [at EXCEPT ![Server] = "key"]
    /\ create' = [create EXCEPT ![Server] = \A f \in Packages : disk[f] = Absent]
    /\ UNCHANGED <<disk, tmp, source, target, key, text, left, running, said, clash,
                   crashes>>

\* p begins to save f.
ClashOn(p, f) ==
    IF \E q \in Processes \ {p} : at[q] \in Saving /\ target[q] = f
    THEN clash \cup {f} ELSE clash

FindKey(p) ==
    /\ at[p] = "key"
    /\ disk[KeyFile] # Absent
    /\ at' = [at EXCEPT ![p] = "readkey"]
    /\ UNCHANGED <<disk, tmp, source, target, key, text, left, create, running, said,
                   clash, crashes>>

KeyReady(p) == at' = [at EXCEPT ![p] = IF p = Server THEN "up" ELSE "next"]

\* The stream is closed at the end; a file of any other size is refused.
ReadKey(p) ==
    /\ at[p] = "readkey"
    /\ \/ /\ disk[KeyFile] # Damaged
          /\ key' = [key EXCEPT ![p] = disk[KeyFile].key]
          /\ KeyReady(p)
          /\ UNCHANGED <<target, text, left, create, running>>
       \/ disk[KeyFile] = Damaged /\ Ends(p)
    /\ UNCHANGED <<disk, tmp, source, said, clash, crashes>>

\* A random key is unlike every key that is anywhere in use.
InUse(k) ==
    \/ \E p \in Processes : key[p] = k
    \/ \E f \in Paths : \/ disk[f] \in Value /\ disk[f].key = k
                        \/ /\ tmp[f] # Absent
                           /\ \E c \in {tmp[f].head, tmp[f].rest} :
                                c \in Chunk /\ c.value.key = k

\* Mutant: creates a key whether or not there is one.
MissingKeyAnyway(p) ==
    /\ at[p] = "key"
    /\ \/ /\ create[p]
          /\ \E k \in Keys : ~InUse(k) /\ key' = [key EXCEPT ![p] = k]
          /\ at' = [at EXCEPT ![p] = "open"]
          /\ clash' = ClashOn(p, KeyFile)
          /\ UNCHANGED <<target, text, left, create, running>>
       \/ ~create[p] /\ Ends(p) /\ UNCHANGED clash
    /\ UNCHANGED <<disk, tmp, source, said, crashes>>

MissingKey(p) ==
    /\ at[p] = "key"
    /\ disk[KeyFile] = Absent
    /\ \/ /\ create[p]
          /\ \E k \in Keys : ~InUse(k) /\ key' = [key EXCEPT ![p] = k]
          /\ at' = [at EXCEPT ![p] = "open"]
          /\ clash' = ClashOn(p, KeyFile)
          /\ UNCHANGED <<target, text, left, create, running>>
       \/ ~create[p] /\ Ends(p) /\ UNCHANGED clash
    /\ UNCHANGED <<disk, tmp, source, said, crashes>>

-----------------------------------------------------------------------------
(* Saving a file: smg::write and load_or_create_key write <path>.tmp, then *)
(* replace_file moves it.                                                  *)

Data(p) ==
    [by |-> p,
     value |-> [key |-> key[p], text |-> IF target[p] = KeyFile THEN NoText ELSE text[p]]]

Report(p, result) ==
    said' = [package |-> target[p], value |-> Data(p).value, result |-> result]

\* p goes on with the next source, having reported on this one.
NextSource(p) ==
    /\ at' = [at EXCEPT ![p] = "next"]
    /\ target' = [target EXCEPT ![p] = KeyFile]
    /\ text' = [text EXCEPT ![p] = NoText]
    /\ UNCHANGED <<key, left, create, running>>

\* Opening the temporary file truncates it, whoever else has it open.
OpenTmp(p) ==
    /\ at[p] = "open"
    /\ tmp' = [tmp EXCEPT ![target[p]] = Empty]
    /\ at' = [at EXCEPT ![p] = "write"]
    /\ UNCHANGED <<disk, source, target, key, text, left, create, running, said, clash,
                   crashes>>

WriteAtOnce(p) ==
    /\ at[p] = "write"
    /\ tmp' = [tmp EXCEPT ![target[p]] = [head |-> Data(p), rest |-> Data(p)]]
    /\ at' = [at EXCEPT ![p] = "close"]
    /\ UNCHANGED <<disk, source, target, key, text, left, create, running, said, clash,
                   crashes>>

WriteHead(p) ==
    /\ at[p] = "write" /\ target[p] # KeyFile
    /\ tmp' = [tmp EXCEPT ![target[p]].head = Data(p)]
    /\ at' = [at EXCEPT ![p] = "half"]
    /\ UNCHANGED <<disk, source, target, key, text, left, create, running, said, clash,
                   crashes>>

\* Written over the rest of another, longer package, its end remains.
WriteRest(p) ==
    /\ at[p] = "half"
    /\ \E r \in {Data(p)} \cup (IF tmp[target[p]].rest = None THEN {} ELSE {Torn}) :
           tmp' = [tmp EXCEPT ![target[p]].rest = r]
    /\ at' = [at EXCEPT ![p] = "close"]
    /\ UNCHANGED <<disk, source, target, key, text, left, create, running, said, clash,
                   crashes>>

CloseTmp(p) ==
    /\ at[p] = "close"
    /\ at' = [at EXCEPT ![p] = "move"]
    /\ UNCHANGED <<disk, tmp, source, target, key, text, left, create, running, said,
                   clash, crashes>>

\* Removing the temporary file fails while another process has it open.
RemoveTmp(p) ==
    tmp' = IF \E q \in Processes \ {p} : TmpOpen(q, target[p]) THEN tmp
           ELSE [tmp EXCEPT ![target[p]] = Absent]

SaveFailed(p) ==
    \/ target[p] = KeyFile /\ Ends(p) /\ UNCHANGED said
    \/ target[p] # KeyFile /\ Report(p, "failed") /\ NextSource(p)

\* Mutant: what could be written is moved all the same.
WriteErrorMoving(p) ==
    /\ at[p] \in {"open", "write", "half", "close"}
    /\ at' = [at EXCEPT ![p] = "move"]
    /\ UNCHANGED <<disk, tmp, source, target, key, text, left, create, running, said,
                   clash, crashes>>

\* The temporary file cannot be opened, or the disk is full, say.
WriteError(p) ==
    /\ at[p] \in {"open", "write", "half", "close"}
    /\ RemoveTmp(p)
    /\ SaveFailed(p)
    /\ UNCHANGED <<disk, source, clash, crashes>>

\* MoveFileExW needs the temporary file, open nowhere, and a destination that
\* nobody is reading.
MayMove(p) ==
    /\ tmp[target[p]] # Absent
    /\ \A q \in Processes : ~TmpOpen(q, target[p]) /\ ~Reads(q, target[p])

Move(p) ==
    /\ at[p] = "move" /\ MayMove(p)
    /\ disk' = [disk EXCEPT ![target[p]] = Moved(tmp[target[p]])]
    /\ tmp' = [tmp EXCEPT ![target[p]] = Absent]
    /\ \/ /\ target[p] = KeyFile
          /\ KeyReady(p)
          /\ UNCHANGED <<target, key, text, left, create, running, said>>
       \/ target[p] # KeyFile /\ Report(p, "compiled") /\ NextSource(p)
    /\ UNCHANGED <<source, clash, crashes>>

MoveError(p) ==
    /\ at[p] = "move" /\ ~MayMove(p)
    /\ RemoveTmp(p)
    /\ SaveFailed(p)
    /\ UNCHANGED <<disk, source, clash, crashes>>

-----------------------------------------------------------------------------
(* compile_one.                                                            *)

\* The sources are sorted, and each is compiled once.
ReadSource(p) ==
    /\ at[p] = "next"
    /\ \E i \in DOMAIN SourceOrder :
         LET s == SourceOrder[i] IN
         /\ s \in left[p] /\ \A j \in 1..(i - 1) : SourceOrder[j] \notin left[p]
         /\ text' = [text EXCEPT ![p] = source[s]]
         /\ target' = [target EXCEPT ![p] = Output[s]]
         /\ left' = [left EXCEPT ![p] = @ \ {s}]
    /\ at' = [at EXCEPT ![p] = "check"]
    /\ UNCHANGED <<disk, tmp, source, key, create, running, said, clash, crashes>>

\* The package is up to date: it authenticates under the key and names the text.
IsUnchanged(p) == disk[target[p]] = Data(p).value

\* Compiling the text, which the Lua parser may refuse; then smg::write.
Compile(p) ==
    \/ /\ text[p] \in Good
       /\ at' = [at EXCEPT ![p] = "open"]
       /\ clash' = ClashOn(p, target[p])
       /\ UNCHANGED <<target, key, text, left, create, running, said>>
    \/ text[p] \notin Good /\ Report(p, "failed") /\ NextSource(p) /\ UNCHANGED clash

CheckPackage(p) ==
    /\ at[p] = "check"
    /\ \/ disk[target[p]] = Absent /\ Compile(p)
       \/ /\ disk[target[p]] # Absent
          /\ at' = [at EXCEPT ![p] = "compare"]
          /\ UNCHANGED <<target, key, text, left, create, running, said, clash>>
    /\ UNCHANGED <<disk, tmp, source, crashes>>

\* Mutant: any package that authenticates will do.
ComparePackageUnhashed(p) ==
    /\ at[p] = "compare"
    /\ \/ /\ disk[target[p]] # Damaged /\ disk[target[p]].key = key[p]
          /\ Report(p, "cached") /\ NextSource(p) /\ UNCHANGED clash
       \/ ~(disk[target[p]] # Damaged /\ disk[target[p]].key = key[p]) /\ Compile(p)
    /\ UNCHANGED <<disk, tmp, source, crashes>>

ComparePackage(p) ==
    /\ at[p] = "compare"
    /\ \/ IsUnchanged(p) /\ Report(p, "cached") /\ NextSource(p) /\ UNCHANGED clash
       \/ ~IsUnchanged(p) /\ Compile(p)
    /\ UNCHANGED <<disk, tmp, source, crashes>>

Finish(p) ==
    /\ \/ at[p] = "next" /\ left[p] = {}
       \/ at[p] = "up"
    /\ Ends(p)
    /\ UNCHANGED <<disk, tmp, source, said, clash, crashes>>

-----------------------------------------------------------------------------
(* The server loads packages, at its start and on commands.                *)

OpenPackage(f) ==
    /\ at[Server] = "up" /\ disk[f] # Absent
    /\ at' = [at EXCEPT ![Server] = "load"]
    /\ target' = [target EXCEPT ![Server] = f]
    /\ UNCHANGED <<disk, tmp, source, key, text, left, create, running, said, clash,
                   crashes>>

\* Mutant: checks the size and not the tag.
LoadPackageUnauthenticated ==
    /\ at[Server] = "load"
    /\ LET d == disk[target[Server]] IN
       running' = [running EXCEPT ![target[Server]] = IF d # Damaged THEN d ELSE Absent]
    /\ at' = [at EXCEPT ![Server] = "up"]
    /\ target' = [target EXCEPT ![Server] = KeyFile]
    /\ UNCHANGED <<disk, tmp, source, key, text, left, create, said, clash, crashes>>

LoadPackage ==
    /\ at[Server] = "load"
    /\ LET d == disk[target[Server]] IN
       running' = [running EXCEPT ![target[Server]] =
                     IF d # Damaged /\ d.key = key[Server] THEN d ELSE Absent]
    /\ at' = [at EXCEPT ![Server] = "up"]
    /\ target' = [target EXCEPT ![Server] = KeyFile]
    /\ UNCHANGED <<disk, tmp, source, key, text, left, create, said, clash, crashes>>

-----------------------------------------------------------------------------
Step(p) ==
    \/ FindKey(p) \/ ReadKey(p) \/ MissingKey(p)
    \/ OpenTmp(p) \/ WriteAtOnce(p) \/ WriteHead(p) \/ WriteRest(p) \/ CloseTmp(p)
    \/ WriteError(p) \/ Move(p) \/ MoveError(p)
    \/ ReadSource(p) \/ CheckPackage(p) \/ ComparePackage(p) \/ Finish(p)

Next ==
    \/ \E s \in Sources, t \in Texts : Edit(s, t)
    \/ RemoveKey
    \/ \E p \in Processes : Crash(p) \/ Step(p)
    \/ \E p \in Compilers, S \in SUBSET Sources : S # {} /\ StartCompiler(p, S)
    \/ StartServer
    \/ \E f \in Packages : OpenPackage(f)
    \/ LoadPackage

Spec == Init /\ [][Next]_vars

-----------------------------------------------------------------------------
HasKey == {"up", "load", "next", "check", "compare"} \cup Saving

\* Every process past load_or_create_key has a key, and every process that has a
\* temporary file open finds it there.
TypeOK ==
    /\ disk \in [Paths -> Value \cup {Absent, Damaged}]
    /\ tmp \in [Paths -> Temporary \cup {Absent}]
    /\ source \in [Sources -> Texts]
    /\ at \in [Processes -> HasKey \cup {"idle", "key", "readkey"}]
    /\ target \in [Processes -> Paths]
    /\ key \in [Processes -> Keys \cup {None}]
    /\ text \in [Processes -> Texts \cup {NoText}]
    /\ left \in [Processes -> SUBSET Sources]
    /\ create \in [Processes -> BOOLEAN]
    /\ running \in [Packages -> Value \cup {Absent}]
    /\ clash \subseteq Paths
    /\ crashes \in 0..MaxCrashes
    /\ \A p \in Processes :
         /\ at[p] \in HasKey => key[p] # None
         /\ at[p] \in {"check", "compare"} => p \in Compilers
         /\ TmpOpen(p, target[p]) => tmp[target[p]] # Absent

\* Writing beside and moving over (smg.cpp:337): a process that dies, fails to
\* write or fails to move never damages the file, at whatever step; only two
\* processes that save the same file at a time can.
DamageNeedsClash == \A f \in Paths : disk[f] = Damaged => f \in clash

\* load_or_create_key (smg.cpp:395): as long as no two processes created the key
\* at a time, all that run hold the one key that is on disk.
KeysAgree ==
    KeyFile \notin clash =>
        \A p \in Processes :
            (at[p] \in HasKey /\ ~(at[p] \in Saving /\ target[p] = KeyFile)) =>
                /\ disk[KeyFile] \in Value
                /\ disk[KeyFile].key = key[p]

\* The server runs only what a compiler wrote for that package, whole and under
\* the server's key, however writes overlap (smg.cpp:356 authenticates).
RunsGoodText ==
    \A f \in Packages : running[f] # Absent =>
        running[f].text \in Good /\ running[f].key = key[Server]

\* compile_one reports as PackageBuild says: cached only of the current value,
\* compiled when the new file is in place, failed with the old file untouched.
Builds ==
    INSTANCE PackageBuild WITH
        Values <- [key : Keys, text : Texts],
        package <- [f \in Packages |-> disk[f]],
        clashed <- clash # {}

ImplementsBuilds == Builds!BuildSpec

\* docs/SMG_FORMAT.md:55: "A failed compile or failed authenticated write should
\* not replace the last valid .smg with a partial file."
PackagesStayWhole ==
    [][\A f \in Packages : disk[f] \in Value => disk'[f] # Damaged]_vars

\* docs/SMG_FORMAT.md:49: "If compiled packages already exist and the key is
\* missing, the runtime refuses to invent a replacement".
RuntimeInventsNoKey ==
    [][(at[Server] = "move" /\ disk'[KeyFile] # disk[KeyFile] /\ at'[Server] = "up")
         => \A f \in Packages : disk[f] = Absent]_vars
=============================================================================
