--------------------------- MODULE PluginManager ----------------------------
(***************************************************************************)
(* Which plugins are loaded: Runtime::load_plugins at the start, and the   *)
(* console commands "lua plugins load, unload, refresh, retry, force_load, *)
(* force_unload" (client_command).  A package is a file of the plugins     *)
(* directory; commands know it by its key, the normalised file stem, or by *)
(* the name it declares.  Two stems may normalise to one key.              *)
(***************************************************************************)
EXTENDS Naturals, SequencesExt

CONSTANTS
    Files,      \* package file names
    FileOrder,  \* the files in the order both directory listings are sorted
    KeyOf,      \* KeyOf[f]: normalize_name of the stem of f
    KeyOrder,   \* the keys in the order retry sorts them
    Names,      \* normalised names: keys, and names that plugins declare
    NoName,     \* a package that defines no global "plugin"
    Contents    \* what a package may hold

ASSUME ManagerAssumption ==
    /\ FileOrder \in Seq(Files) /\ ToSet(FileOrder) = Files
    /\ KeyOf \in [Files -> Names]
    /\ KeyOrder \in Seq(Names) /\ ToSet(KeyOrder) = {KeyOf[f] : f \in Files}
    /\ NoName \notin Names
    /\ Contents \subseteq
         [starts : BOOLEAN,       \* it authenticates and its startup returns
          name : Names \cup {NoName},
          cleanup : {"none", "returns", "throws"},  \* its global OnUnload
          strict : BOOLEAN]       \* reading an undefined global raises an error

VARIABLES
    disk,       \* the packages in the plugins directory
    scripts,    \* scripts_
    failures,   \* the keys of plugin_failures_
    cache,      \* plugin_metadata_cache_: key -> declared name
    queue,      \* the rounds that load_plugins or retry still has to go
    up,         \* FALSE: the process has aborted
    reply       \* what the last command told the operator

vars == <<disk, scripts, failures, cache, queue, up, reply>>

Keys == {KeyOf[f] : f \in Files}

Vm == [file : Files, name : Names, cleanup : {"none", "returns", "throws"},
       strict : BOOLEAN, disabled : BOOLEAN]

Step == [do : {"load"}, file : Files] \cup [do : {"retry"}, key : Keys]

Reply == [action : {"start", "load", "unload", "refresh", "retry"}, force : BOOLEAN,
          query : Names \cup {NoName}, key : Keys \cup {NoName},
          result : {"done", "refused", "failed", "rejected"}]

KeyAt(i) == KeyOf[scripts[i].file]
LoadedKeys == {KeyAt(i) : i \in DOMAIN scripts}

\* loaded_for_key: the first one.
LoadedFor(key) ==
    {i \in DOMAIN scripts :
        KeyAt(i) = key /\ \A j \in DOMAIN scripts : KeyAt(j) = key => i <= j}

\* What comes first in a sorted listing of some files, and package_for_key in
\* the listing of the directory.
Place(f) == CHOOSE n \in DOMAIN FileOrder : FileOrder[n] = f
FirstOf(F) == {f \in F : \A g \in F : Place(f) <= Place(g)}

PackagesFor(key) == {f \in DOMAIN disk : KeyOf[f] = key}
PackageFor(key) == FirstOf(PackagesFor(key))

-----------------------------------------------------------------------------
(* load_plugin, on the plugins S and failures F that an unload before it   *)
(* may have left.                                                          *)

\* Mutant: logs the failure and does not record it.
LoadFailsUnrecorded(S, F, f) ==
    /\ f \in DOMAIN disk => ~disk[f].starts
    /\ scripts' = S
    /\ failures' = F
    /\ UNCHANGED <<cache, up>>

LoadFails(S, F, f) ==
    /\ f \in DOMAIN disk => ~disk[f].starts
    /\ scripts' = S
    /\ failures' = F \cup {KeyOf[f]}
    /\ UNCHANGED <<cache, up>>

\* read_plugin_metadata reads the global "plugin" outside a protected call: an
\* error raised there reaches Lua's panic function and abort().
LoadAborts(S, F, f) ==
    /\ f \in DOMAIN disk
    /\ disk[f].starts /\ disk[f].strict /\ disk[f].name = NoName
    /\ up' = FALSE
    /\ UNCHANGED <<scripts, failures, cache>>

\* Mutant: keeps the metadata of an earlier load.
LoadSucceedsStaleCache(S, F, f) ==
    /\ f \in DOMAIN disk
    /\ disk[f].starts /\ ~(disk[f].strict /\ disk[f].name = NoName)
    /\ LET name == IF disk[f].name = NoName THEN KeyOf[f] ELSE disk[f].name IN
       /\ scripts' = Append(S, [file |-> f, name |-> name,
                                cleanup |-> disk[f].cleanup,
                                strict |-> disk[f].strict, disabled |-> FALSE])
       /\ cache' = [k \in DOMAIN cache \cup {KeyOf[f]} |->
                      IF k \in DOMAIN cache THEN cache[k] ELSE name]
    /\ failures' = F \ {KeyOf[f]}
    /\ UNCHANGED up

LoadSucceeds(S, F, f) ==
    /\ f \in DOMAIN disk
    /\ disk[f].starts /\ ~(disk[f].strict /\ disk[f].name = NoName)
    /\ LET name == IF disk[f].name = NoName THEN KeyOf[f] ELSE disk[f].name IN
       /\ scripts' = Append(S, [file |-> f, name |-> name,
                                cleanup |-> disk[f].cleanup,
                                strict |-> disk[f].strict, disabled |-> FALSE])
       /\ cache' = [k \in DOMAIN cache \cup {KeyOf[f]} |->
                      IF k = KeyOf[f] THEN name ELSE cache[k]]
    /\ failures' = F \ {KeyOf[f]}
    /\ UNCHANGED up

Load(S, F, f) == LoadFails(S, F, f) \/ LoadAborts(S, F, f) \/ LoadSucceeds(S, F, f)

-----------------------------------------------------------------------------
(* resolve_target *)

Matches(q) ==
    {KeyAt(i) : i \in {j \in DOMAIN scripts : q \in {KeyAt(j), scripts[j].name}}}
    \cup {KeyOf[f] : f \in PackagesFor(q)}
    \cup {k \in DOMAIN cache : q \in {k, cache[k]}}

\* The file a command will load: that of the first loaded plugin that matches,
\* else the package in the directory.
SelectedFiles(q, key) ==
    LET matching == {i \in DOMAIN scripts : KeyAt(i) = key /\ q \in {key, scripts[i].name}}
    IN  IF matching # {}
        THEN {scripts[i].file : i \in {j \in matching : \A k \in matching : j <= k}}
        ELSE PackageFor(key)

-----------------------------------------------------------------------------
(* invoke_unload and unload_key *)

Quiet == up /\ queue = {}

\* A missing OnUnload is looked for outside a protected call.
CleanupAborts(vm) == vm.strict /\ vm.cleanup = "none"

\* protected_call refuses on a disabled plugin.
CleanupReturns(vm) == vm.cleanup = "none" \/ (vm.cleanup = "returns" /\ ~vm.disabled)

\* Mutant: erases the plugin loaded last.
WithoutLast(i) == RemoveAt(scripts, Len(scripts))

Without(i) == RemoveAt(scripts, i)

\* A cleanup callback that throws also disables the plugin.
Refuse(i) ==
    /\ scripts' = [scripts EXCEPT ![i].disabled = TRUE]
    /\ UNCHANGED <<failures, cache, up>>

Abort == up' = FALSE /\ UNCHANGED <<scripts, failures, cache>>

Said(action, force, q, key, result) ==
    reply' = [action |-> action, force |-> force, query |-> q, key |-> key,
              result |-> result]

\* No match, an ambiguous name, nothing loaded, already loaded, no package.
Reject(action, force, q) ==
    /\ Said(action, force, q, NoName, "rejected")
    /\ UNCHANGED <<disk, scripts, failures, cache, queue, up>>

\* unload and refresh up to the unloading of the plugin at i: then Done.
Unloading(action, force, q, i, Done) ==
    IF force \/ (CleanupReturns(scripts[i]) /\ ~CleanupAborts(scripts[i]))
    THEN Done
    ELSE IF CleanupAborts(scripts[i])
    THEN Abort /\ UNCHANGED reply
    ELSE Refuse(i) /\ Said(action, force, q, KeyAt(i), "refused")

CommandUnload(q, force) ==
    /\ Quiet
    /\ \/ /\ \A key \in Names : Matches(q) # {key} \/ key \notin LoadedKeys
          /\ Reject("unload", force, q)
       \/ \E key \in LoadedKeys :
            /\ Matches(q) = {key}
            /\ \E i \in LoadedFor(key) :
                 Unloading("unload", force, q, i,
                     /\ scripts' = Without(i)
                     /\ failures' = failures \ {key}
                     /\ Said("unload", force, q, key, "done")
                     /\ UNCHANGED <<cache, up>>)
            /\ UNCHANGED <<disk, queue>>

Loading(action, force, q, S, F, f) ==
    \/ LoadFails(S, F, f) /\ Said(action, force, q, KeyOf[f], "failed")
    \/ LoadSucceeds(S, F, f) /\ Said(action, force, q, KeyOf[f], "done")
    \/ LoadAborts(S, F, f) /\ UNCHANGED reply

\* Mutant: loads over a plugin that is loaded.
CommandLoadTwice(q) ==
    /\ Quiet
    /\ \E key \in Keys, f \in DOMAIN disk :
         /\ Matches(q) = {key} /\ f \in SelectedFiles(q, key)
         /\ Len(scripts) <= 2
         /\ Loading("load", FALSE, q, scripts, failures, f)
         /\ UNCHANGED <<disk, queue>>

\* A refresh looks for the package before it unloads anything.
CommandRefresh(q, force) ==
    /\ Quiet
    /\ \/ /\ \A key \in Names : Matches(q) # {key}
                 \/ SelectedFiles(q, key) \cap DOMAIN disk = {}
          /\ Reject("refresh", force, q)
       \/ \E key \in Keys, f \in DOMAIN disk :
            /\ Matches(q) = {key} /\ f \in SelectedFiles(q, key)
            /\ IF key \in LoadedKeys
               THEN \E i \in LoadedFor(key) :
                      Unloading("refresh", force, q, i,
                          Loading("refresh", force, q, Without(i), failures \ {key}, f))
               ELSE Loading("refresh", force, q, scripts, failures, f)
            /\ UNCHANGED <<disk, queue>>

CommandLoad(q) ==
    /\ Quiet
    /\ \/ /\ \A key \in Names : \/ Matches(q) # {key} \/ key \in LoadedKeys
                                \/ SelectedFiles(q, key) \cap DOMAIN disk = {}
          /\ Reject("load", FALSE, q)
       \/ \E key \in Keys \ LoadedKeys, f \in DOMAIN disk :
            /\ Matches(q) = {key} /\ f \in SelectedFiles(q, key)
            /\ Loading("load", FALSE, q, scripts, failures, f)
            /\ UNCHANGED <<disk, queue>>

\* retry goes over a sorted copy of the failed keys.
CommandRetry ==
    /\ Quiet
    /\ failures # {}
    /\ queue' = [do : {"retry"}, key : failures]
    /\ Said("retry", FALSE, NoName, NoName, "done")
    /\ UNCHANGED <<disk, scripts, failures, cache, up>>

\* load_plugins takes the files of the directory in the order of the listing.
Queued == {step.file : step \in {s \in queue : s.do = "load"}}

ProceedLoad(step) ==
    /\ step.do = "load" /\ step.file \in FirstOf(Queued)
    /\ Load(scripts, failures, step.file)

\* The failed key whose turn it is.
Waiting == {step.key : step \in {s \in queue : s.do = "retry"}}
NextKey == KeyOrder[CHOOSE n \in DOMAIN KeyOrder :
                       /\ KeyOrder[n] \in Waiting
                       /\ \A m \in DOMAIN KeyOrder : KeyOrder[m] \in Waiting => n <= m]

ProceedRetry(step) ==
    /\ step.do = "retry" /\ step.key = NextKey
    /\ IF step.key \in LoadedKeys
       THEN failures' = failures \ {step.key} /\ UNCHANGED <<scripts, cache, up>>
       ELSE IF PackagesFor(step.key) = {}
       THEN UNCHANGED <<scripts, failures, cache, up>>
       ELSE \E f \in PackageFor(step.key) : Load(scripts, failures, f)

\* One round of the loop of load_plugins or retry.
Proceed ==
    /\ up
    /\ \E step \in queue :
         /\ queue' = queue \ {step}
         /\ ProceedLoad(step) \/ ProceedRetry(step)
    /\ UNCHANGED <<disk, reply>>

\* initialize and load_plugins, of a new process or after a shutdown.
Start ==
    /\ up => Quiet
    /\ up' = TRUE
    /\ scripts' = <<>> /\ failures' = {} /\ cache' = <<>>
    /\ queue' = [do : {"load"}, file : DOMAIN disk]
    /\ Said("start", FALSE, NoName, NoName, "done")
    /\ UNCHANGED disk

\* protected_call, when a callback of a loaded plugin throws.
CallbackFails ==
    /\ Quiet
    /\ \E i \in DOMAIN scripts :
         ~scripts[i].disabled /\ scripts' = [scripts EXCEPT ![i].disabled = TRUE]
    /\ UNCHANGED <<disk, failures, cache, queue, up, reply>>

\* External: the compiler or the operator puts, replaces or removes a package
\* between two commands.
DiskChanges ==
    /\ queue = {}
    /\ \E f \in Files :
         \/ \E c \in Contents :
              disk' = [g \in DOMAIN disk \cup {f} |-> IF g = f THEN c ELSE disk[g]]
         \/ disk' = [g \in DOMAIN disk \ {f} |-> disk[g]]
    /\ UNCHANGED <<scripts, failures, cache, queue, up, reply>>

Init ==
    /\ \E D \in SUBSET Files : disk \in [D -> Contents]
    /\ scripts = <<>> /\ failures = {} /\ cache = <<>> /\ queue = {}
    /\ up = FALSE
    /\ reply = [action |-> "start", force |-> FALSE, query |-> NoName,
                key |-> NoName, result |-> "done"]

Command ==
    \/ \E q \in Names, force \in BOOLEAN : CommandUnload(q, force) \/ CommandRefresh(q, force)
    \/ \E q \in Names : CommandLoad(q)
    \/ CommandRetry

Next == Command \/ Proceed \/ Start \/ CallbackFails \/ DiskChanges

Spec == Init /\ [][Next]_vars

-----------------------------------------------------------------------------
\* Type invariant.
TypeOK ==
    /\ DOMAIN disk \subseteq Files /\ \A f \in DOMAIN disk : disk[f] \in Contents
    /\ scripts \in Seq(Vm)
    /\ failures \subseteq Keys
    /\ DOMAIN cache \subseteq Keys /\ \A k \in DOMAIN cache : cache[k] \in Names
    /\ queue \subseteq Step
    /\ up \in BOOLEAN
    /\ reply \in Reply

\* Files whose plugin is in scripts_.
LoadedFiles == {scripts[i].file : i \in DOMAIN scripts}

\* src/docs/plugins/README.md:3: a package has "one isolated Lua state".  No
\* sequence of commands loads a package twice.
OneStatePerPackage ==
    \A i, j \in DOMAIN scripts : scripts[i].file = scripts[j].file => i = j

\* The declared name of a loaded plugin, whatever package was loaded under
\* its key before, is the one commands will still know it by when it is gone.
CacheIsCurrent ==
    \A i \in DOMAIN scripts :
        KeyAt(i) \in DOMAIN cache /\ cache[KeyAt(i)] = scripts[i].name

\* A plugin disappears only by a command that named it, by its key or by its
\* declared name, however many plugins share that name.
CommandsStayOnTarget ==
    [][reply'.action # "start" =>
          \A i \in DOMAIN scripts :
              scripts[i].file \notin LoadedFiles' =>
                  reply'.query \in {KeyAt(i), scripts[i].name}]_vars

\* A plugin that is no longer loaded was unloaded, or its replacement failed
\* and retry knows it.
LossIsAccountedFor ==
    [][reply'.action # "start" =>
          \A key \in LoadedKeys :
              \/ key \in LoadedKeys' \cup failures'
              \/ reply'.action = "unload" /\ reply'.key = key]_vars

\* src/docs/plugins/README.md:49: "If cleanup throws an error, a normal unload
\* or refresh is refused", and :53 says of a disabled plugin "Reload or refresh
\* it after fixing the source": only a cleanup that throws is refused.
RefusedOnlyForItsCleanup ==
    reply.result = "refused" =>
        \E i \in DOMAIN scripts :
            KeyAt(i) = reply.key /\ scripts[i].cleanup = "throws"

\* src/docs/ARCHITECTURE.md:38: "one bad package does not stop the runtime from
\* loading the next package".
BadPackageIsContained == queue # {} => up
=============================================================================
