------------------------------- MODULE Installer -------------------------------
(***************************************************************************)
(* The installer: src/installer/release_installer.py, and stage 0 of the   *)
(* smoke runner, which calls the same installers.  An operation syncs the  *)
(* release tree, installs components one by one and writes                 *)
(* state/install-state.json at the end.  It can fail at any component, and *)
(* be stopped in the middle of any copy; what it leaves is what the next   *)
(* operation finds.  One operation runs at a time.                         *)
(***************************************************************************)
EXTENDS Integers

CONSTANTS
  Paths,           \* managed paths of release-manifest.json
  MaxVersion,      \* release versions are 1..MaxVersion
  Holds,           \* version -> the managed paths its bundle has
  Manifest, Config,\* the paths with the manifest and with config/project
  Profiles,        \* llama.cpp profiles of this platform
  Git,             \* profiles built from source
  Pinned,          \* release and URL profiles whose version is not "latest"
  Fixed,           \* profiles whose version label stays when their source changes
  MaxConf,         \* tags, URLs and commits of a profile are 1..MaxConf
  Lacks,           \* <<profile, source>>: the archive or build has no server
  Files,           \* model files
  Local,           \* model files taken from a local path
  Alike,           \* model files with editions of one size, the newer perhaps with an older time
  Rank,            \* the order of the manifest's paths, of the profiles, of the files
  MaxOps, MaxEdits, MaxFaults, MaxCuts

InstallerAssumption ==
  /\ MaxVersion \in Nat \ {0} /\ MaxConf \in Nat \ {0}
  /\ Holds \in [1..MaxVersion -> SUBSET Paths]
  /\ \A v \in 1..MaxVersion : {Manifest, Config} \subseteq Holds[v]
  /\ Git \subseteq Profiles /\ Pinned \subseteq Profiles /\ Git \cap Pinned = {}
  /\ Fixed \subseteq Git \cup Pinned /\ Local \subseteq Files /\ Alike \subseteq Files
  /\ Rank \in [Paths \cup Profiles \cup Files -> Int]
  /\ Lacks \subseteq Profiles \X (1..MaxConf)
  /\ {MaxOps, MaxEdits, MaxFaults, MaxCuts} \subseteq Nat
ASSUME InstallerAssumption

VARIABLES
  tree,      \* per managed path: its version, Absent or Cut
  seed,      \* config/local: "absent", "cut", "seeded", "edited"
  venv,      \* .venv: "absent", "cut", "ready"
  conf,      \* per profile: what its configuration and upstream ask for
  dirs,      \* per profile and label: what tools/llama.cpp/<label>-<backend> holds
  src, model,\* per model file: the source's edition, and the installed one
  st,        \* install-state.json
  gen,       \* the directories that the generated llama-swap.yaml names
  op, ver,   \* the operation, its release version
  pc,        \* its step
  todo,      \* managed paths, profiles or model files still to do
  cur,       \* the profile being installed
  got,       \* profiles installed in this operation
  swap,      \* what ensure_llama_swap returned
  nginx,     \* whether nginx is selected, and installed
  last,      \* how the last operation ended; "none" during one and after an edit
  hit,       \* whether a fault has struck this operation
  ops, edits, faults, cuts

local == <<op, ver, todo, cur, got, swap, nginx>>
installed == <<tree, seed, venv, dirs, model>>
bounds == <<ops, edits, faults, cuts>>
vars == <<installed, conf, src, st, gen, local, pc, last, hit, bounds>>

Versions == 1..MaxVersion
Confs == 1..MaxConf
Absent == 0
Cut == -1          \* cut off in the middle
Bare == -2         \* a directory without the server
None == -1         \* no variant recorded
Labels == 0..MaxConf
Ops == {"install", "update", "components", "stage0"}

NoVariants == [p \in Profiles |-> None]
NoState == [file |-> "absent", version |-> 0, variants |-> NoVariants,
            swap |-> "none", nginx |-> "no"]

\* <version>-<backend>; no two profiles share a version and a backend.
Label(p) == IF p \in Fixed THEN 0 ELSE conf[p]

\* _llama_cpp_cache_signature, and the fields of a result that it is
\* compared with: fields the results lack never compare equal.
SignatureKeys == {"git_url", "git_ref", "download_url", "configure_command",
                  "build_command", "required_toolchains", "toolchains"}
ResultKeys(p) == IF p \in Git THEN {"git_url", "git_ref"}
                 ELSE IF p \in Pinned \cap Fixed THEN {"download_url"} ELSE {}
CacheMatches(p) == st.variants[p] # None /\ SignatureKeys \subseteq ResultKeys(p)

\* Mutant: any directory is trusted.
ReusableThere(p) == dirs[p][Label(p)] # Absent

\* _local_llama_cpp_install_result: the server is there, even if the copy was
\* cut off after it.
Reusable(p) ==
  \/ p \in Pinned /\ dirs[p][Label(p)] \in Confs \cup {Cut}
  \/ CacheMatches(p) /\ dirs[p][st.variants[p]] \in Confs \cup {Cut}

\* An empty root, or one that a package has filled (postinstall.sh).
Init ==
  /\ \/ tree = [p \in Paths |-> Absent] /\ seed = "absent"
     \/ tree = [p \in Paths |-> IF p \in Holds[1] THEN 1 ELSE Absent] /\ seed = "seeded"
  /\ venv = "absent" /\ conf = [p \in Profiles |-> 1]
  /\ dirs = [p \in Profiles |-> [l \in Labels |-> Absent]]
  /\ src = [f \in Files |-> 1] /\ model = [f \in Files |-> Absent]
  /\ st = NoState /\ gen = NoVariants
  /\ op = "install" /\ ver = 0 /\ pc = "idle" /\ todo = {} /\ cur = "none"
  /\ got = {} /\ swap = "none" /\ nginx = "no" /\ last = "none" /\ hit = "no"
  /\ ops = 0 /\ edits = 0 /\ faults = 0 /\ cuts = 0

(***************************************************************************)
(* How steps end.                                                          *)
(***************************************************************************)
Fault == faults < MaxFaults /\ faults' = faults + 1 /\ hit' = "yes"
NoFault == UNCHANGED <<faults, hit>>
InTurn(x) == x \in todo /\ \A y \in todo : Rank[x] <= Rank[y]
Fail == pc' = "idle" /\ last' = "failed"
Go(step) == pc' = step /\ UNCHANGED last

(***************************************************************************)
(* The start of an operation.                                              *)
(***************************************************************************)
Readable(p) == tree[p] \in Versions

\* Mutant: a root without a state file is refused.
LoadsRequired(o) ==
  /\ o \in {"update", "components"} => st.file = "whole"
  /\ o # "install" => Readable(Config)
  /\ o = "components" => Readable(Manifest)

\* load_state, load_manifest and load_stack_config on the installed root.
Loads(o) ==
  /\ o \in {"update", "components"} => st.file # "torn"
  /\ o # "install" => Readable(Config)
  /\ o = "components" => Readable(Manifest)

Kept(o) == IF o \in {"update", "components"} THEN st ELSE NoState

Begin(o, v, asked) ==
  /\ pc = "idle" /\ ops < MaxOps /\ ops' = ops + 1
  /\ o = "install" \/ \E p \in Paths : tree[p] # Absent
  /\ op' = o /\ ver' = (IF o \in {"install", "update"} THEN v ELSE 0) /\ cur' = "none" /\ got' = {} /\ swap' = "none" /\ hit' = "no"
  /\ nginx' = IF asked \/ o = "stage0" \/ Kept(o).nginx = "selected" THEN "selected" ELSE "no"
  /\ todo' = IF o = "stage0" THEN Profiles ELSE Paths
  /\ \/ /\ Loads(o)
        /\ pc' = (CASE o = "components" -> "venv" [] o = "stage0" -> "profiles" [] OTHER -> "sync")
        /\ last' = "none"
     \/ ~Loads(o) /\ Fail
  /\ UNCHANGED <<installed, conf, src, st, gen, edits, faults, cuts>>

(***************************************************************************)
(* The release tree.                                                       *)
(***************************************************************************)
\* Mutant: a path that is there is left alone, as a seed is.
SyncMissing(p) ==
  /\ pc = "sync" /\ InTurn(p) /\ todo' = todo \ {p}
  /\ tree' = IF p \in Holds[ver] /\ tree[p] = Absent THEN [tree EXCEPT ![p] = ver] ELSE tree
  /\ NoFault /\ UNCHANGED <<seed, venv, dirs, model, conf, src, st, gen, op, ver, cur, got,
                            swap, nginx, pc, last, ops, edits, cuts>>

SyncPath(p) ==
  /\ pc = "sync" /\ InTurn(p) /\ todo' = todo \ {p}
  /\ tree' = IF p \in Holds[ver] THEN [tree EXCEPT ![p] = ver] ELSE tree
  /\ NoFault /\ UNCHANGED <<seed, venv, dirs, model, conf, src, st, gen, op, ver, cur, got,
                            swap, nginx, pc, last, ops, edits, cuts>>

\* Mutant: config/local is treated as a managed path.
SyncSeedManaged ==
  /\ pc = "sync" /\ todo = {} /\ Go("venv") /\ seed' = "seeded"
  /\ NoFault /\ UNCHANGED <<tree, venv, dirs, model, conf, src, st, gen, local, ops, edits, cuts>>

SyncSeed ==
  /\ pc = "sync" /\ todo = {} /\ Go("venv")
  /\ seed' = IF seed = "absent" THEN "seeded" ELSE seed
  /\ NoFault /\ UNCHANGED <<tree, venv, dirs, model, conf, src, st, gen, local, ops, edits, cuts>>

(***************************************************************************)
(* The components, in the order of the manifest.                           *)
(***************************************************************************)
\* An environment that is there is not looked into.  "python -m venv" links the interpreter
\* before it installs pip, and leaves it there when it fails (no ensurepip, no space).
PythonRuntime ==
  /\ pc = "venv"
  /\ \/ Go("deps") /\ NoFault /\ venv' = IF venv = "absent" THEN "ready" ELSE venv
     \/ venv = "absent" /\ Fault /\ Fail /\ venv' \in {"absent", "cut"}
  /\ UNCHANGED <<tree, seed, dirs, model, conf, src, st, gen, local, ops, edits, cuts>>

PythonDeps ==
  /\ pc = "deps"
  /\ \/ venv = "ready" /\ Go("profiles") /\ NoFault /\ todo' = Profiles
     \/ venv # "ready" /\ Fail /\ NoFault /\ UNCHANGED todo
     \/ Fault /\ Fail /\ UNCHANGED todo
  /\ UNCHANGED <<installed, conf, src, st, gen, op, ver, cur, got, swap, nginx, ops, edits, cuts>>

StartProfile(p) ==
  /\ pc = "profiles" /\ InTurn(p) /\ todo' = todo \ {p} /\ NoFault
  /\ \/ Reusable(p) /\ got' = got \cup {p} /\ UNCHANGED cur /\ Go("profiles")
     \/ ~Reusable(p) /\ cur' = p /\ UNCHANGED got /\ Go("fetch")
  /\ UNCHANGED <<installed, conf, src, st, gen, op, ver, swap, nginx, ops, edits, cuts>>

Dir(p, content) == [dirs EXCEPT ![p][Label(p)] = content]

\* Download and extract, or clone and build, in a temporary directory; then
\* rmtree of the directory.  Mutant: rmtree first.
FetchReplaces ==
  /\ pc = "fetch" /\ dirs' = Dir(cur, Absent)
  /\ \/ NoFault /\ Go(IF cur \in Git /\ <<cur, conf[cur]>> \in Lacks THEN "profiles" ELSE "copy")
     \/ Fault /\ Go("profiles")
  /\ UNCHANGED <<tree, seed, venv, model, conf, src, st, gen, local, ops, edits, cuts>>

Fetch ==
  /\ pc = "fetch"
  /\ \/ cur \in Git /\ <<cur, conf[cur]>> \in Lacks /\ Go("profiles") /\ NoFault /\ UNCHANGED dirs
     \/ ~(cur \in Git /\ <<cur, conf[cur]>> \in Lacks) /\ Go("copy") /\ NoFault /\ dirs' = Dir(cur, Absent)
     \/ Fault /\ Go("profiles") /\ UNCHANGED dirs
  /\ UNCHANGED <<tree, seed, venv, model, conf, src, st, gen, local, ops, edits, cuts>>

\* Mutant: an archive without the server is fetched again.
CopyRetries ==
  /\ pc = "copy" /\ NoFault
  /\ \/ <<cur, conf[cur]>> \notin Lacks /\ Go("profiles") /\ dirs' = Dir(cur, conf[cur]) /\ got' = got \cup {cur}
     \/ <<cur, conf[cur]>> \in Lacks /\ Go("fetch") /\ dirs' = Dir(cur, Bare) /\ UNCHANGED got
  /\ UNCHANGED <<tree, seed, venv, model, conf, src, st, gen, op, ver, todo, cur, swap, nginx, ops, edits, cuts>>

\* copytree, then the look for the server.  A copy that fails is one more
\* profile skipped.
CopyRuntime ==
  /\ pc = "copy" /\ Go("profiles")
  /\ \/ /\ <<cur, conf[cur]>> \notin Lacks /\ dirs' = Dir(cur, conf[cur])
        /\ got' = got \cup {cur} /\ NoFault /\ UNCHANGED cuts
     \/ /\ <<cur, conf[cur]>> \in Lacks /\ dirs' = Dir(cur, Bare)
        /\ NoFault /\ UNCHANGED <<got, cuts>>
     \/ /\ Fault /\ cuts < MaxCuts /\ cuts' = cuts + 1
        /\ \E c \in {Cut, Bare} : dirs' = Dir(cur, c)
        /\ UNCHANGED got
  /\ UNCHANGED <<tree, seed, venv, model, conf, src, st, gen, op, ver, todo, cur, swap, nginx, ops, edits>>

ProfilesDone ==
  /\ pc = "profiles" /\ todo = {} /\ NoFault
  /\ \/ got # {} /\ Go("swap")
     \/ got = {} /\ Fail
  /\ UNCHANGED <<installed, conf, src, st, gen, local, ops, edits, cuts>>

AfterNginx == CASE op = "components" -> "write" [] op = "stage0" -> "models" [] OTHER -> "updates"

\* A download that fails is swallowed; a package manager that fails is not.
LlamaSwap ==
  /\ pc = "swap"
  /\ \/ NoFault /\ swap' = "path" /\ Go(IF nginx = "selected" THEN "nginx" ELSE AfterNginx)
     \/ Fault /\ swap' = "manual" /\ Go(IF nginx = "selected" THEN "nginx" ELSE AfterNginx)
     \/ Fault /\ Fail /\ UNCHANGED swap
  /\ todo' = IF op = "stage0" THEN Files ELSE {}
  /\ UNCHANGED <<installed, conf, src, st, gen, op, ver, cur, got, nginx, ops, edits, cuts>>

Nginx ==
  /\ pc = "nginx"
  /\ \/ NoFault /\ nginx' = "installed" /\ Go(AfterNginx)
     \/ op = "stage0" /\ Fault /\ nginx' = "no" /\ Go(AfterNginx)
     \/ op # "stage0" /\ Fault /\ Fail /\ UNCHANGED nginx
  /\ UNCHANGED <<installed, conf, src, st, gen, op, ver, todo, cur, got, swap, ops, edits, cuts>>

(***************************************************************************)
(* Model files (stage 0 only: the manifest does not list the component).   *)
(***************************************************************************)
\* _copy_artifact_if_needed compares size and time with the source, and keeps
\* a file of equal size that is not older; a file with a URL is only looked for.
\* Mutant: a file that is there stays.
MaterializedOnce(f) == {IF model[f] = Absent THEN src[f] ELSE model[f]}
Materialized(f) ==
  IF f \notin Local /\ model[f] # Absent THEN {model[f]}
  ELSE {src[f]} \cup (IF f \in Local \cap Alike THEN {model[f]} \cap Confs ELSE {})

\* Downloads go to their final place; what fails is not retried.
Model(f) ==
  /\ pc = "models" /\ InTurn(f) /\ Go("models")
  /\ \/ /\ \E x \in Materialized(f) : model' = [model EXCEPT ![f] = x]
        /\ NoFault /\ todo' = todo \ {f} /\ UNCHANGED cuts
     \/ /\ Fault /\ todo' = {} /\ Materialized(f) # {model[f]}
        /\ \/ UNCHANGED <<model, cuts>>
           \/ cuts < MaxCuts /\ cuts' = cuts + 1 /\ model' = [model EXCEPT ![f] = Cut]
  /\ UNCHANGED <<tree, seed, venv, dirs, conf, src, st, gen, op, ver, cur, got, swap, nginx, ops, edits>>

ModelsDone ==
  /\ pc = "models" /\ todo = {} /\ Go("write") /\ NoFault
  /\ UNCHANGED <<installed, conf, src, st, gen, local, ops, edits, cuts>>

(***************************************************************************)
(* The end of an operation.                                                *)
(***************************************************************************)
\* check_available_updates asks GitHub.
CheckUpdates ==
  /\ pc = "updates"
  /\ \/ Go("write") /\ NoFault
     \/ Fault /\ Fail
  /\ UNCHANGED <<installed, conf, src, st, gen, local, ops, edits, cuts>>

\* Mutant: the variants of this operation replace the earlier ones.
MergedReplaces == [p \in Profiles |-> IF p \in got THEN Label(p) ELSE None]

\* _merge_llama_cpp_result
Merged == [p \in Profiles |-> IF p \in got THEN Label(p) ELSE Kept(op).variants[p]]

NginxRecord == IF nginx # "installed" THEN Kept(op).nginx
               ELSE IF op = "stage0" THEN "path" ELSE "selected"

\* install-components generates first, from the state file as it still is.
WriteState ==
  /\ pc = "write" /\ pc' = "idle" /\ last' = "done" /\ NoFault
  /\ gen' = IF op = "components" THEN st.variants ELSE gen
  /\ st' = [file |-> "whole", variants |-> Merged, swap |-> swap, nginx |-> NginxRecord,
            version |-> IF op \in {"install", "update"} THEN ver ELSE Kept(op).version]
  /\ UNCHANGED <<installed, conf, src, local, ops, edits, cuts>>

\* The process is killed, or the disk is full.
Interrupt ==
  /\ pc # "idle" /\ cuts < MaxCuts /\ cuts' = cuts + 1 /\ hit' = "yes"
  /\ pc' = "idle" /\ last' = "failed"
  /\ \/ UNCHANGED <<installed, st>>
     \/ /\ pc = "sync"
        /\ \E p \in Holds[ver] : InTurn(p) /\ tree' = [tree EXCEPT ![p] = Cut]
        /\ UNCHANGED <<seed, venv, dirs, model, st>>
     \/ /\ pc = "sync" /\ todo = {} /\ seed = "absent" /\ seed' = "cut"
        /\ UNCHANGED <<tree, venv, dirs, model, st>>
     \/ /\ pc = "venv" /\ venv = "absent" /\ venv' = "cut"
        /\ UNCHANGED <<tree, seed, dirs, model, st>>
     \/ /\ pc = "copy" /\ \E c \in {Cut, Bare} : dirs' = Dir(cur, c)
        /\ UNCHANGED <<tree, seed, venv, model, st>>
     \/ /\ pc = "write" /\ st' = [NoState EXCEPT !.file = "torn"]
        /\ UNCHANGED installed
  /\ UNCHANGED <<conf, src, gen, local, ops, edits, faults>>

(***************************************************************************)
(* Around the installer.                                                   *)
(***************************************************************************)
\* The "generate" command reads install-state.json.
Generate ==
  /\ pc = "idle" /\ Readable(Config) /\ st.file # "torn" /\ gen' = st.variants
  /\ UNCHANGED <<installed, conf, src, st, local, pc, last, hit, bounds>>

Edit ==
  /\ pc = "idle" /\ edits < MaxEdits /\ edits' = edits + 1 /\ last' = "none"
  /\ UNCHANGED <<tree, venv, dirs, model, st, gen, local, pc, hit, ops, faults, cuts>>
NewSource(p) ==
  /\ conf[p] < MaxConf /\ conf' = [conf EXCEPT ![p] = @ + 1]
  /\ UNCHANGED <<seed, src>>
EditLocal == seed # "absent" /\ seed' = "edited" /\ UNCHANGED <<conf, src>>
NewModel(f) == src[f] < MaxConf /\ src' = [src EXCEPT ![f] = @ + 1] /\ UNCHANGED <<seed, conf>>
Edits == Edit /\ (EditLocal \/ (\E p \in Profiles : NewSource(p)) \/ (\E f \in Files : NewModel(f)))

Begins == \E o \in Ops, v \in Versions, asked \in BOOLEAN : Begin(o, v, asked)
Step ==
  \/ \E p \in Paths : SyncPath(p)
  \/ SyncSeed \/ PythonRuntime \/ PythonDeps
  \/ \E p \in Profiles : StartProfile(p)
  \/ Fetch \/ CopyRuntime \/ ProfilesDone \/ LlamaSwap \/ Nginx
  \/ \E f \in Files : Model(f)
  \/ ModelsDone \/ CheckUpdates \/ WriteState

Next == Begins \/ Step \/ Interrupt \/ Generate \/ Edits
Spec == Init /\ [][Next]_vars

\* Commands that an operation starts end, or are killed.
FairSpec == Spec /\ WF_vars(Step)

(***************************************************************************)
(* Properties.                                                             *)
(***************************************************************************)
\* After an install or update that completed, the tree is the release that the
\* state file names, whatever mixture earlier operations left behind
\* (sync_release_tree, install_or_update_from_bundle).
CompletedTree ==
  last = "done" /\ op \in {"install", "update"} =>
     st.version = ver /\ \A p \in Holds[ver] : tree[p] = ver

\* Unless a copy was ever cut off, the servers that install-state.json and the
\* generated llama-swap.yaml name are there and whole, whatever failed since,
\* except while that very directory is being replaced (the order of download,
\* rmtree and copytree in _install_one_llama_cpp_profile).
Runnable ==
  cuts = 0 =>
    \A p \in Profiles, t \in {st.variants, gen} :
       t[p] # None => \/ dirs[p][t[p]] \in Confs
                      \/ pc = "copy" /\ cur = p /\ t[p] = Label(p)

\* After an operation that completed, each profile it reports that is not pinned is what its
\* configuration asks for, also over a directory that was cut off; a pinned one, whose
\* directory is trusted (_local_llama_cpp_install_result), is there, and whole if nothing
\* was ever cut off. After stage 0 without a fault, a model file with a local source is
\* that source, also over a copy that was cut off, unless an older edition passes
\* for it by its size and time (_copy_artifact_if_needed).
Installed ==
  last = "done" =>
    /\ \A p \in got : IF p \in Pinned THEN dirs[p][Label(p)] \in Confs \cup {Cut}
                                        /\ (cuts = 0 => dirs[p][Label(p)] # Cut)
                      ELSE dirs[p][Label(p)] = conf[p]
    /\ op = "stage0" /\ hit = "no" =>
         \A f \in Local : model[f] = src[f] \/ (f \in Alike /\ model[f] \in Confs)

\* An operation that no fault strikes succeeds, if nothing was ever cut off and no virtual
\* environment is left whose creation failed: whatever else failed before leaves
\* nothing that a later operation stumbles over (postinstall.sh: retry with "install components").
FailureRetried == last = "failed" /\ cuts = 0 /\ venv # "cut" => hit = "yes"

\* On a root whose release tree is whole, a component install that no fault
\* strikes succeeds, also after one that failed or was cut off (postinstall.sh: "Component
\* install had errors - run 'AUDiaLLMGateway.sh install components' to retry").
Retried ==
  last = "failed" /\ op = "components" /\ (\A p \in Holds[1] : Readable(p)) => hit = "yes"

\* An update, or a component install, keeps the variants and the selection
\* that earlier operations recorded, also of profiles that fail this time
\* (_merge_llama_cpp_result, resolve_component_selection); and once config/local
\* is there only its owner changes it (the seed paths of sync_release_tree).
RecordsKept ==
  [][/\ pc = "write" /\ last' = "done" /\ op \in {"update", "components"} =>
          /\ \A p \in Profiles : st.variants[p] # None => st'.variants[p] # None
          /\ st.nginx = "selected" => st'.nginx = "selected"
     /\ seed' # seed => seed = "absent" \/ seed' = "edited"]_vars

\* Every operation ends, whichever profile, download or build fails.
OperationsEnd == pc # "idle" ~> pc = "idle"
=============================================================================
