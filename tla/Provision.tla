------------------------------ MODULE Provision ------------------------------
(***************************************************************************)
(* The start-up of the llama.cpp container: scripts/provision-runtime.sh.  *)
(* Each boot reads the catalog of runtime variants and brings the          *)
(* directory of each selected variant up to date.  The directories are on  *)
(* a volume and outlive the container, /tmp outlives a restart only, and   *)
(* the script may be stopped between any two of its commands.              *)
(***************************************************************************)
EXTENDS Integers

CONSTANTS
  Variants,        \* names of runtime variants, each with a directory of its own
  Cpu,             \* the variant that the fallback installs
  MaxVersion,      \* versions are 1..MaxVersion; 0 is "not in the catalog"
  Listed,          \* Variants -> the versions that a catalog may give it
  Latest,          \* the version of the built-in catalog (LLAMA_VERSION)
  SourceType,      \* Variants -> "github_release" | "direct_url" | "git"
  Backend,         \* Variants -> "cuda" | "rocm" | "vulkan" | "cpu"
  Raw,             \* variants whose archive_type is none, raw or binary
  Globbed,         \* variants with a binary_glob: a failed cp of the server ends the script
  Zipped,          \* versions published as zip archives (the others are tar archives)
  Lacks,           \* versions whose archive or build has no server binary
  Forced,          \* LLAMA_BACKEND, or "auto"
  Hardware,        \* what the probes can report at a boot
  Overwrites,      \* archives of two versions unpack to the same paths
  Always,          \* variants of the catalog marked "always"
  MaxEdits, MaxFaults

ProvisionAssumption ==
  /\ MaxVersion \in Nat \ {0} /\ Latest \in 1..MaxVersion /\ Cpu \in Variants
  /\ Listed \in [Variants -> SUBSET (0..MaxVersion)]
  /\ SourceType \in [Variants -> {"github_release", "direct_url", "git"}]
  /\ Backend \in [Variants -> {"cuda", "rocm", "vulkan", "cpu"}]
  /\ Raw \subseteq Variants /\ Globbed \subseteq Variants /\ Overwrites \in BOOLEAN
  /\ Lacks \subseteq 1..MaxVersion /\ Zipped \subseteq 1..MaxVersion
  /\ Always \subseteq Variants /\ Forced \in {"auto", "cuda", "rocm", "vulkan", "cpu"}
  /\ \A n \in Raw : SourceType[n] # "git"
  /\ SourceType[Cpu] = "github_release" /\ Backend[Cpu] = "cpu" /\ Cpu \notin Raw
  /\ MaxEdits \in Nat /\ MaxFaults \in Nat
ASSUME ProvisionAssumption

VARIABLES
  catalog,   \* backend-runtime.catalog.json: Variants -> version or 0
  wanted,    \* the effective catalog of this boot
  hw,        \* the backends usable in this boot
  dir,       \* per variant: the signature file, what is in bin/ and in lib/
  flaw,      \* a command whose failure the script ignores has failed for cur
  torn,      \* history: variants signed in spite of such a failure
  passed,    \* history: variants of which a boot has asked for something else
             \* than what their signature names, since it was written
  meta,      \* /tmp: release metadata per version
  left,      \* /tmp: versions whose files are in extract_<variant>
  pc,        \* the step of the script
  cur,       \* the variant being provisioned
  todo,      \* rows of the catalog not yet visited
  tried,     \* variants passed to provision_variant in this boot
  errors,    \* whether a download, build or copy has failed in this boot
  edits, faults

history == <<torn, passed>>
tmp == <<meta, left>>
vars == <<catalog, wanted, hw, dir, flaw, history, tmp, pc, cur, todo, tried, errors, edits, faults>>

Versions == 1..MaxVersion
Absent == 0
Partial == -1      \* cut off in the middle, or a mixture of versions
Contents == Versions \cup {Absent, Partial}
Backends == {"cuda", "rocm", "vulkan", "cpu"}
Sigs == [hw : SUBSET Backends, version : 0..MaxVersion]
NoSig == [hw |-> {}, version |-> 0]

(***************************************************************************)
(* Which variants a boot provisions.                                       *)
(***************************************************************************)
\* HAS_NVIDIA, HAS_AMD, HAS_VULKAN from what the probes see; "gpu" is a
\* card that only lspci knows.
Usable(seen) ==
  IF Forced # "auto" THEN {Forced} \cap {"cuda", "rocm", "vulkan"}
  ELSE (seen \cap {"cuda", "rocm"}) \cup (IF seen = {} THEN {} ELSE {"vulkan"})

Selected(n) ==
  IF Forced # "auto" THEN Backend[n] = Forced
  ELSE /\ Backend[n] \in hw \cup {"cpu"}
       /\ Backend[n] = "cpu" => n \in Always \/ hw = {}

\* default_runtime_catalog_json: one variant per backend, at LLAMA_VERSION.
Builtin == [n \in Variants |-> IF SourceType[n] = "github_release" THEN Latest ELSE 0]

(***************************************************************************)
(* The check that decides whether a variant is provisioned again.          *)
(***************************************************************************)
\* Mutant: the signature is its prefix only.
SigUnversioned(n) == [hw |-> hw, version |-> 1]

Sig(n) == [hw |-> hw, version |-> wanted[n]]

\* [ -x ]: cp gives a new file the mode of its source at once, so an
\* unpacked binary is executable before it is complete; a raw download is
\* made executable afterwards.
Executable(n) == dir[n].bin # Absent /\ ~(dir[n].bin = Partial /\ n \in Raw)
UpToDate(n) == dir[n].sig = Sig(n) /\ Executable(n)

\* Where the files come from: the extract directory, or a fresh build tree, which
\* holds something else if it was built without its configuration.
Payload(n) ==
  IF SourceType[n] = "git" THEN {IF flaw THEN Partial ELSE wanted[n]} ELSE left[n]

\* Signatures that are not what a boot asks for.
Passed(seen, asked) ==
  {n \in Variants : dir[n].sig \notin {NoSig, [hw |-> seen, version |-> asked[n]]}}

Catalogs == {c \in [Variants -> 0..MaxVersion] : \A n \in Variants : c[n] \in Listed[n]}
Init ==
  /\ catalog \in Catalogs
  /\ wanted = [n \in Variants |-> 0] /\ hw = {}
  /\ dir = [n \in Variants |-> [sig |-> NoSig, bin |-> Absent, lib |-> Absent]]
  /\ flaw = FALSE /\ torn = {} /\ passed = {}
  /\ meta = [v \in Versions |-> "none"] /\ left = [n \in Variants |-> {}]
  /\ pc = "down" /\ cur = Cpu /\ todo = {} /\ tried = {} /\ errors = "none"
  /\ edits = 0 /\ faults = 0

(***************************************************************************)
(* The script.                                                             *)
(***************************************************************************)
\* Lines up to the loop: probe the hardware, wait for the catalog, copy it, or fall
\* back to the built-in one if it is empty or does not parse.
LoadCatalog ==
  /\ pc = "down"
  /\ \E seen \in Hardware, c \in {catalog, Builtin} :
       /\ hw' = Usable(seen) /\ wanted' = c
       /\ todo' = {n \in Variants : c[n] # 0}
       /\ passed' = passed \cup Passed(Usable(seen), c)
  /\ tried' = {} /\ errors' = "none" /\ pc' = "select"
  /\ UNCHANGED <<catalog, dir, flaw, torn, tmp, cur, edits, faults>>

\* One row of the catalog; the order of the rows does not matter.
SelectVariant(n) ==
  /\ pc = "select" /\ n \in todo
  /\ todo' = todo \ {n}
  /\ IF Selected(n) THEN cur' = n /\ tried' = tried \cup {n} /\ pc' = "check"
                    ELSE UNCHANGED <<cur, tried, pc>>
  /\ UNCHANGED <<catalog, wanted, hw, dir, flaw, history, tmp, errors, edits, faults>>

\* Mutant: the fallback passes an empty name.
FallbackUnnamed ==
  /\ pc = "select" /\ todo = {} /\ tried = {}
  /\ cur' = "" /\ tried' = {""} /\ wanted' = [wanted EXCEPT ![Cpu] = Latest]
  /\ pc' = "check"
  /\ UNCHANGED <<catalog, hw, dir, flaw, history, tmp, todo, errors, edits, faults>>

Fallback ==
  /\ pc = "select" /\ todo = {} /\ tried = {}
  /\ cur' = Cpu /\ tried' = {Cpu} /\ wanted' = [wanted EXCEPT ![Cpu] = Latest]
  /\ passed' = passed \cup (Passed(hw, wanted') \cap {Cpu})
  /\ pc' = "check"
  /\ UNCHANGED <<catalog, hw, dir, flaw, torn, tmp, todo, errors, edits, faults>>

\* Mutants: the signature is written first; the old files are kept.
CheckSigns ==
  /\ pc = "check"
  /\ pc' = IF UpToDate(cur) THEN "select" ELSE "source"
  /\ dir' = IF UpToDate(cur) THEN dir ELSE [dir EXCEPT ![cur] = [sig |-> Sig(cur), bin |-> Absent, lib |-> Absent]]
  /\ passed' = IF UpToDate(cur) THEN passed ELSE passed \ {cur}
  /\ flaw' = FALSE
  /\ UNCHANGED <<catalog, wanted, hw, torn, tmp, cur, todo, tried, errors, edits, faults>>
CheckKeeps ==
  /\ pc = "check"
  /\ pc' = IF UpToDate(cur) THEN "select" ELSE "source"
  /\ flaw' = FALSE
  /\ UNCHANGED <<catalog, wanted, hw, dir, history, tmp, cur, todo, tried, errors, edits, faults>>

\* The files are removed, the signature stays.
Check ==
  /\ pc = "check"
  /\ \/ UpToDate(cur) /\ pc' = "select" /\ UNCHANGED dir
     \/ /\ ~UpToDate(cur) /\ pc' = "source"
        /\ dir' = [dir EXCEPT ![cur].bin = Absent, ![cur].lib = Absent]
  /\ flaw' = FALSE
  /\ UNCHANGED <<catalog, wanted, hw, history, tmp, cur, todo, tried, errors, edits, faults>>

\* The "return"s of provision_variant.
Skip == pc' = "select" /\ errors' = "some"

\* ensure_release_metadata: a file that is not empty is used as it is, also
\* what an interrupted download has left.
Metadata(n) == IF SourceType[n] = "github_release" THEN meta[wanted[n]] ELSE "whole"

\* Mutant: a variant without an asset ends the script.
ResolveOrExit ==
  /\ pc = "source"
  /\ LET known == Metadata(cur) IN
     \/ /\ known # "broken" /\ UNCHANGED <<meta, faults>>
        /\ pc' = IF SourceType[cur] = "git" THEN "build" ELSE "download"
     \/ /\ known = "none" /\ faults < MaxFaults /\ faults' = faults + 1
        /\ meta' = [meta EXCEPT ![wanted[cur]] = "broken"] /\ pc' = "down"
     \/ /\ known = "broken" /\ pc' = "down" /\ UNCHANGED <<meta, faults>>
  /\ UNCHANGED <<catalog, wanted, hw, dir, flaw, history, left, cur, todo, tried, errors, edits>>

\* Where the files are to come from; a release without an asset of that name is skipped.
ResolveSource ==
  LET v == wanted[cur]
      known == Metadata(cur) IN
  /\ pc = "source"
  /\ \/ /\ known = "whole" /\ pc' = IF SourceType[cur] = "git" THEN "build" ELSE "download"
        /\ UNCHANGED <<meta, errors, faults>>
     \/ /\ known = "none" /\ meta' = [meta EXCEPT ![v] = "whole"]
        /\ pc' = "download" /\ UNCHANGED <<errors, faults>>
     \/ /\ known = "none" /\ faults < MaxFaults /\ faults' = faults + 1
        /\ \E m \in {"none", "broken"} : meta' = [meta EXCEPT ![v] = m]
        /\ Skip
     \/ /\ known = "broken" \/ (SourceType[cur] = "github_release" /\ v \in Lacks)
        /\ pc' = "select" /\ UNCHANGED <<meta, errors, faults>>
  /\ UNCHANGED <<catalog, wanted, hw, dir, flaw, history, left, cur, todo, tried, edits>>

Download ==
  /\ pc = "download"
  /\ \/ pc' = "extract" /\ UNCHANGED <<left, errors, faults>>
     \/ /\ faults < MaxFaults /\ faults' = faults + 1
        /\ Skip /\ left' = [left EXCEPT ![cur] = {}]
  /\ UNCHANGED <<catalog, wanted, hw, dir, flaw, history, meta, cur, todo, tried, edits>>

\* unzip has no -o: over a file that an earlier extraction left it asks, reads the end
\* of its input, and fails.  tar overwrites.
Clash(n) ==
  /\ n \notin Raw /\ wanted[n] \in Zipped
  /\ IF Overwrites THEN left[n] # {} ELSE wanted[n] \in left[n]

\* unzip or tar into a directory that may hold an earlier extraction.  If it
\* fails, set -e ends the script and the directory stays.
Extract ==
  LET v == wanted[cur] IN
  /\ pc = "extract"
  /\ \/ /\ Clash(cur) /\ pc' = "down"
        /\ left' = [left EXCEPT ![cur] = @ \cup {v}] /\ UNCHANGED faults
     \/ /\ ~Clash(cur)
        /\ left' = [left EXCEPT ![cur] = IF Overwrites \/ cur \in Raw THEN {v} ELSE @ \cup {v}]
        /\ \/ pc' = "binary" /\ UNCHANGED faults
           \/ cur \notin Raw /\ faults < MaxFaults /\ faults' = faults + 1 /\ pc' = "down"
  /\ UNCHANGED <<catalog, wanted, hw, dir, flaw, history, meta, cur, todo, tried, errors, edits>>

\* Clone, configure and build in a tree that was removed first; without a binary the
\* variant is skipped.  "if ! ( ... )" suspends set -e: a configure command that fails
\* goes unnoticed when the build command succeeds.
GitBuild ==
  /\ pc = "build"
  /\ \/ wanted[cur] \notin Lacks /\ pc' = "binary" /\ UNCHANGED <<flaw, errors, faults>>
     \/ wanted[cur] \in Lacks /\ Skip /\ UNCHANGED <<flaw, faults>>
     \/ faults < MaxFaults /\ faults' = faults + 1 /\ Skip /\ UNCHANGED flaw
     \/ /\ wanted[cur] \notin Lacks /\ faults < MaxFaults /\ faults' = faults + 1
        /\ flaw' = TRUE /\ errors' = "some" /\ pc' = "binary"
  /\ UNCHANGED <<catalog, wanted, hw, dir, history, tmp, cur, todo, tried, edits>>

\* cp of the server binary: the file exists from the first byte on.
OpenBinary ==
  /\ pc = "binary"
  /\ IF Payload(cur) \subseteq Lacks
       THEN pc' = "libs" /\ UNCHANGED dir
       ELSE pc' = "copybin" /\ dir' = [dir EXCEPT ![cur].bin = Partial]
  /\ UNCHANGED <<catalog, wanted, hw, flaw, history, tmp, cur, todo, tried, errors, edits, faults>>

\* Without a binary_glob, find -exec hides a cp that fails (a full disk): the script makes
\* executable what is there and goes on.  Elsewhere set -e ends it, as a restart does.
CopyHides(n) == n \notin Raw \cup Globbed /\ SourceType[n] # "git"

CopyBinary ==
  /\ pc = "copybin" /\ pc' = IF cur \in Raw THEN "sign" ELSE "libs"
  /\ \/ /\ \E v \in Payload(cur) \ Lacks : dir' = [dir EXCEPT ![cur].bin = v]
        /\ UNCHANGED <<flaw, errors, faults>>
     \/ /\ CopyHides(cur) /\ faults < MaxFaults /\ faults' = faults + 1
        /\ flaw' = TRUE /\ errors' = "some"
        /\ \E b \in {Absent, Partial} : dir' = [dir EXCEPT ![cur].bin = b]
  /\ UNCHANGED <<catalog, wanted, hw, history, tmp, cur, todo, tried, edits>>

OpenLibraries ==
  /\ pc = "libs" /\ pc' = "copylib"
  /\ dir' = [dir EXCEPT ![cur].lib = Partial]
  /\ UNCHANGED <<catalog, wanted, hw, flaw, history, tmp, cur, todo, tried, errors, edits, faults>>

\* The errors of cp are ignored, with a library_glob and without.
CopyLibraries ==
  /\ pc = "copylib" /\ pc' = "sign"
  /\ \/ /\ \E v \in Payload(cur) :
             dir' = [dir EXCEPT ![cur].lib = IF Payload(cur) = {v} THEN v ELSE Partial]
        /\ UNCHANGED <<flaw, errors, faults>>
     \/ /\ faults < MaxFaults /\ faults' = faults + 1
        /\ flaw' = TRUE /\ errors' = "some" /\ UNCHANGED dir
  /\ UNCHANGED <<catalog, wanted, hw, history, tmp, cur, todo, tried, edits>>

\* Remove the archive and the extract directory, link the plugins, and
\* write the signature, whether a binary was found or not.
Sign ==
  /\ pc = "sign" /\ pc' = "select"
  /\ dir' = [dir EXCEPT ![cur].sig = Sig(cur)]
  /\ left' = [left EXCEPT ![cur] = {}]
  /\ torn' = IF flaw THEN torn \cup {cur} ELSE torn \ {cur}
  /\ passed' = passed \ {cur}
  /\ UNCHANGED <<catalog, wanted, hw, flaw, meta, cur, todo, tried, errors, edits, faults>>

LaunchSwap ==
  /\ pc = "select" /\ todo = {} /\ tried # {} /\ pc' = "running"
  /\ UNCHANGED <<catalog, wanted, hw, dir, flaw, history, tmp, cur, todo, tried, errors, edits, faults>>

Script ==
  \/ LoadCatalog \/ Fallback \/ Check \/ ResolveSource \/ Download \/ Extract \/ GitBuild
  \/ OpenBinary \/ CopyBinary \/ OpenLibraries \/ CopyLibraries \/ Sign \/ LaunchSwap
  \/ \E n \in Variants : SelectVariant(n)

(***************************************************************************)
(* The environment.                                                        *)
(***************************************************************************)
EditCatalog ==
  /\ edits < MaxEdits /\ edits' = edits + 1
  /\ \E c \in Catalogs \ {catalog} : catalog' = c
  /\ UNCHANGED <<wanted, hw, dir, flaw, history, tmp, pc, cur, todo, tried, errors, faults>>

\* The container is stopped and started by the watcher (which may miss the edit of the
\* catalog), by the operator, or by its restart policy after a crash, at any step.
Restart ==
  /\ pc # "down" /\ pc' = "down" /\ faults < MaxFaults /\ faults' = faults + 1
  /\ UNCHANGED <<catalog, wanted, hw, dir, flaw, history, tmp, cur, todo, tried, errors, edits>>

\* docker compose up with a new image: the file system of the container is new.
Recreate ==
  /\ pc # "down" /\ pc' = "down" /\ faults < MaxFaults /\ faults' = faults + 1
  /\ meta' = [v \in Versions |-> "none"] /\ left' = [n \in Variants |-> {}]
  /\ UNCHANGED <<catalog, wanted, hw, dir, flaw, history, cur, todo, tried, errors, edits>>

Next == Script \/ EditCatalog \/ Restart \/ Recreate

Spec == Init /\ [][Next]_vars
FairSpec == Spec /\ WF_vars(Script)

(***************************************************************************)
(* Properties.                                                             *)
(***************************************************************************)
Stages == {"down", "select", "check", "source", "download", "extract", "build", "binary",
           "copybin", "libs", "copylib", "sign", "running"}
Dirs == [Variants -> [sig : Sigs, bin : Contents, lib : Contents]]

TypeOK ==
  /\ catalog \in Catalogs /\ wanted \in [Variants -> 0..MaxVersion] /\ hw \in SUBSET Backends
  /\ dir \in Dirs
  /\ flaw \in BOOLEAN /\ torn \subseteq Variants /\ passed \subseteq Variants
  /\ meta \in [Versions -> {"none", "whole", "broken"}]
  /\ left \in [Variants -> SUBSET (0..MaxVersion)]
  /\ pc \in Stages /\ cur \in Variants /\ todo \subseteq Variants /\ tried \subseteq Variants
  /\ errors \in {"none", "some"} /\ edits \in 0..MaxEdits /\ faults \in 0..MaxFaults

Sound(n) ==
  /\ dir[n].bin = wanted[n]
  /\ n \in Raw \/ dir[n].lib = wanted[n]

\* What the check of the signature cannot see: a cp or a configure command whose failure
\* the script ignored before it signed; and, since a signature is kept while the files
\* under it are replaced, that a boot in between asked for another version or had other
\* hardware, and was cut off before it wrote its own.
Unseen(n) == n \in torn \cup passed

\* A variant that the check takes for up to date holds, whole, the server and
\* the libraries of the version that the catalog asks for, but for what it cannot see:
\* through restarts at any step, failed downloads and what earlier boots have left in
\* /tmp.  (The test at provision-runtime.sh:403, against the write at 554.)
NeverMistaken == \A n \in Variants : wanted[n] # 0 /\ UpToDate(n) => Sound(n) \/ Unseen(n)

\* With the same reservation llama-swap is started over directories that are whole or
\* have no server: one of another version, or cut off, is not run for a selected variant.
LaunchedSound == pc = "running" => \A n \in tried : dir[n].bin = Absent \/ Sound(n) \/ Unseen(n)

\* A boot in which nothing failed has installed every variant it selected,
\* whatever the boots before it have left behind in /tmp and in the directories; the
\* exceptions are what the check cannot see, a release without a server, and metadata
\* that an earlier download cut off, which is used until the container is recreated.
CleanBootInstalls ==
  pc = "running" /\ errors = "none" =>
    \A n \in tried : \/ Sound(n) \/ Unseen(n) \/ wanted[n] \in Lacks
                     \/ SourceType[n] = "github_release" /\ meta[wanted[n]] = "broken"

\* Once edits and faults have ceased, the container comes up: no failed variant keeps
\* the others from starting, and no catalog leaves the boot without a variant to try.
\* One thing can keep it down: unzip meets an earlier extraction, boot after boot.
ComesUp == <>[](pc = "running") \/ []<>(pc = "extract" /\ Clash(cur))
=============================================================================
