---------------------------- MODULE InstallerProofs ----------------------------
(***************************************************************************)
(* What completed operations leave and record, for every set of paths,     *)
(* profiles and model files and every number of operations and faults.     *)
(***************************************************************************)
EXTENDS Installer, TLAPS

Steps == {"idle", "sync", "venv", "deps", "profiles", "fetch", "copy", "swap", "nginx",
          "models", "updates", "write"}
Contents == Confs \cup {Absent, Cut, Bare}
Recorded == [Profiles -> Labels \cup {None}]
States == [file : {"absent", "whole", "torn"}, version : 0..MaxVersion, variants : Recorded,
           swap : {"none", "path", "manual"}, nginx : {"no", "selected", "path"}]

Typed ==
  /\ tree \in [Paths -> Versions \cup {Absent, Cut}] /\ conf \in [Profiles -> Confs]
  /\ dirs \in [Profiles -> [Labels -> Contents]]
  /\ src \in [Files -> Confs] /\ model \in [Files -> Confs \cup {Absent, Cut}]
  /\ st \in States /\ gen \in Recorded
  /\ op \in Ops /\ ver \in 0..MaxVersion /\ pc \in Steps /\ cur \in Profiles \cup {"none"}
  /\ got \subseteq Profiles /\ swap \in {"none", "path", "manual"}
  /\ nginx \in {"no", "selected", "installed"} /\ cuts \in Nat

Syncs == op \in {"install", "update"}

\* Which operations come to which steps, and what is left to do there.
Staged ==
  /\ pc # "idle" => last = "none" /\ (Syncs => ver \in Versions)
  /\ pc \in {"sync", "updates"} => Syncs
  /\ pc \in {"sync", "venv", "deps"} => got = {}
  /\ pc = "models" => op = "stage0"
  /\ pc = "nginx" /\ op = "stage0" => todo = Files
  /\ pc = "profiles" => todo \subseteq Profiles /\ todo \cap got = {}
  /\ pc \in {"fetch", "copy"} => cur \in Profiles \ (todo \cup got) /\ todo \subseteq Profiles /\ todo \cap got = {}

\* What the sync has passed is the new release, to the end of the operation.
Synced ==
  /\ pc # "idle" /\ Syncs => \A p \in Holds[ver] : tree[p] = ver \/ (pc = "sync" /\ p \in todo)
  /\ CompletedTree

\* What the state file or the generated configuration names was installed.
Vouched(p, t) ==
  t # None => /\ p \notin Fixed => <<p, t>> \notin Lacks
              /\ dirs[p][t] \in Confs \/ (pc = "copy" /\ cur = p /\ t = Label(p))
Filled == \A p \in Profiles : \A l \in Labels :
  /\ cuts = 0 => dirs[p][l] # Cut
  /\ p \notin Fixed /\ dirs[p][l] \in Confs => <<p, l>> \notin Lacks
Named == cuts = 0 => \A p \in Profiles : Vouched(p, st.variants[p]) /\ Vouched(p, gen[p])

\* The profile at hand is named only if it can be replaced.
Replaceable ==
  pc \in {"fetch", "copy"} =>
    /\ cur \in Pinned /\ cuts = 0 => st.variants[cur] # Label(cur) /\ gen[cur] # Label(cur)
    /\ pc = "copy" /\ cur \in Git => <<cur, conf[cur]>> \notin Lacks

\* What this operation has installed so far, or the last one has.
Gotten ==
  pc # "idle" \/ last = "done" =>
    \A p \in got :
      /\ cuts = 0 => dirs[p][Label(p)] \in Confs /\ (p \notin Fixed => <<p, Label(p)>> \notin Lacks)
      /\ p \notin Pinned => dirs[p][Label(p)] = conf[p]
      /\ dirs[p][Label(p)] \in Confs \cup {Cut}

\* Model files, as far as stage 0 has come.
Current(f) == model[f] = src[f] \/ (f \in Alike /\ model[f] \in Confs)
Copied ==
  op = "stage0" /\ hit = "no" /\ (pc \in {"models", "write"} \/ last = "done") =>
    \A f \in Local : Current(f) \/ (pc = "models" /\ f \in todo)

InstInv == Typed /\ Staged /\ Synced /\ Filled /\ Named /\ Replaceable /\ Gotten /\ Copied

-----------------------------------------------------------------------------
(***************************************************************************)
(* Helpers.                                                                *)
(***************************************************************************)

\* A label is never the mark of a variant that is not recorded.
LEMMA LabelTyped ==
  ASSUME conf \in [Profiles -> Confs], NEW p \in Profiles
  PROVE  Label(p) \in Labels /\ Label(p) # None /\ (p \notin Fixed => Label(p) = conf[p])
  BY InstallerAssumption DEF InstallerAssumption, Label, Labels, Confs, None

\* No recorded variant ever matches the cache: only pinned ones are reused.
LEMMA ReusedPinned ==
  ASSUME NEW p \in Profiles, Reusable(p)
  PROVE  p \in Pinned /\ dirs[p][Label(p)] \in Confs \cup {Cut}
<1>1. ~CacheMatches(p)
  BY DEF CacheMatches, SignatureKeys, ResultKeys
<1> QED
  BY <1>1 DEF Reusable

\* Writing one directory changes no other.
LEMMA DirWritten ==
  ASSUME NEW ds \in [Profiles -> [Labels -> Contents]], NEW p \in Profiles, NEW l \in Labels, NEW x \in Contents
  PROVE  LET new == [ds EXCEPT ![p][l] = x] IN
         /\ new \in [Profiles -> [Labels -> Contents]] /\ new[p][l] = x
         /\ \A q \in Profiles, k \in Labels : q # p \/ k # l => new[q][k] = ds[q][k]
<1> DEFINE row == [ds[p] EXCEPT ![l] = x]
<1>1. row \in [Labels -> Contents] /\ row[l] = x /\ \A k \in Labels \ {l} : row[k] = ds[p][k]
  OBVIOUS
<1> HIDE DEF row
<1>2. LET new == [ds EXCEPT ![p] = row] IN
      new \in [Profiles -> [Labels -> Contents]] /\ new[p] = row /\ \A q \in Profiles \ {p} : new[q] = ds[q]
  BY <1>1
<1> QED
  BY <1>1, <1>2 DEF row

\* What is kept for the next state file is a state.
LEMMA KeptTyped ==
  ASSUME Typed, NEW o
  PROVE  Kept(o) \in States /\ NoState \in States /\ [NoState EXCEPT !.file = "torn"] \in States
<1>1. NoVariants \in Recorded
  BY DEF NoVariants, Recorded
<1>2. NoState \in States
  BY <1>1, InstallerAssumption DEF InstallerAssumption, NoState, States
<1>3. [NoState EXCEPT !.file = "torn"] \in States
  BY <1>1, <1>2, InstallerAssumption DEF InstallerAssumption, NoState, States
<1> QED
  BY <1>2, <1>3 DEF Kept, Typed

-----------------------------------------------------------------------------
LEMMA Start == Init => InstInv
<1> SUFFICES ASSUME Init PROVE InstInv
  OBVIOUS
<1>1. NoVariants \in Recorded /\ \A p \in Profiles : NoVariants[p] = None
  BY DEF NoVariants, Recorded
<1>2. NoState \in States /\ NoState.variants = NoVariants
  BY <1>1, InstallerAssumption DEF InstallerAssumption, NoState, States
<1>3. Typed
  BY <1>1, <1>2, InstallerAssumption DEF InstallerAssumption, Init, Typed, Confs, Versions, Contents, Ops, Steps
<1>4. Filled
  BY InstallerAssumption DEF InstallerAssumption, Init, Filled, Absent, Cut, Confs
<1> QED
  BY <1>1, <1>2, <1>3, <1>4 DEF Init, InstInv, Staged, Synced, CompletedTree, Named, Vouched, Replaceable, Gotten, Copied, Current
-----------------------------------------------------------------------------
(***************************************************************************)
(* The steps of an operation.                                              *)
(***************************************************************************)

\* Steps that leave tree, directories, files and records alone.
LEMMA QuietStep ==
  ASSUME InstInv, Typed', Staged', pc # "idle",
         UNCHANGED <<tree, dirs, conf, st, gen, model, src, got, cur, op, ver, cuts>>,
         pc # "copy" /\ pc' \notin {"fetch", "copy", "sync"} /\ last' # "done" /\ hit' \in {hit, "yes"},
         pc = "sync" => todo = {},
         pc' = "models" => todo' = Files,
         pc' = "write" /\ op = "stage0" => pc = "models" /\ todo = {}
  PROVE  InstInv'
<1>1. Synced'
  BY InstallerAssumption DEF InstallerAssumption, InstInv, Synced, CompletedTree, Staged, Syncs
<1>2. Filled' /\ Named' /\ Gotten'
  BY DEF InstInv, Filled, Named, Vouched, Gotten, Label
<1>3. Replaceable'
  BY DEF Replaceable
<1>4. Copied'
  BY InstallerAssumption DEF InstallerAssumption, InstInv, Copied, Current
<1> QED
  BY <1>1, <1>2, <1>3, <1>4 DEF InstInv

LEMMA QuietInv ==
  ASSUME InstInv, SyncSeed \/ PythonRuntime \/ PythonDeps \/ ProfilesDone \/ LlamaSwap \/ Nginx \/ ModelsDone \/ CheckUpdates
  PROVE  InstInv'
<1> USE DEF installed, local, bounds, Go, Fail, Fault, NoFault, Syncs
<1>0. Typed /\ Staged
  BY DEF InstInv
<1>1. CASE SyncSeed
  <2>1. Typed' /\ Staged'
    BY <1>0, <1>1 DEF SyncSeed, Typed, Staged, Steps
  <2> QED
    BY <1>0, <1>1, <2>1, QuietStep DEF SyncSeed, Staged
<1>2. CASE PythonRuntime
  <2>1. Typed' /\ Staged'
    BY <1>0, <1>2 DEF PythonRuntime, Typed, Staged, Steps
  <2> QED
    BY <1>0, <1>2, <2>1, QuietStep DEF PythonRuntime, Staged
<1>3. CASE PythonDeps
  <2>1. Typed' /\ Staged'
    BY <1>0, <1>3 DEF PythonDeps, Typed, Staged, Steps
  <2> QED
    BY <1>0, <1>3, <2>1, QuietStep DEF PythonDeps, Staged
<1>4. CASE ProfilesDone
  <2>1. Typed' /\ Staged'
    BY <1>0, <1>4 DEF ProfilesDone, Typed, Staged, Steps
  <2> QED
    BY <1>0, <1>4, <2>1, QuietStep DEF ProfilesDone, Staged
<1>a. AfterNginx = IF op = "components" THEN "write" ELSE IF op = "stage0" THEN "models" ELSE "updates"
  BY DEF AfterNginx
<1>5. CASE LlamaSwap
  <2>1. Typed' /\ Staged'
    BY <1>0, <1>5, <1>a DEF LlamaSwap, Typed, Staged, Steps, Ops
  <2> QED
    BY <1>0, <1>5, <1>a, <2>1, QuietStep DEF LlamaSwap, Staged
<1>6. CASE Nginx
  <2>1. Typed' /\ Staged'
    BY <1>0, <1>6, <1>a DEF Nginx, Typed, Staged, Steps, Ops
  <2> QED
    BY <1>0, <1>6, <1>a, <2>1, QuietStep DEF Nginx, Staged
<1>7. CASE ModelsDone
  <2>1. Typed' /\ Staged'
    BY <1>0, <1>7 DEF ModelsDone, Typed, Staged, Steps
  <2> QED
    BY <1>0, <1>7, <2>1, QuietStep DEF ModelsDone, Staged
<1>8. CASE CheckUpdates
  <2>1. Typed' /\ Staged'
    BY <1>0, <1>8 DEF CheckUpdates, Typed, Staged, Steps
  <2> QED
    BY <1>0, <1>8, <2>1, QuietStep DEF CheckUpdates, Staged
<1> QED
  BY <1>1, <1>2, <1>3, <1>4, <1>5, <1>6, <1>7, <1>8

\* A path that was synced is of the new release, and stays so.
LEMMA SyncInv ==
  ASSUME InstInv, NEW p \in Paths, SyncPath(p)
  PROVE  InstInv'
<1> USE DEF installed, local, bounds, NoFault
<1>0. /\ pc = "sync" /\ pc' = "sync" /\ UNCHANGED <<dirs, model, conf, src, st, gen, op, ver, cur, got, swap, nginx, last, hit, cuts>>
      /\ p \in todo /\ todo' = todo \ {p} /\ tree' = IF p \in Holds[ver] THEN [tree EXCEPT ![p] = ver] ELSE tree
  BY DEF SyncPath, InTurn
<1>1. Syncs /\ ver \in Versions /\ last = "none" /\ tree \in [Paths -> Versions \cup {Absent, Cut}] /\ Holds[ver] \subseteq Paths
  BY <1>0, InstallerAssumption DEF InstallerAssumption, InstInv, Typed, Staged, Versions
<1>2. Typed'
  BY <1>0, <1>1 DEF InstInv, Typed
<1>3. Staged'
  BY <1>0, <1>1 DEF InstInv, Staged, Syncs
<1>4. Synced'
  <2>1. \A q \in Holds[ver] : tree'[q] = ver \/ q \in todo'
    BY <1>0, <1>1 DEF InstInv, Synced
  <2> QED
    BY <1>0, <1>1, <2>1 DEF Synced, CompletedTree
<1>5. Filled' /\ Named' /\ Gotten' /\ Replaceable' /\ Copied'
  BY <1>0, <1>1 DEF InstInv, Filled, Named, Vouched, Label, Gotten, Replaceable, Copied, Current
<1> QED
  BY <1>2, <1>3, <1>4, <1>5 DEF InstInv

\* The profiles: a directory is replaced only when nothing that is in use names it.
LEMMA ProfileInv ==
  ASSUME InstInv, (\E p \in Profiles : StartProfile(p)) \/ Fetch \/ CopyRuntime
  PROVE  InstInv'
<1> USE DEF installed, local, bounds, NoFault, Fault, Go
<1>0. Typed /\ Staged /\ Synced /\ Filled /\ Named /\ Replaceable /\ Gotten /\ Copied /\ conf \in [Profiles -> Confs] /\ got \subseteq Profiles
  BY DEF InstInv, Typed
<1>1. /\ pc \in {"profiles", "fetch", "copy"} /\ pc' \in {"profiles", "fetch", "copy"} /\ last = "none" /\ last' = "none"
      /\ UNCHANGED <<tree, model, conf, src, st, gen, op, ver, swap, nginx>>
  BY <1>0 DEF StartProfile, Fetch, CopyRuntime, Staged
<1>2. Synced' /\ Copied'
  BY <1>0, <1>1 DEF Synced, CompletedTree, Copied, Current, Syncs
<1>3. ASSUME NEW p \in Profiles, StartProfile(p) PROVE InstInv'
  <2>1. /\ pc = "profiles" /\ UNCHANGED <<dirs, cuts>> /\ p \in todo /\ todo' = todo \ {p}
        /\ \/ Reusable(p) /\ got' = got \cup {p} /\ cur' = cur /\ pc' = "profiles"
           \/ ~Reusable(p) /\ cur' = p /\ got' = got /\ pc' = "fetch"
    BY <1>3 DEF StartProfile, InTurn
  <2>2. Typed' /\ Staged'
    BY <1>0, <1>1, <2>1 DEF Typed, Staged, Steps, Syncs
  <2>3. \A q \in Profiles : Label(q)' = Label(q)
    BY <1>1 DEF Label
  <2>4. Filled' /\ Named'
    BY <1>0, <1>1, <2>1 DEF Filled, Named, Vouched
  <2>5. Replaceable'
    <3>1. CASE ~Reusable(p) /\ p \in Pinned /\ cuts = 0
      <4>1. dirs[p][Label(p)] \notin Confs
        BY <3>1 DEF Reusable
      <4>2. Label(p) # None
        BY <1>0, LabelTyped
      <4> QED
        BY <1>0, <1>1, <2>1, <2>3, <4>1, <4>2 DEF Named, Vouched, Replaceable
    <3> QED
      BY <1>1, <2>1, <2>3, <3>1 DEF Replaceable
  <2>6. Gotten'
    <3>1. CASE Reusable(p)
      <4>1. p \in Pinned /\ dirs[p][Label(p)] \in Confs \cup {Cut}
        BY <3>1, ReusedPinned
      <4>2. cuts = 0 => dirs[p][Label(p)] \in Confs
        BY <1>0, <4>1, LabelTyped DEF Filled
      <4>3. cuts = 0 /\ p \notin Fixed => <<p, Label(p)>> \notin Lacks
        BY <1>0, <4>2, LabelTyped DEF Filled
      <4> QED
        BY <1>0, <1>1, <2>1, <2>3, <3>1, <4>1, <4>2, <4>3 DEF Gotten
    <3>2. CASE ~Reusable(p)
      BY <1>0, <1>1, <2>1, <2>3, <3>2 DEF Gotten
    <3> QED
      BY <3>1, <3>2
  <2> QED
    BY <1>2, <2>2, <2>4, <2>5, <2>6 DEF InstInv
<1>b. ASSUME pc \in {"fetch", "copy"}
      PROVE  /\ cur \in Profiles /\ cur \notin got /\ cur \notin todo /\ UNCHANGED <<cur, todo>>
             /\ Label(cur) \in Labels /\ Label(cur) # None /\ Label(cur)' = Label(cur)
             /\ \A q \in Profiles : Label(q)' = Label(q) /\ Label(q) \in Labels
             /\ \A x \in Contents :
                  dirs' = Dir(cur, x) =>
                    /\ dirs' \in [Profiles -> [Labels -> Contents]] /\ dirs'[cur][Label(cur)] = x
                    /\ \A q \in Profiles, k \in Labels : q # cur \/ k # Label(cur) => dirs'[q][k] = dirs[q][k]
  <2>1. cur \in Profiles /\ cur \notin got /\ cur \notin todo /\ UNCHANGED <<cur, todo>>
    BY <1>0, <1>b DEF Staged, StartProfile, Fetch, CopyRuntime
  <2>2. \A q \in Profiles : Label(q) \in Labels /\ Label(q) # None /\ Label(q)' = Label(q)
    BY <1>0, <1>1, LabelTyped DEF Label
  <2>3. dirs \in [Profiles -> [Labels -> Contents]]
    BY <1>0 DEF Typed
  <2>4. ASSUME NEW x \in Contents, dirs' = Dir(cur, x)
        PROVE  /\ dirs' \in [Profiles -> [Labels -> Contents]] /\ dirs'[cur][Label(cur)] = x
               /\ \A q \in Profiles, k \in Labels : q # cur \/ k # Label(cur) => dirs'[q][k] = dirs[q][k]
    <3> DEFINE l == Label(cur)
    <3>1. l \in Labels /\ cur \in Profiles /\ dirs' = [dirs EXCEPT ![cur][l] = x]
      BY <2>1, <2>2, <2>4 DEF Dir
    <3> HIDE DEF l
    <3>2. /\ dirs' \in [Profiles -> [Labels -> Contents]] /\ dirs'[cur][l] = x
          /\ \A q \in Profiles, k \in Labels : q # cur \/ k # l => dirs'[q][k] = dirs[q][k]
      BY <2>3, <3>1, DirWritten
    <3> QED
      BY <3>2 DEF l
  <2> QED
    BY <2>1, <2>2, <2>4
<1>4. ASSUME Fetch PROVE InstInv'
  <2>1. /\ pc = "fetch" /\ UNCHANGED <<got, cuts>>
        /\ \/ UNCHANGED dirs /\ pc' = "profiles"
           \/ dirs' = Dir(cur, Absent) /\ pc' = "copy" /\ (cur \in Git => <<cur, conf[cur]>> \notin Lacks)
    BY <1>4 DEF Fetch
  <2>2. Absent \in Contents /\ Absent # Cut /\ Absent \notin Confs
    BY InstallerAssumption DEF InstallerAssumption, Absent, Cut, Contents, Confs
  <2>3. Typed' /\ Staged'
    BY <1>0, <1>1, <1>b, <2>1, <2>2 DEF Typed, Staged, Steps, Syncs
  <2>4. Replaceable'
    BY <1>0, <1>1, <1>b, <2>1 DEF Replaceable
  <2>5. Filled'
    BY <1>0, <1>1, <1>b, <2>1, <2>2, ZenonT(40) DEF Filled
  <2>6. Named'
    <3>1. \A p \in Profiles : st.variants[p] \in Labels \cup {None} /\ gen[p] \in Labels \cup {None}
      BY <1>0 DEF Typed, States, Recorded
    <3>2. ASSUME NEW p \in Profiles, NEW t \in Labels \cup {None}, Vouched(p, t) PROVE Vouched(p, t)'
      <4>1. CASE p = cur /\ t = Label(cur)
        BY <1>1, <1>b, <2>1, <3>2, <4>1 DEF Vouched
      <4>2. CASE (p # cur \/ t # Label(cur)) /\ t # None
        <5>1. dirs'[p][t] = dirs[p][t]
          BY <1>b, <2>1, <2>2, <4>2
        <5> QED
          BY <1>1, <1>b, <2>1, <3>2, <4>2, <5>1 DEF Vouched
      <4> QED
        BY <4>1, <4>2 DEF Vouched
    <3> QED
      BY <1>0, <1>1, <2>1, <3>1, <3>2 DEF Named
  <2>7. Gotten'
    <3>1. \A p \in got : p \in Profiles /\ p # cur
      BY <1>0, <1>b, <2>1
    <3>2. \A p \in got : dirs'[p][Label(p)] = dirs[p][Label(p)] /\ Label(p)' = Label(p)
      BY <1>b, <2>1, <2>2, <3>1
    <3> QED
      BY <1>0, <1>1, <2>1, <3>2 DEF Gotten
  <2> QED
    BY <1>2, <2>3, <2>4, <2>5, <2>6, <2>7 DEF InstInv
<1>5. ASSUME CopyRuntime PROVE InstInv'
  <2> DEFINE fits == <<cur, conf[cur]>> \notin Lacks
  <2>1. /\ pc = "copy" /\ pc' = "profiles" /\ cuts \in Nat /\ conf[cur] \in Confs /\ cur \in Profiles
        /\ \/ fits /\ dirs' = Dir(cur, conf[cur]) /\ got' = got \cup {cur} /\ cuts' = cuts
           \/ ~fits /\ dirs' = Dir(cur, Bare) /\ got' = got /\ cuts' = cuts
           \/ dirs' \in {Dir(cur, Cut), Dir(cur, Bare)} /\ got' = got /\ cuts' = cuts + 1
    BY <1>0, <1>5 DEF CopyRuntime, Typed, Staged
  <2>2. /\ {Cut, Bare} \cup Confs \subseteq Contents /\ Bare # Cut /\ Bare \notin Confs /\ Cut \notin Confs
    BY InstallerAssumption DEF InstallerAssumption, Bare, Cut, Contents, Confs
  <2>3. Typed' /\ Staged'
    BY <1>0, <1>1, <1>b, <2>1, <2>2 DEF Typed, Staged, Steps, Syncs
  <2>4. Replaceable'
    BY <2>1 DEF Replaceable
  <2>5. cur \notin Fixed => Label(cur) = conf[cur]
    BY <1>0, <2>1, LabelTyped
  <2>6. Filled'
    <3> SUFFICES ASSUME NEW p \in Profiles, NEW l \in Labels
                 PROVE  /\ cuts' = 0 => dirs'[p][l] # Cut
                        /\ p \notin Fixed /\ dirs'[p][l] \in Confs => <<p, l>> \notin Lacks
      BY DEF Filled
    <3>1. CASE p # cur \/ l # Label(cur)
      <4>1. dirs'[p][l] = dirs[p][l] /\ (cuts' = 0 => cuts = 0)
        BY <1>b, <2>1, <2>2, <3>1
      <4> QED
        BY <1>0, <4>1 DEF Filled
    <3>2. CASE p = cur /\ l = Label(cur)
      <4>1. /\ dirs'[p][l] \in Confs => fits
            /\ cuts' = 0 => dirs'[p][l] \in Confs \cup {Bare}
        BY <1>b, <2>1, <2>2, <3>2
      <4> QED
        BY <2>2, <2>5, <3>2, <4>1
    <3> QED
      BY <3>1, <3>2
  <2>7. Named'
    <3>1. \A p \in Profiles : st.variants[p] \in Labels \cup {None} /\ gen[p] \in Labels \cup {None}
      BY <1>0 DEF Typed, States, Recorded
    <3>2. ASSUME cuts' = 0, NEW p \in Profiles, NEW t \in {st.variants[p], gen[p]} PROVE Vouched(p, t)'
      <4>1. Vouched(p, t) /\ t \in Labels \cup {None} /\ cuts = 0
        BY <1>0, <2>1, <3>1, <3>2 DEF Named
      <4>2. CASE p = cur /\ t = Label(cur) /\ ~fits
        <5>1. cur \notin Pinned /\ cur \notin Git /\ cur \notin Fixed
          BY <1>0, <2>1, <3>2, <4>1, <4>2, InstallerAssumption DEF InstallerAssumption, Replaceable
        <5> QED
          BY <1>b, <2>1, <2>5, <4>1, <4>2, <5>1 DEF Vouched
      <4>3. CASE p = cur /\ t = Label(cur) /\ fits
        BY <1>1, <1>b, <2>1, <2>2, <3>2, <4>1, <4>3 DEF Vouched
      <4>4. CASE p # cur \/ t # Label(cur)
        BY <1>1, <1>b, <2>1, <2>2, <3>2, <4>1, <4>4 DEF Vouched
      <4> QED
        BY <4>2, <4>3, <4>4
    <3> QED
      BY <1>1, <3>2 DEF Named
  <2>8. Gotten'
    <3>1. \A p \in got : p \in Profiles /\ p # cur
      BY <1>0, <1>b, <2>1
    <3>2. \A p \in got : dirs'[p][Label(p)] = dirs[p][Label(p)] /\ Label(p)' = Label(p)
      BY <1>b, <2>1, <2>2, <3>1
    <3>3. fits => (cur \notin Fixed => <<cur, Label(cur)>> \notin Lacks)
      BY <2>5
    <3>4. cuts' = 0 => cuts = 0
      BY <2>1
    <3>5. ASSUME NEW p \in got
          PROVE  /\ cuts' = 0 => dirs'[p][Label(p)'] \in Confs /\ (p \notin Fixed => <<p, Label(p)'>> \notin Lacks)
                 /\ p \notin Pinned => dirs'[p][Label(p)'] = conf'[p]
                 /\ dirs'[p][Label(p)'] \in Confs \cup {Cut}
      BY <1>0, <1>1, <3>2, <3>4 DEF Gotten
    <3>6. CASE fits /\ dirs' = Dir(cur, conf[cur]) /\ got' = got \cup {cur} /\ cuts' = cuts
      <4>1. /\ dirs'[cur][Label(cur)] = conf[cur] /\ conf[cur] \in Confs
            /\ cur \notin Fixed => <<cur, Label(cur)>> \notin Lacks
        BY <1>b, <2>1, <2>2, <3>3, <3>6
      <4>2. ASSUME NEW p \in got', p = cur
            PROVE  /\ cuts' = 0 => dirs'[p][Label(p)'] \in Confs /\ (p \notin Fixed => <<p, Label(p)'>> \notin Lacks)
                   /\ p \notin Pinned => dirs'[p][Label(p)'] = conf'[p]
                   /\ dirs'[p][Label(p)'] \in Confs \cup {Cut}
        <5>1. Label(p)' = Label(p) /\ Label(p) = Label(cur)
          BY <1>b, <2>1, <4>2
        <5> QED
          BY <1>1, <4>1, <4>2, <5>1
      <4>3. \A p \in got' : p = cur \/ p \in got
        BY <3>6
      <4> QED
        BY <3>5, <4>2, <4>3 DEF Gotten
    <3>7. CASE got' = got
      BY <3>5, <3>7 DEF Gotten
    <3> QED
      BY <2>1, <3>6, <3>7
  <2> QED
    BY <1>2, <2>3, <2>4, <2>6, <2>7, <2>8 DEF InstInv
<1> QED
  BY <1>3, <1>4, <1>5

\* What fails changes no file that counts: from then on the operation is struck.
LEMMA ModelInv ==
  ASSUME InstInv, NEW f \in Files, Model(f)
  PROVE  InstInv'
<1> USE DEF installed, local, bounds, NoFault, Fault, Go
<1>0. Typed /\ Staged /\ Synced /\ Filled /\ Named /\ Copied /\ model \in [Files -> Confs \cup {Absent, Cut}]
  BY DEF InstInv, Typed
<1>1. /\ pc = "models" /\ pc' = "models" /\ op = "stage0" /\ last = "none" /\ last' = "none" /\ cuts \in Nat
      /\ UNCHANGED <<tree, dirs, conf, src, st, gen, op, ver, cur, got, swap, nginx>>
      /\ \/ /\ \E x \in Materialized(f) : model' = [model EXCEPT ![f] = x]
            /\ hit' = hit /\ todo' = todo \ {f} /\ cuts' = cuts
         \/ hit' = "yes" /\ (model' = model \/ model' = [model EXCEPT ![f] = Cut]) /\ cuts' \in {cuts, cuts + 1}
  BY <1>0 DEF Model, Typed, Staged
<1>2. Typed'
  <2>1. Materialized(f) \subseteq Confs \cup {Absent, Cut}
    BY <1>0 DEF Typed, Materialized
  <2>2. model' \in [Files -> Confs \cup {Absent, Cut}] /\ cuts' \in Nat
    BY <1>0, <1>1, <2>1
  <2> QED
    BY <1>0, <1>1, <2>2 DEF Typed
<1>3. Staged' /\ Synced' /\ Replaceable'
  BY <1>0, <1>1 DEF Staged, Synced, CompletedTree, Replaceable, Syncs
<1>4. cuts' = 0 => cuts = 0
  BY <1>1
<1>5. Filled' /\ Named' /\ Gotten'
  BY <1>0, <1>1, <1>4 DEF InstInv, Filled, Named, Vouched, Gotten, Label
<1>6. Copied'
  <2> SUFFICES ASSUME hit' = "no", NEW g \in Local PROVE Current(g)' \/ g \in todo'
    BY <1>1 DEF Copied
  <2>1. PICK x \in Materialized(f) : todo' = todo \ {f} /\ model' = [model EXCEPT ![f] = x]
    BY <1>1
  <2>2. (Current(g) \/ g \in todo) /\ g \in Files
    BY <1>0, <1>1, <2>1, InstallerAssumption DEF InstallerAssumption, Copied
  <2>3. CASE g = f
    BY <1>0, <1>1, <2>1, <2>2, <2>3 DEF Materialized, Current
  <2>4. CASE g # f
    BY <1>0, <1>1, <2>1, <2>2, <2>4 DEF Current
  <2> QED
    BY <2>3, <2>4
<1> QED
  BY <1>2, <1>3, <1>5, <1>6 DEF InstInv

\* The records written at the end name what this operation or an earlier one installed.
LEMMA WriteInv ==
  ASSUME InstInv, WriteState
  PROVE  InstInv'
<1> USE DEF installed, local, bounds, NoFault
<1>0. Typed /\ Staged /\ Synced /\ Filled /\ Named /\ Gotten /\ Copied /\ conf \in [Profiles -> Confs] /\ st \in States
  BY DEF InstInv, Typed
<1>1. /\ pc = "write" /\ pc' = "idle" /\ last' = "done" /\ gen' \in {st.variants, gen}
      /\ UNCHANGED <<tree, dirs, model, conf, src, op, ver, todo, cur, got, swap, nginx, hit, cuts>>
  BY DEF WriteState
<1>2. Kept(op) \in States /\ (Kept(op) = st \/ Kept(op).variants = NoVariants)
  BY <1>0, KeptTyped DEF Kept, NoState
<1>3. Merged \in Recorded
  BY <1>0, <1>2, LabelTyped DEF Merged, States, Recorded
<1>4. NginxRecord \in {"no", "selected", "path"}
  BY <1>2 DEF NginxRecord, States
<1>5. /\ st' \in States /\ st'.variants = Merged /\ (Syncs => st'.version = ver)
  <2>1. ver \in 0..MaxVersion /\ swap \in {"none", "path", "manual"} /\ Kept(op).version \in 0..MaxVersion
    BY <1>0, <1>2 DEF Typed, States
  <2> QED
    BY <1>3, <1>4, <2>1 DEF WriteState, States, Syncs
<1>6. Typed'
  BY <1>0, <1>1, <1>5 DEF Typed, States, Steps
<1>7. Staged' /\ Replaceable'
  BY <1>1 DEF Staged, Replaceable
<1>8. Synced'
  BY <1>0, <1>1, <1>5 DEF Synced, CompletedTree, Syncs
<1>9. Filled' /\ Gotten' /\ Copied'
  BY <1>0, <1>1 DEF Filled, Gotten, Label, Copied, Current
<1>10. Named'
  <2> SUFFICES ASSUME cuts = 0, NEW p \in Profiles PROVE Vouched(p, st.variants[p])' /\ Vouched(p, gen[p])'
    BY <1>1 DEF Named
  <2>1. ASSUME NEW t, Vouched(p, t) PROVE Vouched(p, t)'
    BY <1>1, <2>1 DEF Vouched
  <2>2. Vouched(p, st.variants[p]) /\ Vouched(p, gen[p]) /\ Vouched(p, NoVariants[p])
    BY <1>0 DEF Named, Vouched, NoVariants
  <2>3. p \in got => Vouched(p, Label(p))
    BY <1>0, <1>1 DEF Gotten, Vouched
  <2>4. Vouched(p, Merged[p])
    BY <1>2, <2>2, <2>3 DEF Merged
  <2>5. st'.variants[p] = Merged[p] /\ gen'[p] \in {st.variants[p], gen[p]}
    BY <1>1, <1>5
  <2> QED
    BY <2>1, <2>2, <2>4, <2>5
<1> QED
  BY <1>6, <1>7, <1>8, <1>9, <1>10 DEF InstInv

-----------------------------------------------------------------------------
(***************************************************************************)
(* The start of operations, their interruption, and what is around them.   *)
(***************************************************************************)

LEMMA BeginInv ==
  ASSUME InstInv, NEW o \in Ops, NEW v \in Versions, NEW asked \in BOOLEAN, Begin(o, v, asked)
  PROVE  InstInv'
<1> USE DEF installed, bounds, Fail
<1>1. /\ pc = "idle" /\ op' = o /\ cur' = "none" /\ got' = {} /\ swap' = "none" /\ hit' = "no"
      /\ ver' = (IF o \in {"install", "update"} THEN v ELSE 0) /\ nginx' \in {"no", "selected"}
      /\ todo' = (IF o = "stage0" THEN Profiles ELSE Paths)
      /\ \/ pc' = "venv" /\ o = "components" /\ last' = "none"
         \/ pc' = "profiles" /\ o = "stage0" /\ last' = "none"
         \/ pc' = "sync" /\ o \in {"install", "update"} /\ last' = "none"
         \/ pc' = "idle" /\ last' = "failed"
      /\ UNCHANGED <<tree, dirs, model, conf, src, st, gen, cuts>>
  BY DEF Begin, Ops
<1>2. Typed'
  BY <1>1, InstallerAssumption DEF InstallerAssumption, InstInv, Typed, Steps, Versions
<1>3. Staged' /\ Replaceable' /\ Gotten' /\ Copied'
  BY <1>1 DEF Staged, Replaceable, Gotten, Copied, Current, Syncs
<1>4. Synced'
  BY <1>1, InstallerAssumption DEF InstallerAssumption, Synced, CompletedTree, Syncs, Versions
<1>5. Filled' /\ Named'
  BY <1>1 DEF InstInv, Filled, Named, Vouched
<1> QED
  BY <1>2, <1>3, <1>4, <1>5 DEF InstInv

\* A copy that is cut off costs every promise that asks for none.
LEMMA InterruptInv ==
  ASSUME InstInv, Interrupt
  PROVE  InstInv'
<1> USE DEF installed, local
<1>0. Typed /\ Staged /\ Filled /\ cuts \in Nat /\ conf \in [Profiles -> Confs]
  BY DEF InstInv, Typed
<1>1. /\ pc' = "idle" /\ last' = "failed" /\ cuts' = cuts + 1 /\ cuts' # 0
      /\ UNCHANGED <<model, conf, src, gen, op, ver, cur, got, swap, nginx>>
  BY <1>0 DEF Interrupt
<1>2. tree' \in [Paths -> Versions \cup {Absent, Cut}]
  BY <1>0 DEF Interrupt, Typed
<1>3. st' \in States
  BY <1>0, KeptTyped DEF Interrupt, Typed
<1>4. /\ dirs' \in [Profiles -> [Labels -> Contents]]
      /\ \A p \in Profiles, l \in Labels : dirs'[p][l] \in Confs => dirs'[p][l] = dirs[p][l]
  <2>0. dirs \in [Profiles -> [Labels -> Contents]] /\ {Cut, Bare} \subseteq Contents /\ {Cut, Bare} \cap Confs = {}
    BY <1>0, InstallerAssumption DEF InstallerAssumption, Typed, Contents, Cut, Bare, Confs
  <2>1. CASE UNCHANGED dirs
    BY <2>0, <2>1
  <2>2. ASSUME NEW c \in {Cut, Bare}, pc = "copy", dirs' = Dir(cur, c)
        PROVE  /\ dirs' \in [Profiles -> [Labels -> Contents]]
               /\ \A p \in Profiles, l \in Labels : dirs'[p][l] \in Confs => dirs'[p][l] = dirs[p][l]
    <3> DEFINE l == Label(cur)
    <3>1. cur \in Profiles /\ l \in Labels /\ dirs' = [dirs EXCEPT ![cur][l] = c]
      BY <1>0, <2>2, LabelTyped DEF Staged, Dir
    <3> HIDE DEF l
    <3>2. /\ dirs' \in [Profiles -> [Labels -> Contents]] /\ dirs'[cur][l] = c
          /\ \A q \in Profiles, k \in Labels : q # cur \/ k # l => dirs'[q][k] = dirs[q][k]
      BY <2>0, <3>1, DirWritten
    <3> QED
      BY <2>0, <3>2
  <2> QED
    BY <2>1, <2>2 DEF Interrupt
<1>5. Typed'
  BY <1>0, <1>1, <1>2, <1>3, <1>4 DEF Typed, Steps
<1>6. Staged' /\ Synced' /\ Named' /\ Replaceable' /\ Gotten' /\ Copied'
  BY <1>1 DEF Staged, Synced, CompletedTree, Named, Replaceable, Gotten, Copied, Current
<1>7. Filled'
  BY <1>0, <1>1, <1>4 DEF Filled
<1> QED
  BY <1>5, <1>6, <1>7 DEF InstInv

LEMMA AroundInv ==
  ASSUME InstInv, Generate \/ Edits
  PROVE  InstInv'
<1> USE DEF installed, local, bounds
<1>0. Typed /\ Staged /\ Synced /\ Filled /\ Named /\ Gotten /\ Copied
  BY DEF InstInv
<1>1. CASE Generate
  <2>1. /\ pc = "idle" /\ gen' = st.variants
        /\ UNCHANGED <<tree, dirs, model, conf, src, st, op, ver, todo, cur, got, swap, nginx, pc, last, hit, cuts>>
    BY <1>1 DEF Generate
  <2>2. Typed'
    BY <1>0, <2>1 DEF Typed, States
  <2> QED
    BY <1>0, <2>1, <2>2 DEF InstInv, Staged, Synced, CompletedTree, Syncs, Filled, Named, Vouched, Replaceable, Gotten, Label, Copied, Current
<1>2. CASE Edits
  <2>1. /\ pc = "idle" /\ last' = "none"
        /\ UNCHANGED <<tree, dirs, model, st, gen, op, ver, todo, cur, got, swap, nginx, pc, hit, cuts>>
    BY <1>2 DEF Edits, Edit
  <2>2. conf' \in [Profiles -> Confs] /\ src' \in [Files -> Confs]
    <3>0. conf \in [Profiles -> Confs] /\ src \in [Files -> Confs] /\ MaxConf \in Nat
      BY <1>0, InstallerAssumption DEF InstallerAssumption, Typed
    <3>1. ASSUME NEW p \in Profiles, NewSource(p) PROVE conf' \in [Profiles -> Confs] /\ src' = src
      BY <3>0, <3>1 DEF NewSource, Confs
    <3>2. ASSUME NEW f \in Files, NewModel(f) PROVE src' \in [Files -> Confs] /\ conf' = conf
      BY <3>0, <3>2 DEF NewModel, Confs
    <3> QED
      BY <1>2, <3>0, <3>1, <3>2 DEF Edits, EditLocal
  <2>3. Typed'
    BY <1>0, <2>1, <2>2 DEF Typed
  <2> QED
    BY <1>0, <2>1, <2>3 DEF InstInv, Staged, Synced, CompletedTree, Filled, Named, Vouched, Replaceable, Gotten, Copied, Current
<1> QED
  BY <1>1, <1>2

LEMMA StepInv == InstInv /\ [Next]_vars => InstInv'
<1> SUFFICES ASSUME InstInv, [Next]_vars PROVE InstInv'
  OBVIOUS
<1>1. CASE Begins
  BY <1>1, BeginInv DEF Begins
<1>2. CASE Step
  BY <1>2, SyncInv, QuietInv, ProfileInv, ModelInv, WriteInv DEF Step
<1>3. CASE Interrupt
  BY <1>3, InterruptInv
<1>4. CASE Generate \/ Edits
  BY <1>4, AroundInv
<1>5. CASE UNCHANGED vars
  BY <1>5 DEF vars, installed, local, bounds, InstInv, Typed, Staged, Synced, CompletedTree, Syncs, Filled, Named, Vouched,
              Replaceable, Gotten, Label, Copied, Current
<1> QED
  BY <1>1, <1>2, <1>3, <1>4, <1>5 DEF Next

-----------------------------------------------------------------------------
(***************************************************************************)
(* The theorems.                                                           *)
(***************************************************************************)

LEMMA InstInductive == Spec => []InstInv
  BY Start, StepInv, PTL DEF Spec

\* A completed install or update leaves the whole release that it records, after
\* any sequence of failed and interrupted ones (sync_release_tree).
THEOREM TreeCompleted == Spec => []CompletedTree
<1>1. InstInv => CompletedTree
  BY DEF InstInv, Synced
<1> QED
  BY <1>1, InstInductive, PTL

\* While nothing was cut off, every server that the records name is there and
\* whole, or is this moment being replaced (_install_one_llama_cpp_profile).
THEOREM RecordsRunnable == Spec => []Runnable
<1>1. InstInv => Runnable
  BY DEF InstInv, Named, Vouched, Runnable
<1> QED
  BY <1>1, InstInductive, PTL

\* A profile that a completed operation reports is what its configuration asks for, or,
\* if it is pinned, there, and whole if nothing was cut off; local model files are
\* their sources, or pass for them
\* (_local_llama_cpp_install_result, _copy_artifact_if_needed).
THEOREM ReportedInstalled == Spec => []Installed
<1>1. InstInv => Installed
  <2> SUFFICES ASSUME InstInv, last = "done" PROVE Installed
    BY DEF Installed
  <2>1. pc # "models"
    BY DEF InstInv, Staged
  <2>2. Confs \cap {Cut} = {}
    BY InstallerAssumption DEF InstallerAssumption, Confs, Cut
  <2> QED
    BY <2>1, <2>2 DEF InstInv, Installed, Gotten, Copied, Current
<1> QED
  BY <1>1, InstInductive, PTL

\* Recorded variants and the selection of nginx survive updates and component
\* installs, and config/local is its owner's (_merge_llama_cpp_result,
\* resolve_component_selection, the seed paths of sync_release_tree).
THEOREM Preserved == Spec => RecordsKept
<1> DEFINE Keeps ==
      /\ pc = "write" /\ last' = "done" /\ op \in {"update", "components"} =>
           /\ \A p \in Profiles : st.variants[p] # None => st'.variants[p] # None
           /\ st.nginx = "selected" => st'.nginx = "selected"
      /\ seed' # seed => seed = "absent" \/ seed' = "edited"
<1>1. ASSUME InstInv, [Next]_vars PROVE Keeps
  <2> USE DEF installed, local, bounds, NoFault, Fault, Go, Fail
  <2>1. ASSUME WriteState, op \in {"update", "components"}
        PROVE  /\ \A p \in Profiles : st.variants[p] # None => st'.variants[p] # None
               /\ st.nginx = "selected" => st'.nginx = "selected"
    <3>1. conf \in [Profiles -> Confs] /\ Kept(op) = st
      BY <1>1, <2>1 DEF InstInv, Typed, Kept
    <3>2. st'.variants = Merged /\ st'.nginx = NginxRecord
      BY <2>1 DEF WriteState
    <3>3. \A p \in Profiles : st.variants[p] # None => Merged[p] # None
      BY <3>1, LabelTyped DEF Merged
    <3> QED
      BY <2>1, <3>1, <3>2, <3>3 DEF NginxRecord
  <2>2. pc = "write" /\ last' = "done" => WriteState
    <3> SUFFICES ASSUME pc = "write", last' = "done" PROVE WriteState
      OBVIOUS
    <3>1. last = "none"
      BY <1>1 DEF InstInv, Staged
    <3>2. ~Begins /\ ~Interrupt /\ ~Generate /\ ~Edits /\ ~(UNCHANGED vars)
      BY <3>1 DEF Begins, Begin, Interrupt, Generate, Edits, Edit, vars
    <3> QED
      BY <1>1, <3>2 DEF Next, Step, SyncPath, SyncSeed, PythonRuntime, PythonDeps, StartProfile, Fetch, CopyRuntime,
                        ProfilesDone, LlamaSwap, Nginx, Model, ModelsDone, CheckUpdates
  <2>3. seed' # seed => seed = "absent" \/ seed' = "edited"
    BY <1>1 DEF vars, Next, Begins, Begin, Interrupt, Generate, Edits, Edit, NewSource, EditLocal, NewModel, Step, SyncPath,
                SyncSeed, PythonRuntime, PythonDeps, StartProfile, Fetch, CopyRuntime, ProfilesDone, LlamaSwap, Nginx, Model,
                ModelsDone, CheckUpdates, WriteState
  <2> QED
    BY <2>1, <2>2, <2>3
<1> QED
  BY <1>1, InstInductive, PTL DEF Spec, RecordsKept
-----------------------------------------------------------------------------
(***************************************************************************)
(* Operations that nothing strikes.                                        *)
(***************************************************************************)

\* A profile whose every source has a server.
Servable(p) == \A x \in Confs : <<p, x>> \notin Lacks

\* Once there is a tree, it is one that every operation can load.
Rooted == \/ pc = "sync" \/ \A p \in Paths : tree[p] = Absent
          \/ Readable(Config) /\ Readable(Manifest)

\* Nothing that a failed operation leaves is in the way, and profile p comes through.
Unstuck(p) ==
  /\ venv \in {"absent", "cut", "ready"} /\ (pc = "deps" => venv # "absent")
  /\ cuts = 0 => Rooted /\ st.file # "torn"
  /\ cuts = 0 /\ hit = "no" =>
       /\ pc = "profiles" => p \in todo \cup got
       /\ pc \in {"fetch", "copy"} => p \in todo \cup got \cup {cur}
  /\ hit \in {"no", "yes"} /\ FailureRetried

\* The steps that look for what earlier operations have left.
LEMMA RootedStep ==
  ASSUME InstInv, cuts' = 0, Rooted, [Next]_vars
  PROVE  Rooted' /\ (\A o \in Ops, v \in Versions, asked \in BOOLEAN : Begin(o, v, asked) /\ st.file # "torn" => Loads(o))
<1> USE DEF installed, local, bounds, NoFault, Fault, Go, Fail, Absent
<1>0. /\ InstallerAssumption /\ cuts \in Nat /\ {Config, Manifest} \subseteq Paths
      /\ \A v \in Versions : {Config, Manifest} \subseteq Holds[v]
  BY InstallerAssumption, SMTT(30) DEF InstallerAssumption, InstInv, Typed, Versions
<1>1. ASSUME NEW o \in Ops, NEW v \in Versions, NEW asked \in BOOLEAN, Begin(o, v, asked)
      PROVE  (st.file # "torn" => Loads(o)) /\ Rooted'
  <2>1. pc = "idle" /\ UNCHANGED tree /\ (o = "install" \/ \E p \in Paths : tree[p] # Absent)
    BY <1>1 DEF Begin
  <2>2. pc' = "sync" \/ (\E p \in Paths : tree[p] # Absent) \/ \A p \in Paths : tree[p] = Absent
    OBVIOUS
  <2> QED
    BY <2>1 DEF Rooted, Loads, Readable
<1>2. ASSUME NEW p \in Paths, SyncPath(p) PROVE Rooted'
  <2>1. pc' = "sync"
    BY <1>2 DEF SyncPath
  <2> QED
    BY <2>1 DEF Rooted
<1>3. ASSUME SyncSeed PROVE Rooted'
  <2>1. /\ pc = "sync" /\ todo = {} /\ UNCHANGED tree /\ ver \in Versions
        /\ \A p \in Holds[ver] : tree[p] = ver
    BY <1>3 DEF SyncSeed, InstInv, Staged, Synced, Syncs
  <2>2. tree'[Config] \in Versions /\ tree'[Manifest] \in Versions
    BY <1>0, <2>1
  <2> QED
    BY <2>2 DEF Rooted, Readable
<1>4. ASSUME Interrupt PROVE Rooted'
  BY <1>0, <1>4 DEF Interrupt
<1>5. ASSUME UNCHANGED tree, pc # "sync" PROVE Rooted'
  BY <1>5 DEF Rooted, Readable
<1>6. Rooted'
  BY <1>1, <1>2, <1>3, <1>4, <1>5 DEF Next, Begins, Step, PythonRuntime, PythonDeps, StartProfile, Fetch, CopyRuntime, ProfilesDone, LlamaSwap,
     Nginx, Model, ModelsDone, CheckUpdates, WriteState, Generate, Edits, Edit, vars, Rooted, Readable
<1> QED
  BY <1>1, <1>6

LEMMA UnstuckStep ==
  ASSUME InstInv, NEW p \in Profiles, Servable(p), Unstuck(p), [Next]_vars
  PROVE  Unstuck(p)'
<1> USE DEF installed, local, bounds, NoFault, Fault, Go, Fail, FailureRetried
<1>0. /\ cuts \in Nat /\ conf \in [Profiles -> Confs] /\ (pc # "idle" => last = "none")
      /\ pc \in {"fetch", "copy"} => cur \in Profiles
  BY DEF InstInv, Typed, Staged
<1>c. cuts' = 0 => cuts = 0
  BY <1>0 DEF Next, Begins, Begin, Step, SyncPath, SyncSeed, PythonRuntime, PythonDeps, StartProfile, Fetch, CopyRuntime, ProfilesDone,
     LlamaSwap, Nginx, Model, ModelsDone, CheckUpdates, WriteState, Interrupt, Generate, Edits, Edit, vars
<1>1. ASSUME cuts' = 0, NEW o \in Ops, NEW v \in Versions, NEW asked \in BOOLEAN, Begin(o, v, asked) PROVE Unstuck(p)'
  <2>1. Loads(o) /\ Rooted'
    BY <1>1, <1>c, RootedStep DEF Unstuck, Next, Begins
  <2> QED
    BY <1>1, <1>c, <2>1 DEF Begin, Unstuck
<1>2. ASSUME cuts' = 0, SyncSeed \/ PythonRuntime \/ (\E q \in Paths : SyncPath(q)) PROVE Unstuck(p)'
  <2>1. Rooted'
    BY <1>2, <1>c, RootedStep DEF Unstuck, Next, Step
  <2> QED
    BY <1>0, <1>2, <1>c, <2>1 DEF SyncSeed, PythonRuntime, SyncPath, Unstuck
<1>3. ASSUME cuts' = 0, PythonDeps PROVE Unstuck(p)'
  <2>1. Rooted'
    BY <1>3, <1>c, RootedStep DEF Unstuck, Next, Step
  <2> QED
    BY <1>0, <1>3, <1>c, <2>1 DEF PythonDeps, Unstuck
<1>4. ASSUME cuts' = 0, (\E q \in Profiles : StartProfile(q)) \/ Fetch \/ CopyRuntime \/ ProfilesDone PROVE Unstuck(p)'
  <2>1. Rooted'
    BY <1>4, <1>c, RootedStep DEF Unstuck, Next, Step
  <2>2. pc \in {"fetch", "copy"} => <<p, conf[p]>> \notin Lacks
    BY <1>0 DEF Servable
  <2>3. CASE \E q \in Profiles : StartProfile(q)
    BY <1>0, <1>4, <1>c, <2>1, <2>3 DEF StartProfile, Unstuck
  <2>4. CASE Fetch
    BY <1>0, <1>4, <1>c, <2>1, <2>2, <2>4 DEF Fetch, Unstuck
  <2>5. CASE CopyRuntime
    BY <1>0, <1>4, <1>c, <2>1, <2>2, <2>5 DEF CopyRuntime, Unstuck
  <2>6. CASE ProfilesDone
    <3>1. pc = "profiles" /\ todo = {} /\ UNCHANGED <<hit, venv, st, cuts>>
      BY <2>6 DEF ProfilesDone
    <3>2. CASE got # {} /\ Go("swap")
      BY <1>0, <1>4, <1>c, <2>1, <3>1, <3>2 DEF Unstuck
    <3>3. CASE got = {} /\ Fail
      BY <1>0, <1>4, <1>c, <2>1, <3>1, <3>3 DEF Unstuck
    <3> QED
      BY <2>6, <3>2, <3>3 DEF ProfilesDone
  <2> QED
    BY <1>4, <2>3, <2>4, <2>5, <2>6
<1>5. ASSUME cuts' = 0, LlamaSwap \/ Nginx \/ ModelsDone \/ CheckUpdates \/ WriteState \/ (\E f \in Files : Model(f)) PROVE Unstuck(p)'
  <2>1. Rooted'
    BY <1>5, <1>c, RootedStep DEF Unstuck, Next, Step
  <2>2. AfterNginx \in {"write", "models", "updates"}
    BY DEF AfterNginx
  <2> QED
    BY <1>0, <1>5, <1>c, <2>1, <2>2 DEF LlamaSwap, Nginx, ModelsDone, CheckUpdates, WriteState, Model, Unstuck
<1>6. ASSUME cuts' = 0, Generate \/ Edits \/ UNCHANGED vars PROVE Unstuck(p)'
  <2>1. Rooted'
    BY <1>6, <1>c, RootedStep DEF Unstuck, Next
  <2> QED
    BY <1>0, <1>6, <1>c, <2>1 DEF Generate, Edits, Edit, vars, NewSource, EditLocal, NewModel, Unstuck
<1>7. cuts' # 0 => Unstuck(p)'
  <2>1. hit' \in {"no", "yes"}
    BY DEF Unstuck, Next, Begins, Begin, Step, SyncPath, SyncSeed, PythonRuntime, PythonDeps, StartProfile, Fetch, CopyRuntime,
           ProfilesDone, LlamaSwap, Nginx, Model, ModelsDone, CheckUpdates, WriteState, Interrupt, Generate, Edits, Edit, vars
  <2>2. venv' \in {"absent", "cut", "ready"}
    BY DEF Unstuck, Next, Begins, Begin, Step, SyncPath, SyncSeed, PythonRuntime, PythonDeps, StartProfile, Fetch, CopyRuntime,
           ProfilesDone, LlamaSwap, Nginx, Model, ModelsDone, CheckUpdates, WriteState, Interrupt, Generate, Edits, Edit,
           NewSource, EditLocal, NewModel, vars
  <2>3. pc' = "deps" => venv' # "absent"
    <3>1. AfterNginx # "deps"
      BY DEF AfterNginx
    <3> QED
      BY <3>1 DEF Unstuck, Next, Begins, Begin, Step, SyncPath, SyncSeed, PythonRuntime, PythonDeps, StartProfile, Fetch, CopyRuntime,
           ProfilesDone, LlamaSwap, Nginx, Model, ModelsDone, CheckUpdates, WriteState, Interrupt, Generate, Edits, Edit,
           NewSource, EditLocal, NewModel, vars
  <2> QED
    BY <2>1, <2>2, <2>3 DEF Unstuck
<1>8. Interrupt => cuts' # 0
  BY <1>0 DEF Interrupt
<1> QED
  BY <1>1, <1>2, <1>3, <1>4, <1>5, <1>6, <1>7, <1>8 DEF Next, Begins, Step

\* An operation that no fault strikes succeeds as long as nothing was cut off,
\* if at least one profile always has a server: nothing that failed operations
\* leave behind makes a later one fail, but a virtual environment whose creation
\* failed (postinstall.sh: retry).
THEOREM FailuresRetried == ASSUME NEW p \in Profiles, Servable(p) PROVE Spec => []FailureRetried
<1>1. Init => Unstuck(p)
  BY InstallerAssumption DEF InstallerAssumption, Init, Unstuck, Rooted, NoState, FailureRetried, Readable, Versions
<1>2. InstInv /\ Unstuck(p) /\ [Next]_vars => Unstuck(p)'
  BY UnstuckStep
<1>3. Unstuck(p) => FailureRetried
  BY DEF Unstuck
<1> QED
  BY <1>1, <1>2, <1>3, InstInductive, PTL DEF Spec
================================================================================
