--------------------------- MODULE ProvisionProofs ---------------------------
(***************************************************************************)
(* What an up-to-date variant holds, proved for every set of variants,     *)
(* versions, edits and faults, as long as a new archive overwrites an      *)
(* older extraction.                                                       *)
(***************************************************************************)
EXTENDS Provision, TLAPS

\* Stages in which the variant cur is being replaced.
Replacing == {"source", "download", "extract", "build", "binary", "copybin", "libs", "copylib", "sign"}
Found == {"binary", "copybin", "libs", "copylib", "sign"}

\* What the signature of n vouches for: a whole installation of version v.
Whole(n, v) == \/ v \in Lacks /\ dir[n].bin = Absent
               \/ v \notin Lacks /\ dir[n].bin = v /\ (n \in Raw \/ dir[n].lib = v)

\* A signature that no boot has passed by is what this boot asks for, and one that was
\* written without a hidden failure vouches for the files under it.
Vouched ==
  \A n \in Variants \ passed :
    dir[n].sig.version # 0 => dir[n].sig = Sig(n) /\ (n \in torn \/ Whole(n, wanted[n]))
Rows == \A n \in todo : wanted[n] # 0

\* A variant is replaced under a signature of its own version only where that version
\* has no server.
Current ==
  pc \in Replacing \cup {"check"} =>
    /\ cur \in tried /\ wanted[cur] # 0
    /\ pc \in Replacing /\ ~Unseen(cur) /\ dir[cur].sig.version # 0 => wanted[cur] \in Lacks
Progress ==
  /\ pc = "build" => SourceType[cur] = "git"
  /\ pc \in {"source", "download", "extract", "build"} => ~flaw
  /\ pc \in {"source", "download", "extract", "build", "binary"} => dir[cur].bin = Absent
  /\ pc \in {"binary", "copybin", "libs", "copylib"} /\ flaw => wanted[cur] \notin Lacks
  /\ pc \in Found => flaw \/ Payload(cur) = {wanted[cur]}
  /\ pc = "copybin" => wanted[cur] \notin Lacks
  /\ pc \in {"libs", "copylib"} =>
       flaw \/ dir[cur].bin = IF wanted[cur] \in Lacks THEN Absent ELSE wanted[cur]
  /\ pc = "sign" => flaw \/ Whole(cur, wanted[cur])
Tried == \A n \in tried : (n = cur /\ pc \in Replacing \cup {"check"}) \/ pc = "down"
                          \/ dir[n].bin = Absent \/ Sound(n) \/ Unseen(n)

ProvInv == TypeOK /\ Vouched /\ Rows /\ Current /\ Progress /\ Tried

-----------------------------------------------------------------------------

\* Writing one file of a variant keeps the type of the directories.
LEMMA DirWritten ==
  ASSUME dir \in Dirs, NEW n \in Variants, NEW x \in Contents, NEW y \in Sigs
  PROVE  /\ [dir EXCEPT ![n].bin = x] \in Dirs
         /\ [dir EXCEPT ![n].lib = x] \in Dirs
         /\ [dir EXCEPT ![n].sig = y] \in Dirs
         /\ [dir EXCEPT ![n].bin = x, ![n].lib = x] \in Dirs
BY DEF Dirs

\* Every step keeps the types.
LEMMA StepTyped == TypeOK /\ [Next]_vars => TypeOK'
<1> SUFFICES ASSUME TypeOK, [Next]_vars PROVE TypeOK'
  OBVIOUS
<1> USE DEF TypeOK, history
<1>0. /\ {Absent, Partial} \cup 0..MaxVersion \subseteq Contents /\ cur \in Variants
      /\ wanted[cur] \in 0..MaxVersion /\ Sig(cur) \in Sigs /\ Payload(cur) \subseteq Contents
  BY ProvisionAssumption DEF ProvisionAssumption, Contents, Versions, Absent, Partial, Sig, Sigs, Payload
<1>a. GitBuild \/ CopyBinary \/ CopyLibraries => flaw' \in BOOLEAN
  BY DEF GitBuild, CopyBinary, CopyLibraries
<1>1. CASE LoadCatalog
  BY <1>1, <1>0, ProvisionAssumption DEF ProvisionAssumption, LoadCatalog, Usable, Builtin, Backends, Catalogs, Passed, Stages, tmp
<1>2. CASE Fallback
  BY <1>2, <1>0, ProvisionAssumption DEF ProvisionAssumption, Fallback, Passed, Catalogs, Stages, tmp
<1>3. CASE Check
  <2>1. dir' \in Dirs
    <3>1. CASE UNCHANGED dir
      BY <3>1
    <3>2. CASE dir' = [dir EXCEPT ![cur].bin = Absent, ![cur].lib = Absent]
      BY <3>2, <1>0, DirWritten
    <3> QED
      BY <1>3, <3>1, <3>2 DEF Check
  <2> QED
    BY <1>3, <2>1 DEF Check, Stages, tmp
<1>4. CASE ResolveSource
  BY <1>4, ProvisionAssumption DEF ResolveSource, Skip, Stages, ProvisionAssumption
<1>5. CASE Download
  BY <1>5, ProvisionAssumption DEF Download, Skip, Stages, ProvisionAssumption
<1>6. CASE Extract
  BY <1>6, ProvisionAssumption, <1>0 DEF Extract, Stages, ProvisionAssumption
<1>7. CASE GitBuild
  BY <1>7, <1>a, ProvisionAssumption DEF GitBuild, Skip, Stages, tmp, ProvisionAssumption
<1>8. CASE OpenBinary
  BY <1>8, <1>0, DirWritten DEF OpenBinary, Stages, tmp
<1>9. CASE CopyBinary
  <2>1. PICK v \in Contents : dir' = [dir EXCEPT ![cur].bin = v]
    BY <1>0, <1>9 DEF CopyBinary
  <2>2. dir' \in Dirs
    BY <1>0, <2>1, DirWritten
  <2> QED
    BY <1>9, <1>a, <2>2, ProvisionAssumption DEF ProvisionAssumption, CopyBinary, Stages, tmp
<1>10. CASE OpenLibraries
  BY <1>10, <1>0, DirWritten DEF OpenLibraries, Stages, tmp
<1>11. CASE CopyLibraries
  <2>1. CASE UNCHANGED dir
    BY <1>11, <1>a, <2>1, ProvisionAssumption DEF ProvisionAssumption, CopyLibraries, Stages, tmp
  <2>2. CASE \E v \in Payload(cur) : dir' = [dir EXCEPT ![cur].lib = IF Payload(cur) = {v} THEN v ELSE Partial]
    <3>1. PICK v \in Contents : dir' = [dir EXCEPT ![cur].lib = v]
      BY <1>0, <2>2
    <3>2. dir' \in Dirs
      BY <1>0, <3>1, DirWritten
    <3> QED
      BY <1>11, <1>a, <3>2, ProvisionAssumption DEF ProvisionAssumption, CopyLibraries, Stages, tmp
  <2> QED
    BY <1>11, <2>1, <2>2 DEF CopyLibraries
<1>12. CASE Sign
  BY <1>12, <1>0, DirWritten DEF Sign, Stages
<1>13. CASE LaunchSwap
  BY <1>13 DEF LaunchSwap, Stages, tmp
<1>14. CASE EditCatalog
  BY <1>14, ProvisionAssumption DEF EditCatalog, tmp, ProvisionAssumption
<1>15. CASE Restart
  BY <1>15, ProvisionAssumption DEF Restart, Stages, tmp, ProvisionAssumption
<1>16. CASE Recreate
  BY <1>16, ProvisionAssumption DEF Recreate, Stages, ProvisionAssumption
<1>17. CASE \E n \in Variants : SelectVariant(n)
  BY <1>17 DEF SelectVariant, Stages, tmp
<1>18. CASE UNCHANGED vars
  BY <1>18 DEF vars, tmp
<1> QED
  BY <1>1, <1>2, <1>3, <1>4, <1>5, <1>6, <1>7, <1>8, <1>9, <1>10, <1>11, <1>12, <1>13, <1>14, <1>15, <1>16, <1>17, <1>18 DEF Next, Script

LEMMA InitTyped == Init => TypeOK
<1> SUFFICES ASSUME Init PROVE TypeOK
  OBVIOUS
<1>1. flaw \in BOOLEAN
  BY DEF Init
<1>2. dir \in Dirs
  BY ProvisionAssumption DEF ProvisionAssumption, Init, Dirs, Contents, Absent, Sigs, NoSig
<1> QED
  BY <1>1, <1>2, ProvisionAssumption DEF ProvisionAssumption, Init, TypeOK, Stages, Versions, Catalogs

\* TypeOK, for every assignment of the constants.
THEOREM TypeCorrect == Spec => []TypeOK
<1> QED
  BY InitTyped, StepTyped, PTL DEF Spec

-----------------------------------------------------------------------------

\* An archive leaves nothing of an older extraction.
Trusting == Overwrites

\* Steps that leave the directories, the effective catalog and the variant alone.
Moves == UNCHANGED <<wanted, hw, dir, history, cur, todo, tried>>

LEMMA MoveInv ==
  ASSUME Trusting, ProvInv, TypeOK', Moves,
         ResolveSource \/ Download \/ Extract \/ GitBuild \/ LaunchSwap \/ Restart \/ Recreate \/ EditCatalog
  PROVE  ProvInv'
<1> USE DEF Trusting, ProvInv, Moves, history
<1>1. Vouched' /\ Rows'
  BY DEF Vouched, Whole, Sig, Rows
<1>2. Current'
  BY DEF Current, Unseen, ResolveSource, Download, Extract, GitBuild, LaunchSwap, Restart, Recreate, EditCatalog, Skip, Replacing
<1>3. Progress'
  <2>1. CASE Extract
    BY <2>1 DEF Progress, Found, Payload, TypeOK, Extract, Whole
  <2>2. CASE GitBuild
    BY <2>2 DEF Progress, Found, Payload, GitBuild, Skip, tmp, Whole
  <2>3. CASE EditCatalog
    BY <2>3 DEF Progress, Found, Payload, EditCatalog, tmp, Whole
  <2>4. CASE ResolveSource \/ Download \/ LaunchSwap \/ Restart \/ Recreate
    BY <2>4 DEF Progress, Found, ResolveSource, Download, LaunchSwap, Restart, Recreate, Skip
  <2> QED
    BY <2>1, <2>2, <2>3, <2>4
<1>4. Tried'
  BY DEF Tried, Sound, Unseen, Progress, Replacing, ResolveSource, Download, Extract, GitBuild, LaunchSwap, Restart, Recreate, EditCatalog, Skip
<1> QED
  BY <1>1, <1>2, <1>3, <1>4

\* Steps of the boot before a variant is touched: what this boot does not ask for is passed.
LEMMA BootInv ==
  ASSUME Trusting, ProvInv, TypeOK', LoadCatalog \/ Fallback \/ \E n \in Variants : SelectVariant(n)
  PROVE  ProvInv'
<1> USE DEF Trusting, ProvInv
<1>0. UNCHANGED <<dir, torn, left>>
  BY DEF LoadCatalog, Fallback, SelectVariant, tmp, history
<1>1. CASE LoadCatalog
  <2>1. /\ pc' = "select" /\ tried' = {} /\ todo' = {n \in Variants : wanted'[n] # 0}
        /\ passed' = passed \cup {n \in Variants : dir[n].sig \notin {NoSig, [hw |-> hw', version |-> wanted'[n]]}}
    BY <1>1 DEF LoadCatalog, Passed
  <2>2. ASSUME NEW n \in Variants \ passed', dir[n].sig.version # 0
        PROVE  dir[n].sig = Sig(n)' /\ (n \in torn \/ Whole(n, wanted[n])')
    <3>1. n \notin passed /\ dir[n].sig = Sig(n)'
      BY <2>1, <2>2 DEF NoSig, Sig
    <3>2. dir[n].sig = Sig(n) /\ (n \in torn \/ Whole(n, wanted[n]))
      BY <2>2, <3>1 DEF Vouched
    <3>3. wanted'[n] = wanted[n]
      BY <3>1, <3>2 DEF Sig
    <3> QED
      BY <1>0, <3>1, <3>2, <3>3 DEF Whole
  <2>3. Vouched'
    BY <1>0, <2>2 DEF Vouched
  <2>4. Rows' /\ Current' /\ Progress' /\ Tried'
    BY <2>1 DEF Rows, Current, Progress, Tried, Replacing, Found
  <2> QED
    BY <2>3, <2>4
<1>2. CASE Fallback
  <2>1. /\ hw' = hw /\ todo' = todo /\ wanted' = [wanted EXCEPT ![Cpu] = Latest] /\ cur' = Cpu /\ tried' = {Cpu}
        /\ tried = {} /\ todo = {} /\ pc' = "check"
        /\ Cpu \in Variants /\ wanted'[Cpu] = Latest /\ Latest # 0 /\ \A n \in Variants \ {Cpu} : wanted'[n] = wanted[n]
        /\ passed' = passed \cup ({n \in Variants : dir[n].sig \notin {NoSig, [hw |-> hw, version |-> wanted'[n]]}} \cap {Cpu})
    BY <1>2, ProvisionAssumption DEF Fallback, Passed, ProvisionAssumption, TypeOK
  <2>2. ASSUME NEW n \in Variants \ passed', dir[n].sig.version # 0
        PROVE  dir[n].sig = Sig(n)' /\ (n \in torn \/ Whole(n, wanted[n])')
    <3>1. n \notin passed /\ dir[n].sig = Sig(n) /\ (n \in torn \/ Whole(n, wanted[n]))
      BY <2>1, <2>2 DEF Vouched
    <3>2. wanted'[n] = wanted[n]
      BY <2>1, <2>2, <3>1 DEF NoSig, Sig
    <3> QED
      BY <1>0, <2>1, <3>1, <3>2 DEF Whole, Sig
  <2>3. Vouched'
    BY <1>0, <2>2 DEF Vouched
  <2>4. Rows' /\ Current' /\ Progress' /\ Tried'
    BY <2>1 DEF Rows, Current, Progress, Tried, Replacing, Found
  <2> QED
    BY <2>3, <2>4
<1>3. ASSUME NEW n \in Variants, SelectVariant(n) PROVE ProvInv'
  <2>1. /\ UNCHANGED <<hw, wanted, passed>> /\ todo' = todo \ {n} /\ n \in todo /\ pc = "select"
        /\ \/ cur' = n /\ tried' = tried \cup {n} /\ pc' = "check"
           \/ UNCHANGED <<cur, tried, pc>>
    BY <1>3 DEF SelectVariant, history
  <2>2. Vouched' /\ Rows'
    BY <1>0, <2>1 DEF Vouched, Whole, Sig, Rows
  <2>3. Current'
    BY <1>0, <2>1 DEF Current, Rows, Replacing
  <2>4. Progress' /\ Tried'
    BY <1>0, <2>1 DEF Progress, Tried, Sound, Unseen, Replacing, Found
  <2> QED
    BY <2>2, <2>3, <2>4
<1> QED
  BY <1>1, <1>2, <1>3

\* The check: a variant that passes it is whole, one that fails is emptied.
LEMMA CheckInv ==
  ASSUME Trusting, ProvInv, TypeOK', Check
  PROVE  ProvInv' /\ (UpToDate(cur) => Sound(cur) \/ Unseen(cur))
<1> USE DEF Trusting, ProvInv, history
<1>0. /\ UNCHANGED <<hw, wanted, todo, tried, cur, torn, passed>> /\ pc = "check" /\ cur \in Variants
      /\ wanted[cur] \in Nat \ {0} /\ flaw' = FALSE
  BY ProvisionAssumption DEF ProvisionAssumption, Check, TypeOK, Current, Replacing
<1>1. CASE UpToDate(cur)
  <2>1. dir' = dir /\ pc' = "select"
    BY <1>1 DEF Check
  <2>2. Sound(cur) \/ Unseen(cur)
    BY <1>0, <1>1 DEF UpToDate, Sig, Executable, Vouched, Whole, Sound, Unseen
  <2>3. Vouched' /\ Rows' /\ Current' /\ Progress' /\ Tried'
    BY <1>0, <2>1, <2>2 DEF Vouched, Whole, Sig, Rows, Current, Progress, Tried, Sound, Unseen, Replacing, Found
  <2> QED
    BY <2>2, <2>3
<1>2. CASE ~UpToDate(cur)
  <2>1. /\ pc' = "source" /\ dir'[cur].bin = Absent /\ \A n \in Variants : dir'[n].sig = dir[n].sig
        /\ \A n \in Variants \ {cur} : dir'[n] = dir[n]
    BY <1>0, <1>2 DEF Check, TypeOK, Dirs
  <2>2. ~Unseen(cur) /\ dir[cur].sig.version # 0 => wanted[cur] \in Lacks
    BY <1>0, <1>2 DEF UpToDate, Executable, Vouched, Whole, Unseen, Absent, Partial
  <2>3. Vouched'
    BY <1>0, <2>1, <2>2 DEF Vouched, Whole, Unseen, Sig
  <2>4. Rows' /\ Current'
    BY <1>0, <2>1, <2>2 DEF Rows, Current, Unseen, Replacing
  <2>5. Progress'
    BY <1>0, <2>1 DEF Progress, Found
  <2>6. Tried'
    BY <1>0, <2>1 DEF Tried, Sound, Unseen, Replacing, TypeOK
  <2> QED
    BY <1>2, <2>3, <2>4, <2>5, <2>6
<1> QED
  BY <1>1, <1>2

\* Copying a file of cur touches nothing that its signature vouches for: the signature
\* is of something else, or of a version without a server and no server is copied.
LEMMA CopyInv ==
  ASSUME Trusting, ProvInv, TypeOK', OpenBinary \/ CopyBinary \/ OpenLibraries \/ CopyLibraries
  PROVE  ProvInv'
<1> USE DEF Trusting, ProvInv, history
<1>0. /\ UNCHANGED <<hw, wanted, todo, tried, cur, left, torn, passed>> /\ pc \in Found \ {"sign"}
      /\ pc' \in Found \ {"binary"} /\ cur \in Variants /\ wanted[cur] # 0
  BY DEF OpenBinary, CopyBinary, OpenLibraries, CopyLibraries, TypeOK, tmp, Current, Replacing, Found
<1>1. /\ \A n \in Variants : dir'[n].sig = dir[n].sig
      /\ \A n \in Variants \ {cur} : dir'[n] = dir[n]
  BY <1>0 DEF OpenBinary, CopyBinary, OpenLibraries, CopyLibraries, TypeOK, Dirs
<1>2. Rows' /\ Current'
  BY <1>0, <1>1 DEF Rows, Current, Unseen, Replacing, Found
<1>3. Tried'
  BY <1>0, <1>1 DEF Tried, Sound, Unseen, TypeOK, Replacing, Found
<1>4. Progress'
  <2>1. CASE OpenBinary
    BY <1>0, <2>1 DEF Progress, Found, Payload, OpenBinary, TypeOK, Dirs
  <2>2. CASE CopyBinary
    <3>1. /\ pc = "copybin" /\ pc' = (IF cur \in Raw THEN "sign" ELSE "libs") /\ wanted[cur] \notin Lacks
          /\ flaw' \/ (~flaw /\ dir'[cur].bin = wanted[cur])
      BY <1>0, <2>2 DEF CopyBinary, Progress, TypeOK, Dirs, Found
    <3> QED
      BY <1>0, <2>2, <3>1 DEF CopyBinary, Progress, Found, Payload, Whole
  <2>3. CASE OpenLibraries
    BY <1>0, <2>3 DEF Progress, Found, Payload, OpenLibraries, TypeOK, Dirs
  <2>4. CASE CopyLibraries
    <3>1. /\ pc = "copylib" /\ pc' = "sign"
          /\ flaw' \/ (~flaw /\ dir'[cur].lib = wanted[cur] /\ dir'[cur].bin = dir[cur].bin)
      BY <1>0, <2>4 DEF CopyLibraries, Progress, TypeOK, Dirs, Found
    <3> QED
      BY <1>0, <2>4, <3>1 DEF CopyLibraries, Progress, Found, Payload, Whole
  <2> QED
    BY <2>1, <2>2, <2>3, <2>4
<1>5. Vouched'
  <2>1. ASSUME NEW n \in Variants \ passed, n # cur, dir[n].sig.version # 0
        PROVE  dir[n].sig = Sig(n) /\ (n \in torn \/ Whole(n, wanted[n])')
    BY <1>0, <1>1, <2>1 DEF Vouched, Whole
  <2>2. ASSUME cur \notin passed, dir[cur].sig.version # 0
        PROVE  dir[cur].sig = Sig(cur) /\ (cur \in torn \/ Whole(cur, wanted[cur])')
    <3>1. dir[cur].sig = Sig(cur) /\ (cur \in torn \/ (wanted[cur] \in Lacks /\ Whole(cur, wanted[cur])))
      BY <1>0, <2>2 DEF Current, Vouched, Unseen, Replacing, Found
    <3>2. wanted[cur] \in Lacks => dir'[cur].bin = dir[cur].bin
      BY <1>0 DEF OpenBinary, CopyBinary, OpenLibraries, CopyLibraries, TypeOK, Dirs, Progress, Found
    <3> QED
      BY <1>0, <3>1, <3>2 DEF Whole
  <2> QED
    BY <1>0, <1>1, <2>1, <2>2 DEF Vouched, Sig
<1> QED
  BY <1>2, <1>3, <1>4, <1>5

\* The signature is written over a whole installation, unless a failure was hidden.
LEMMA SignInv ==
  ASSUME Trusting, ProvInv, TypeOK', Sign
  PROVE  ProvInv'
<1> USE DEF Trusting, ProvInv
<1>0. /\ UNCHANGED <<hw, wanted, todo, tried, cur>> /\ pc = "sign" /\ pc' = "select"
      /\ cur \in Variants /\ (flaw \/ Whole(cur, wanted[cur])) /\ passed' = passed \ {cur}
      /\ torn' = IF flaw THEN torn \cup {cur} ELSE torn \ {cur}
  BY DEF Sign, TypeOK, Progress
<1>1. /\ dir'[cur].sig = Sig(cur) /\ Sig(cur)' = Sig(cur)
      /\ \A n \in Variants : dir'[n].bin = dir[n].bin /\ dir'[n].lib = dir[n].lib
      /\ \A n \in Variants \ {cur} : dir'[n] = dir[n]
  BY <1>0 DEF Sign, TypeOK, Dirs, Sig
<1>2. Vouched'
  BY <1>0, <1>1 DEF Vouched, Whole, Sig
<1>3. Rows' /\ Current' /\ Progress'
  BY <1>0, <1>1 DEF Rows, Current, Progress, Replacing, Found
<1>4. Tried'
  BY <1>0, <1>1 DEF Tried, Sound, Unseen, Whole, TypeOK, Replacing
<1> QED
  BY <1>2, <1>3, <1>4

\* ProvInv is inductive.
LEMMA ProvInductive == ASSUME Trusting PROVE Spec => []ProvInv
<1>1. Init => ProvInv
  <2> SUFFICES ASSUME Init PROVE ProvInv
    OBVIOUS
  <2>1. TypeOK
    BY InitTyped
  <2> QED
    BY <2>1 DEF Init, ProvInv, Vouched, Rows, Current, Progress, Tried, Replacing, Found, NoSig
<1>2. ProvInv /\ [Next]_vars => ProvInv'
  <2> SUFFICES ASSUME ProvInv, [Next]_vars PROVE ProvInv'
    OBVIOUS
  <2>0. TypeOK'
    BY StepTyped DEF ProvInv
  <2>1. CASE ResolveSource \/ Download \/ Extract \/ GitBuild \/ LaunchSwap \/ Restart \/ Recreate \/ EditCatalog
    <3>1. Moves
      BY <2>1 DEF Moves, history, ResolveSource, Download, Extract, GitBuild, LaunchSwap, Restart, Recreate, EditCatalog
    <3> QED
      BY <2>0, <2>1, <3>1, MoveInv
  <2>2. CASE LoadCatalog \/ Fallback \/ \E n \in Variants : SelectVariant(n)
    BY <2>0, <2>2, BootInv
  <2>3. CASE Check
    BY <2>0, <2>3, CheckInv
  <2>4. CASE OpenBinary \/ CopyBinary \/ OpenLibraries \/ CopyLibraries
    BY <2>0, <2>4, CopyInv
  <2>5. CASE Sign
    BY <2>0, <2>5, SignInv
  <2>6. CASE UNCHANGED vars
    BY <2>6 DEF vars, tmp, history, ProvInv, TypeOK, Vouched, Whole, Sig, Rows, Current, Progress, Tried, Sound, Unseen, Payload
  <2> QED
    BY <2>1, <2>2, <2>3, <2>4, <2>5, <2>6 DEF Next, Script
<1> QED
  BY <1>1, <1>2, PTL DEF Spec

\* What the check takes for up to date is whole and of the version asked for.
THEOREM NothingMistaken == ASSUME Trusting PROVE Spec => []NeverMistaken
<1>1. ProvInv => NeverMistaken
  BY DEF ProvInv, NeverMistaken, UpToDate, Executable, Sig, Sound, Vouched, Whole, Unseen
<1> QED
  BY <1>1, ProvInductive, PTL

\* llama-swap is started over whole or empty directories only.
THEOREM LaunchIsSound == ASSUME Trusting PROVE Spec => []LaunchedSound
<1>1. ProvInv => LaunchedSound
  BY DEF ProvInv, LaunchedSound, Tried, Replacing
<1> QED
  BY <1>1, ProvInductive, PTL
-----------------------------------------------------------------------------
(***************************************************************************)
(* A boot in which nothing fails.                                          *)
(***************************************************************************)

\* What may become of a variant in a boot without a failure.
Accounted(n) == \/ Sound(n) \/ Unseen(n) \/ wanted[n] \in Lacks
                \/ SourceType[n] = "github_release" /\ meta[wanted[n]] = "broken"

\* What was tried is in the catalog.
Wanted == \A n \in tried : wanted[n] \in Versions

\* Every variant tried so far is accounted for, but the one at hand.
Clean ==
  errors = "none" =>
    \A n \in tried : Accounted(n) \/ (n = cur /\ pc \in Replacing \cup {"check"}) \/ pc = "down"

LEMMA WantedStep ==
  ASSUME ProvInv, Wanted, [Next]_vars
  PROVE  Wanted'
<1>0. TypeOK /\ \A n \in todo : wanted[n] \in Versions
  BY ProvisionAssumption DEF ProvisionAssumption, ProvInv, TypeOK, Rows, Versions
<1>1. CASE Fallback
  BY <1>0, <1>1, ProvisionAssumption DEF ProvisionAssumption, Fallback, Wanted, TypeOK, Versions
<1>2. CASE LoadCatalog \/ \E n \in Variants : SelectVariant(n)
  BY <1>0, <1>2 DEF LoadCatalog, SelectVariant, Wanted, Versions, history
<1>3. CASE UNCHANGED <<wanted, tried>>
  BY <1>3 DEF Wanted, Versions
<1> QED
  BY <1>1, <1>2, <1>3 DEF Next, Script, vars, Check, ResolveSource, Download, Extract, GitBuild, OpenBinary, CopyBinary,
     OpenLibraries, CopyLibraries, Sign, LaunchSwap, EditCatalog, Restart, Recreate

LEMMA CleanStep ==
  ASSUME Trusting, ProvInv, Wanted, Clean, [Next]_vars
  PROVE  Clean'
<1> USE DEF Clean, history
<1>0. TypeOK /\ cur \in Variants /\ tried \subseteq Variants
  BY DEF ProvInv, TypeOK
<1>1. CASE UNCHANGED vars \/ EditCatalog \/ LaunchSwap
  BY <1>1 DEF vars, tmp, EditCatalog, LaunchSwap, Accounted, Sound, Unseen, Replacing
<1>2. CASE LoadCatalog \/ Restart \/ Recreate
  BY <1>2 DEF LoadCatalog, Restart, Recreate
<1>3. CASE Fallback \/ \E n \in Variants : SelectVariant(n)
  BY <1>3 DEF Fallback, SelectVariant, Accounted, Sound, Unseen, Replacing, tmp
<1>4. CASE Check
  <2>1. UpToDate(cur) => Sound(cur) \/ Unseen(cur)
    BY <1>4, CheckInv, StepTyped DEF ProvInv
  <2>2. /\ pc = "check" /\ UNCHANGED <<wanted, meta, cur, tried, errors, history>>
        /\ \/ UpToDate(cur) /\ pc' = "select" /\ UNCHANGED dir
           \/ pc' = "source" /\ \A n \in Variants \ {cur} : dir'[n] = dir[n]
    BY <1>0, <1>4 DEF Check, TypeOK, Dirs, tmp
  <2>3. \A n \in tried \ {cur} : Accounted(n) => Accounted(n)'
    BY <1>0, <2>2 DEF Accounted, Sound, Unseen
  <2>4. UpToDate(cur) /\ pc' = "select" /\ UNCHANGED dir => Accounted(cur)'
    BY <2>1, <2>2 DEF Accounted, Sound, Unseen
  <2> QED
    BY <2>2, <2>3, <2>4 DEF Replacing
<1>5. CASE ResolveSource
  <2>1. /\ pc = "source" /\ UNCHANGED <<wanted, dir, history, cur, tried>>
        /\ \/ pc' \in Replacing
           \/ errors' = "some"
           \/ pc' = "select" /\ meta' = meta /\ (Metadata(cur) = "broken" \/ wanted[cur] \in Lacks)
    BY <1>5 DEF ResolveSource, Skip, Replacing
  <2>2. \A n \in tried : SourceType[n] = "github_release" /\ meta[wanted[n]] = "broken" => meta'[wanted[n]] = "broken"
    BY <1>0, <1>5 DEF ResolveSource, Metadata, TypeOK, Wanted
  <2>3. \A n \in tried : Accounted(n) => Accounted(n)'
    BY <2>1, <2>2 DEF Accounted, Sound, Unseen
  <2>4. (Metadata(cur) = "broken" \/ wanted[cur] \in Lacks) /\ meta' = meta => Accounted(cur)'
    BY <2>1 DEF Metadata, Accounted
  <2>5. errors' = "none" => errors = "none"
    BY <1>5 DEF ResolveSource, Skip
  <2> QED
    BY <2>1, <2>3, <2>4, <2>5 DEF Replacing
<1>6. CASE Download \/ Extract \/ GitBuild
  <2>1. /\ pc \in Replacing /\ (pc' \in Replacing \cup {"down"} \/ errors' = "some")
        /\ UNCHANGED <<wanted, meta, dir, history, cur, tried>> /\ (errors' = "none" => errors = "none")
    BY <1>6 DEF Download, Extract, GitBuild, Skip, Replacing, tmp
  <2>2. \A n \in tried : Accounted(n) => Accounted(n)'
    BY <2>1 DEF Accounted, Sound, Unseen
  <2> QED
    BY <2>1, <2>2 DEF Replacing
<1>7. CASE OpenBinary \/ CopyBinary \/ OpenLibraries \/ CopyLibraries
  <2>1. /\ pc \in Replacing /\ pc' \in Replacing /\ UNCHANGED <<wanted, meta, cur, tried, history>>
        /\ errors' = "none" => errors = "none"
        /\ \A n \in Variants \ {cur} : dir'[n] = dir[n]
    BY <1>0, <1>7 DEF OpenBinary, CopyBinary, OpenLibraries, CopyLibraries, TypeOK, Dirs, Replacing, tmp
  <2>2. \A n \in tried \ {cur} : Accounted(n) => Accounted(n)'
    BY <1>0, <2>1 DEF Accounted, Sound, Unseen
  <2> QED
    BY <2>1, <2>2 DEF Replacing
<1>8. CASE Sign
  <2>1. /\ pc = "sign" /\ UNCHANGED <<wanted, meta, cur, tried, errors>>
        /\ IF flaw THEN torn' = torn \cup {cur} ELSE torn' = torn \ {cur} /\ Whole(cur, wanted[cur])
        /\ passed' = passed \ {cur}
        /\ \A n \in Variants : dir'[n].bin = dir[n].bin /\ dir'[n].lib = dir[n].lib
    BY <1>0, <1>8 DEF Sign, ProvInv, Progress, TypeOK, Dirs
  <2>2. \A n \in tried \ {cur} : Accounted(n) => Accounted(n)'
    BY <1>0, <2>1 DEF Accounted, Sound, Unseen
  <2>3. Accounted(cur)'
    BY <1>0, <2>1 DEF Accounted, Sound, Unseen, Whole
  <2> QED
    BY <2>1, <2>2, <2>3 DEF Replacing
<1> QED
  BY <1>1, <1>2, <1>3, <1>4, <1>5, <1>6, <1>7, <1>8 DEF Next, Script

\* A boot without a failure has installed what it selected, whatever the boots
\* before it left in the directories and in /tmp (provision_variant).
THEOREM BootInstalls == ASSUME Trusting PROVE Spec => []CleanBootInstalls
<1>1. Init => Wanted /\ Clean
  BY DEF Init, Wanted, Clean
<1>2. ProvInv /\ Wanted /\ Clean /\ [Next]_vars => Wanted' /\ Clean'
  BY WantedStep, CleanStep
<1>3. Clean => CleanBootInstalls
  BY DEF Clean, CleanBootInstalls, Accounted, Replacing
<1> QED
  BY <1>1, <1>2, <1>3, ProvInductive, PTL DEF Spec
=============================================================================
