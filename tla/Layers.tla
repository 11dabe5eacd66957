--------------------------------- MODULE Layers --------------------------------
(***************************************************************************)
(* How the generator layers its sources (config_loader.py): a tree is a    *)
(* leaf (a scalar or a list) or a section, a mapping from keys to trees;   *)
(* the private overlay goes over the local file and both over the          *)
(* project's.  What recurses into a tree is a function of its depth.       *)
(***************************************************************************)
EXTENDS Integers, Sequences, SequencesExt

CONSTANTS
  Leaves,              \* scalars and lists
  Keys,
  Depth                \* how many sections can be in each other

Depths == 0..Depth

\* By how many sections they are deep at most.
Tree[d \in Depths] == Leaves \cup (IF d = 0 THEN {} ELSE UNION {[K -> Tree[d - 1]] : K \in SUBSET Keys})

\* No scalar or list is a mapping.
ASSUME LayersAssumption ==
  Depth \in Nat /\ \A d \in 1..Depth, K \in SUBSET Keys : \A l \in Leaves : l \notin [K -> Tree[d - 1]]

Section(tree) == tree \notin Leaves

\* Mutant: a section that both have is replaced as a whole.
ShallowMerge(base, over, below) ==
  IF Section(base) /\ Section(over)
  THEN [k \in DOMAIN base \cup DOMAIN over |-> IF k \in DOMAIN over THEN over[k] ELSE base[k]]
  ELSE over

\* deep_merge: sections are merged, anything else is replaced.
Merge(base, over, below) ==
  IF Section(base) /\ Section(over)
  THEN [k \in DOMAIN base \cup DOMAIN over |->
          IF k \notin DOMAIN over THEN base[k]
          ELSE IF k \notin DOMAIN base THEN over[k] ELSE below[<<base[k], over[k]>>]]
  ELSE over
DeepMerge[d \in Depths] == [p \in Tree[d] \X Tree[d] |-> Merge(p[1], p[2], DeepMerge[d - 1])]

\* type_conflicts: where one has a section and the other a leaf.
Clashes(base, over, below) ==
  IF Section(base) /\ Section(over)
  THEN UNION {{<<k>> \o p : p \in below[<<base[k], over[k]>>]} : k \in DOMAIN base \cap DOMAIN over}
  ELSE IF Section(base) # Section(over) THEN {<<>>} ELSE {}
Conflicts[d \in Depths] == [p \in Tree[d] \X Tree[d] |-> Clashes(p[1], p[2], Conflicts[d - 1])]

\* load_layered_yaml, with the empty mapping for a file that is missing.
Layered(project, local, private) ==
  LET merged(base, over) == DeepMerge[Depth][<<base, over>>] IN merged(project, merged(local, private))

(***************************************************************************)
(* What layering is meant to do: a setting is a path and the leaf there,   *)
(* or that there is a section.                                             *)
(***************************************************************************)
At(path, leaf) == [path |-> path, leaf |-> leaf]
Below(k, s) == At(<<k>> \o s.path, s.leaf)
SettingsIn(tree, below) ==
  IF Section(tree) THEN {At(<<>>, {})} \cup UNION {{Below(k, s) : s \in below[tree[k]]} : k \in DOMAIN tree}
  ELSE {At(<<>>, {tree})}
Settings[d \in Depths] == [tree \in Tree[d] |-> SettingsIn(tree, Settings[d - 1])]

\* A leaf gives way to what is at its place or below, and everything to a leaf at
\* its place or above.
GivesWay(s, t) ==
  \/ s.leaf # {} /\ IsPrefix(s.path, t.path)
  \/ t.leaf # {} /\ IsPrefix(t.path, s.path)
Overlaid(base, over) == over \cup {s \in base : \A t \in over : ~GivesWay(s, t)}
================================================================================
