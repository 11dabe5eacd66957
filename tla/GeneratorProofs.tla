----------------------------- MODULE GeneratorProofs -----------------------------
(***************************************************************************)
(* What the layers keep of each source, for trees of every depth, and what *)
(* the builders of the generator agree on, for all configurations.  What   *)
(* each builder has found is stated of its output, the configuration and   *)
(* the outputs before it as parameters, so that the steps of the other     *)
(* builders keep it.                                                       *)
(***************************************************************************)
EXTENDS Generator, Induction, SequenceTheorems

(***************************************************************************)
(* Layers: what recurses into a tree is what its definition says, since    *)
(* trees end.                                                              *)
(***************************************************************************)
TreeOf(f, d) == Leaves \cup (IF d = 0 THEN {} ELSE UNION {[K -> f[d - 1]] : K \in SUBSET Keys})
MergeOf(below, d) == [p \in Tree[d] \X Tree[d] |-> Merge(p[1], p[2], below)]
ConflictsOf(below, d) == [p \in Tree[d] \X Tree[d] |-> Clashes(p[1], p[2], below)]
SettingsOf(below, d) == [tree \in Tree[d] |-> SettingsIn(tree, below)]

LEMMA TreeUnfolds == \A d \in Depths : Tree[d] = TreeOf(Tree, d)
<1> DEFINE S == {n \in Nat : \E f : \A d \in Depths : d < n => f[d] = TreeOf(f, d)}
<1>0. Depth \in Nat
  BY LayersAssumption DEF LayersAssumption
<1>1. 0 \in S
  BY <1>0 DEF Depths
<1>2. ASSUME NEW n \in Nat, n \in S PROVE n + 1 \in S
  <2>1. PICK f : \A d \in Depths : d < n => f[d] = TreeOf(f, d)
    BY <1>2
  <2> DEFINE g == [d \in Depths |-> IF d < n THEN f[d] ELSE TreeOf(f, d)]
  <2>2. ASSUME NEW d \in Depths, d < n + 1 PROVE g[d] = TreeOf(g, d)
    <3>1. g[d] = TreeOf(f, d)
      BY <2>1
    <3>2. d # 0 => g[d - 1] = f[d - 1]
      BY <1>0, <2>2 DEF Depths
    <3> HIDE DEF g
    <3>3. TreeOf(f, d) = TreeOf(g, d)
      BY <3>2 DEF TreeOf
    <3> QED
      BY <3>1, <3>3
  <2> HIDE DEF g
  <2> QED
    BY <2>2
<1>3. Depth + 1 \in S
  <2> HIDE DEF S
  <2>1. \A n \in Nat : n \in S
    BY <1>1, <1>2, SetInduction
  <2> QED
    BY <1>0, <2>1
<1>4. PICK f : \A d \in Depths : f[d] = TreeOf(f, d)
  BY <1>0, <1>3 DEF Depths
<1> DEFINE g == [d \in Depths |-> f[d]]
<1>5. g = [d \in Depths |-> TreeOf(g, d)]
  <2>1. ASSUME NEW d \in Depths PROVE TreeOf(f, d) = TreeOf(g, d)
    <3>1. d # 0 => g[d - 1] = f[d - 1]
      BY <1>0 DEF Depths
    <3> HIDE DEF g
    <3> QED
      BY <3>1 DEF TreeOf
  <2> QED
    BY <1>4, <2>1
<1> HIDE DEF g
<1>6. Tree = [d \in Depths |-> TreeOf(Tree, d)]
  BY <1>5 DEF Tree, TreeOf
<1> QED
  BY <1>6

\* Below a section there is one section less.
LEMMA TreeSection ==
  ASSUME NEW d \in Depths
  PROVE  /\ Leaves \subseteq Tree[d]
         /\ \A t \in Tree[d] : Section(t) =>
              /\ d \in 1..Depth /\ d - 1 \in Depths /\ DOMAIN t \subseteq Keys
              /\ t = [k \in DOMAIN t |-> t[k]] /\ \A k \in DOMAIN t : t[k] \in Tree[d - 1]
         /\ d # 0 => \A K \in SUBSET Keys : \A t \in [K -> Tree[d - 1]] : t \in Tree[d] /\ Section(t)
<1>1. Tree[d] = Leaves \cup (IF d = 0 THEN {} ELSE UNION {[K -> Tree[d - 1]] : K \in SUBSET Keys})
  BY TreeUnfolds DEF TreeOf
<1>2. Depth \in Nat /\ d \in Int /\ (d # 0 => d \in 1..Depth /\ d - 1 \in Depths)
  BY LayersAssumption DEF LayersAssumption, Depths
<1>3. ASSUME NEW t \in Tree[d], Section(t)
      PROVE  /\ d \in 1..Depth /\ d - 1 \in Depths /\ DOMAIN t \subseteq Keys
             /\ t = [k \in DOMAIN t |-> t[k]] /\ \A k \in DOMAIN t : t[k] \in Tree[d - 1]
  <2>1. d # 0 /\ t \in UNION {[K -> Tree[d - 1]] : K \in SUBSET Keys}
    BY <1>1, <1>3 DEF Section
  <2>2. PICK K \in SUBSET Keys : t \in [K -> Tree[d - 1]]
    BY <2>1
  <2> QED
    BY <1>2, <2>1, <2>2
<1>4. ASSUME d # 0, NEW K \in SUBSET Keys, NEW t \in [K -> Tree[d - 1]] PROVE t \in Tree[d] /\ Section(t)
  <2>1. t \in Tree[d]
    BY <1>1, <1>4
  <2>2. t \notin Leaves
    BY <1>2, <1>4, LayersAssumption DEF LayersAssumption
  <2> QED
    BY <2>1, <2>2 DEF Section
<1> QED
  BY <1>1, <1>3, <1>4

LEMMA NothingBelow ==
  ASSUME NEW x, NEW y
  PROVE  MergeOf(x, 0) = MergeOf(y, 0) /\ ConflictsOf(x, 0) = ConflictsOf(y, 0) /\ SettingsOf(x, 0) = SettingsOf(y, 0)
<1>1. 0 \in Depths
  BY LayersAssumption DEF LayersAssumption, Depths
<1>2. \A t \in Tree[0] : ~Section(t)
  BY <1>1, TreeSection
<1>3. \A p \in Tree[0] \X Tree[0] : ~Section(p[1]) /\ ~Section(p[2])
  BY <1>2
<1>4. MergeOf(x, 0) = MergeOf(y, 0)
  BY <1>3 DEF MergeOf, Merge
<1>5. ConflictsOf(x, 0) = ConflictsOf(y, 0)
  BY <1>3 DEF ConflictsOf, Clashes
<1>6. SettingsOf(x, 0) = SettingsOf(y, 0)
  BY <1>2 DEF SettingsOf, SettingsIn
<1> QED
  BY <1>4, <1>5, <1>6

AllOf(f, d) == <<MergeOf(f[d - 1][1], d), ConflictsOf(f[d - 1][2], d), SettingsOf(f[d - 1][3], d)>>

LEMMA AllBelow ==
  ASSUME NEW d, NEW f, NEW g, d # 0 => f[d - 1] = g[d - 1]
  PROVE  AllOf(f, d) = AllOf(g, d)
<1>1. CASE d = 0
  <2>1. AllOf(f, 0) = AllOf(g, 0)
    BY NothingBelow DEF AllOf
  <2> QED
    BY <1>1, <2>1
<1>2. CASE d # 0
  BY <1>2 DEF AllOf
<1> QED
  BY <1>1, <1>2

LEMMA AllUnfolds ==
  /\ \A d \in Depths : DeepMerge[d] = MergeOf(DeepMerge[d - 1], d)
  /\ \A d \in Depths : Conflicts[d] = ConflictsOf(Conflicts[d - 1], d)
  /\ \A d \in Depths : Settings[d] = SettingsOf(Settings[d - 1], d)
<1> DEFINE S == {n \in Nat : \E f : \A d \in Depths : d < n => f[d] = AllOf(f, d)}
<1>0. Depth \in Nat /\ \A d \in Depths : d \in Nat /\ (d # 0 => d - 1 \in Depths)
  BY LayersAssumption DEF LayersAssumption, Depths
<1>1. 0 \in S
  BY <1>0
<1>2. ASSUME NEW n \in Nat, n \in S PROVE n + 1 \in S
  <2>1. PICK f : \A d \in Depths : d < n => f[d] = AllOf(f, d)
    BY <1>2
  <2> DEFINE g == [d \in Depths |-> IF d < n THEN f[d] ELSE AllOf(f, d)]
  <2>2. ASSUME NEW d \in Depths, d < n + 1 PROVE g[d] = AllOf(g, d)
    <3>1. g[d] = AllOf(f, d)
      BY <2>1
    <3>2. d # 0 => f[d - 1] = g[d - 1]
      BY <1>0, <2>2
    <3> HIDE DEF g
    <3> QED
      BY <3>1, <3>2, AllBelow
  <2> HIDE DEF g
  <2> QED
    BY <2>2
<1>3. Depth + 1 \in S
  <2> HIDE DEF S
  <2>1. \A n \in Nat : n \in S
    BY <1>1, <1>2, SetInduction
  <2> QED
    BY <1>0, <2>1
<1>4. PICK f : \A d \in Depths : f[d] = AllOf(f, d)
  BY <1>0, <1>3 DEF Depths
<1>5. \A d \in Depths : /\ f[d][1] = MergeOf(f[d - 1][1], d)
                        /\ f[d][2] = ConflictsOf(f[d - 1][2], d)
                        /\ f[d][3] = SettingsOf(f[d - 1][3], d)
  BY <1>4 DEF AllOf
<1>6. DeepMerge = [d \in Depths |-> MergeOf(DeepMerge[d - 1], d)]
  <2> DEFINE m == [d \in Depths |-> f[d][1]]
  <2>1. ASSUME NEW d \in Depths PROVE m[d] = MergeOf(m[d - 1], d)
    <3>1. d # 0 => m[d - 1] = f[d - 1][1]
      BY <1>0
    <3>2. m[d] = MergeOf(f[d - 1][1], d)
      BY <1>5
    <3> HIDE DEF m
    <3> QED
      BY <3>1, <3>2, NothingBelow
  <2>2. m = [d \in Depths |-> MergeOf(m[d - 1], d)]
    BY <2>1
  <2> HIDE DEF m
  <2> QED
    BY <2>2 DEF DeepMerge, MergeOf
<1>7. Conflicts = [d \in Depths |-> ConflictsOf(Conflicts[d - 1], d)]
  <2> DEFINE m == [d \in Depths |-> f[d][2]]
  <2>1. ASSUME NEW d \in Depths PROVE m[d] = ConflictsOf(m[d - 1], d)
    <3>1. d # 0 => m[d - 1] = f[d - 1][2]
      BY <1>0
    <3>2. m[d] = ConflictsOf(f[d - 1][2], d)
      BY <1>5
    <3> HIDE DEF m
    <3> QED
      BY <3>1, <3>2, NothingBelow
  <2>2. m = [d \in Depths |-> ConflictsOf(m[d - 1], d)]
    BY <2>1
  <2> HIDE DEF m
  <2> QED
    BY <2>2 DEF Conflicts, ConflictsOf
<1>8. Settings = [d \in Depths |-> SettingsOf(Settings[d - 1], d)]
  <2> DEFINE m == [d \in Depths |-> f[d][3]]
  <2>1. ASSUME NEW d \in Depths PROVE m[d] = SettingsOf(m[d - 1], d)
    <3>1. d # 0 => m[d - 1] = f[d - 1][3]
      BY <1>0
    <3>2. m[d] = SettingsOf(f[d - 1][3], d)
      BY <1>5
    <3> HIDE DEF m
    <3> QED
      BY <3>1, <3>2, NothingBelow
  <2>2. m = [d \in Depths |-> SettingsOf(m[d - 1], d)]
    BY <2>1
  <2> HIDE DEF m
  <2> QED
    BY <2>2 DEF Settings, SettingsOf
<1> QED
  BY <1>6, <1>7, <1>8

Setting == [path : Seq(Keys), leaf : SUBSET Leaves]
Mark == At(<<>>, {})

LEMMA Unfoldings ==
  ASSUME NEW d \in Depths, NEW t \in Tree[d], NEW u \in Tree[d]
  PROVE  /\ DeepMerge[d][<<t, u>>] = Merge(t, u, DeepMerge[d - 1])
         /\ Conflicts[d][<<t, u>>] = Clashes(t, u, Conflicts[d - 1])
         /\ Settings[d][t] = SettingsIn(t, Settings[d - 1])
<1>1. /\ DeepMerge[d] = MergeOf(DeepMerge[d - 1], d) /\ Conflicts[d] = ConflictsOf(Conflicts[d - 1], d)
      /\ Settings[d] = SettingsOf(Settings[d - 1], d)
  BY AllUnfolds
<1>2. \A x : MergeOf(x, d)[<<t, u>>] = Merge(t, u, x)
  BY DEF MergeOf
<1>3. \A x : ConflictsOf(x, d)[<<t, u>>] = Clashes(t, u, x)
  BY DEF ConflictsOf
<1>4. \A x : SettingsOf(x, d)[t] = SettingsIn(t, x)
  BY DEF SettingsOf
<1> QED
  BY <1>1, <1>2, <1>3, <1>4

LEMMA DepthInduction ==
  ASSUME NEW S, \A d \in Depths : (d # 0 => d - 1 \in S) => d \in S
  PROVE  \A d \in Depths : d \in S
<1> DEFINE T == {n \in Nat : n \in Depths => n \in S}
<1>0. Depth \in Nat
  BY LayersAssumption DEF LayersAssumption
<1>1. 0 \in T
  OBVIOUS
<1>2. ASSUME NEW n \in Nat, n \in T PROVE n + 1 \in T
  <2>1. n + 1 \in Depths => n \in Depths /\ (n + 1) - 1 = n
    BY <1>0 DEF Depths
  <2> QED
    BY <1>2, <2>1
<1>3. \A n \in Nat : n \in T
  <2> HIDE DEF T
  <2> QED
    BY <1>1, <1>2, SetInduction
<1> QED
  BY <1>0, <1>3 DEF Depths

\* Trees merge to trees.
LEMMA MergeTyped == \A d \in Depths : \A t, u \in Tree[d] : DeepMerge[d][<<t, u>>] \in Tree[d]
<1> DEFINE S == {d \in Depths : \A t, u \in Tree[d] : DeepMerge[d][<<t, u>>] \in Tree[d]}
<1>1. ASSUME NEW d \in Depths, d # 0 => d - 1 \in S PROVE d \in S
  <2> SUFFICES ASSUME NEW t \in Tree[d], NEW u \in Tree[d] PROVE DeepMerge[d][<<t, u>>] \in Tree[d]
    OBVIOUS
  <2> DEFINE m == DeepMerge[d][<<t, u>>]
  <2>1. m = Merge(t, u, DeepMerge[d - 1])
    BY Unfoldings
  <2>2. CASE ~(Section(t) /\ Section(u))
    BY <2>1, <2>2 DEF Merge
  <2>3. CASE Section(t) /\ Section(u)
    <3>1. /\ d # 0 /\ DOMAIN t \subseteq Keys /\ DOMAIN u \subseteq Keys
          /\ \A k \in DOMAIN t : t[k] \in Tree[d - 1]
          /\ \A k \in DOMAIN u : u[k] \in Tree[d - 1]
      BY <2>3, TreeSection
    <3>2. \A x, y \in Tree[d - 1] : DeepMerge[d - 1][<<x, y>>] \in Tree[d - 1]
      BY <1>1, <3>1
    <3>3. m \in [DOMAIN t \cup DOMAIN u -> Tree[d - 1]]
      BY <2>1, <2>3, <3>1, <3>2 DEF Merge
    <3> QED
      BY <3>1, <3>3, TreeSection
  <2> QED
    BY <2>2, <2>3
<1> HIDE DEF S
<1>2. \A d \in Depths : d \in S
  BY <1>1, DepthInduction
<1> QED
  BY <1>2 DEF S

LEMMA SettingsBelow ==
  ASSUME NEW s \in Setting, NEW k \in Keys
  PROVE  /\ Below(k, s) \in Setting /\ Below(k, s).path = <<k>> \o s.path /\ Below(k, s).leaf = s.leaf
  BY DEF Setting, Below, At

LEMMA SettingsTyped == \A d \in Depths : \A t \in Tree[d] : Settings[d][t] \subseteq Setting
<1> DEFINE S == {d \in Depths : \A t \in Tree[d] : Settings[d][t] \subseteq Setting}
<1>0. Mark \in Setting /\ \A l \in Leaves : At(<<>>, {l}) \in Setting
  BY DEF Mark, At, Setting
<1>1. ASSUME NEW d \in Depths, d # 0 => d - 1 \in S PROVE d \in S
  <2> SUFFICES ASSUME NEW t \in Tree[d] PROVE Settings[d][t] \subseteq Setting
    OBVIOUS
  <2>1. Settings[d][t] = SettingsIn(t, Settings[d - 1])
    BY Unfoldings
  <2>2. CASE ~Section(t)
    BY <1>0, <2>1, <2>2 DEF SettingsIn, Section
  <2>3. CASE Section(t)
    <3>1. d # 0 /\ DOMAIN t \subseteq Keys /\ \A k \in DOMAIN t : t[k] \in Tree[d - 1]
      BY <2>3, TreeSection
    <3>2. \A k \in DOMAIN t : \A s \in Settings[d - 1][t[k]] : Below(k, s) \in Setting
      BY <1>1, <3>1, SettingsBelow
    <3> QED
      BY <1>0, <2>1, <2>3, <3>2 DEF SettingsIn, Mark
  <2> QED
    BY <2>2, <2>3
<1> HIDE DEF S
<1>2. \A d \in Depths : d \in S
  BY <1>1, DepthInduction
<1> QED
  BY <1>2 DEF S

\* Paths.
LEMMA PrefixMeans ==
  ASSUME NEW p \in Seq(Keys), NEW q \in Seq(Keys)
  PROVE  IsPrefix(p, q) <=> Len(p) <= Len(q) /\ \A i \in 1..Len(p) : p[i] = q[i]
<1> SUFFICES ASSUME Len(p) <= Len(q)
             PROVE  SubSeq(p, 1, Len(p)) = SubSeq(q, 1, Len(p)) <=> \A i \in 1..Len(p) : p[i] = q[i]
  BY DEF IsPrefix
<1> DEFINE x == SubSeq(p, 1, Len(p))
           y == SubSeq(q, 1, Len(p))
<1>1. /\ x \in Seq(Keys) /\ y \in Seq(Keys) /\ Len(x) = Len(p) /\ Len(y) = Len(p)
      /\ \A i \in 1..Len(p) : x[i] = p[i] /\ y[i] = q[i]
  <2>1. Len(p) \in Nat /\ Len(q) \in Nat
    OBVIOUS
  <2>2. \A i \in 1..Len(p) : p[i] \in Keys /\ q[i] \in Keys
    OBVIOUS
  <2> QED
    BY <2>1, <2>2, SubSeqProperties
<1> HIDE DEF x, y
<1>2. (\A i \in 1..Len(p) : p[i] = q[i]) => x = y
  BY <1>1, SeqEqual
<1> QED
  BY <1>1, <1>2 DEF x, y

LEMMA PrefixBelow ==
  ASSUME NEW p \in Seq(Keys), NEW q \in Seq(Keys), NEW j \in Keys, NEW k \in Keys
  PROVE  /\ IsPrefix(<<j>> \o p, <<k>> \o q) <=> j = k /\ IsPrefix(p, q)
         /\ ~IsPrefix(<<j>> \o p, <<>>)
<1> DEFINE x == <<j>> \o p
           y == <<k>> \o q
<1>1. /\ x \in Seq(Keys) /\ y \in Seq(Keys) /\ Len(x) = Len(p) + 1 /\ Len(y) = Len(q) + 1
      /\ Len(p) \in Nat /\ Len(q) \in Nat /\ x[1] = j /\ y[1] = k
      /\ \A i \in 1..Len(p) : x[i + 1] = p[i]
      /\ \A i \in 1..Len(q) : y[i + 1] = q[i]
  OBVIOUS
<1> HIDE DEF x, y
<1>2. ~IsPrefix(x, <<>>)
  <2>1. <<>> \in Seq(Keys) /\ Len(<<>>) = 0
    OBVIOUS
  <2>2. IsPrefix(x, <<>>) => Len(x) <= Len(<<>>)
    BY <1>1, <2>1, PrefixMeans
  <2> QED
    BY <1>1, <2>1, <2>2
<1>4. ASSUME IsPrefix(x, y) PROVE j = k /\ IsPrefix(p, q)
  <2>1. Len(x) <= Len(y) /\ \A i \in 1..Len(x) : x[i] = y[i]
    BY <1>1, <1>4, PrefixMeans
  <2>2. 1 \in 1..Len(x) /\ \A i \in 1..Len(p) : i + 1 \in 1..Len(x) /\ i \in 1..Len(q)
    BY <1>1, <2>1
  <2>3. j = k /\ Len(p) <= Len(q)
    BY <1>1, <2>1, <2>2
  <2>4. ASSUME NEW i \in 1..Len(p) PROVE p[i] = q[i]
    <3>1. x[i + 1] = p[i] /\ y[i + 1] = q[i] /\ x[i + 1] = y[i + 1]
      BY <1>1, <2>1, <2>2
    <3> QED
      BY <3>1
  <2> QED
    BY <2>3, <2>4, PrefixMeans
<1>5. ASSUME j = k, IsPrefix(p, q) PROVE IsPrefix(x, y)
  <2>1. Len(p) <= Len(q) /\ \A i \in 1..Len(p) : p[i] = q[i]
    BY <1>5, PrefixMeans
  <2>2. ASSUME NEW i \in 1..Len(x) PROVE x[i] = y[i]
    <3>1. CASE i = 1
      BY <1>1, <1>5, <3>1
    <3>2. CASE i # 1
      <4>1. i - 1 \in 1..Len(p) /\ i - 1 \in 1..Len(q) /\ (i - 1) + 1 = i
        BY <1>1, <2>1, <3>2
      <4>2. x[(i - 1) + 1] = p[i - 1] /\ y[(i - 1) + 1] = q[i - 1]
        BY <1>1, <4>1
      <4> QED
        BY <2>1, <4>1, <4>2
    <3> QED
      BY <3>1, <3>2
  <2>3. Len(x) <= Len(y)
    BY <1>1, <2>1
  <2> QED
    BY <1>1, <2>2, <2>3, PrefixMeans
<1> QED
  BY <1>2, <1>4, <1>5 DEF x, y

LEMMA EmptyPrefix == ASSUME NEW p \in Seq(Keys) PROVE IsPrefix(<<>>, p)
<1>1. <<>> \in Seq(Keys) /\ Len(<<>>) = 0 /\ Len(p) \in Nat /\ 1..0 = {}
  OBVIOUS
<1>2. IsPrefix(<<>>, p) <=> Len(<<>>) <= Len(p) /\ \A i \in 1..Len(<<>>) : <<>>[i] = p[i]
  BY <1>1, PrefixMeans
<1> QED
  BY <1>1, <1>2

LEMMA GivesWayBelow ==
  ASSUME NEW s \in Setting, NEW t \in Setting, NEW j \in Keys, NEW k \in Keys
  PROVE  /\ GivesWay(Below(j, s), Below(k, t)) <=> j = k /\ GivesWay(s, t)
         /\ ~GivesWay(Below(j, s), Mark)
         /\ \A l : l # {} => GivesWay(Below(j, s), At(<<>>, l)) /\ GivesWay(At(<<>>, l), Below(k, t))
<1>1. s.path \in Seq(Keys) /\ t.path \in Seq(Keys)
  BY DEF Setting
<1>2. /\ Below(j, s).path = <<j>> \o s.path /\ Below(j, s).leaf = s.leaf
      /\ Below(k, t).path = <<k>> \o t.path /\ Below(k, t).leaf = t.leaf
      /\ <<j>> \o s.path \in Seq(Keys) /\ <<k>> \o t.path \in Seq(Keys)
  BY SettingsBelow DEF Setting
<1>3. \A l : At(<<>>, l).path = <<>> /\ At(<<>>, l).leaf = l
  BY DEF At
<1>4. Mark.path = <<>> /\ Mark.leaf = {}
  BY <1>3 DEF Mark
<1>5. /\ IsPrefix(<<j>> \o s.path, <<k>> \o t.path) <=> j = k /\ IsPrefix(s.path, t.path)
      /\ ~IsPrefix(<<j>> \o s.path, <<>>)
  BY <1>1, PrefixBelow
<1>6. IsPrefix(<<k>> \o t.path, <<j>> \o s.path) <=> k = j /\ IsPrefix(t.path, s.path)
  BY <1>1, PrefixBelow
<1>7. IsPrefix(<<>>, <<j>> \o s.path)
  BY <1>2, EmptyPrefix
<1>8. IsPrefix(<<>>, <<k>> \o t.path)
  BY <1>2, EmptyPrefix
<1> QED
  BY <1>2, <1>3, <1>4, <1>5, <1>6, <1>7, <1>8 DEF GivesWay

\* The settings of a section: itself, and those of what is below its keys.
LEMMA SectionSettings ==
  ASSUME NEW d \in Depths, NEW t \in Tree[d], Section(t)
  PROVE  /\ d - 1 \in Depths /\ DOMAIN t \subseteq Keys /\ Mark \in Settings[d][t]
         /\ \A k \in DOMAIN t : t[k] \in Tree[d - 1] /\ Settings[d - 1][t[k]] \subseteq Setting
         /\ \A k \in DOMAIN t : \A s \in Settings[d - 1][t[k]] : Below(k, s) \in Settings[d][t]
         /\ \A s \in Settings[d][t] : s # Mark =>
              \E k \in DOMAIN t : \E r \in Settings[d - 1][t[k]] : s = Below(k, r)
<1>1. Settings[d][t] = {Mark} \cup UNION {{Below(k, s) : s \in Settings[d - 1][t[k]]} : k \in DOMAIN t}
  BY Unfoldings DEF SettingsIn, Mark
<1>2. /\ d - 1 \in Depths /\ DOMAIN t \subseteq Keys
      /\ \A k \in DOMAIN t : t[k] \in Tree[d - 1]
  BY TreeSection
<1>3. \A k \in DOMAIN t : Settings[d - 1][t[k]] \subseteq Setting
  BY <1>2, SettingsTyped
<1> QED
  BY <1>1, <1>2, <1>3

LEMMA LeafSettings ==
  ASSUME NEW d \in Depths, NEW t \in Tree[d], ~Section(t)
  PROVE  Settings[d][t] = {At(<<>>, {t})}
  BY Unfoldings DEF SettingsIn

\* Everything gives way to a leaf at the root, and a leaf there to everything.
LEMMA RootGivesWay ==
  ASSUME NEW s \in Setting, NEW l, l # {}
  PROVE  GivesWay(s, At(<<>>, l)) /\ GivesWay(At(<<>>, l), s)
<1>1. s.path \in Seq(Keys)
  BY DEF Setting
<1>2. At(<<>>, l).path = <<>> /\ At(<<>>, l).leaf = l
  BY DEF At
<1>3. IsPrefix(<<>>, s.path)
  BY <1>1, EmptyPrefix
<1> QED
  BY <1>2, <1>3 DEF GivesWay

\* A merge overlays the settings.
LEMMA MergeOverlays ==
  \A d \in Depths : \A t, u \in Tree[d] :
    Settings[d][DeepMerge[d][<<t, u>>]] = Overlaid(Settings[d][t], Settings[d][u])
<1> DEFINE overlays(d, t, u) == Settings[d][DeepMerge[d][<<t, u>>]] = Overlaid(Settings[d][t], Settings[d][u])
           S == {d \in Depths : \A t, u \in Tree[d] : overlays(d, t, u)}
<1>1. ASSUME NEW d \in Depths, d # 0 => d - 1 \in S PROVE d \in S
  <2> SUFFICES ASSUME NEW t \in Tree[d], NEW u \in Tree[d] PROVE overlays(d, t, u)
    OBVIOUS
  <2> DEFINE m == DeepMerge[d][<<t, u>>]
  <2>0. m = Merge(t, u, DeepMerge[d - 1]) /\ m \in Tree[d]
        /\ Settings[d][t] \subseteq Setting /\ Settings[d][u] \subseteq Setting
    BY Unfoldings, MergeTyped, SettingsTyped
  <2>1. CASE ~Section(u)
    <3>1. m = u /\ Settings[d][u] = {At(<<>>, {u})}
      BY <2>0, <2>1, LeafSettings DEF Merge
    <3>2. \A s \in Settings[d][t] : GivesWay(s, At(<<>>, {u}))
      BY <2>0, RootGivesWay
    <3> QED
      BY <3>1, <3>2 DEF Overlaid
  <2>2. CASE Section(u) /\ ~Section(t)
    <3>1. m = u /\ Settings[d][t] = {At(<<>>, {t})}
      BY <2>0, <2>2, LeafSettings DEF Merge
    <3>2. Mark \in Settings[d][u]
      BY <2>2, SectionSettings
    <3>3. GivesWay(At(<<>>, {t}), Mark)
      BY <2>0, <3>2, RootGivesWay
    <3> QED
      BY <3>1, <3>2, <3>3 DEF Overlaid
  <2>3. CASE Section(t) /\ Section(u)
    <3> DEFINE below(x, k) == Settings[d - 1][x[k]]
    <3>1. /\ d # 0 /\ d - 1 \in Depths
          /\ DOMAIN t \subseteq Keys /\ \A k \in DOMAIN t : t[k] \in Tree[d - 1]
          /\ DOMAIN u \subseteq Keys /\ \A k \in DOMAIN u : u[k] \in Tree[d - 1]
      BY <2>3, TreeSection
    <3>2. /\ DOMAIN m = DOMAIN t \cup DOMAIN u
          /\ \A k \in DOMAIN t \ DOMAIN u : m[k] = t[k]
          /\ \A k \in DOMAIN u \ DOMAIN t : m[k] = u[k]
          /\ \A k \in DOMAIN t \cap DOMAIN u : m[k] = DeepMerge[d - 1][<<t[k], u[k]>>]
      BY <2>0, <2>3 DEF Merge
    <3>3. Section(m)
      <4>1. m \in [DOMAIN t \cup DOMAIN u -> Tree[d - 1]]
        <5>1. \A k \in DOMAIN t \cap DOMAIN u : m[k] \in Tree[d - 1]
          BY <3>1, <3>2, MergeTyped
        <5>2. m = [k \in DOMAIN t \cup DOMAIN u |-> m[k]]
          BY <2>0, <2>3 DEF Merge
        <5>3. \A k \in DOMAIN t \cup DOMAIN u : m[k] \in Tree[d - 1]
          BY <3>1, <3>2, <5>1
        <5> HIDE DEF m
        <5> QED
          BY <5>2, <5>3
      <4> QED
        BY <3>1, <4>1, TreeSection
    <3>4. \A k \in DOMAIN t \cap DOMAIN u : below(m, k) = Overlaid(below(t, k), below(u, k))
      <4> TAKE k \in DOMAIN t \cap DOMAIN u
      <4>1. \A x, y \in Tree[d - 1] : overlays(d - 1, x, y)
        BY <1>1, <3>1
      <4>2. overlays(d - 1, t[k], u[k])
        BY <3>1, <4>1
      <4>3. m[k] = DeepMerge[d - 1][<<t[k], u[k]>>]
        BY <3>2
      <4> HIDE DEF m
      <4> QED
        BY <4>2, <4>3
    <3> HIDE DEF m
    <3>5. /\ Mark \in Settings[d][m] /\ Mark \in Settings[d][t] /\ Mark \in Settings[d][u]
          /\ \A k \in DOMAIN m : below(m, k) \subseteq Setting /\ \A r \in below(m, k) : Below(k, r) \in Settings[d][m]
          /\ \A k \in DOMAIN t : below(t, k) \subseteq Setting /\ \A r \in below(t, k) : Below(k, r) \in Settings[d][t]
          /\ \A k \in DOMAIN u : below(u, k) \subseteq Setting /\ \A r \in below(u, k) : Below(k, r) \in Settings[d][u]
      BY <2>0, <2>3, <3>3, SectionSettings
    <3>6. ASSUME NEW k \in DOMAIN t, NEW r \in below(t, k)
          PROVE  (\A v \in Settings[d][u] : ~GivesWay(Below(k, r), v))
                   <=> (k \in DOMAIN u => \A w \in below(u, k) : ~GivesWay(r, w))
      <4>1. r \in Setting /\ k \in Keys
        BY <3>1, <3>5
      <4>2. ASSUME NEW v \in Settings[d][u], GivesWay(Below(k, r), v)
            PROVE  k \in DOMAIN u /\ \E w \in below(u, k) : GivesWay(r, w)
        <5>1. v # Mark
          BY <4>1, <4>2, GivesWayBelow
        <5>2. PICK j \in DOMAIN u : \E w \in below(u, j) : v = Below(j, w)
          BY <2>3, <5>1, SectionSettings
        <5>3. PICK w \in below(u, j) : v = Below(j, w)
          BY <5>2
        <5>4. w \in Setting /\ j \in Keys
          BY <3>1, <3>5
        <5>5. k = j /\ GivesWay(r, w)
          BY <4>1, <4>2, <5>3, <5>4, GivesWayBelow
        <5> QED
          BY <5>5
      <4>3. ASSUME k \in DOMAIN u, NEW w \in below(u, k), GivesWay(r, w)
            PROVE  \E v \in Settings[d][u] : GivesWay(Below(k, r), v)
        <5>1. w \in Setting /\ Below(k, w) \in Settings[d][u]
          BY <3>5, <4>3
        <5>2. GivesWay(Below(k, r), Below(k, w))
          BY <4>1, <4>3, <5>1, GivesWayBelow
        <5> QED
          BY <5>1, <5>2
      <4> QED
        BY <4>2, <4>3
    <3>7. ASSUME NEW s \in Settings[d][m] PROVE s \in Overlaid(Settings[d][t], Settings[d][u])
      <4>1. CASE s = Mark
        BY <3>5, <4>1 DEF Overlaid
      <4>2. CASE s # Mark
        <5>1. PICK k \in DOMAIN m : \E r \in below(m, k) : s = Below(k, r)
          BY <2>0, <3>3, <4>2, SectionSettings
        <5>2. PICK r \in below(m, k) : s = Below(k, r)
          BY <5>1
        <5>3. CASE k \in DOMAIN u /\ r \in below(u, k)
          BY <3>5, <5>2, <5>3 DEF Overlaid
        <5>4. CASE k \in DOMAIN t /\ r \in below(t, k) /\ (k \in DOMAIN u => \A w \in below(u, k) : ~GivesWay(r, w))
          BY <3>5, <3>6, <5>2, <5>4 DEF Overlaid
        <5>5. \/ k \in DOMAIN u /\ r \in below(u, k)
              \/ k \in DOMAIN t /\ r \in below(t, k) /\ (k \in DOMAIN u => \A w \in below(u, k) : ~GivesWay(r, w))
          <6>1. CASE k \in DOMAIN t \ DOMAIN u
            BY <3>2, <6>1
          <6>2. CASE k \in DOMAIN u \ DOMAIN t
            BY <3>2, <6>2
          <6>3. CASE k \in DOMAIN t \cap DOMAIN u
            <7>1. r \in Overlaid(below(t, k), below(u, k))
              BY <3>4, <6>3
            <7> QED
              BY <6>3, <7>1 DEF Overlaid
          <6> QED
            BY <3>2, <6>1, <6>2, <6>3
        <5> QED
          BY <5>3, <5>4, <5>5
      <4> QED
        BY <4>1, <4>2
    <3>8. ASSUME NEW s \in Overlaid(Settings[d][t], Settings[d][u]) PROVE s \in Settings[d][m]
      <4>1. CASE s = Mark
        BY <3>5, <4>1
      <4>2. CASE s # Mark /\ s \in Settings[d][u]
        <5>1. PICK k \in DOMAIN u : \E r \in below(u, k) : s = Below(k, r)
          BY <2>3, <4>2, SectionSettings
        <5>2. PICK r \in below(u, k) : s = Below(k, r)
          BY <5>1
        <5>3. k \in DOMAIN m /\ r \in below(m, k)
          <6>1. CASE k \in DOMAIN t
            BY <3>2, <3>4, <6>1 DEF Overlaid
          <6>2. CASE k \notin DOMAIN t
            BY <3>2, <6>2
          <6> QED
            BY <6>1, <6>2
        <5> QED
          BY <3>5, <5>2, <5>3
      <4>3. CASE s # Mark /\ s \in Settings[d][t] /\ \A v \in Settings[d][u] : ~GivesWay(s, v)
        <5>1. PICK k \in DOMAIN t : \E r \in below(t, k) : s = Below(k, r)
          BY <2>3, <4>3, SectionSettings
        <5>2. PICK r \in below(t, k) : s = Below(k, r)
          BY <5>1
        <5>3. k \in DOMAIN u => \A w \in below(u, k) : ~GivesWay(r, w)
          BY <3>6, <4>3, <5>2
        <5>4. k \in DOMAIN m /\ r \in below(m, k)
          <6>1. CASE k \in DOMAIN u
            BY <3>2, <3>4, <5>3, <6>1 DEF Overlaid
          <6>2. CASE k \notin DOMAIN u
            BY <3>2, <6>2
          <6> QED
            BY <6>1, <6>2
        <5> QED
          BY <3>5, <5>2, <5>4
      <4> QED
        BY <4>1, <4>2, <4>3 DEF Overlaid
    <3> QED
      BY <3>7, <3>8 DEF m
  <2> QED
    BY <2>1, <2>2, <2>3
<1> HIDE DEF S
<1>2. \A d \in Depths : d \in S
  BY <1>1, DepthInduction
<1> QED
  BY <1>2 DEF S

\* What two trees that agree on what is a section give way to is a leaf for a leaf.
Agreed(s, t) == s.path = t.path /\ s.leaf # {} /\ t.leaf # {}

LEMMA ConflictsMean ==
  \A d \in Depths : \A t, u \in Tree[d] : Conflicts[d][<<t, u>>] = {} =>
    \A x \in Settings[d][t], y \in Settings[d][u] : GivesWay(x, y) => Agreed(x, y)
<1> DEFINE agree(d, t, u) == Conflicts[d][<<t, u>>] = {} =>
             \A x \in Settings[d][t], y \in Settings[d][u] : GivesWay(x, y) => Agreed(x, y)
           S == {d \in Depths : \A t, u \in Tree[d] : agree(d, t, u)}
<1>1. ASSUME NEW d \in Depths, d # 0 => d - 1 \in S PROVE d \in S
  <2> SUFFICES ASSUME NEW t \in Tree[d], NEW u \in Tree[d], Conflicts[d][<<t, u>>] = {},
                      NEW x \in Settings[d][t], NEW y \in Settings[d][u], GivesWay(x, y)
               PROVE  Agreed(x, y)
    OBVIOUS
  <2>1. Clashes(t, u, Conflicts[d - 1]) = {}
    BY Unfoldings
  <2>2. Section(t) = Section(u)
    BY <2>1 DEF Clashes, Section
  <2>3. CASE ~Section(t)
    <3>1. x = At(<<>>, {t})
      BY <2>3, LeafSettings
    <3>2. y = At(<<>>, {u})
      BY <2>2, <2>3, LeafSettings
    <3> QED
      BY <3>1, <3>2 DEF At, Agreed
  <2>4. CASE Section(t)
    <3>1. /\ d # 0 /\ d - 1 \in Depths /\ DOMAIN t \subseteq Keys
          /\ \A k \in DOMAIN t : t[k] \in Tree[d - 1]
      BY <2>4, TreeSection
    <3>2. DOMAIN u \subseteq Keys /\ \A k \in DOMAIN u : u[k] \in Tree[d - 1]
      BY <2>2, <2>4, TreeSection
    <3>3. x # Mark => \E j \in DOMAIN t : \E r \in Settings[d - 1][t[j]] : r \in Setting /\ x = Below(j, r)
      BY <2>4, SectionSettings
    <3>0. Section(u)
      BY <2>2, <2>4 DEF Section
    <3>4. y # Mark => \E k \in DOMAIN u : \E r \in Settings[d - 1][u[k]] : r \in Setting /\ y = Below(k, r)
      BY <3>0, SectionSettings
    <3>5. ~GivesWay(Mark, Mark)
      BY DEF GivesWay, Mark, At
    <3>6. \A k \in Keys, r \in Setting : ~GivesWay(Below(k, r), Mark) /\ ~GivesWay(Mark, Below(k, r))
      BY GivesWayBelow DEF GivesWay
    <3>7. x # Mark /\ y # Mark
      BY <3>1, <3>2, <3>3, <3>4, <3>5, <3>6
    <3>8. PICK j \in DOMAIN t : \E r \in Settings[d - 1][t[j]] : r \in Setting /\ x = Below(j, r)
      BY <3>3, <3>7
    <3>9. PICK r \in Settings[d - 1][t[j]] : r \in Setting /\ x = Below(j, r)
      BY <3>8
    <3>10. PICK k \in DOMAIN u : \E q \in Settings[d - 1][u[k]] : q \in Setting /\ y = Below(k, q)
      BY <3>4, <3>7
    <3>11. PICK q \in Settings[d - 1][u[k]] : q \in Setting /\ y = Below(k, q)
      BY <3>10
    <3>12. j \in Keys /\ k \in Keys
      BY <3>1, <3>2
    <3>13. j = k /\ GivesWay(r, q)
      BY <3>9, <3>11, <3>12, GivesWayBelow
    <3>14. Conflicts[d - 1][<<t[k], u[k]>>] = {}
      <4> DEFINE lifted(i) == {<<i>> \o p : p \in Conflicts[d - 1][<<t[i], u[i]>>]}
      <4>1. UNION {lifted(i) : i \in DOMAIN t \cap DOMAIN u} = {}
        BY <2>1, <2>4, <3>0 DEF Clashes
      <4>2. k \in DOMAIN t \cap DOMAIN u
        BY <3>13
      <4>3. \A p \in Conflicts[d - 1][<<t[k], u[k]>>] : <<k>> \o p \in lifted(k)
        OBVIOUS
      <4> HIDE DEF lifted
      <4>4. lifted(k) \subseteq UNION {lifted(i) : i \in DOMAIN t \cap DOMAIN u}
        BY <4>2
      <4> QED
        BY <4>1, <4>3, <4>4
    <3>15. t[k] \in Tree[d - 1] /\ u[k] \in Tree[d - 1]
      BY <3>1, <3>2, <3>13
    <3>16. Agreed(r, q)
      <4>1. agree(d - 1, t[k], u[k])
        BY <1>1, <3>1, <3>15
      <4> QED
        BY <3>9, <3>11, <3>13, <3>14, <4>1
    <3>17. /\ x.path = <<j>> \o r.path /\ x.leaf = r.leaf
           /\ y.path = <<k>> \o q.path /\ y.leaf = q.leaf
      BY <3>9, <3>11, <3>12, SettingsBelow
    <3> QED
      BY <3>13, <3>16, <3>17 DEF Agreed
  <2> QED
    BY <2>3, <2>4
<1> HIDE DEF S
<1>2. \A d \in Depths : d \in S
  BY <1>1, DepthInduction
<1> QED
  BY <1>2 DEF S

\* Layers of which the two upper agree can be overlaid in either order: what gave
\* way to a leaf gives way to the leaf that replaces it.
LEMMA OverlaysJoin ==
  ASSUME NEW P, NEW L, NEW V, \A t \in L, u \in V : GivesWay(t, u) => Agreed(t, u)
  PROVE  Overlaid(P, Overlaid(L, V)) = Overlaid(Overlaid(P, L), V)
<1>1. ASSUME NEW s \in P, NEW t \in L, NEW u \in V, GivesWay(s, t), GivesWay(t, u) PROVE GivesWay(s, u)
  BY <1>1 DEF Agreed, GivesWay
<1>2. ASSUME NEW s \in Overlaid(P, Overlaid(L, V)) PROVE s \in Overlaid(Overlaid(P, L), V)
  BY <1>1, <1>2 DEF Overlaid
<1>3. ASSUME NEW s \in Overlaid(Overlaid(P, L), V) PROVE s \in Overlaid(P, Overlaid(L, V))
  BY <1>3 DEF Overlaid
<1> QED
  BY <1>2, <1>3

LEMMA LayersOverlay ==
  ASSUME NEW p \in Tree[Depth], NEW l \in Tree[Depth], NEW v \in Tree[Depth],
         Conflicts[Depth][<<l, v>>] = {}
  PROVE  Settings[Depth][Layered(p, l, v)]
           = Overlaid(Overlaid(Settings[Depth][p], Settings[Depth][l]), Settings[Depth][v])
<1> DEFINE m == DeepMerge[Depth][<<l, v>>]
<1>1. Depth \in Depths
  BY LayersAssumption DEF LayersAssumption, Depths
<1>2. m \in Tree[Depth] /\ Settings[Depth][m] = Overlaid(Settings[Depth][l], Settings[Depth][v])
  BY <1>1, MergeTyped, MergeOverlays
<1>3. Settings[Depth][DeepMerge[Depth][<<p, m>>]] = Overlaid(Settings[Depth][p], Settings[Depth][m])
  BY <1>1, <1>2, MergeOverlays
<1>4. Layered(p, l, v) = DeepMerge[Depth][<<p, m>>]
  BY DEF Layered
<1>5. \A t \in Settings[Depth][l], u \in Settings[Depth][v] : GivesWay(t, u) => Agreed(t, u)
  BY <1>1, ConflictsMean
<1> HIDE DEF m
<1> QED
  BY <1>2, <1>3, <1>4, <1>5, OverlaysJoin

-----------------------------------------------------------------------------
(***************************************************************************)
(* Positions in a list.                                                    *)
(***************************************************************************)
LEMMA FirstIsLeast ==
  ASSUME NEW S \in SUBSET Nat, S # {}
  PROVE  First(S) \in S /\ \A j \in S : First(S) <= j
  BY LeastNumber DEF First

LEMMA LatestIsGreatest ==
  ASSUME NEW n \in Nat, NEW S \in SUBSET (1..n), S # {}
  PROVE  Latest(S) \in S /\ \A j \in S : j <= Latest(S)
<1> DEFINE above == {k \in Nat : \A j \in S : j <= k}
           k == First(above)
<1>1. n \in above /\ above \in SUBSET Nat
  OBVIOUS
<1>2. k \in above /\ \A j \in above : k <= j
  BY <1>1, FirstIsLeast
<1> HIDE DEF k
<1>3. k \in S
  <2> SUFFICES ASSUME k \notin S PROVE FALSE
    OBVIOUS
  <2>1. k \in Nat /\ \A j \in S : j \in Nat /\ j <= k /\ j # k /\ j >= 1
    BY <1>2
  <2>2. k - 1 \in Nat /\ \A j \in S : j <= k - 1
    <3>1. PICK j \in S : TRUE
      OBVIOUS
    <3>2. k >= 1
      BY <2>1, <3>1
    <3>3. ASSUME NEW x \in Nat, x <= k, x # k PROVE x <= k - 1
      BY <2>1, <3>3
    <3> QED
      BY <2>1, <3>2, <3>3
  <2>3. k - 1 \in above
    BY <2>2
  <2> HIDE DEF above
  <2> QED
    BY <1>2, <2>1, <2>3
<1>4. \E i \in S : \A j \in S : j <= i
  BY <1>2, <1>3
<1> QED
  BY <1>4 DEF Latest

(***************************************************************************)
(* Macros: which are there, and where each comes from.                     *)
(***************************************************************************)
LEMMA OverJoins ==
  ASSUME NEW base, NEW top
  PROVE  /\ DOMAIN Over(base, top) = DOMAIN base \cup DOMAIN top
         /\ \A m \in DOMAIN top : Over(base, top)[m] = top[m]
         /\ \A m \in DOMAIN base \ DOMAIN top : Over(base, top)[m] = base[m]
  BY DEF Over

\* The owner's macros are there, and theirs.
Untouched(macros) == \A m \in c.localMacros : m \in DOMAIN macros /\ macros[m] = Layer("local")

Provisioned(dirs, macros) == \A m \in DOMAIN macros : macros[m].kind = "directory" => macros[m].dir \in dirs

\* The macros of runtimes, where they stand for a directory or for what the owner says.
Runnable(runtimes, macros) ==
  \A m \in runtimes \cap DOMAIN macros : macros[m].kind \in {"directory", "local"}

LEMMA UnlessKeeps ==
  ASSUME NEW macros, NEW more
  PROVE  /\ DOMAIN Unless(macros, more) = DOMAIN macros \cup (DOMAIN more \ c.localMacros)
         /\ Untouched(macros) => Untouched(Unless(macros, more))
         /\ \A dirs : Provisioned(dirs, macros) /\ Provisioned(dirs, more) => Provisioned(dirs, Unless(macros, more))
         /\ \A runtimes : Runnable(runtimes, macros) /\ Runnable(runtimes, more) => Runnable(runtimes, Unless(macros, more))
<1> DEFINE others == Without(more, c.localMacros)
<1>1. DOMAIN others = DOMAIN more \ c.localMacros /\ \A m \in DOMAIN others : others[m] = more[m]
  BY DEF Without
<1>2. /\ DOMAIN Over(macros, others) = DOMAIN macros \cup DOMAIN others
      /\ \A m \in DOMAIN others : Over(macros, others)[m] = others[m]
      /\ \A m \in DOMAIN macros \ DOMAIN others : Over(macros, others)[m] = macros[m]
  BY OverJoins
<1> HIDE DEF others
<1>3. Unless(macros, more) = Over(macros, others)
  BY DEF Unless, others
<1> QED
  BY <1>1, <1>2, <1>3 DEF Untouched, Provisioned, Runnable

\* What the enabled variants are given, the owner aside, replaces what was there.
LEMMA UnlessGives ==
  ASSUME NEW macros, NEW more, Untouched(macros), NEW runtimes, runtimes \subseteq DOMAIN more,
         \A m \in DOMAIN more : more[m].kind = "directory"
  PROVE  runtimes \subseteq DOMAIN Unless(macros, more) /\ Runnable(runtimes, Unless(macros, more))
<1> DEFINE others == Without(more, c.localMacros)
<1>1. DOMAIN others = DOMAIN more \ c.localMacros /\ \A m \in DOMAIN others : others[m] = more[m]
  BY DEF Without
<1>2. /\ DOMAIN Over(macros, others) = DOMAIN macros \cup DOMAIN others
      /\ \A m \in DOMAIN others : Over(macros, others)[m] = others[m]
      /\ \A m \in DOMAIN macros \ DOMAIN others : Over(macros, others)[m] = macros[m]
  BY OverJoins
<1> HIDE DEF others
<1>3. Unless(macros, more) = Over(macros, others)
  BY DEF Unless, others
<1>4. ASSUME NEW m \in runtimes
      PROVE  m \in DOMAIN Unless(macros, more) /\ Unless(macros, more)[m].kind \in {"directory", "local"}
  <2>1. CASE m \in c.localMacros
    <3>1. m \in DOMAIN macros \ DOMAIN others /\ macros[m] = Layer("local")
      BY <1>1, <2>1 DEF Untouched
    <3>2. Unless(macros, more)[m] = Layer("local")
      BY <1>2, <1>3, <3>1
    <3> QED
      BY <1>2, <1>3, <3>1, <3>2 DEF Layer
  <2>2. CASE m \notin c.localMacros
    <3>1. m \in DOMAIN others /\ others[m] = more[m] /\ more[m].kind = "directory"
      BY <1>1, <1>4, <2>2
    <3>2. Unless(macros, more)[m] = more[m]
      BY <1>2, <1>3, <3>1
    <3> QED
      BY <1>2, <1>3, <3>1, <3>2
  <2> QED
    BY <2>1, <2>2
<1> QED
  BY <1>4 DEF Runnable

LEMMA UnsetKeeps ==
  ASSUME NEW macros, NEW more
  PROVE  /\ DOMAIN Unset(macros, more) = DOMAIN macros \cup (DOMAIN more \ c.localMacros)
         /\ Untouched(macros) => Untouched(Unset(macros, more))
         /\ \A dirs : Provisioned(dirs, macros) /\ Provisioned(dirs, more) => Provisioned(dirs, Unset(macros, more))
         /\ \A runtimes : Runnable(runtimes, macros) /\ Runnable(runtimes, more) => Runnable(runtimes, Unset(macros, more))
<1> DEFINE others == Without(more, c.localMacros)
<1>1. DOMAIN others = DOMAIN more \ c.localMacros /\ \A m \in DOMAIN others : others[m] = more[m]
  BY DEF Without
<1> HIDE DEF others
<1>2. /\ DOMAIN Over(others, macros) = DOMAIN macros \cup DOMAIN others
      /\ \A m \in DOMAIN macros : Over(others, macros)[m] = macros[m]
      /\ \A m \in DOMAIN others \ DOMAIN macros : Over(others, macros)[m] = others[m]
  BY DEF Over
<1>3. Unset(macros, more) = Over(others, macros)
  BY DEF Unset, others
<1> QED
  BY <1>1, <1>2, <1>3 DEF Untouched, Provisioned, Runnable

LEMMA UnsetStays ==
  ASSUME NEW macros, NEW more, NEW runtimes, runtimes \subseteq DOMAIN macros, Runnable(runtimes, macros)
  PROVE  Runnable(runtimes, Unset(macros, more))
<1> DEFINE others == Without(more, c.localMacros)
<1> HIDE DEF others
<1>1. \A m \in DOMAIN macros : Over(others, macros)[m] = macros[m]
  BY DEF Over
<1>2. Unset(macros, more) = Over(others, macros)
  BY DEF Unset, others
<1> QED
  BY <1>1, <1>2 DEF Runnable

LEMMA OnlyOne ==
  ASSUME NEW m, NEW target
  PROVE  DOMAIN Only(m, target) = {m} /\ Only(m, target)[m] = target
  BY DEF Only

LEMMA OnlyProvisioned ==
  ASSUME NEW m, NEW target, NEW dirs, target.kind = "directory" => target.dir \in dirs
  PROVE  Provisioned(dirs, Only(m, target))
  BY DEF Provisioned, Only

LEMMA OnlyRunnable ==
  ASSUME NEW m, NEW target, target.kind \in {"directory", "local"}
  PROVE  \A runtimes : Runnable(runtimes, Only(m, target))
  BY DEF Runnable, Only

LEMMA StateKeeps ==
  ASSUME NEW macros, Untouched(macros)
  PROVE  /\ Untouched(FromState(macros)) /\ DOMAIN macros \subseteq DOMAIN FromState(macros)
         /\ \A dirs : Provisioned(dirs, macros) => Provisioned(dirs, FromState(macros))
<1> DEFINE installed == {i \in DOMAIN c.state : c.state[i].exe}
           for(b) == {i \in installed : c.state[i].backend = b}
           runtime(i) == Binary(c.state[i].name)
           perBackend == [m \in {<<"server", c.state[i].backend>> : i \in installed} |-> runtime(Latest(for(m[2])))]
           server == IF installed = {} THEN Empty
                     ELSE Only(<<"server">>, runtime(First(IF for("cpu") # {} THEN for("cpu") ELSE installed)))
<1>1. \A i : runtime(i).kind = "binary"
  BY DEF Binary
<1> HIDE DEF runtime
<1>2. \A dirs : Provisioned(dirs, perBackend)
  BY <1>1 DEF Provisioned
<1>3. \A dirs : Provisioned(dirs, server)
  <2>1. \A dirs : Provisioned(dirs, Empty)
    BY DEF Provisioned, Empty
  <2> DEFINE i == First(IF for("cpu") # {} THEN for("cpu") ELSE installed)
  <2>2. \A dirs : Provisioned(dirs, Only(<<"server">>, runtime(i)))
    BY <1>1, OnlyProvisioned
  <2> QED
    BY <2>1, <2>2
<1>4. FromState(macros) = Unless(Unless(macros, perBackend), server)
  BY DEF FromState, runtime
<1> HIDE DEF perBackend, server
<1> DEFINE backends == Unless(macros, perBackend)
<1>5. /\ Untouched(backends) /\ DOMAIN macros \subseteq DOMAIN backends
      /\ \A dirs : Provisioned(dirs, macros) => Provisioned(dirs, backends)
  BY <1>2, UnlessKeeps
<1> HIDE DEF backends
<1>6. /\ Untouched(Unless(backends, server)) /\ DOMAIN backends \subseteq DOMAIN Unless(backends, server)
      /\ \A dirs : Provisioned(dirs, backends) => Provisioned(dirs, Unless(backends, server))
  BY <1>3, <1>5, UnlessKeeps
<1> QED
  BY <1>4, <1>5, <1>6 DEF backends

LEMMA NativeKeeps ==
  ASSUME NEW macros, NEW b, Untouched(macros)
  PROVE  /\ Untouched(Aliased(WithNative(macros, b), b)) /\ DOMAIN macros \subseteq DOMAIN Aliased(WithNative(macros, b), b)
         /\ \A runtimes : Runnable(runtimes, macros) => Runnable(runtimes, Aliased(WithNative(macros, b), b))
         /\ \A dirs : Provisioned(dirs, macros) /\ <<b, "native">> \in dirs => Provisioned(dirs, Aliased(WithNative(macros, b), b))
<1> DEFINE native == Only(Native(b), Directory(<<b, "native">>))
           built == WithNative(macros, b)
           alias == Only(<<"server", b>>, built[Native(b)])
<1>1. /\ DOMAIN native = {Native(b)} /\ native[Native(b)].kind = "directory"
      /\ \A dirs : <<b, "native">> \in dirs => Provisioned(dirs, native)
      /\ \A runtimes : Runnable(runtimes, native)
  <2>1. DOMAIN native = {Native(b)} /\ native[Native(b)] = Directory(<<b, "native">>)
    BY OnlyOne
  <2>2. Directory(<<b, "native">>).kind = "directory" /\ Directory(<<b, "native">>).dir = <<b, "native">>
    BY DEF Directory
  <2>3. \A runtimes : Runnable(runtimes, native)
    BY <2>2, OnlyRunnable
  <2> QED
    BY <2>1, <2>2, <2>3, OnlyProvisioned
<1>2. built = Unless(macros, native)
  BY DEF WithNative
<1> HIDE DEF native, built
<1>3. /\ DOMAIN built = DOMAIN macros \cup (DOMAIN native \ c.localMacros) /\ Untouched(built)
      /\ \A dirs : Provisioned(dirs, macros) /\ <<b, "native">> \in dirs => Provisioned(dirs, built)
      /\ \A runtimes : Runnable(runtimes, macros) => Runnable(runtimes, built)
  BY <1>1, <1>2, UnlessKeeps
<1>4. Native(b) \in DOMAIN built /\ built[Native(b)].kind \in {"directory", "local"}
  <2>1. {Native(b)} \subseteq DOMAIN native /\ \A m \in DOMAIN native : native[m].kind = "directory"
    BY <1>1
  <2>2. {Native(b)} \subseteq DOMAIN built /\ Runnable({Native(b)}, built)
    BY <1>2, <2>1, UnlessGives
  <2> QED
    BY <2>2 DEF Runnable
<1>5. /\ \A dirs : Provisioned(dirs, built) => Provisioned(dirs, alias)
      /\ \A runtimes : Runnable(runtimes, alias)
  <2>1. \A dirs : Provisioned(dirs, built) => Provisioned(dirs, alias)
    BY <1>4, OnlyProvisioned DEF Provisioned
  <2>2. \A runtimes : Runnable(runtimes, alias)
    BY <1>4, OnlyRunnable
  <2> QED
    BY <2>1, <2>2
<1>6. Aliased(WithNative(macros, b), b) = Unless(built, alias)
  BY DEF Aliased, built
<1> HIDE DEF alias
<1>7. /\ Untouched(Unless(built, alias)) /\ DOMAIN built \subseteq DOMAIN Unless(built, alias)
      /\ \A dirs : Provisioned(dirs, built) => Provisioned(dirs, Unless(built, alias))
      /\ \A runtimes : Runnable(runtimes, built) => Runnable(runtimes, Unless(built, alias))
  <2>1. /\ Untouched(Unless(built, alias))
        /\ DOMAIN Unless(built, alias) = DOMAIN built \cup (DOMAIN alias \ c.localMacros)
    BY <1>3, UnlessKeeps
  <2>2. \A dirs : Provisioned(dirs, built) => Provisioned(dirs, Unless(built, alias))
    BY <1>5, UnlessKeeps
  <2>3. \A runtimes : Runnable(runtimes, built) => Runnable(runtimes, Unless(built, alias))
    BY <1>5, UnlessKeeps
  <2> QED
    BY <2>1, <2>2, <2>3
<1> QED
  BY <1>3, <1>6, <1>7

\* In Docker, with the native builds in the catalog.
Natives == {<<"rocm", "native">>, <<"vulkan", "native">>, <<"cpu">>}

LEMMA PathsAre ==
  /\ DOMAIN Paths = {<<"model-path">>, <<"mmproj-path">>}
  /\ \A dirs : Provisioned(dirs, Paths)
  /\ Runnable(Runtimes, Paths)
  BY DEF Paths, Provisioned, Runnable, Runtimes, Layer

LEMMA DockerKeeps ==
  ASSUME NEW macros, Untouched(macros)
  PROVE  /\ Untouched(ForDocker(macros)) /\ DOMAIN macros \cup DOMAIN Paths \subseteq DOMAIN ForDocker(macros)
         /\ Natives \subseteq Filled /\ Provisioned(Filled, macros) => Provisioned(Filled, ForDocker(macros))
         /\ Runtimes \subseteq DOMAIN ForDocker(macros) /\ Runnable(Runtimes, ForDocker(macros))
<1>1. /\ Provisioned(Filled, EnabledVariants) /\ Runtimes \subseteq DOMAIN EnabledVariants
      /\ \A m \in DOMAIN EnabledVariants : EnabledVariants[m].kind = "directory"
  BY DEF Provisioned, Filled, EnabledVariants, Directory, Range, Runtimes
<1> DEFINE enabled == Unless(macros, EnabledVariants)
           rocm == WithRocm(enabled)
           vulkan == WithVulkan(rocm)
           server == Only(<<"server">>, Directory(<<"cpu">>))
           complete == Unless(vulkan, server)
<1>2. /\ Untouched(enabled) /\ DOMAIN macros \subseteq DOMAIN enabled
      /\ Provisioned(Filled, macros) => Provisioned(Filled, enabled)
      /\ Runtimes \subseteq DOMAIN enabled /\ Runnable(Runtimes, enabled)
  <2>1. /\ Untouched(enabled) /\ DOMAIN macros \subseteq DOMAIN enabled
        /\ Provisioned(Filled, macros) => Provisioned(Filled, enabled)
    BY <1>1, UnlessKeeps
  <2>2. Runtimes \subseteq DOMAIN enabled /\ Runnable(Runtimes, enabled)
    BY <1>1, UnlessGives
  <2> QED
    BY <2>1, <2>2
<1> HIDE DEF enabled
<1>3. /\ Untouched(rocm) /\ DOMAIN enabled \subseteq DOMAIN rocm
      /\ Natives \subseteq Filled /\ Provisioned(Filled, enabled) => Provisioned(Filled, rocm)
      /\ Runnable(Runtimes, rocm)
  BY <1>2, NativeKeeps DEF WithRocm, Natives
<1> HIDE DEF rocm
<1>4. /\ Untouched(vulkan) /\ DOMAIN rocm \subseteq DOMAIN vulkan
      /\ Natives \subseteq Filled /\ Provisioned(Filled, rocm) => Provisioned(Filled, vulkan)
      /\ Runnable(Runtimes, vulkan)
  BY <1>3, NativeKeeps DEF WithVulkan, Natives
<1> HIDE DEF vulkan
<1>5. (Natives \subseteq Filled => Provisioned(Filled, server)) /\ Runnable(Runtimes, server)
  <2>1. Directory(<<"cpu">>).kind = "directory" /\ Directory(<<"cpu">>).dir = <<"cpu">>
    BY DEF Directory
  <2>2. Natives \subseteq Filled => Provisioned(Filled, server)
    BY <2>1, OnlyProvisioned DEF Natives
  <2>3. Runnable(Runtimes, server)
    BY <2>1, OnlyRunnable
  <2> QED
    BY <2>2, <2>3
<1>6. ForDocker(macros) = Unless(complete, Paths)
  BY DEF ForDocker, enabled, rocm, vulkan
<1> HIDE DEF server
<1>7. /\ Untouched(complete) /\ DOMAIN vulkan \subseteq DOMAIN complete
      /\ Natives \subseteq Filled /\ Provisioned(Filled, vulkan) => Provisioned(Filled, complete)
      /\ Runnable(Runtimes, complete)
  BY <1>4, <1>5, UnlessKeeps
<1> HIDE DEF complete
<1>8. /\ Untouched(Unless(complete, Paths))
      /\ DOMAIN Unless(complete, Paths) = DOMAIN complete \cup (DOMAIN Paths \ c.localMacros)
      /\ Provisioned(Filled, complete) => Provisioned(Filled, Unless(complete, Paths))
      /\ Runnable(Runtimes, Unless(complete, Paths))
  BY <1>7, PathsAre, UnlessKeeps
<1>9. c.localMacros \subseteq DOMAIN complete
  BY <1>7 DEF Untouched
<1>10. DOMAIN macros \cup DOMAIN Paths \subseteq DOMAIN Unless(complete, Paths)
  BY <1>2, <1>3, <1>4, <1>7, <1>8, <1>9
<1>11. Runtimes \subseteq DOMAIN Unless(complete, Paths)
  BY <1>2, <1>3, <1>4, <1>7, <1>8
<1>12. Natives \subseteq Filled /\ Provisioned(Filled, macros) => Provisioned(Filled, Unless(complete, Paths))
  BY <1>2, <1>3, <1>4, <1>7, <1>8
<1> QED
  BY <1>6, <1>8, <1>10, <1>11, <1>12

LEMMA MacrosKept ==
  /\ Untouched(Macros) /\ DOMAIN PresetMacros \subseteq DOMAIN Macros
  /\ <<"server-args">> \in DOMAIN Macros /\ (Placed => DOMAIN Paths \subseteq DOMAIN Macros)
  /\ c.docker /\ Natives \subseteq Filled => Provisioned(Filled, Macros)
  /\ c.docker => Runtimes \subseteq DOMAIN Macros /\ Runnable(Runtimes, Macros)
<1>1. /\ Untouched(Merged) /\ \A dirs : Provisioned(dirs, Merged)
      /\ DOMAIN Merged = c.projectMacros \cup c.localMacros
  BY DEF Untouched, Merged, Provisioned, Layer
<1> DEFINE first == Unless(Merged, ServerArgs)
           host == FromState(first)
           placed == IF c.modelDir THEN Unless(host, Paths) ELSE host
           before == IF c.docker THEN ForDocker(placed) ELSE placed
<1>2. DOMAIN ServerArgs = {<<"server-args">>} /\ \A dirs : Provisioned(dirs, ServerArgs)
  <2>1. Layer("args").kind = "args"
    BY DEF Layer
  <2> QED
    BY <2>1, OnlyOne, OnlyProvisioned DEF ServerArgs
<1>3. /\ Untouched(first) /\ \A dirs : Provisioned(dirs, first)
      /\ DOMAIN first = DOMAIN Merged \cup ({<<"server-args">>} \ c.localMacros)
  BY <1>1, <1>2, UnlessKeeps
<1> HIDE DEF first
<1>4. /\ Untouched(host) /\ (\A dirs : Provisioned(dirs, host))
      /\ DOMAIN Merged \cup {<<"server-args">>} \subseteq DOMAIN host
  <2>1. DOMAIN first \subseteq DOMAIN host /\ Untouched(host) /\ \A dirs : Provisioned(dirs, host)
    BY <1>3, StateKeeps
  <2> QED
    BY <1>1, <1>3, <2>1
<1> HIDE DEF host
<1>5. /\ Untouched(placed) /\ Provisioned(Filled, placed) /\ DOMAIN host \subseteq DOMAIN placed
      /\ c.modelDir => DOMAIN Paths \subseteq DOMAIN placed
  <2>1. /\ Untouched(Unless(host, Paths)) /\ Provisioned(Filled, Unless(host, Paths))
        /\ DOMAIN Unless(host, Paths) = DOMAIN host \cup (DOMAIN Paths \ c.localMacros)
    BY <1>4, PathsAre, UnlessKeeps
  <2>2. c.localMacros \subseteq DOMAIN host
    BY <1>4 DEF Untouched
  <2> QED
    BY <1>4, <2>1, <2>2
<1> HIDE DEF placed
<1>6. /\ Untouched(before) /\ DOMAIN placed \subseteq DOMAIN before
      /\ c.docker => DOMAIN Paths \subseteq DOMAIN before
      /\ c.docker /\ Natives \subseteq Filled => Provisioned(Filled, before)
      /\ c.docker => Runtimes \subseteq DOMAIN before /\ Runnable(Runtimes, before)
  <2>1. CASE c.docker
    <3>1. before = ForDocker(placed)
      BY <2>1
    <3> HIDE DEF before
    <3>2. /\ Untouched(ForDocker(placed)) /\ DOMAIN placed \cup DOMAIN Paths \subseteq DOMAIN ForDocker(placed)
          /\ Natives \subseteq Filled => Provisioned(Filled, ForDocker(placed))
          /\ Runtimes \subseteq DOMAIN ForDocker(placed) /\ Runnable(Runtimes, ForDocker(placed))
      BY <1>5, DockerKeeps
    <3> QED
      BY <3>1, <3>2
  <2>2. CASE ~c.docker
    BY <1>5, <2>2
  <2> QED
    BY <2>1, <2>2
<1> HIDE DEF before
<1>7. Macros = Unset(before, PresetMacros)
  BY DEF Macros, before, placed, host, first
<1>8. Provisioned(Filled, PresetMacros)
  BY DEF Provisioned, PresetMacros, Layer
<1>9. /\ DOMAIN Macros = DOMAIN before \cup (DOMAIN PresetMacros \ c.localMacros)
      /\ Untouched(Macros) /\ (Provisioned(Filled, before) => Provisioned(Filled, Macros))
  BY <1>6, <1>7, <1>8, UnsetKeeps
<1>10. c.localMacros \subseteq DOMAIN before
  BY <1>6 DEF Untouched
<1>11. Placed => DOMAIN Paths \subseteq DOMAIN Macros
  BY <1>1, <1>4, <1>5, <1>6, <1>9 DEF Placed
<1>12. ASSUME Runtimes \subseteq DOMAIN before, Runnable(Runtimes, before) PROVE Runnable(Runtimes, Macros)
  BY <1>7, <1>12, UnsetStays
<1> QED
  BY <1>4, <1>5, <1>6, <1>9, <1>10, <1>11, <1>12

\* What llama-swap has a model of.
IsServed(f) == Swapped(f) /\ Framework(f) = "llama_cpp"

LEMMA AllMacros ==
  /\ Untouched(WithContexts(Macros)) /\ DOMAIN PresetMacros \subseteq DOMAIN WithContexts(Macros)
  /\ <<"server-args">> \in DOMAIN WithContexts(Macros) /\ (Placed => DOMAIN Paths \subseteq DOMAIN WithContexts(Macros))
  /\ \A i \in Commanded : Explicit(i) = <<>> => ContextMacro(i) \in DOMAIN WithContexts(Macros)
  /\ c.docker /\ Natives \subseteq Filled => Provisioned(Filled, WithContexts(Macros))
  /\ c.docker => Runtimes \subseteq DOMAIN WithContexts(Macros) /\ Runnable(Runtimes, WithContexts(Macros))
<1> DEFINE contexts == [m \in {ContextMacro(i) : i \in {i \in Commanded : Explicit(i) = <<>>}} |-> Layer("context")]
           macros == Macros
           all == Unset(macros, contexts)
<1>1. WithContexts(macros) = all
  BY DEF WithContexts
<1>2. Provisioned(Filled, contexts)
  BY DEF Provisioned, Layer
<1>3. \A i \in Commanded : Explicit(i) = <<>> => ContextMacro(i) \in DOMAIN contexts
  OBVIOUS
<1> HIDE DEF contexts
<1>4. /\ Untouched(macros) /\ DOMAIN PresetMacros \subseteq DOMAIN macros
      /\ <<"server-args">> \in DOMAIN macros /\ (Placed => DOMAIN Paths \subseteq DOMAIN macros)
      /\ c.docker /\ Natives \subseteq Filled => Provisioned(Filled, macros)
      /\ c.docker => Runtimes \subseteq DOMAIN macros /\ Runnable(Runtimes, macros)
  BY MacrosKept
<1> HIDE DEF macros
<1>5. /\ DOMAIN all = DOMAIN macros \cup (DOMAIN contexts \ c.localMacros) /\ Untouched(all)
      /\ Provisioned(Filled, macros) => Provisioned(Filled, all)
  BY <1>2, <1>4, UnsetKeeps
<1>6. c.localMacros \subseteq DOMAIN macros
  BY <1>4 DEF Untouched
<1>7. c.docker => Runtimes \subseteq DOMAIN macros /\ Runnable(Runtimes, all)
  BY <1>4, UnsetStays
<1> HIDE DEF all
<1>8. DOMAIN macros \subseteq DOMAIN all /\ DOMAIN contexts \subseteq DOMAIN all
  BY <1>5, <1>6
<1>9. /\ Untouched(WithContexts(macros)) /\ DOMAIN PresetMacros \subseteq DOMAIN WithContexts(macros)
      /\ <<"server-args">> \in DOMAIN WithContexts(macros) /\ (Placed => DOMAIN Paths \subseteq DOMAIN WithContexts(macros))
      /\ \A i \in Commanded : Explicit(i) = <<>> => ContextMacro(i) \in DOMAIN WithContexts(macros)
      /\ c.docker /\ Natives \subseteq Filled => Provisioned(Filled, WithContexts(macros))
      /\ c.docker => Runtimes \subseteq DOMAIN WithContexts(macros) /\ Runnable(Runtimes, WithContexts(macros))
  BY <1>1, <1>3, <1>4, <1>5, <1>7, <1>8
<1> QED
  BY <1>9 DEF macros

(***************************************************************************)
(* The profiles: Profile is what its definition says, since a stack only   *)
(* grows and the profiles are finitely many.                               *)
(***************************************************************************)
Profiles == DOMAIN c.profiles

\* The profiles by name, where f has those of a longer stack.
Unfolded(f, stack) ==
  [name \in Profiles |->
     IF name \in stack THEN Failed
     ELSE Joined(name, [i \in DOMAIN Extends(name) |-> Parent(f[stack \cup {name}], Extends(name)[i])])]

LEMMA UnfoldedBeyond ==
  ASSUME NEW f, NEW g, NEW stack, \A name \in Profiles \ stack : f[stack \cup {name}] = g[stack \cup {name}]
  PROVE  Unfolded(f, stack) = Unfolded(g, stack)
<1>1. ASSUME NEW name \in Profiles, name \notin stack
      PROVE  [i \in DOMAIN Extends(name) |-> Parent(f[stack \cup {name}], Extends(name)[i])]
               = [i \in DOMAIN Extends(name) |-> Parent(g[stack \cup {name}], Extends(name)[i])]
  BY <1>1
<1> QED
  BY <1>1 DEF Unfolded

LEMMA StackGrows ==
  ASSUME IsFiniteSet(Profiles), NEW stack \in SUBSET Profiles, NEW name \in Profiles \ stack
  PROVE  /\ Cardinality(Profiles \ stack) \in Nat
         /\ stack \cup {name} \in SUBSET Profiles
         /\ Cardinality(Profiles \ (stack \cup {name})) = Cardinality(Profiles \ stack) - 1
<1> DEFINE rest == Profiles \ stack
<1>1. IsFiniteSet(rest) /\ rest \ {name} = Profiles \ (stack \cup {name})
  BY FS_Subset
<1>2. Cardinality(rest) \in Nat /\ Cardinality(rest \ {name}) = Cardinality(rest) - 1
  BY <1>1, FS_CardinalityType, FS_RemoveElement
<1> QED
  BY <1>1, <1>2

LEMMA ProfileUnfolds ==
  ASSUME IsFiniteSet(Profiles)
  PROVE  \A stack \in SUBSET Profiles : Profile[stack] = Unfolded(Profile, stack)
<1> DEFINE left(stack) == Cardinality(Profiles \ stack)
           S == {k \in Nat : \E f : \A stack \in SUBSET Profiles : left(stack) < k => f[stack] = Unfolded(f, stack)}
<1>1. \A stack \in SUBSET Profiles : left(stack) \in Nat /\ left(stack) <= Cardinality(Profiles)
  <2> TAKE stack \in SUBSET Profiles
  <2>1. IsFiniteSet(Profiles \ stack) /\ Cardinality(Profiles \ stack) <= Cardinality(Profiles)
    BY FS_Subset
  <2> QED
    BY <2>1, FS_CardinalityType
<1>2. \A stack \in SUBSET Profiles : \A name \in Profiles \ stack :
        stack \cup {name} \in SUBSET Profiles /\ left(stack \cup {name}) = left(stack) - 1
  BY StackGrows
<1> HIDE DEF left
<1>3. 0 \in S
  BY <1>1
<1>4. ASSUME NEW k \in Nat, k \in S PROVE k + 1 \in S
  <2>1. PICK f : \A stack \in SUBSET Profiles : left(stack) < k => f[stack] = Unfolded(f, stack)
    BY <1>4
  <2> DEFINE g == [stack \in SUBSET Profiles |-> IF left(stack) < k THEN f[stack] ELSE Unfolded(f, stack)]
  <2>2. ASSUME NEW stack \in SUBSET Profiles, left(stack) < k + 1 PROVE g[stack] = Unfolded(g, stack)
    <3>1. \A name \in Profiles \ stack : f[stack \cup {name}] = g[stack \cup {name}]
      BY <1>1, <1>2, <2>2
    <3>2. Unfolded(f, stack) = Unfolded(g, stack)
      <4> HIDE DEF g
      <4> QED
        BY <3>1, UnfoldedBeyond
    <3>3. g[stack] = Unfolded(f, stack)
      BY <2>1
    <3> QED
      BY <3>2, <3>3
  <2> HIDE DEF g
  <2> QED
    BY <2>2
<1>5. \A k \in Nat : k \in S
  <2> HIDE DEF S
  <2> QED
    BY <1>3, <1>4, SetInduction
<1>6. Cardinality(Profiles) \in Nat
  BY FS_CardinalityType
<1>7. PICK f : \A stack \in SUBSET Profiles : f[stack] = Unfolded(f, stack)
  <2> DEFINE k == Cardinality(Profiles) + 1
  <2>1. k \in S
    BY <1>5, <1>6
  <2>2. \A stack \in SUBSET Profiles : left(stack) < k
    BY <1>1, <1>6
  <2> HIDE DEF k
  <2> QED
    BY <2>1, <2>2
<1> DEFINE g == [stack \in SUBSET Profiles |-> f[stack]]
<1>8. g = [stack \in SUBSET Profiles |-> Unfolded(g, stack)]
  <2>1. \A stack \in SUBSET Profiles : Unfolded(f, stack) = Unfolded(g, stack)
    <3> TAKE stack \in SUBSET Profiles
    <3>1. \A name \in Profiles \ stack : f[stack \cup {name}] = g[stack \cup {name}]
      BY <1>2
    <3> HIDE DEF g
    <3> QED
      BY <3>1, UnfoldedBeyond
  <2> QED
    BY <1>7, <2>1
<1> HIDE DEF g
<1>9. Profile = CHOOSE p : p = [stack \in SUBSET Profiles |-> Unfolded(p, stack)]
  BY DEF Profile, Profiles, Unfolded
<1>10. Profile = [stack \in SUBSET Profiles |-> Unfolded(Profile, stack)]
  BY <1>8, <1>9, Zenon
<1> QED
  BY <1>10

\* What the profiles of configuration x reach.
ParentsIn(x, n) == IF n \in DOMAIN x.profiles THEN Range(Get(x.profiles[n], "extends", <<>>)) ELSE {}
ReachedIn(x, names) ==
  LET all == names \cup UNION {ParentsIn(x, n) : n \in DOMAIN x.profiles}
      closed == {S \in SUBSET all : names \subseteq S /\ \A n \in S : ParentsIn(x, n) \subseteq S}
  IN {n \in all : \A S \in closed : n \in S}

Resolvable(x) ==
  \A i \in DOMAIN x.variants :
    \A n \in ReachedIn(x, Range(ProfileNames(x.variants[i].fields))) :
      n \in DOMAIN x.profiles /\ n \notin ReachedIn(x, ParentsIn(x, n))

\* A profile has been resolved while those of stack were being resolved.
Sound(stack, name) == stack \in SUBSET Profiles /\ name \in Profiles /\ Profile[stack][name] # Failed

LEMMA SoundParents ==
  ASSUME IsFiniteSet(Profiles), NEW stack, NEW name, Sound(stack, name)
  PROVE  name \notin stack /\ \A m \in ParentsIn(c, name) : Sound(stack \cup {name}, m)
<1> DEFINE deeper == stack \cup {name}
           parents == [i \in DOMAIN Extends(name) |-> Parent(Profile[deeper], Extends(name)[i])]
<1>1. Profile[stack][name] = IF name \in stack THEN Failed ELSE Joined(name, parents)
  <2>1. Profile[stack] = Unfolded(Profile, stack)
    BY ProfileUnfolds DEF Sound
  <2> QED
    BY <2>1 DEF Unfolded, Sound
<1>2. name \notin stack /\ Joined(name, parents) # Failed
  BY <1>1 DEF Sound
<1>3. Failed \notin Range(parents)
  BY <1>2 DEF Joined
<1>4. ASSUME NEW m \in ParentsIn(c, name) PROVE Sound(deeper, m)
  <2>1. PICK i \in DOMAIN Extends(name) : Extends(name)[i] = m
    BY DEF ParentsIn, Range, Extends, Sound, Profiles
  <2>2. Parent(Profile[deeper], m) # Failed
    BY <1>3, <2>1 DEF Range
  <2> QED
    BY <2>2 DEF Parent, Sound, Profiles
<1> QED
  BY <1>2, <1>4

LEMMA ReachedStays ==
  ASSUME NEW names, NEW good, names \subseteq good,
         \A n \in good : ParentsIn(c, n) \subseteq good
  PROVE  ReachedIn(c, names) \subseteq good
<1> DEFINE all == names \cup UNION {ParentsIn(c, n) : n \in Profiles}
           S == {n \in all : n \in good}
<1>1. names \subseteq S /\ S \in SUBSET all
  OBVIOUS
<1>2. ASSUME NEW n \in S PROVE ParentsIn(c, n) \subseteq S
  <2>1. ParentsIn(c, n) \subseteq all
    BY DEF ParentsIn, Profiles
  <2> QED
    BY <2>1
<1> HIDE DEF S
<1>3. ReachedIn(c, names) \subseteq S
  BY <1>1, <1>2 DEF ReachedIn, Profiles
<1> QED
  BY <1>3 DEF S

\* Whatever profiles a variant reaches are there, and none reaches itself.
LEMMA VariantsResolve ==
  ASSUME c \in Configs, CollectedVariants # Failed
  PROVE  Resolvable(c)
<1>1. IsFiniteSet(Profiles) /\ IsList(c.variants)
  BY CatalogAssumption DEF CatalogAssumption, Profiles
<1> SUFFICES ASSUME NEW i \in DOMAIN c.variants,
                    NEW n \in ReachedIn(c, Range(ProfileNames(c.variants[i].fields)))
             PROVE  n \in Profiles /\ n \notin ReachedIn(c, ParentsIn(c, n))
  BY DEF Resolvable, Profiles
<1> DEFINE names == ProfileNames(c.variants[i].fields)
           all == [j \in DOMAIN c.variants |-> Variant(c.variants[j])]
<1>2. Variant(c.variants[i]) # Failed
  <2>1. c.variants # <<>>
    OBVIOUS
  <2>2. Failed \notin Range(all)
    BY <2>1 DEF CollectedVariants
  <2> QED
    BY <2>2 DEF Range
<1>3. ASSUME NEW m \in Range(names) PROVE Sound({}, m)
  <2> DEFINE overlays == [j \in DOMAIN names |-> Parent(Profile[{}], names[j])]
  <2>1. Failed \notin Range(overlays)
    BY <1>2 DEF Variant
  <2>2. PICK j \in DOMAIN names : names[j] = m
    BY DEF Range
  <2>3. Parent(Profile[{}], m) # Failed
    <3>1. overlays[j] \in Range(overlays) /\ overlays[j] = Parent(Profile[{}], m)
      BY <2>2 DEF Range
    <3> QED
      BY <2>1, <3>1
  <2> QED
    BY <2>3 DEF Parent, Sound, Profiles
<1> HIDE DEF names
<1>4. PICK stack : Sound(stack, n)
  <2> DEFINE good == {m \in Profiles : \E stack \in SUBSET Profiles : Sound(stack, m)}
  <2>1. Range(names) \subseteq good
    BY <1>3 DEF Sound
  <2>2. \A m \in good : ParentsIn(c, m) \subseteq good
    <3> SUFFICES ASSUME NEW m \in good, NEW k \in ParentsIn(c, m) PROVE k \in good
      OBVIOUS
    <3>1. PICK s \in SUBSET Profiles : Sound(s, m)
      OBVIOUS
    <3>2. Sound(s \cup {m}, k)
      BY <1>1, <3>1, SoundParents
    <3> QED
      BY <3>2 DEF Sound
  <2> HIDE DEF good
  <2>3. n \in good
    BY <2>1, <2>2, ReachedStays DEF names
  <2> QED
    BY <2>3 DEF good
<1>5. n \notin ReachedIn(c, ParentsIn(c, n))
  <2> DEFINE below == {m \in Profiles : \E s \in SUBSET Profiles : n \in s /\ Sound(s, m)}
  <2>1. ParentsIn(c, n) \subseteq below
    <3> SUFFICES ASSUME NEW k \in ParentsIn(c, n) PROVE k \in below
      OBVIOUS
    <3>1. Sound(stack \cup {n}, k) /\ n \in stack \cup {n}
      BY <1>1, <1>4, SoundParents
    <3> QED
      BY <3>1 DEF Sound
  <2>2. \A m \in below : ParentsIn(c, m) \subseteq below
    <3> SUFFICES ASSUME NEW m \in below, NEW k \in ParentsIn(c, m) PROVE k \in below
      OBVIOUS
    <3>1. PICK s \in SUBSET Profiles : n \in s /\ Sound(s, m)
      OBVIOUS
    <3>2. Sound(s \cup {m}, k) /\ n \in s \cup {m}
      BY <1>1, <3>1, SoundParents
    <3> QED
      BY <3>2 DEF Sound
  <2>3. n \notin below
    BY <1>1, SoundParents
  <2> HIDE DEF below
  <2> QED
    BY <2>1, <2>2, <2>3, ReachedStays
<1> QED
  BY <1>4, <1>5 DEF Sound

(***************************************************************************)
(* The models and groups of llama-swap.                                    *)
(***************************************************************************)
Id(i) == ModelId(c.deployments[i], deployments[i])
Listed == IsList(c.deployments) /\ DOMAIN deployments = DOMAIN c.deployments

LEMMA ModelsKeyed ==
  ASSUME Listed, Models # Failed
  PROVE  /\ DOMAIN Models = {Id(i) : i \in Commanded}
         /\ \A i \in Commanded : ~Incomplete(i)
         /\ \A id \in DOMAIN Models :
              LET k == Models[id].key IN k \in Commanded /\ Id(k) = id /\ Models[id].macros = Command(k)
<1> DEFINE last(id) == Latest({i \in Commanded : Id(i) = id})
<1>1. /\ Models = [id \in {Id(i) : i \in Commanded} |-> [key |-> last(id), macros |-> Command(last(id))]]
      /\ \A i \in Commanded : ~Incomplete(i)
  BY DEF Models, Id
<1>2. ASSUME NEW id \in {Id(i) : i \in Commanded} PROVE last(id) \in {i \in Commanded : Id(i) = id}
  <2>1. {i \in Commanded : Id(i) = id} \in SUBSET (1..Len(c.deployments)) /\ {i \in Commanded : Id(i) = id} # {}
    BY DEF Commanded, Listed, IsList
  <2> QED
    BY <2>1, LatestIsGreatest DEF Listed, IsList
<1> HIDE DEF last
<1>3. DOMAIN Models = {Id(i) : i \in Commanded}
  BY <1>1
<1>4. ASSUME NEW id \in DOMAIN Models
      PROVE  Models[id].key = last(id) /\ Models[id].macros = Command(last(id)) /\ last(id) \in Commanded /\ Id(last(id)) = id
  BY <1>1, <1>2, <1>3
<1> QED
  BY <1>1, <1>3, <1>4

LEMMA GroupsHold ==
  ASSUME Listed, Conventional
  PROVE  DOMAIN Groups = DOMAIN c.groups /\ \A g \in DOMAIN Groups : Range(Groups[g]) \subseteq {Id(i) : i \in Commanded}
<1> DEFINE swapped == {i \in DOMAIN deployments : Grouped(deployments[i])}
           id(i) == LET f == deployments[i] IN
                    Get(f, "llama_swap_model", IF Label(f) # "" THEN Label(f) ELSE c.deployments[i].name)
<1>0. DOMAIN Groups = DOMAIN c.groups
  BY DEF Groups
<1>1. \A g \in DOMAIN Groups : \A i \in DOMAIN Groups[g] : Groups[g][i] \in {id(j) : j \in swapped}
  BY ZenonT(60) DEF Groups
<1>2. ASSUME NEW i \in swapped PROVE i \in Commanded /\ id(i) = Id(i)
  BY <1>2 DEF Conventional, Grouped, Commanded, Swapped, Id, ModelId, Get
<1> HIDE DEF id, swapped
<1>3. {id(j) : j \in swapped} \subseteq {Id(i) : i \in Commanded}
  BY <1>2
<1>4. \A g \in DOMAIN Groups : Range(Groups[g]) \subseteq {id(j) : j \in swapped}
  BY <1>1, Zenon DEF Range
<1> QED
  BY <1>0, <1>3, <1>4, Zenon

(***************************************************************************)
(* What the outputs are found to be, of configuration x, with variants v   *)
(* and deployments ds.                                                     *)
(***************************************************************************)
FilledIn(v) == {w.dir : w \in {w \in Range(v) : w.enabled}}

ConventionalIn(x, ds) ==
  \A i \in DOMAIN ds :
    /\ <<Framework(ds[i]), Transport(ds[i])>> \in {<<"llama_cpp", "llama-swap">>, <<"vllm", "direct">>}
    /\ Framework(ds[i]) = "vllm" => "executable_macro" \notin DOMAIN ds[i]
    /\ Label(ds[i]) # "" /\ Transport(ds[i]) = "llama-swap" => "llama_swap_model" \in DOMAIN ds[i]
    /\ \A j \in DOMAIN ds \ {i} : Get(ds[i], "llama_swap_model", "") # ModelId(x.deployments[j], ds[j])

\* Deployment d with the fields f runs in a variant that no rule is against.
FitsIn(x, v, d, f) ==
  LET macro == Get(f, "executable_macro", <<>>)
      architecture == Get(x.architectures, d.profile, "")
  IN macro # <<>> /\ macro \in DOMAIN v /\ architecture # "" =>
       \A r \in Range(x.rules) :
         Matches(r, [architecture |-> architecture, backend |-> v[macro].backend,
                     backend_variant |-> v[macro].name, backend_macro |-> macro])
           => ~Incompatible(r, v[macro].version)

Disabling(x) ==
  x.matrix /\ Get(x.defaults, "incompatible", "disable") = "disable" /\ \A r \in Range(x.rules) : r.action = Empty

ProfileIn(x, fields) ==
  LET template == Named(x.templates, Get(fields, "template", ""))
      nested == IF template = Failed THEN Failed ELSE Named(x.concrete, Get(template, "profile", ""))
      parts == <<template, nested, Named(x.concrete, Get(fields, "profile", ""))>>
  IN IF Failed \in Range(parts) THEN Failed ELSE OverAll(parts)
ResolvedIn(x, d) ==
  LET profile == ProfileIn(x, Own(d))
  IN IF profile = Failed THEN Failed ELSE Over(profile, Own(d))

Keyed(v) == \A m \in DOMAIN v : v[m].macro = m

DeploymentFacts(x, v, d, f) ==
  /\ Framework(f) = Framework(ResolvedIn(x, d))
  /\ Disabling(x) /\ Enabled(f) => FitsIn(x, v, d, f)
  /\ Get(x.defaults, "unknown", "warn") # "disable" /\ "executable_macro" \notin DOMAIN f => f = ResolvedIn(x, d)

Derived(x, v, ds) ==
  /\ IsList(x.deployments) /\ DOMAIN ds = DOMAIN x.deployments
  /\ \A i \in DOMAIN ds : DeploymentFacts(x, v, x.deployments[i], ds[i])

Entry(f) == [label |-> Label(f), framework |-> Framework(f), transport |-> Transport(f),
             model |-> Get(f, "llama_swap_model", Label(f)), backend_model |-> Get(f, "backend_model_name", Label(f))]

PublishedFacts(x, ds, pub) ==
  /\ DOMAIN pub = {i \in DOMAIN ds : Enabled(ds[i]) /\ Label(ds[i]) # "" /\ (Framework(ds[i]) = "vllm" => x.vllm)}
  /\ \A i \in DOMAIN pub : pub[i] = Entry(ds[i])

ServedIn(ds) == {i \in DOMAIN ds : IsServed(ds[i])}

RuntimesIn(v) == {m \in DOMAIN v : v[m].enabled} \ DOMAIN Paths
PlacedIn(x) == x.docker \/ x.modelDir \/ DOMAIN Paths \subseteq x.projectMacros \cup x.localMacros

SharedIn(x, i) == Get(x.models, x.deployments[i].profile, Empty)
FieldIn(x, ds, i, field) == Get(ds[i], field, Get(SharedIn(x, i), field, ""))
ExecutableIn(x, f) == Get(f, "executable_macro", Get(x.framework, "executable_macro", <<"server">>))
BackendIn(x, f) ==
  LET macro == Get(f, "executable_macro", <<>>)
  IN IF Len(macro) > 1 /\ Last(macro) \in Backends \cup {"metal"} THEN Last(macro) ELSE x.backend
PresetsIn(x, ds, i) ==
  {<<n, x.presets[n]>> : n \in {FieldIn(x, ds, i, "gpu_preset")} \cap DOMAIN x.presets}
    \cup {<<n, x.runtime[n]>> : n \in (Get(SharedIn(x, i), "runtime_presets", {}) \cup Get(ds[i], "runtime_presets", {}))
                                      \cap DOMAIN x.runtime}
ExplicitIn(x, ds, i) == x.contexts[FieldIn(x, ds, i, "context_preset")]
WrittenIn(x, ds, i) ==
  {ExecutableIn(x, ds[i])} \cup Get(ds[i], "additional_macro_refs", {})
    \cup Range(x.framework) \cup ({ExplicitIn(x, ds, i)} \ {<<>>})
ToldIn(x, ds, i) == \A p \in PresetsIn(x, ds, i) : p[2] = {} \/ BackendIn(x, ds[i]) \in p[2]

MacrosFacts(x, ds, i, all, used) ==
  WrittenIn(x, ds, i) \subseteq all /\ PlacedIn(x) /\ ToldIn(x, ds, i) => used \subseteq all

SwapFacts(x, v, ds, sw) ==
  /\ \A m \in x.localMacros : sw.macros[m] = Layer("local")
  /\ x.docker /\ Natives \subseteq FilledIn(v) => Provisioned(FilledIn(v), sw.macros)
  /\ x.docker => RuntimesIn(v) \subseteq DOMAIN sw.macros /\ Runnable(RuntimesIn(v), sw.macros)
  /\ {ModelId(x.deployments[i], ds[i]) : i \in ServedIn(ds)} \subseteq DOMAIN sw.models
  /\ \A id \in DOMAIN sw.models : sw.models[id].key = 0 =>
       id \notin {ModelId(x.deployments[i], ds[i]) : i \in ServedIn(ds)}
  /\ \A id \in DOMAIN sw.models : sw.models[id].key # 0 =>
       LET k == sw.models[id].key IN
         /\ k \in ServedIn(ds) /\ ModelId(x.deployments[k], ds[k]) = id
         /\ MacrosFacts(x, ds, k, DOMAIN sw.macros, sw.models[id].macros)
  /\ ConventionalIn(x, ds) => \A g \in DOMAIN x.groups : Range(sw.groups[g]) \subseteq DOMAIN sw.models

VllmFacts(x, ds, pub, vl) ==
  ConventionalIn(x, ds) =>
    \A i \in DOMAIN pub : pub[i].framework = "vllm" /\ pub[i].transport = "direct" =>
      /\ vl.model = pub[i].backend_model
      /\ Get(x.defaults, "unknown", "warn") # "disable" =>
           vl.options \in DOMAIN pub /\ pub[vl.options].backend_model = vl.model

-----------------------------------------------------------------------------
LEMMA InConfiguration ==
  /\ Conventional <=> ConventionalIn(c, deployments)
  /\ \A d : Resolved(d) = ResolvedIn(c, d)
  /\ Filled = FilledIn(variants) /\ Runtimes = RuntimesIn(variants)
  /\ Commanded = ServedIn(deployments)
<1>1. \A fields : DeploymentProfile(fields) = ProfileIn(c, fields)
  BY DEF DeploymentProfile, ProfileIn
<1>2. \A d : Resolved(d) = ResolvedIn(c, d)
  BY <1>1 DEF Resolved, ResolvedIn
<1>3. Conventional <=> ConventionalIn(c, deployments)
  BY DEF Conventional, ConventionalIn
<1> QED
  BY <1>2, <1>3 DEF Filled, FilledIn, Runtimes, RuntimesIn, Commanded, ServedIn, IsServed

LEMMA MacrosIn ==
  \A i : /\ Written(i) = WrittenIn(c, deployments, i)
         /\ Placed <=> PlacedIn(c)
         /\ Told(i) <=> ToldIn(c, deployments, i)
<1>1. \A i : Shared(i) = SharedIn(c, i)
  BY DEF Shared, SharedIn
<1>2. \A i, field : Field(i, field) = FieldIn(c, deployments, i, field)
  BY <1>1 DEF Field, FieldIn
<1>3. \A f : Executable(f) = ExecutableIn(c, f)
  BY DEF Executable, ExecutableIn, OfFramework
<1>4. \A f : BackendOf(f) = BackendIn(c, f)
  BY DEF BackendOf, BackendIn
<1>5. \A i : PresetsOf(i) = PresetsIn(c, deployments, i)
  BY <1>1, <1>2 DEF PresetsOf, PresetsIn, Preset, RuntimePresets
<1>6. \A i : Explicit(i) = ExplicitIn(c, deployments, i)
  BY <1>2 DEF Explicit, ExplicitIn
<1>7. \A i : Written(i) = WrittenIn(c, deployments, i)
  BY <1>3, <1>6 DEF Written, WrittenIn
<1>8. \A i : Told(i) <=> ToldIn(c, deployments, i)
  BY <1>4, <1>5 DEF Told, ToldIn
<1> QED
  BY <1>7, <1>8 DEF Placed, PlacedIn

\* Collect: a macro stands for the variant that names it.
LEMMA VariantsKeyed ==
  ASSUME IsList(c.variants), CollectedVariants # Failed
  PROVE  Keyed(CollectedVariants)
<1> DEFINE all == [i \in DOMAIN c.variants |-> Variant(c.variants[i])]
           kept == {i \in DOMAIN all : all[i].backend # ""}
           last(m) == Latest({i \in kept : all[i].macro = m})
<1>1. CASE c.variants = <<>>
  <2>1. CollectedVariants = [m \in {<<"server", b>> : b \in Backends} |-> DefaultVariant(m[2])]
    BY <1>1 DEF CollectedVariants
  <2>2. \A b : DefaultVariant(b).macro = <<"server", b>>
    BY DEF DefaultVariant
  <2> QED
    BY <2>1, <2>2 DEF Keyed
<1>2. CASE c.variants # <<>>
  <2>1. CollectedVariants = [m \in {all[i].macro : i \in kept} |-> all[last(m)]]
    BY <1>2 DEF CollectedVariants
  <2>2. ASSUME NEW m \in {all[i].macro : i \in kept} PROVE all[last(m)].macro = m
    <3>1. {i \in kept : all[i].macro = m} \in SUBSET (1..Len(c.variants)) /\ {i \in kept : all[i].macro = m} # {}
      BY DEF IsList
    <3> QED
      BY <3>1, LatestIsGreatest DEF IsList
  <2> HIDE DEF all, kept, last
  <2> QED
    BY <2>1, <2>2, SMTT(30) DEF Keyed
<1> QED
  BY <1>1, <1>2

\* Of a rule that is against a variant, the matrix hears: only the first rule
\* that is violated counts, but any that is violated disables.
LEMMA VerdictHears ==
  ASSUME IsList(c.rules), Disabling(c), NEW d, NEW variant, NEW r \in Range(c.rules),
         Matches(r, [architecture |-> Architecture(d), backend |-> variant.backend,
                     backend_variant |-> variant.name, backend_macro |-> variant.macro]),
         Incompatible(r, variant.version)
  PROVE  Verdict(d, variant) = "disable"
<1> DEFINE violated == {i \in DOMAIN c.rules : Violated(d, variant, c.rules[i])}
           rule == c.rules[First(violated)]
<1>1. PICK j \in DOMAIN c.rules : c.rules[j] = r
  BY DEF Range
<1>2. j \in violated
  BY <1>1 DEF Violated
<1>3. First(violated) \in violated
  <2>1. violated \in SUBSET Nat
    BY DEF IsList
  <2> QED
    BY <1>2, <2>1, FirstIsLeast
<1>4. rule \in Range(c.rules) /\ rule.action = Empty
  BY <1>3 DEF Range, Disabling
<1> HIDE DEF violated, rule
<1>5. Get(rule.action, "incompatible", Get(c.defaults, "incompatible", "disable")) = "disable"
  BY <1>4 DEF Get, Empty, Disabling
<1>6. ~Unknown(rule, variant.version)
  BY DEF Unknown, Incompatible
<1> QED
  BY <1>2, <1>5, <1>6 DEF Verdict, violated, rule

LEMMA DeploymentDerived ==
  ASSUME IsList(c.rules), c.matrix => Keyed(variants), NEW d, Deployment(d) # Failed
  PROVE  DeploymentFacts(c, variants, d, Deployment(d))
<1> DEFINE fields == Resolved(d)
           judged == IF fields = Failed THEN "error" ELSE Judged(d, fields)
           f == Deployment(d)
           macro == Get(fields, "executable_macro", <<>>)
<1>1. Resolved(d) = ResolvedIn(c, d)
  BY InConfiguration
<1>2. fields # Failed /\ judged = Judged(d, fields) /\ judged # "error"
  BY DEF Deployment
<1>3. f = IF judged = "disable" THEN Over(fields, [enabled |-> FALSE]) ELSE fields
  BY <1>2 DEF Deployment
<1> HIDE DEF fields, f, judged
<1>4. CASE judged = "disable"
  <2>1. f = Over(fields, [enabled |-> FALSE])
    BY <1>3, <1>4
  <2>2. DOMAIN f = DOMAIN fields \cup {"enabled"} /\ f["enabled"] = FALSE /\ \A n \in DOMAIN f \ {"enabled"} : f[n] = fields[n]
    BY <2>1 DEF Over
  <2>3. ~Enabled(f) /\ Framework(f) = Framework(fields)
    BY <2>2 DEF Enabled, Framework, Get
  <2>4. Get(c.defaults, "unknown", "warn") # "disable" => "executable_macro" \in DOMAIN fields
    BY <1>2, <1>4 DEF Judged, Get
  <2> QED
    BY <1>1, <2>2, <2>3, <2>4 DEF DeploymentFacts, fields, f
<1>5. CASE judged # "disable"
  <2>1. f = fields
    BY <1>3, <1>5
  <2>2. ASSUME Disabling(c), macro # <<>>, macro \in DOMAIN variants, Architecture(d) # "", NEW r \in Range(c.rules),
               Matches(r, [architecture |-> Architecture(d), backend |-> variants[macro].backend,
                           backend_variant |-> variants[macro].name, backend_macro |-> macro]),
               Incompatible(r, variants[macro].version)
        PROVE  FALSE
    <3>1. variants[macro].macro = macro /\ Judged(d, fields) = Verdict(d, variants[macro])
      BY <2>2 DEF Keyed, Disabling, Judged
    <3>2. Verdict(d, variants[macro]) = "disable"
      BY <2>2, <3>1, VerdictHears
    <3> QED
      BY <1>2, <1>5, <3>1, <3>2
  <2>3. Disabling(c) => FitsIn(c, variants, d, f)
    BY <2>1, <2>2 DEF FitsIn, Architecture
  <2> QED
    BY <1>1, <2>1, <2>3 DEF DeploymentFacts, fields, f
<1> QED
  BY <1>4, <1>5

\* Publish.
LEMMA PublishedFound ==
  ASSUME PublishedModels # Failed
  PROVE  PublishedFacts(c, deployments, PublishedModels)
<1> DEFINE all == {i \in DOMAIN deployments : Enabled(deployments[i]) /\ Label(deployments[i]) # ""}
<1>1. PublishedModels = [i \in {i \in all : Publishable(deployments[i])} |-> Entry(deployments[i])]
  BY DEF PublishedModels, Entry
<1> QED
  BY <1>1 DEF PublishedFacts, Publishable

\* Swap: what a command names is there.
LEMMA MacrosNamed ==
  ASSUME NEW i \in Commanded
  PROVE  MacrosFacts(c, deployments, i, DOMAIN WithContexts(Macros), Command(i))
<1> DEFINE all == DOMAIN WithContexts(Macros)
           f == deployments[i]
<1>1. SUFFICES ASSUME Written(i) \subseteq all, Placed, Told(i) PROVE Command(i) \subseteq all
  BY MacrosIn DEF MacrosFacts
<1>2. /\ DOMAIN PresetMacros \subseteq all /\ <<"server-args">> \in all /\ DOMAIN Paths \subseteq all
      /\ Explicit(i) = <<>> => ContextMacro(i) \in all
  BY <1>1, AllMacros
<1> HIDE DEF all
<1>3. /\ Executable(f) \in all /\ Get(f, "additional_macro_refs", {}) \subseteq all
      /\ Range(c.framework) \subseteq all /\ (Explicit(i) # <<>> => Explicit(i) \in all)
  BY <1>1 DEF Written
<1>4. ContextMacro(i) \in all
  BY <1>2, <1>3 DEF ContextMacro
<1>5. \A field, default : default \in all => OfFramework(field, default) \in all
  BY <1>3 DEF OfFramework, Get, Range
<1>6. ASSUME NEW p \in PresetsOf(i) PROVE NamedMacro(p, BackendOf(f)) \in all
  <2> DEFINE names == IF p[2] = {} THEN {<<p[1]>>} ELSE {ForBackend(<<p[1]>>, b) : b \in p[2]}
  <2>1. p \in Presets
    BY <1>6 DEF PresetsOf, Presets
  <2>2. names \subseteq DOMAIN PresetMacros
    BY <2>1 DEF PresetMacros
  <2>3. p[2] = {} \/ BackendOf(f) \in p[2]
    BY <1>1 DEF Told
  <2>4. NamedMacro(p, BackendOf(f)) \in names
    BY <2>3 DEF NamedMacro
  <2> QED
    BY <1>2, <2>2, <2>4
<1>7. <<"model-path">> \in all /\ <<"mmproj-path">> \in all
  BY <1>2, PathsAre
<1> DEFINE named == {NamedMacro(p, BackendOf(f)) : p \in PresetsOf(i)}
           fixed == {Executable(f), OfFramework("server_args_macro", <<"server-args">>),
                     OfFramework("model_path_macro", <<"model-path">>), ContextMacro(i)}
           mmproj == IF Field(i, "mmproj_file") # "" THEN {OfFramework("mmproj_path_macro", <<"mmproj-path">>)} ELSE {}
<1>8. named \subseteq all
  BY <1>6
<1>9. fixed \subseteq all /\ mmproj \subseteq all
  BY <1>2, <1>3, <1>4, <1>5, <1>7
<1>10. Command(i) = fixed \cup mmproj \cup named \cup Get(f, "additional_macro_refs", {})
  BY DEF Command
<1> HIDE DEF named, fixed, mmproj
<1> QED
  BY <1>3, <1>8, <1>9, <1>10

LEMMA SwapFound ==
  ASSUME Listed, Models # Failed, NEW sw,
         sw = [macros |-> WithContexts(Macros), models |-> Over(OwnModels, Models), groups |-> Over(c.ownGroups, Groups)]
  PROVE  SwapFacts(c, variants, deployments, sw)
<1>1. sw.macros = WithContexts(Macros) /\ sw.models = Over(OwnModels, Models) /\ sw.groups = Over(c.ownGroups, Groups)
  OBVIOUS
<1>2. /\ \A m \in c.localMacros : sw.macros[m] = Layer("local")
      /\ c.docker /\ Natives \subseteq Filled => Provisioned(Filled, sw.macros)
      /\ c.docker => Runtimes \subseteq DOMAIN sw.macros /\ Runnable(Runtimes, sw.macros)
  BY <1>1, AllMacros DEF Untouched
<1>3. /\ DOMAIN Models \subseteq DOMAIN sw.models
      /\ \A id \in DOMAIN Models : sw.models[id] = Models[id]
      /\ \A id \in DOMAIN sw.models \ DOMAIN Models : sw.models[id].key = 0
  <2>1. /\ DOMAIN sw.models = DOMAIN OwnModels \cup DOMAIN Models
        /\ \A id \in DOMAIN Models : sw.models[id] = Models[id]
        /\ \A id \in DOMAIN OwnModels \ DOMAIN Models : sw.models[id] = OwnModels[id]
    <3> DEFINE all == Over(OwnModels, Models)
    <3>1. /\ DOMAIN all = DOMAIN OwnModels \cup DOMAIN Models
          /\ \A id \in DOMAIN Models : all[id] = Models[id]
          /\ \A id \in DOMAIN OwnModels \ DOMAIN Models : all[id] = OwnModels[id]
      BY OverJoins
    <3> HIDE DEF all
    <3> QED
      BY <1>1, <3>1 DEF all
  <2>2. \A id \in DOMAIN OwnModels : OwnModels[id].key = 0
    BY DEF OwnModels
  <2> QED
    BY <2>1, <2>2
<1>4. DOMAIN Models = {Id(i) : i \in Commanded}
  BY ModelsKeyed
<1>5. ASSUME NEW id \in DOMAIN Models
      PROVE  /\ sw.models[id].key \in Commanded /\ Id(sw.models[id].key) = id /\ sw.models[id].key # 0
             /\ MacrosFacts(c, deployments, sw.models[id].key, DOMAIN sw.macros, sw.models[id].macros)
  <2>1. Models[id].key \in Commanded /\ Id(Models[id].key) = id /\ Models[id].macros = Command(Models[id].key)
    BY ModelsKeyed
  <2>2. Models[id].key # 0
    BY <2>1 DEF Commanded, Listed, IsList
  <2> QED
    BY <1>1, <1>3, <2>1, <2>2, MacrosNamed
<1>6. Conventional => \A g \in DOMAIN c.groups : Range(sw.groups[g]) \subseteq DOMAIN sw.models
  <2>1. \A g \in DOMAIN Groups : sw.groups[g] = Groups[g]
    <3> DEFINE all == Over(c.ownGroups, Groups)
    <3>1. \A g \in DOMAIN Groups : all[g] = Groups[g]
      BY OverJoins
    <3> HIDE DEF all
    <3> QED
      BY <1>1, <3>1 DEF all
  <2> QED
    BY <1>3, <1>4, <2>1, GroupsHold
<1> QED
  BY <1>2, <1>3, <1>4, <1>5, <1>6, InConfiguration DEF SwapFacts, Id

\* Serve: the first deployment for vLLM is one that is published.
LEMMA VllmFound ==
  ASSUME Derived(c, variants, deployments), PublishedFacts(c, deployments, published), Vllm(published) # Failed
  PROVE  VllmFacts(c, deployments, published, Vllm(published))
<1> DEFINE vl == Vllm(published)
           names == {published[j].backend_model : j \in {j \in DOMAIN published : published[j].framework = "vllm" /\ published[j].transport = "direct"}}
           direct == {j \in DOMAIN c.deployments : DirectVllm(Resolved(c.deployments[j]))}
<1>1. SUFFICES ASSUME Conventional, NEW i \in DOMAIN published, published[i].framework = "vllm", published[i].transport = "direct"
      PROVE  /\ vl.model = published[i].backend_model
             /\ Get(c.defaults, "unknown", "warn") # "disable" =>
                  vl.options \in DOMAIN published /\ published[vl.options].backend_model = vl.model
  BY InConfiguration DEF VllmFacts
<1>2. \A j \in DOMAIN published :
         /\ j \in DOMAIN deployments /\ Enabled(deployments[j]) /\ Label(deployments[j]) # ""
         /\ published[j].framework = Framework(deployments[j]) /\ published[j].transport = Transport(deployments[j])
  <2> TAKE j \in DOMAIN published
  <2>1. j \in DOMAIN deployments /\ Enabled(deployments[j]) /\ Label(deployments[j]) # ""
    BY DEF PublishedFacts
  <2>2. published[j] = Entry(deployments[j])
    BY DEF PublishedFacts
  <2>3. \A f : Entry(f).framework = Framework(f) /\ Entry(f).transport = Transport(f)
    BY DEF Entry
  <2> QED
    BY <2>1, <2>2, <2>3
<1>3. /\ published[i].backend_model \in names /\ \A m, n \in names : m = n
      /\ vl.model \in names /\ vl.options = OptionsOf
  <2>1. published[i].backend_model \in names
    BY <1>1
  <2>2. \A m, n \in names : m = n
    BY DEF Vllm
  <2>3. vl = [model |-> CHOOSE n \in names : TRUE, options |-> OptionsOf]
    BY <2>1, <2>2 DEF Vllm
  <2> HIDE DEF names, vl
  <2> QED
    BY <2>1, <2>2, <2>3
<1>4. ASSUME Get(c.defaults, "unknown", "warn") # "disable", NEW j \in DOMAIN deployments,
             Framework(deployments[j]) = "vllm" \/ Framework(Resolved(c.deployments[j])) = "vllm"
      PROVE  deployments[j] = Resolved(c.deployments[j]) /\ Framework(deployments[j]) = "vllm"
  BY <1>1, <1>4, InConfiguration DEF Derived, DeploymentFacts, Conventional
<1>5. ASSUME Get(c.defaults, "unknown", "warn") # "disable"
      PROVE  vl.options \in DOMAIN published /\ published[vl.options].backend_model \in names
  <2>1. i \in direct
    BY <1>1, <1>2, <1>4, <1>5 DEF DirectVllm, Derived
  <2>2. First(direct) \in direct /\ OptionsOf = First(direct)
    <3>1. direct \in SUBSET Nat
      BY DEF Derived, IsList
    <3> QED
      BY <2>1, <3>1, FirstIsLeast DEF OptionsOf
  <2> DEFINE o == First(direct)
  <2>3. DirectVllm(Resolved(c.deployments[o])) /\ o \in DOMAIN deployments
    BY <2>2 DEF Derived
  <2>4. DirectVllm(deployments[o])
    BY <1>4, <1>5, <2>3 DEF DirectVllm
  <2>5. c.vllm
    BY <1>1, <1>2 DEF PublishedFacts
  <2>6. o \in DOMAIN published
    BY <2>3, <2>4, <2>5 DEF PublishedFacts, DirectVllm
  <2>7. published[o].framework = "vllm" /\ published[o].transport = "direct"
    BY <1>2, <2>4, <2>6 DEF DirectVllm
  <2> HIDE DEF o
  <2>8. published[o].backend_model \in names
    BY <2>6, <2>7
  <2> QED
    BY <1>3, <2>2, <2>6, <2>8 DEF o
<1> HIDE DEF names
<1> QED
  BY <1>3, <1>5

-----------------------------------------------------------------------------
(***************************************************************************)
(* The invariant: from a builder on, what it found.                        *)
(***************************************************************************)
AfterSwap == {"litellm", "vllm", "catalog", "done"}

Ordered ==
  /\ c \in Configs /\ pc \in {"collect", "resolve", "publish", "swap", "failed"} \cup AfterSwap
  /\ pc = "done" => variants # Failed
  /\ pc \in {"collect", "resolve", "publish"} => published = None
  /\ pc \in {"collect", "resolve", "publish", "swap"} => swap = None
  /\ pc \in {"collect", "resolve", "publish", "swap", "litellm"} => litellm = None
  /\ pc \in {"collect", "resolve", "publish", "swap", "litellm", "vllm"} => vllm = None

Routed == litellm # None \/ vllm # None \/ pc \in AfterSwap \ {"litellm"}
Swaps == swap # None \/ Routed \/ pc = "litellm"
Publishes == published # None \/ Swaps \/ pc = "swap"
Resolves == Publishes \/ pc = "publish"

CatalogInv ==
  /\ Ordered
  /\ pc # "collect" /\ variants # Failed => Keyed(variants) /\ Resolvable(c)
  /\ Resolves => Derived(c, variants, deployments)
  /\ Publishes => PublishedFacts(c, deployments, published)
  /\ Swaps => SwapFacts(c, variants, deployments, swap)
  /\ Routed => litellm = Routes(published)
  /\ vllm # None => VllmFacts(c, deployments, published, vllm)

LEMMA Lists ==
  ASSUME c \in Configs
  PROVE  IsList(c.variants) /\ IsList(c.deployments) /\ IsList(c.rules)
  BY CatalogAssumption DEF CatalogAssumption

LEMMA CatalogStart == Init => CatalogInv
  BY DEF Init, CatalogInv, Ordered, Resolves, Publishes, Swaps, Routed, AfterSwap

LEMMA CatalogStep == CatalogInv /\ [Next]_vars => CatalogInv'
<1> SUFFICES ASSUME CatalogInv, [Next]_vars PROVE CatalogInv'
  OBVIOUS
<1> USE DEF CatalogInv, Resolves, Publishes, Swaps, Routed, AfterSwap, outputs
<1>0. IsList(c.variants) /\ IsList(c.deployments) /\ IsList(c.rules) /\ c \in Configs
  BY Lists DEF Ordered
<1>1. CASE Collect
  <2>1. CollectedVariants # Failed => Keyed(CollectedVariants) /\ Resolvable(c)
    BY <1>0, VariantsKeyed, VariantsResolve
  <2> QED
    BY <1>1, <2>1 DEF Collect, Ordered
<1>2. CASE Resolve
  <2>1. pc' \in {"failed", "publish"} /\ UNCHANGED <<c, variants, outputs>> /\ Ordered'
    BY <1>2 DEF Resolve, Raise, Ordered
  <2>2. ASSUME pc' = "publish" PROVE Derived(c, variants, deployments')
    <3>1. Failed \notin Range(deployments')
      BY <1>2, <2>2 DEF Resolve, Raise
    <3>2. ~(c.matrix /\ variants = Failed)
      BY <1>2, <3>1 DEF Resolve, Range
    <3>3. deployments' = [i \in DOMAIN c.deployments |-> Deployment(c.deployments[i])]
      BY <1>2, <3>2 DEF Resolve
    <3>4. \A i \in DOMAIN c.deployments : Deployment(c.deployments[i]) # Failed
      BY <3>1, <3>3 DEF Range
    <3>5. c.matrix => Keyed(variants)
      BY <1>2, <3>2 DEF Resolve
    <3>6. \A i \in DOMAIN c.deployments : DeploymentFacts(c, variants, c.deployments[i], Deployment(c.deployments[i]))
      BY <1>0, <3>4, <3>5, DeploymentDerived
    <3> QED
      BY <1>0, <3>3, <3>6 DEF Derived
  <2> QED
    BY <1>2, <2>1, <2>2 DEF Resolve, Ordered
<1>3. CASE Publish
  <2>1. CASE Raise
    BY <1>3, <2>1 DEF Publish, Raise, Ordered
  <2>2. CASE PublishedModels # Failed /\ published' = PublishedModels /\ pc' = "swap" /\ UNCHANGED <<swap, litellm, vllm>>
    <3>1. PublishedFacts(c, deployments, published')
      BY <2>2, PublishedFound
    <3> QED
      BY <1>3, <2>2, <3>1 DEF Publish, Ordered
  <2> QED
    BY <1>3, <2>1, <2>2 DEF Publish
<1>4. CASE Swap
  <2>1. CASE Raise
    BY <1>4, <2>1 DEF Swap, Raise, Ordered
  <2>2. CASE /\ Models # Failed /\ swap' = [macros |-> WithContexts(Macros), models |-> Over(OwnModels, Models),
                                           groups |-> Over(c.ownGroups, Groups)]
             /\ pc' = "litellm" /\ UNCHANGED <<published, litellm, vllm>>
    <3>1. Listed
      BY <1>0, <1>4 DEF Swap, Derived, Listed
    <3>2. SwapFacts(c, variants, deployments, swap')
      BY <2>2, <3>1, SwapFound
    <3> QED
      BY <1>4, <2>2, <3>2 DEF Swap, Ordered
  <2> QED
    BY <1>4, <2>1, <2>2 DEF Swap
<1>5. CASE Route
  BY <1>5 DEF Route, Ordered
<1>6. CASE Serve
  <2>1. CASE Raise
    BY <1>6, <2>1 DEF Serve, Raise, Ordered
  <2>2. CASE Vllm(published) # Failed /\ vllm' = Vllm(published) /\ pc' = "catalog" /\ UNCHANGED <<published, swap, litellm>>
    <3>1. VllmFacts(c, deployments, published, vllm')
      BY <1>6, <2>2, VllmFound DEF Serve
    <3> QED
      BY <1>6, <2>2, <3>1 DEF Serve, Ordered
  <2> QED
    BY <1>6, <2>1, <2>2 DEF Serve
<1>7. CASE WriteCatalog
  BY <1>7 DEF WriteCatalog, Raise, Ordered
<1>8. CASE UNCHANGED vars
  BY <1>8 DEF vars, Ordered
<1> QED
  BY <1>1, <1>2, <1>3, <1>4, <1>5, <1>6, <1>7, <1>8 DEF Next

LEMMA CatalogInductive == Spec => []CatalogInv
  BY CatalogStart, CatalogStep, PTL DEF Spec

-----------------------------------------------------------------------------
\* A macro of the local layer stays what its owner made it, for every set of
\* installed runtimes, variants, native builds and presets of the same name.
THEOREM LocalsStand == Spec => []LocalMacrosWin
<1>1. CatalogInv => LocalMacrosWin
  BY DEF CatalogInv, Swaps, SwapFacts, LocalMacrosWin, Built
<1> QED
  BY <1>1, CatalogInductive, PTL

\* In Docker, no macro of the generated file points to a directory that
\* provisioning does not fill, and none that an enabled variant has is a bare
\* name, if the catalog has the native builds.
THEOREM MacrosProvisioned == Spec => []DirectoriesProvisioned
<1>1. ASSUME CatalogInv, Built, c.docker, Natives \subseteq Filled
      PROVE  /\ Provisioned(Filled, swap.macros)
             /\ Runtimes \subseteq DOMAIN swap.macros /\ Runnable(Runtimes, swap.macros)
  BY <1>1, InConfiguration DEF CatalogInv, Swaps, SwapFacts, Built
<1>2. CatalogInv => DirectoriesProvisioned
  BY <1>1 DEF DirectoriesProvisioned, Provisioned, Runnable, Natives
<1> QED
  BY <1>2, CatalogInductive, PTL

\* Commands name only macros that the file defines, whichever of the builders
\* adds them, as far as the catalog does not name macros of its own.
THEOREM CommandsComplete == Spec => []MacrosDefined
<1>1. ASSUME CatalogInv, Built, NEW id \in Generated
      PROVE  MacrosFacts(c, deployments, swap.models[id].key, DOMAIN swap.macros, swap.models[id].macros)
  BY <1>1 DEF CatalogInv, Swaps, SwapFacts, Built, Generated
<1>2. CatalogInv => MacrosDefined
  BY <1>1, MacrosIn DEF MacrosDefined, MacrosFacts
<1> QED
  BY <1>2, CatalogInductive, PTL

\* Groups load only models that llama-swap has.
THEOREM GroupsLoadable == Spec => []GroupsServed
<1>1. CatalogInv => GroupsServed
  BY InConfiguration DEF CatalogInv, Swaps, SwapFacts, GroupsServed, Built
<1> QED
  BY <1>1, CatalogInductive, PTL

\* A matrix that disables keeps every release that any rule is against from
\* what is published and from what is served, where the macro stands for the
\* variant that the matrix has looked at.
THEOREM MatrixObeyed == Spec => []Supported
<1>1. ASSUME CatalogInv, Built, Disabling(c), NEW i \in Live PROVE Compatible(i)
  <2>1. i \in DOMAIN deployments /\ Enabled(deployments[i])
    <3>1. CASE i \in DOMAIN published
      BY <1>1, <3>1 DEF CatalogInv, Swaps, Publishes, PublishedFacts, Built
    <3>2. CASE i \in {swap.models[m].key : m \in Generated}
      BY <1>1, <3>2 DEF CatalogInv, Swaps, SwapFacts, ServedIn, IsServed, Swapped, Built, Generated
    <3> QED
      BY <1>1, <3>1, <3>2 DEF Live
  <2>2. FitsIn(c, variants, c.deployments[i], deployments[i])
    BY <1>1, <2>1 DEF CatalogInv, Resolves, Publishes, Swaps, Derived, DeploymentFacts, Built
  <2> QED
    BY <2>2 DEF Compatible, FitsIn, Architecture, Standing
<1>2. CatalogInv => Supported
  BY <1>1 DEF Supported, Disabling
<1> QED
  BY <1>2, CatalogInductive, PTL

\* LiteLLM's routes end where a backend has the model: the header it sends is
\* the name of the same deployment's model in llama-swap, and what it sends to
\* vLLM is the model vLLM is started with. The three are computed separately.
THEOREM RoutesEnd == Spec => []Routable
<1>1. ASSUME CatalogInv, litellm # None, Conventional, NEW i \in DOMAIN litellm
      PROVE  ToSwap(i) \/ ToVllm(i)
  <2> DEFINE f == deployments[i]
             header == litellm[i].header
  <2>1. /\ litellm = Routes(published) /\ Derived(c, variants, deployments)
        /\ PublishedFacts(c, deployments, published) /\ SwapFacts(c, variants, deployments, swap)
        /\ vllm # None => VllmFacts(c, deployments, published, vllm)
    BY <1>1 DEF CatalogInv, Resolves, Publishes, Swaps, Routed
  <2>2. i \in DOMAIN published /\ i \in DOMAIN deployments /\ Enabled(f) /\ Label(f) # ""
    BY <1>1, <2>1 DEF Routes, PublishedFacts
  <2>3. /\ published[i].framework = Framework(f) /\ published[i].transport = Transport(f)
        /\ published[i].model = Get(f, "llama_swap_model", Label(f))
    <3>1. published[i] = Entry(f)
      BY <2>1, <2>2 DEF PublishedFacts
    <3> HIDE DEF f
    <3> QED
      BY <3>1 DEF Entry
  <2>4. /\ litellm[i].to = Base(published[i]) /\ litellm[i].model = published[i].backend_model
        /\ header = IF published[i].transport = "llama-swap" THEN published[i].model ELSE ""
    BY <2>1, <2>2 DEF Routes
  <2>5. /\ <<Framework(f), Transport(f)>> \in {<<"llama_cpp", "llama-swap">>, <<"vllm", "direct">>}
        /\ Label(f) # "" /\ Transport(f) = "llama-swap" => "llama_swap_model" \in DOMAIN f
        /\ \A j \in DOMAIN deployments \ {i} : Get(f, "llama_swap_model", "") # ModelId(c.deployments[j], deployments[j])
    BY <1>1, <2>2 DEF Conventional
  <2>6. \/ Framework(f) = "llama_cpp" /\ Transport(f) = "llama-swap"
        \/ Framework(f) = "vllm" /\ Transport(f) = "direct"
    BY <2>5
  <2> HIDE DEF f, header
  <2>7. CASE Framework(f) = "llama_cpp" /\ Transport(f) = "llama-swap"
    <3>1. litellm[i].to = "llama-swap"
      BY <2>3, <2>4, <2>7 DEF Base
    <3>2. header = ModelId(c.deployments[i], f) /\ header = Get(f, "llama_swap_model", "")
      BY <2>2, <2>3, <2>4, <2>5, <2>7 DEF ModelId, Get
    <3>3. i \in ServedIn(deployments)
      BY <2>2, <2>7 DEF f, ServedIn, IsServed, Swapped
    <3> DEFINE served == {ModelId(c.deployments[j], deployments[j]) : j \in ServedIn(deployments)}
    <3>4. header \in served
      <4>1. header = ModelId(c.deployments[i], deployments[i])
        BY <3>2 DEF f
      <4> QED
        BY <3>3, <4>1
    <3>5. header \in DOMAIN swap.models /\ swap.models[header].key # 0
      BY <2>1, <3>4 DEF SwapFacts
    <3> DEFINE k == swap.models[header].key
    <3>6. k \in ServedIn(deployments) /\ ModelId(c.deployments[k], deployments[k]) = header
      BY <2>1, <3>5 DEF SwapFacts
    <3>7. k = i
      BY <2>5, <3>2, <3>6 DEF ServedIn
    <3> QED
      BY <3>1, <3>5, <3>7 DEF header, ToSwap
  <2>8. CASE Framework(f) = "vllm" /\ Transport(f) = "direct"
    <3>1. litellm[i].to = "vllm" /\ header = "" /\ published[i].framework = "vllm" /\ published[i].transport = "direct"
      BY <2>3, <2>4, <2>8 DEF Base
    <3>2. vllm # None => vllm.model = litellm[i].model /\ OwnOptions
      BY <1>1, <2>1, <2>2, <2>4, <3>1, InConfiguration DEF VllmFacts, OwnOptions
    <3> QED
      BY <3>1, <3>2 DEF header, ToVllm
  <2> QED
    BY <2>6, <2>7, <2>8
<1>2. CatalogInv => Routable
  BY <1>1 DEF Routable
<1> QED
  BY <1>2, CatalogInductive, PTL

\* Profiles that extend each other are read to the end: a run that succeeds has
\* overlooked no missing profile and no cycle, however deep.
THEOREM ProfilesResolve == Spec => []CyclesFound
<1>1. \A n : Parents(n) = ParentsIn(c, n)
  BY DEF Parents, ParentsIn, Extends
<1>2. \A names : Reached(names) = ReachedIn(c, names)
  BY <1>1 DEF Reached, ReachedIn
<1>3. CatalogInv => CyclesFound
  BY <1>1, <1>2 DEF CatalogInv, Ordered, Resolvable, CyclesFound
<1> QED
  BY <1>3, CatalogInductive, PTL

\* Each layer overrides what is below it, setting by setting, for files of every
\* depth, as long as the local file and its overlay agree on what is a section.
THEOREM LayersOverride == Spec => []LayersHold
<1>1. CatalogInv => LayersHold
  <2> SUFFICES ASSUME c \in Configs, Conflicts[Depth][<<c.trees.local, c.trees.private>>] = {}
               PROVE  Settings[Depth][Layered(c.trees.project, c.trees.local, c.trees.private)]
                        = Overlaid(Overlaid(Settings[Depth][c.trees.project], Settings[Depth][c.trees.local]),
                                   Settings[Depth][c.trees.private])
    BY DEF CatalogInv, Ordered, LayersHold
  <2>1. c.trees.project \in Tree[Depth] /\ c.trees.local \in Tree[Depth] /\ c.trees.private \in Tree[Depth]
    BY GeneratorAssumption DEF GeneratorAssumption
  <2> QED
    BY <2>1, LayersOverlay
<1> QED
  BY <1>1, CatalogInductive, PTL

(***************************************************************************)
(* The reverse proxy: which location is the heaviest of those that cover a *)
(* path, by the first words of their stems, and from there each link.      *)
(***************************************************************************)
\* What is before and after the end of the first of two paths.
LEMMA Concatenated ==
  ASSUME NEW S, NEW s \in Seq(S), NEW t \in Seq(S)
  PROVE  /\ s \o t \in Seq(S) /\ Len(s \o t) = Len(s) + Len(t)
         /\ \A i \in 1..Len(s) : (s \o t)[i] = s[i]
         /\ SubSeq(s \o t, 1, Len(s)) = s
         /\ SubSeq(s \o t, Len(s) + 1, Len(s) + Len(t)) = t
<1>1. /\ s \o t \in Seq(S) /\ Len(s \o t) = Len(s) + Len(t)
      /\ \A i \in 1..Len(s) : (s \o t)[i] = s[i]
      /\ \A i \in 1..Len(t) : (s \o t)[Len(s) + i] = t[i]
  BY ConcatProperties
<1>2. SubSeq(s \o t, 1, Len(s)) = s
  <2> DEFINE u == SubSeq(s \o t, 1, Len(s))
  <2>1. Len(u) = Len(s) /\ u \in Seq(S) /\ \A i \in 1..Len(s) : u[i] = s[i]
    BY <1>1, SubSeqProperties
  <2> QED BY <2>1, SeqEqual
<1>3. SubSeq(s \o t, Len(s) + 1, Len(s) + Len(t)) = t
  <2> DEFINE u == SubSeq(s \o t, Len(s) + 1, Len(s) + Len(t))
  <2>1. Len(u) = Len(t) /\ u \in Seq(S) /\ \A i \in 1..Len(t) : u[i] = t[i]
    BY <1>1, SubSeqProperties
  <2> QED BY <2>1, SeqEqual
<1> QED BY <1>1, <1>2, <1>3

\* Paths of one, two and three words.
LEMMA OneSegment ==
  ASSUME NEW S, NEW s \in S
  PROVE  <<s>> \in Seq(S) /\ Len(<<s>>) = 1 /\ <<s>>[1] = s
OBVIOUS

LEMMA TwoSegments ==
  ASSUME NEW S, NEW s \in S, NEW t \in S
  PROVE  <<s, t>> \in Seq(S) /\ Len(<<s, t>>) = 2 /\ <<s, t>>[1] = s /\ <<s, t>>[2] = t
OBVIOUS

LEMMA Tuples ==
  ASSUME NEW s, NEW t, NEW u, NEW v
  PROVE  /\ <<s>>[1] = s /\ Len(<<s>>) = 1 /\ <<s, t>>[1] = s /\ <<s, t>>[2] = t /\ Len(<<s, t>>) = 2
         /\ <<s>> = <<t>> => s = t
         /\ <<s, t>> # <<u>>
         /\ <<s, t>> = <<u, v>> => s = u /\ t = v
OBVIOUS

\* The locations of LiteLLM, by their first words.
LEMMA LiteLLMStems ==
  ASSUME NEW l \in LiteLLMLocations
  PROVE  \E s \in {"v1", "litellm-asset-prefix", "swagger", "ui", "litellm", "health", "openapi.json"} :
           /\ l.stem = <<s>>
           /\ s = "v1" => l = Under(<<"v1">>, "litellm", <<"v1">>)
           /\ s = "ui" => l \in {Under(<<"ui">>, "litellm", <<"ui">>), Exact(<<"ui">>, "client", <<"ui", "">>)}
           /\ s = "health" => l = From(<<"health">>, "litellm", <<"health">>)
           /\ s = "litellm" => l \in {Under(<<"litellm">>, "litellm", <<>>), Exact(<<"litellm">>, "client", <<"litellm", "">>)}
<1>1. \/ \E s \in {"v1", "litellm-asset-prefix", "swagger", "ui"} : l = Under(<<s>>, "litellm", <<s>>)
      \/ l = Exact(<<"litellm">>, "client", <<"litellm", "">>)
      \/ l = Under(<<"litellm">>, "litellm", <<>>)
      \/ l = Exact(<<"ui">>, "client", <<"ui", "">>)
      \/ l = From(<<"health">>, "litellm", <<"health">>)
      \/ l = Exact(<<"openapi.json">>, "litellm", <<"openapi.json">>)
  BY Zenon DEF LiteLLMLocations
<1>2. CASE \E s \in {"v1", "litellm-asset-prefix", "swagger", "ui"} : l = Under(<<s>>, "litellm", <<s>>)
  <2>1. PICK s \in {"v1", "litellm-asset-prefix", "swagger", "ui"} : l = Under(<<s>>, "litellm", <<s>>)
    BY <1>2
  <2>2. l.stem = <<s>>
    BY <2>1 DEF Under
  <2> QED BY <2>1, <2>2
<1>3. CASE l = Exact(<<"litellm">>, "client", <<"litellm", "">>)
  <2>1. l.stem = <<"litellm">>
    BY <1>3 DEF Exact
  <2> QED BY <1>3, <2>1
<1>4. CASE l = Under(<<"litellm">>, "litellm", <<>>)
  <2>1. l.stem = <<"litellm">>
    BY <1>4 DEF Under
  <2> QED BY <1>4, <2>1
<1>5. CASE l = Exact(<<"ui">>, "client", <<"ui", "">>)
  <2>1. l.stem = <<"ui">>
    BY <1>5 DEF Exact
  <2> QED BY <1>5, <2>1
<1>6. CASE l = From(<<"health">>, "litellm", <<"health">>)
  <2>1. l.stem = <<"health">>
    BY <1>6 DEF From
  <2> QED BY <1>6, <2>1
<1>7. CASE l = Exact(<<"openapi.json">>, "litellm", <<"openapi.json">>)
  <2>1. l.stem = <<"openapi.json">>
    BY <1>7 DEF Exact
  <2> QED BY <1>7, <2>1
<1> QED BY <1>1, <1>2, <1>3, <1>4, <1>5, <1>6, <1>7

\* Those of llama-swap.
LEMMA LlamaSwapStems ==
  ASSUME NEW l \in LlamaSwapLocations
  PROVE  \/ \E s \in {"llamaswap-health", "activity", "logs", "models", "api", "upstream", "dev"} :
              /\ l.stem = <<s>>
              /\ s = "llamaswap-health" => l = Exact(<<s>>, "llamaswap", <<"health">>)
              /\ s \in {"activity", "logs", "models"} => l = Exact(<<s>>, "llamaswap", <<s>>)
              /\ s \in {"api", "upstream", "dev"} => l = Under(<<s>>, "llamaswap", <<s>>)
         \/ l.stem = <<"llamaswap">>
              /\ l \in {Exact(<<"llamaswap">>, "client", <<"llamaswap", "ui", "">>), Under(<<"llamaswap">>, "llamaswap", <<>>)}
         \/ l.stem = <<"llamaswap", "">> /\ l = Exact(<<"llamaswap", "">>, "client", <<"llamaswap", "ui", "">>)
         \/ l.stem = <<"llamaswap", "ui">>
              /\ l \in {Exact(<<"llamaswap", "ui">>, "client", <<"llamaswap", "ui", "">>), Under(<<"llamaswap", "ui">>, "llamaswap", <<"ui">>)}
<1>1. \/ \E s \in {"activity", "logs", "models"} : l = Exact(<<s>>, "llamaswap", <<s>>)
      \/ \E s \in {"api", "upstream", "dev"} : l = Under(<<s>>, "llamaswap", <<s>>)
      \/ l = Exact(<<"llamaswap">>, "client", <<"llamaswap", "ui", "">>)
      \/ l = Exact(<<"llamaswap", "">>, "client", <<"llamaswap", "ui", "">>)
      \/ l = Exact(<<"llamaswap", "ui">>, "client", <<"llamaswap", "ui", "">>)
      \/ l = Under(<<"llamaswap", "ui">>, "llamaswap", <<"ui">>)
      \/ l = Under(<<"llamaswap">>, "llamaswap", <<>>)
      \/ l = Exact(<<"llamaswap-health">>, "llamaswap", <<"health">>)
  BY Zenon DEF LlamaSwapLocations
<1>2. CASE \E s \in {"activity", "logs", "models"} : l = Exact(<<s>>, "llamaswap", <<s>>)
  <2>1. PICK s \in {"activity", "logs", "models"} : l = Exact(<<s>>, "llamaswap", <<s>>)
    BY <1>2
  <2>2. l.stem = <<s>>
    BY <2>1 DEF Exact
  <2> QED BY <2>1, <2>2
<1>3. CASE \E s \in {"api", "upstream", "dev"} : l = Under(<<s>>, "llamaswap", <<s>>)
  <2>1. PICK s \in {"api", "upstream", "dev"} : l = Under(<<s>>, "llamaswap", <<s>>)
    BY <1>3
  <2>2. l.stem = <<s>>
    BY <2>1 DEF Under
  <2> QED BY <2>1, <2>2
<1>4. CASE l = Exact(<<"llamaswap">>, "client", <<"llamaswap", "ui", "">>)
  <2>1. l.stem = <<"llamaswap">>
    BY <1>4 DEF Exact
  <2> QED BY <1>4, <2>1
<1>5. CASE l = Exact(<<"llamaswap", "">>, "client", <<"llamaswap", "ui", "">>)
  <2>1. l.stem = <<"llamaswap", "">>
    BY <1>5 DEF Exact
  <2> QED BY <1>5, <2>1
<1>6. CASE l = Exact(<<"llamaswap", "ui">>, "client", <<"llamaswap", "ui", "">>)
  <2>1. l.stem = <<"llamaswap", "ui">>
    BY <1>6 DEF Exact
  <2> QED BY <1>6, <2>1
<1>7. CASE l = Under(<<"llamaswap", "ui">>, "llamaswap", <<"ui">>)
  <2>1. l.stem = <<"llamaswap", "ui">>
    BY <1>7 DEF Under
  <2> QED BY <1>7, <2>1
<1>8. CASE l = Under(<<"llamaswap">>, "llamaswap", <<>>)
  <2>1. l.stem = <<"llamaswap">>
    BY <1>8 DEF Under
  <2> QED BY <1>8, <2>1
<1>9. CASE l = Exact(<<"llamaswap-health">>, "llamaswap", <<"health">>)
  <2>1. l.stem = <<"llamaswap-health">>
    BY <1>9 DEF Exact
  <2> QED BY <1>9, <2>1
<1> QED BY <1>1, <1>2, <1>3, <1>4, <1>5, <1>6, <1>7, <1>8, <1>9

\* Those of vLLM, which are there if it is.
LEMMA VllmStems ==
  ASSUME NEW enabled, NEW l \in VllmLocations(enabled)
  PROVE  enabled /\ \E s \in {"vllm", "vllm-health"} :
           /\ l.stem = <<s>>
           /\ s = "vllm" => l \in {Under(<<"vllm">>, "vllm", <<>>), Exact(<<"vllm">>, "client", <<"vllm", "">>)}
           /\ s = "vllm-health" => l = Exact(<<"vllm-health">>, "vllm", <<"health">>)
<1>5. enabled
  BY DEF VllmLocations
<1>1. \/ l = Exact(<<"vllm">>, "client", <<"vllm", "">>)
      \/ l = Under(<<"vllm">>, "vllm", <<>>)
      \/ l = Exact(<<"vllm-health">>, "vllm", <<"health">>)
  BY DEF VllmLocations
<1>2. CASE l = Exact(<<"vllm">>, "client", <<"vllm", "">>)
  <2>1. l.stem = <<"vllm">>
    BY <1>2 DEF Exact
  <2> QED BY <1>5, <1>2, <2>1
<1>3. CASE l = Under(<<"vllm">>, "vllm", <<>>)
  <2>1. l.stem = <<"vllm">>
    BY <1>3 DEF Under
  <2> QED BY <1>5, <1>3, <2>1
<1>4. CASE l = Exact(<<"vllm-health">>, "vllm", <<"health">>)
  <2>1. l.stem = <<"vllm-health">>
    BY <1>4 DEF Exact
  <2> QED BY <1>5, <1>4, <2>1
<1> QED BY <1>1, <1>2, <1>3, <1>4, <1>5

\* The words of nginx are words of paths.
LEMMA SegmentsKnown ==
  /\ "" \in Segments /\ "v1" \in Segments /\ "ui" \in Segments /\ "litellm" \in Segments /\ "health" \in Segments
  /\ "llamaswap" \in Segments /\ "llamaswap-health" \in Segments /\ "vllm" \in Segments /\ "vllm-health" \in Segments
  /\ "models" \in Segments /\ "index.html" \in Segments
  /\ {"litellm-asset-prefix", "swagger", "openapi.json", "activity", "logs", "models", "api", "upstream", "dev"} \subseteq Segments
BY ProxyAssumption DEF NginxWords

\* The stem of a location has one word or two.
LEMMA StemsTyped ==
  ASSUME NEW enabled, NEW l \in Fixed(enabled)
  PROVE  l.stem \in Seq(Segments) /\ Len(l.stem) \in 1..2 /\ l.stem # <<>>
<1> SUFFICES l.stem \in Seq(Segments) /\ Len(l.stem) \in 1..2
  OBVIOUS
<1>1. CASE l \in LiteLLMLocations
  <2>1. PICK s \in Segments : l.stem = <<s>>
    BY <1>1, LiteLLMStems, SegmentsKnown
  <2> QED BY <2>1, OneSegment
<1>2. CASE l \in LlamaSwapLocations
  <2>1. (\E s \in Segments : l.stem = <<s>>) \/ (\E s, t \in Segments : l.stem = <<s, t>>)
    BY <1>2, LlamaSwapStems, SegmentsKnown
  <2>2. CASE \E s \in Segments : l.stem = <<s>>
    BY <2>2, OneSegment
  <2>3. CASE \E s, t \in Segments : l.stem = <<s, t>>
    <3>1. PICK s \in Segments, t \in Segments : l.stem = <<s, t>>
      BY <2>3
    <3> QED BY <3>1, TwoSegments
  <2> QED BY <2>1, <2>2, <2>3
<1>3. CASE l \in VllmLocations(enabled)
  <2>1. PICK s \in Segments : l.stem = <<s>>
    BY <1>3, VllmStems, SegmentsKnown
  <2> QED BY <2>1, OneSegment
<1>4. CASE l = Exact(Root, "static", <<"index.html">>)
  <2>1. PICK s \in Segments : l.stem = <<s>>
    BY <1>4, SegmentsKnown DEF Exact, Root
  <2> QED BY <2>1, OneSegment
<1> QED BY <1>1, <1>2, <1>3, <1>4 DEF Fixed

\* A location with the greatest weight of those that cover a path is the one that
\* nginx takes.
LEMMA HeaviestTaken ==
  ASSUME NEW base, NEW enabled, NEW path, NEW l \in Locations(base, enabled), Covers(l, path),
         \A m \in Locations(base, enabled) : Covers(m, path) => Len(m.stem) \in Nat /\ (m = l \/ Weight(m) < Weight(l))
  PROVE  Hop(base, enabled, path) = Answer(l.to, l.instead \o SubSeq(path, Len(l.stem) + 1, Len(path)))
<1> DEFINE covering == {m \in Locations(base, enabled) : Covers(m, path)}
           best(m) == \A k \in covering : Weight(k) <= Weight(m)
<1>1. ASSUME NEW m \in covering
      PROVE  Weight(m) \in Nat
  <2>1. Len(m.stem) \in Nat
    OBVIOUS
  <2>2. (IF m.kind = "from" THEN 0 ELSE 1) \in Nat
    OBVIOUS
  <2>3. \A n \in Nat, k \in Nat : 2 * n + k \in Nat
    OBVIOUS
  <2> HIDE DEF covering
  <2> QED BY <2>1, <2>2, <2>3 DEF Weight
<1>2. best(l) /\ l \in covering
  BY <1>1
<1>3. (CHOOSE m \in covering : best(m)) = l
  <2>1. \A m \in covering : best(m) => m = l
    BY <1>1, <1>2
  <2> QED BY <1>2, <2>1
<1> QED BY <1>2, <1>3 DEF Hop

\* A path starts with the first word of what covers it.
LEMMA SameWord ==
  ASSUME NEW path \in Seq(Segments), NEW k, k.stem \in Seq(Segments), k.stem # <<>>, Covers(k, path)
  PROVE  k.stem[1] = path[1]
<1>1. k.stem = SubSeq(path, 1, Len(k.stem)) /\ Len(k.stem) \in 1..Len(path)
  BY DEF Covers
<1>2. SubSeq(path, 1, Len(k.stem))[1] = path[1]
  BY <1>1
<1> QED BY <1>1, <1>2

\* Beside the base, only locations with the first word of a path cover it.
LEMMA CoversFirst ==
  ASSUME NEW base \in Seq(Segments), NEW enabled, Clear(base, enabled), NEW path \in Seq(Segments), path # <<>>,
         NEW l \in Fixed(enabled), l.stem[1] = path[1], NEW m \in Locations(base, enabled), Covers(m, path)
  PROVE  m \in Fixed(enabled) /\ m.stem[1] = path[1]
<1>2. CASE m \in Fixed(enabled)
  <2>1. m.stem \in Seq(Segments) /\ Len(m.stem) \in 1..2
    BY <1>2, StemsTyped
  <2> QED BY <1>2, <2>1, SameWord DEF Locations
<1>3. CASE m \in BaseLocations(base)
  <2>1. base # <<>> /\ m.stem = base
    BY <1>3 DEF BaseLocations, Exact, Under
  <2>2. base[1] = path[1]
    BY <2>1, SameWord
  <2> QED BY <2>1, <2>2 DEF Clear
<1> QED BY <1>2, <1>3 DEF Locations

\* The stems are paths.
LEMMA LocationsTyped ==
  ASSUME NEW base \in Seq(Segments), NEW enabled, NEW m \in Locations(base, enabled)
  PROVE  Len(m.stem) \in Nat /\ m.stem \in Seq(Segments)
<1>1. CASE m \in Fixed(enabled)
  BY <1>1, StemsTyped
<1>2. CASE m \in BaseLocations(base)
  <2>1. m.stem = base
    BY <1>2 DEF BaseLocations, Exact, Under
  <2> QED BY <2>1
<1> QED BY <1>1, <1>2 DEF Locations

\* There are three kinds of locations.
LEMMA Kinds ==
  ASSUME NEW base, NEW enabled, NEW m \in Locations(base, enabled)
  PROVE  m.kind \in {"exact", "from", "under"}
<1> DEFINE Shaped == \/ \E stem, to, instead : m = Exact(stem, to, instead)
                     \/ \E stem, to, instead : m = Under(stem, to, instead)
                     \/ \E stem, to, instead : m = From(stem, to, instead)
<1>1. CASE m \in LiteLLMLocations
  <2>1. Shaped
    BY <1>1, Zenon DEF LiteLLMLocations
  <2> QED BY <2>1 DEF Exact, Under, From
<1>2. CASE m \in LlamaSwapLocations
  <2>1. Shaped
    BY <1>2, Zenon DEF LlamaSwapLocations
  <2> QED BY <2>1 DEF Exact, Under, From
<1>3. CASE m \in VllmLocations(enabled)
  <2>1. Shaped
    BY <1>3 DEF VllmLocations
  <2> QED BY <2>1 DEF Exact, Under, From
<1>4. CASE m = Exact(Root, "static", <<"index.html">>)
  BY <1>4 DEF Exact
<1>5. CASE m \in BaseLocations(base)
  <2>1. Shaped
    BY <1>5 DEF BaseLocations
  <2> QED BY <2>1 DEF Exact, Under, From
<1> QED BY <1>1, <1>2, <1>3, <1>4, <1>5 DEF Locations, Fixed

\* A path after a word.
LEMMA OneWordBefore ==
  ASSUME NEW S, NEW s \in S, NEW p \in Seq(S)
  PROVE  /\ <<s>> \o p \in Seq(S) /\ Len(<<s>> \o p) = 1 + Len(p) /\ (<<s>> \o p)[1] = s
         /\ SubSeq(<<s>> \o p, 1, 1) = <<s>> /\ SubSeq(<<s>> \o p, 2, Len(<<s>> \o p)) = p
<1> DEFINE word == <<s>>
           path == word \o p
<1>1. word \in Seq(S) /\ Len(word) = 1 /\ word[1] = s
  BY OneSegment
<1> HIDE DEF word
<1>2. /\ path \in Seq(S) /\ Len(path) = Len(word) + Len(p) /\ \A i \in 1..Len(word) : path[i] = word[i]
      /\ SubSeq(path, 1, Len(word)) = word /\ SubSeq(path, Len(word) + 1, Len(word) + Len(p)) = p
  <2>1. path \in Seq(S) /\ Len(path) = Len(word) + Len(p)
    BY <1>1, Concatenated
  <2>2. \A i \in 1..Len(word) : path[i] = word[i]
    BY <1>1, Concatenated
  <2>3. SubSeq(path, 1, Len(word)) = word
    BY <1>1, Concatenated
  <2>4. SubSeq(path, Len(word) + 1, Len(word) + Len(p)) = p
    <3>1. word \in Seq(S)
      BY <1>1
    <3> HIDE DEF path
    <3>2. SubSeq(word \o p, Len(word) + 1, Len(word) + Len(p)) = p
      BY ONLY <3>1, p \in Seq(S), Concatenated
    <3> QED BY <3>2 DEF path
  <2> QED BY <2>1, <2>2, <2>3, <2>4
<1> HIDE DEF path
<1>3. Len(path) = 1 + Len(p) /\ path[1] = s /\ SubSeq(path, 1, 1) = word /\ SubSeq(path, 2, Len(path)) = p
  BY <1>1, <1>2
<1> QED BY <1>2, <1>3 DEF path, word

\* An exact location wins.
LEMMA ExactTaken ==
  ASSUME NEW base \in Seq(Segments), NEW enabled, NEW stem \in Seq(Segments), NEW to, NEW instead \in Seq(Segments),
         Exact(stem, to, instead) \in Locations(base, enabled),
         \A m \in Locations(base, enabled) : m.kind = "exact" /\ m.stem = stem => m = Exact(stem, to, instead)
  PROVE  Hop(base, enabled, stem) = Answer(to, instead)
<1> DEFINE l == Exact(stem, to, instead)
<1>1. l.stem = stem /\ l.to = to /\ l.instead = instead /\ l.kind = "exact"
  BY DEF Exact
<1>0. l \in Locations(base, enabled)
  OBVIOUS
<1> HIDE DEF l
<1>2. Covers(l, stem)
  <2>1. SubSeq(stem, 1, Len(stem)) = stem
    OBVIOUS
  <2> QED BY <1>1, <2>1 DEF Covers
<1>3. Weight(l) = 2 * Len(stem) + 1
  BY <1>1 DEF Weight
<1>4. ASSUME NEW m \in Locations(base, enabled), Covers(m, stem)
      PROVE  Len(m.stem) \in Nat /\ (m = l \/ Weight(m) < Weight(l))
  <2>1. Len(m.stem) \in Nat /\ Len(m.stem) <= Len(stem) /\ SubSeq(stem, 1, Len(m.stem)) = m.stem
    BY <1>4, LocationsTyped DEF Covers
  <2>2. CASE m.kind = "exact"
    <3>1. Len(m.stem) = Len(stem)
      BY <1>4, <2>2 DEF Covers
    <3>2. SubSeq(stem, 1, Len(stem)) = stem
      OBVIOUS
    <3>3. m.stem = stem
      BY <2>1, <3>1, <3>2
    <3> QED BY <2>1, <2>2, <3>3 DEF l
  <2>3. CASE m.kind = "from"
    <3>1. Weight(m) = 2 * Len(m.stem)
      BY <2>1, <2>3 DEF Weight
    <3> QED BY <1>3, <2>1, <3>1
  <2>4. CASE m.kind = "under"
    <3>1. Len(m.stem) < Len(stem)
      BY <1>4, <2>1, <2>4 DEF Covers
    <3>2. Weight(m) = 2 * Len(m.stem) + 1
      BY <2>1, <2>4 DEF Weight
    <3> QED BY <1>3, <2>1, <3>1, <3>2
  <2>5. m.kind \in {"exact", "from", "under"}
    BY Kinds
  <2> QED BY <2>2, <2>3, <2>4, <2>5
<1>5. Hop(base, enabled, stem) = Answer(l.to, l.instead \o SubSeq(stem, Len(l.stem) + 1, Len(stem)))
  BY <1>0, <1>2, <1>4, HeaviestTaken
<1>6. SubSeq(stem, Len(stem) + 1, Len(stem)) = <<>> /\ instead \o <<>> = instead
  OBVIOUS
<1> QED BY <1>1, <1>5, <1>6

\* The only prefix with that first word, and the only exact location with that stem.
ThePrefix(enabled, s, to, instead) ==
  /\ Under(<<s>>, to, instead) \in Fixed(enabled)
  /\ \A m \in Fixed(enabled) : m.stem[1] = s => m = Under(<<s>>, to, instead) \/ (m.kind = "exact" /\ m.stem = <<s>>)

TheExact(enabled, l) ==
  l \in Fixed(enabled) /\ \A m \in Fixed(enabled) : m.kind = "exact" /\ m.stem = l.stem => m = l

\* What is read from an exact location.
LEMMA ExactFields ==
  ASSUME NEW stem, NEW to, NEW instead
  PROVE  Exact(stem, to, instead).kind = "exact" /\ Exact(stem, to, instead).stem = stem
BY DEF Exact

\* A request that is under a word which no other prefix starts with.
LEMMA UnderTaken ==
  ASSUME NEW base \in Seq(Segments), NEW enabled, Clear(base, enabled), NEW s \in Segments, NEW to, NEW instead,
         ThePrefix(enabled, s, to, instead), NEW p \in Seq(Segments), p # <<>>
  PROVE  Hop(base, enabled, <<s>> \o p) = Answer(to, instead \o p)
<1> DEFINE l == Under(<<s>>, to, instead)
           path == <<s>> \o p
<1>1. l.stem = <<s>> /\ l.to = to /\ l.instead = instead /\ l.kind = "under"
  BY DEF Under
<1> HIDE DEF l
<1>2. <<s>> \in Seq(Segments) /\ Len(<<s>>) = 1 /\ <<s>>[1] = s /\ Len(p) \in Nat \ {0}
  BY OneSegment
<1>3. /\ path \in Seq(Segments) /\ Len(path) = 1 + Len(p) /\ path[1] = s
      /\ SubSeq(path, 1, 1) = <<s>> /\ SubSeq(path, 2, Len(path)) = p
  BY OneWordBefore
<1> HIDE DEF path
<1>4. Covers(l, path)
  BY <1>1, <1>2, <1>3 DEF Covers
<1>5. l \in Fixed(enabled) /\ l \in Locations(base, enabled)
  BY DEF Locations, l, ThePrefix
<1>10. \A m \in Fixed(enabled) : m.stem[1] = s => m = l \/ (m.kind = "exact" /\ m.stem = <<s>>)
  BY DEF l, ThePrefix
<1>6. ASSUME NEW m \in Locations(base, enabled), Covers(m, path)
      PROVE  Len(m.stem) \in Nat /\ (m = l \/ Weight(m) < Weight(l))
  <2>1. Len(m.stem) \in Nat
    BY LocationsTyped
  <2>2. m \in Fixed(enabled) /\ m.stem[1] = s
    BY <1>1, <1>2, <1>3, <1>5, <1>6, CoversFirst
  <2>3. CASE m.kind = "exact" /\ m.stem = <<s>>
    BY <1>2, <1>3, <1>6, <2>3 DEF Covers
  <2> QED BY <1>10, <2>1, <2>2, <2>3
<1>7. Hop(base, enabled, path) = Answer(l.to, l.instead \o SubSeq(path, Len(l.stem) + 1, Len(path)))
  BY <1>4, <1>5, <1>6, HeaviestTaken
<1>8. Len(l.stem) + 1 = 2
  BY <1>1, <1>2
<1>9. Hop(base, enabled, path) = Answer(to, instead \o p)
  BY <1>1, <1>3, <1>7, <1>8
<1> QED BY <1>9 DEF path

\* Under the base the request comes again, without it.
LEMMA BaseTaken ==
  ASSUME NEW base \in Seq(Segments), base # <<>>, NEW enabled, Clear(base, enabled), NEW p \in Seq(Segments), p # <<>>
  PROVE  Hop(base, enabled, base \o p) = Answer("nginx", p)
<1> DEFINE l == Under(base, "nginx", <<>>)
           path == base \o p
<1>1. l.stem = base /\ l.to = "nginx" /\ l.instead = <<>> /\ l.kind = "under"
  BY DEF Under
<1>2. l \in Locations(base, enabled)
  BY DEF Locations, BaseLocations
<1> HIDE DEF l
<1>3. Len(base) \in Nat \ {0} /\ Len(p) \in Nat \ {0}
  OBVIOUS
<1>4. /\ path \in Seq(Segments) /\ Len(path) = Len(base) + Len(p) /\ path[1] = base[1]
      /\ SubSeq(path, 1, Len(base)) = base
  <2>1. path \in Seq(Segments) /\ Len(path) = Len(base) + Len(p)
    BY Concatenated
  <2>2. \A i \in 1..Len(base) : path[i] = base[i]
    BY Concatenated
  <2>3. SubSeq(path, 1, Len(base)) = base
    BY Concatenated
  <2> HIDE DEF path
  <2> QED BY <1>3, <2>1, <2>2, <2>3
<1>5. SubSeq(path, Len(base) + 1, Len(path)) = p
  <2>1. SubSeq(base \o p, Len(base) + 1, Len(base) + Len(p)) = p
    BY ONLY base \in Seq(Segments), p \in Seq(Segments), Concatenated
  <2> QED BY <1>4, <2>1
<1> HIDE DEF path
<1>6. Covers(l, path)
  BY <1>1, <1>3, <1>4 DEF Covers
<1>7. ASSUME NEW m \in Locations(base, enabled), Covers(m, path)
      PROVE  Len(m.stem) \in Nat /\ (m = l \/ Weight(m) < Weight(l))
  <2>1. Len(m.stem) \in Nat
    BY LocationsTyped
  <2>2. CASE m \in Fixed(enabled)
    <3>1. m.stem \in Seq(Segments)
      BY <2>2, StemsTyped
    <3>2. m.stem # <<>>
      BY <2>2, StemsTyped
    <3>4. m.stem[1] = base[1]
      BY <1>4, <1>7, <3>1, <3>2, SameWord
    <3> QED BY <2>2, <3>4 DEF Clear
  <2>3. CASE m = Exact(base, "client", base \o Root)
    <3>1. m.kind = "exact" /\ m.stem = base
      BY <2>3 DEF Exact
    <3> QED BY <1>3, <1>4, <1>7, <3>1 DEF Covers
  <2> QED BY <2>1, <2>2, <2>3 DEF Locations, BaseLocations, l
<1>8. Hop(base, enabled, path) = Answer(l.to, l.instead \o SubSeq(path, Len(l.stem) + 1, Len(path)))
  BY <1>2, <1>6, <1>7, HeaviestTaken
<1>9. <<>> \o p = p
  OBVIOUS
<1>10. Hop(base, enabled, path) = Answer("nginx", p)
  BY <1>1, <1>5, <1>8, <1>9
<1> QED BY <1>10 DEF path

\* So the routes work under the base as they do without it.
LEMMA BasePasses ==
  ASSUME NEW base \in Seq(Segments), NEW enabled, Clear(base, enabled)
  PROVE  BaseTransparent(base, enabled)
BY BaseTaken, ProxyAssumption DEF BaseTransparent

\* From where a final answer is found, with the base in front or without it.
LEMMA Follows ==
  ASSUME NEW base \in Seq(Segments), NEW enabled, Clear(base, enabled), NEW p \in Seq(Segments), p # <<>>,
         NEW answer, Final(answer), NEW q,
         Hop(base, enabled, p) = answer \/ (Hop(base, enabled, p) = Answer("client", q) /\ Hop(base, enabled, q) = answer)
  PROVE  Followed(base, enabled, p) = answer /\ Followed(base, enabled, base \o p) = answer
<1> DEFINE ask(a) == Ask(base, enabled, a)
<1>1. ask(answer) = answer
  BY DEF Ask
<1>2. ~Final(Answer("client", q)) /\ ask(Answer("client", q)) = Hop(base, enabled, q)
  BY DEF Final, Answer, Ask
<1>3. ask(Answer("nginx", p)) = Hop(base, enabled, p)
  BY DEF Final, Answer, Ask
<1>4. Followed(base, enabled, p) = ask(ask(ask(Hop(base, enabled, p))))
  BY DEF Followed
<1>5. Followed(base, enabled, base \o p) = ask(ask(ask(Hop(base, enabled, base \o p))))
  BY DEF Followed
<1> HIDE DEF ask
<1>6. Followed(base, enabled, p) = answer
  BY <1>1, <1>2, <1>4
<1>7. CASE base = <<>>
  <2>1. base \o p = p
    BY <1>7
  <2> QED BY <1>6, <2>1
<1>8. CASE base # <<>>
  <2>1. Hop(base, enabled, base \o p) = Answer("nginx", p)
    BY <1>8, BaseTaken
  <2> QED BY <1>1, <1>2, <1>3, <1>5, <1>6, <2>1
<1> QED BY <1>7, <1>8

\* What is read from a stem of one word or of two.
LEMMA WordAlone ==
  ASSUME NEW x, NEW s, x = <<s>>
  PROVE  x[1] = s /\ Len(x) = 1 /\ (\A t : x = <<t>> => t = s) /\ (\A t, u : x # <<t, u>>)
BY Tuples

LEMMA WordPair ==
  ASSUME NEW x, NEW s, NEW t, x = <<s, t>>
  PROVE  x[1] = s /\ (\A u : x # <<u>>) /\ (\A u, v : x = <<u, v>> => u = s /\ v = t)
BY Tuples

\* The locations with a given first word.
LEMMA FirstWords ==
  ASSUME NEW enabled, NEW l \in Fixed(enabled)
  PROVE  /\ l.stem[1] = "v1" => l = Under(<<"v1">>, "litellm", <<"v1">>)
         /\ l.stem[1] = "ui" => l \in {Under(<<"ui">>, "litellm", <<"ui">>), Exact(<<"ui">>, "client", <<"ui", "">>)}
         /\ l.stem[1] = "health" => l = From(<<"health">>, "litellm", <<"health">>)
         /\ l.stem[1] = "litellm" => l \in {Under(<<"litellm">>, "litellm", <<>>), Exact(<<"litellm">>, "client", <<"litellm", "">>)}
         /\ \A s \in {"api", "upstream", "dev"} : l.stem[1] = s => l = Under(<<s>>, "llamaswap", <<s>>)
         /\ l.stem[1] = "vllm" => l \in {Under(<<"vllm">>, "vllm", <<>>), Exact(<<"vllm">>, "client", <<"vllm", "">>)}
<1>1. CASE l \in LiteLLMLocations
  <2>1. PICK s \in {"v1", "litellm-asset-prefix", "swagger", "ui", "litellm", "health", "openapi.json"} :
          /\ l.stem = <<s>>
          /\ s = "v1" => l = Under(<<"v1">>, "litellm", <<"v1">>)
          /\ s = "ui" => l \in {Under(<<"ui">>, "litellm", <<"ui">>), Exact(<<"ui">>, "client", <<"ui", "">>)}
          /\ s = "health" => l = From(<<"health">>, "litellm", <<"health">>)
          /\ s = "litellm" => l \in {Under(<<"litellm">>, "litellm", <<>>), Exact(<<"litellm">>, "client", <<"litellm", "">>)}
    BY <1>1, LiteLLMStems
  <2>2. l.stem = <<s>>
    BY <2>1
  <2>3. l.stem[1] = s
    BY <2>2, Tuples
  <2> QED BY <2>1, <2>3
<1>2. CASE l \in LlamaSwapLocations
  <2>1. CASE l.stem[1] = "llamaswap"
    BY <2>1
  <2>2. CASE \E s \in {"llamaswap-health", "activity", "logs", "models", "api", "upstream", "dev"} :
               /\ l.stem = <<s>>
               /\ s \in {"api", "upstream", "dev"} => l = Under(<<s>>, "llamaswap", <<s>>)
    <3>1. PICK s \in {"llamaswap-health", "activity", "logs", "models", "api", "upstream", "dev"} :
            /\ l.stem = <<s>>
            /\ s \in {"api", "upstream", "dev"} => l = Under(<<s>>, "llamaswap", <<s>>)
      BY <2>2
    <3>2. l.stem = <<s>>
      BY <3>1
    <3>3. l.stem[1] = s
      BY <3>2, Tuples
    <3> QED BY <3>1, <3>3
  <2>3. l.stem \in {<<"llamaswap">>, <<"llamaswap", "">>, <<"llamaswap", "ui">>} => l.stem[1] = "llamaswap"
    <3>1. l.stem = <<"llamaswap">> => l.stem[1] = "llamaswap"
      BY WordAlone
    <3>2. l.stem = <<"llamaswap", "">> => l.stem[1] = "llamaswap"
      BY WordPair
    <3>3. l.stem = <<"llamaswap", "ui">> => l.stem[1] = "llamaswap"
      BY WordPair
    <3> QED BY <3>1, <3>2, <3>3
  <2> QED BY <1>2, <2>1, <2>2, <2>3, LlamaSwapStems
<1>3. CASE l \in VllmLocations(enabled)
  <2>1. PICK s \in {"vllm", "vllm-health"} :
          /\ l.stem = <<s>>
          /\ s = "vllm" => l \in {Under(<<"vllm">>, "vllm", <<>>), Exact(<<"vllm">>, "client", <<"vllm", "">>)}
    BY <1>3, VllmStems
  <2>2. l.stem = <<s>>
    BY <2>1
  <2>3. l.stem[1] = s
    BY <2>2, Tuples
  <2> QED BY <2>1, <2>3
<1>4. CASE l = Exact(Root, "static", <<"index.html">>)
  <2>1. l.stem = <<"">>
    BY <1>4 DEF Exact, Root
  <2>2. l.stem[1] = ""
    BY <2>1, Tuples
  <2> QED BY <2>2
<1> QED BY <1>1, <1>2, <1>3, <1>4 DEF Fixed

\* The exact locations that are asked for, each by its stem.
LEMMA PairRead ==
  ASSUME NEW x, NEW s, NEW t, x = <<s, t>>
  PROVE  x[2] = t /\ Len(x) = 2
BY Tuples

\* Two words after the same one.
LEMMA PairsDiffer ==
  ASSUME NEW x, NEW s, NEW t, x = <<s, t>>, NEW v, v # t
  PROVE  x # <<s, v>>
BY Tuples

LEMMA ExactOnes ==
  ASSUME NEW enabled, NEW l \in Fixed(enabled), l.kind = "exact"
  PROVE  /\ l.stem = <<"llamaswap", "">> => l = Exact(<<"llamaswap", "">>, "client", <<"llamaswap", "ui", "">>)
         /\ l.stem = <<"llamaswap", "ui">> => l = Exact(<<"llamaswap", "ui">>, "client", <<"llamaswap", "ui", "">>)
         /\ l.stem = <<"llamaswap-health">> => l = Exact(<<"llamaswap-health">>, "llamaswap", <<"health">>)
         /\ \A s \in {"activity", "logs", "models"} : l.stem = <<s>> => l = Exact(<<s>>, "llamaswap", <<s>>)
         /\ l.stem = <<"vllm-health">> => l = Exact(<<"vllm-health">>, "vllm", <<"health">>)
         /\ l.stem = Root => l = Exact(Root, "static", <<"index.html">>)
<1> DEFINE Said == /\ l.stem = <<"llamaswap", "">> => l = Exact(<<"llamaswap", "">>, "client", <<"llamaswap", "ui", "">>)
                   /\ l.stem = <<"llamaswap", "ui">> => l = Exact(<<"llamaswap", "ui">>, "client", <<"llamaswap", "ui", "">>)
           Single(s) == /\ s = "llamaswap-health" => l = Exact(<<"llamaswap-health">>, "llamaswap", <<"health">>)
                        /\ s \in {"activity", "logs", "models"} => l = Exact(<<s>>, "llamaswap", <<s>>)
                        /\ s = "vllm-health" => l = Exact(<<"vllm-health">>, "vllm", <<"health">>)
                        /\ s = "" => l = Exact(<<"">>, "static", <<"index.html">>)
<1>1. (\E s : l.stem = <<s>> /\ Single(s)) \/ (Said /\ \A s : l.stem # <<s>>)
  <2>1. CASE l \in LiteLLMLocations
    <3>1. PICK s \in {"v1", "litellm-asset-prefix", "swagger", "ui", "litellm", "health", "openapi.json"} : l.stem = <<s>>
      BY <2>1, LiteLLMStems
    <3>2. l.stem = <<s>>
      BY <3>1
    <3>3. Single(s)
      OBVIOUS
    <3> QED BY <3>2, <3>3
  <2>2. CASE l \in VllmLocations(enabled)
    <3>1. PICK s \in {"vllm", "vllm-health"} :
            l.stem = <<s>> /\ (s = "vllm-health" => l = Exact(<<"vllm-health">>, "vllm", <<"health">>))
      BY <2>2, VllmStems
    <3>2. l.stem = <<s>>
      BY <3>1
    <3>3. Single(s)
      BY <3>1
    <3> QED BY <3>2, <3>3
  <2>3. CASE l = Exact(Root, "static", <<"index.html">>)
    <3>1. l.stem = <<"">>
      BY <2>3 DEF Exact, Root
    <3>2. Single("")
      BY <2>3 DEF Root
    <3> QED BY <3>1, <3>2
  <2>4. CASE l \in LlamaSwapLocations
    <3>1. CASE \E s \in {"llamaswap-health", "activity", "logs", "models", "api", "upstream", "dev"} :
                 /\ l.stem = <<s>>
                 /\ s = "llamaswap-health" => l = Exact(<<s>>, "llamaswap", <<"health">>)
                 /\ s \in {"activity", "logs", "models"} => l = Exact(<<s>>, "llamaswap", <<s>>)
      <4>1. PICK s \in {"llamaswap-health", "activity", "logs", "models", "api", "upstream", "dev"} :
                 /\ l.stem = <<s>>
                 /\ s = "llamaswap-health" => l = Exact(<<s>>, "llamaswap", <<"health">>)
                 /\ s \in {"activity", "logs", "models"} => l = Exact(<<s>>, "llamaswap", <<s>>)
        BY <3>1
      <4>2. l.stem = <<s>>
        BY <4>1
      <4>3. Single(s)
        BY <4>1
      <4> QED BY <4>2, <4>3
    <3>2. CASE l.stem = <<"llamaswap">>
      <4>1. Single("llamaswap")
        OBVIOUS
      <4> QED BY <3>2, <4>1
    <3>3. CASE l.stem = <<"llamaswap", "">> /\ l = Exact(<<"llamaswap", "">>, "client", <<"llamaswap", "ui", "">>)
      <4>1. l.stem = <<"llamaswap", "">>
        BY <3>3
      <4>2. \A s : l.stem # <<s>>
        BY <4>1, WordPair
      <4>4. l.stem # <<"llamaswap", "ui">>
        BY <4>1, PairsDiffer
      <4>5. l = Exact(<<"llamaswap", "">>, "client", <<"llamaswap", "ui", "">>)
        BY <3>3
      <4>6. Said
        BY <4>4, <4>5
      <4> QED BY <4>2, <4>6
    <3>4. CASE l.stem = <<"llamaswap", "ui">>
                 /\ l \in {Exact(<<"llamaswap", "ui">>, "client", <<"llamaswap", "ui", "">>), Under(<<"llamaswap", "ui">>, "llamaswap", <<"ui">>)}
      <4>1. l.stem = <<"llamaswap", "ui">>
        BY <3>4
      <4>2. \A s : l.stem # <<s>>
        BY <4>1, WordPair
      <4>4. l.stem # <<"llamaswap", "">>
        BY <4>1, PairsDiffer
      <4>5. l # Under(<<"llamaswap", "ui">>, "llamaswap", <<"ui">>)
        BY DEF Under
      <4>6. l = Exact(<<"llamaswap", "ui">>, "client", <<"llamaswap", "ui", "">>)
        BY <3>4, <4>5
      <4>7. Said
        BY <4>4, <4>6
      <4> QED BY <4>2, <4>7
    <3> QED BY <2>4, <3>1, <3>2, <3>3, <3>4, LlamaSwapStems
  <2> QED BY <2>1, <2>2, <2>3, <2>4 DEF Fixed
<1>2. CASE \E s : l.stem = <<s>> /\ Single(s)
  <2>1. PICK s : l.stem = <<s>> /\ Single(s)
    BY <1>2
  <2>2. (\A t : l.stem = <<t>> => t = s) /\ (\A t, u : l.stem # <<t, u>>)
    <3>1. l.stem = <<s>>
      BY <2>1
    <3> QED BY <3>1, WordAlone
  <2>3. l.stem = <<"llamaswap-health">> => l = Exact(<<"llamaswap-health">>, "llamaswap", <<"health">>)
    <3>1. l.stem = <<"llamaswap-health">> => s = "llamaswap-health"
      BY <2>2
    <3> QED BY <2>1, <3>1
  <2>4. \A t \in {"activity", "logs", "models"} : l.stem = <<t>> => l = Exact(<<t>>, "llamaswap", <<t>>)
    <3>1. \A t : l.stem = <<t>> => s = t
      BY <2>2
    <3> QED BY <2>1, <3>1
  <2>5. l.stem = <<"vllm-health">> => l = Exact(<<"vllm-health">>, "vllm", <<"health">>)
    <3>1. l.stem = <<"vllm-health">> => s = "vllm-health"
      BY <2>2
    <3> QED BY <2>1, <3>1
  <2>6. l.stem = Root => l = Exact(Root, "static", <<"index.html">>)
    <3>1. l.stem = <<"">> => s = ""
      BY <2>2
    <3> QED BY <2>1, <3>1 DEF Root
  <2> QED BY <2>2, <2>3, <2>4, <2>5, <2>6
<1>3. CASE Said /\ \A s : l.stem # <<s>>
  BY <1>3 DEF Root
<1> QED BY <1>1, <1>2, <1>3


\* Words put together.
LEMMA Paired ==
  ASSUME NEW s \in Segments, NEW t \in Segments
  PROVE  <<s>> \o <<t>> = <<s, t>>
<1> DEFINE u == <<s>> \o <<t>>
           v == <<s, t>>
<1>1. v \in Seq(Segments) /\ Len(v) = 2 /\ v[1] = s /\ v[2] = t
  BY TwoSegments
<1>2. u \in Seq(Segments) /\ Len(u) = 2 /\ u[1] = s /\ u[2] = t
  <2>1. /\ <<s>> \in Seq(Segments) /\ Len(<<s>>) = 1 /\ <<s>>[1] = s
        /\ <<t>> \in Seq(Segments) /\ Len(<<t>>) = 1 /\ <<t>>[1] = t
    BY OneSegment
  <2> QED BY <2>1, ConcatProperties
<1> HIDE DEF u, v
<1>3. u = v
  BY <1>1, <1>2, SeqEqual
<1> QED BY <1>3 DEF u, v

LEMMA ThreeSegments ==
  ASSUME NEW S, NEW s \in S, NEW t \in S, NEW u \in S
  PROVE  <<s, t, u>> \in Seq(S)
OBVIOUS

LEMMA Tripled ==
  ASSUME NEW s \in Segments, NEW t \in Segments, NEW u \in Segments
  PROVE  <<s, t>> \o <<u>> = <<s, t, u>>
<1> DEFINE a == <<s, t>>
           b == <<u>>
           d == <<s, t, u>>
<1>1. d \in Seq(Segments) /\ Len(d) = 3 /\ d[1] = s /\ d[2] = t /\ d[3] = u
  OBVIOUS
<1>2. /\ a \in Seq(Segments) /\ Len(a) = 2 /\ a[1] = s /\ a[2] = t
      /\ b \in Seq(Segments) /\ Len(b) = 1 /\ b[1] = u
  BY OneSegment, TwoSegments
<1> HIDE DEF a, b, d
<1>8. a \in Seq(Segments) /\ b \in Seq(Segments)
  BY <1>2
<1>3. /\ a \o b \in Seq(Segments) /\ Len(a \o b) = Len(a) + Len(b)
      /\ \A i \in 1..Len(a) : (a \o b)[i] = a[i]
      /\ \A i \in 1..Len(b) : (a \o b)[Len(a) + i] = b[i]
  BY ONLY <1>8, ConcatProperties
<1>4. (a \o b)[1] = s /\ (a \o b)[2] = t
  BY <1>2, <1>3
<1>5. (a \o b)[2 + 1] = u
  BY <1>2, <1>3
<1>6. \A i \in 1..3 : (a \o b)[i] = d[i]
  <2>1. 2 + 1 = 3 /\ \A i \in 1..3 : i = 1 \/ i = 2 \/ i = 3
    OBVIOUS
  <2>2. (a \o b)[3] = u
    BY <1>5, <2>1
  <2> DEFINE w == a \o b
  <2>3. w[1] = d[1] /\ w[2] = d[2] /\ w[3] = d[3]
    BY <1>1, <1>4, <2>2
  <2> HIDE DEF w
  <2>4. \A i \in 1..3 : w[i] = d[i]
    BY <2>1, <2>3
  <2> QED BY <2>4 DEF w
<1>7. a \o b = d
  BY <1>1, <1>2, <1>3, <1>6, SeqEqual
<1> QED BY <1>7 DEF a, b, d

LEMMA SameWords ==
  ASSUME NEW p \in Seq(Segments), NEW q \in Seq(Segments), Len(p) = 1, Len(q) = 1, p[1] = q[1]
  PROVE  p = q
<1>1. \A i \in 1..Len(p) : p[i] = q[i]
  OBVIOUS
<1> QED BY <1>1, SeqEqual

\* The locations that the links and the services need.
LEMMA Members ==
  ASSUME NEW enabled
  PROVE  /\ \A s \in {"v1", "ui"} : Under(<<s>>, "litellm", <<s>>) \in Fixed(enabled)
         /\ Under(<<"litellm">>, "litellm", <<>>) \in Fixed(enabled)
         /\ From(<<"health">>, "litellm", <<"health">>) \in Fixed(enabled)
         /\ \A s \in {"api", "upstream", "dev"} : Under(<<s>>, "llamaswap", <<s>>) \in Fixed(enabled)
         /\ \A s \in {"activity", "logs", "models"} : Exact(<<s>>, "llamaswap", <<s>>) \in Fixed(enabled)
         /\ \A p \in {<<"llamaswap", "">>, <<"llamaswap", "ui">>} : Exact(p, "client", <<"llamaswap", "ui", "">>) \in Fixed(enabled)
         /\ Under(<<"llamaswap", "ui">>, "llamaswap", <<"ui">>) \in Fixed(enabled)
         /\ Under(<<"llamaswap">>, "llamaswap", <<>>) \in Fixed(enabled)
         /\ Exact(<<"llamaswap-health">>, "llamaswap", <<"health">>) \in Fixed(enabled)
         /\ enabled => /\ Under(<<"vllm">>, "vllm", <<>>) \in Fixed(enabled)
                    /\ Exact(<<"vllm-health">>, "vllm", <<"health">>) \in Fixed(enabled)
         /\ Exact(Root, "static", <<"index.html">>) \in Fixed(enabled)
<1>1. /\ \A s \in {"v1", "ui"} : Under(<<s>>, "litellm", <<s>>) \in LiteLLMLocations
      /\ Under(<<"litellm">>, "litellm", <<>>) \in LiteLLMLocations
      /\ From(<<"health">>, "litellm", <<"health">>) \in LiteLLMLocations
  BY Zenon DEF LiteLLMLocations
<1>2. /\ \A s \in {"api", "upstream", "dev"} : Under(<<s>>, "llamaswap", <<s>>) \in LlamaSwapLocations
      /\ \A s \in {"activity", "logs", "models"} : Exact(<<s>>, "llamaswap", <<s>>) \in LlamaSwapLocations
      /\ \A p \in {<<"llamaswap", "">>, <<"llamaswap", "ui">>} : Exact(p, "client", <<"llamaswap", "ui", "">>) \in LlamaSwapLocations
      /\ Under(<<"llamaswap", "ui">>, "llamaswap", <<"ui">>) \in LlamaSwapLocations
      /\ Under(<<"llamaswap">>, "llamaswap", <<>>) \in LlamaSwapLocations
      /\ Exact(<<"llamaswap-health">>, "llamaswap", <<"health">>) \in LlamaSwapLocations
  BY Zenon DEF LlamaSwapLocations
<1>3. enabled => /\ Under(<<"vllm">>, "vllm", <<>>) \in VllmLocations(enabled)
              /\ Exact(<<"vllm-health">>, "vllm", <<"health">>) \in VllmLocations(enabled)
  BY Zenon DEF VllmLocations
<1> QED BY <1>1, <1>2, <1>3, Zenon DEF Fixed

\* An exact location of nginx itself, which no clear base defines again.
LEMMA ExactFixed ==
  ASSUME NEW base \in Seq(Segments), NEW enabled, Clear(base, enabled), NEW stem \in Seq(Segments), NEW to, NEW instead \in Seq(Segments),
         TheExact(enabled, Exact(stem, to, instead))
  PROVE  Hop(base, enabled, stem) = Answer(to, instead)
<1> DEFINE l == Exact(stem, to, instead)
<1>1. l.stem = stem /\ l.kind = "exact"
  BY DEF Exact
<1> HIDE DEF l
<1>4. l \in Fixed(enabled) /\ \A m \in Fixed(enabled) : m.kind = "exact" /\ m.stem = stem => m = l
  BY <1>1 DEF l, TheExact
<1>5. l \in Locations(base, enabled)
  BY <1>4 DEF Locations
<1>2. ASSUME NEW m \in BaseLocations(base), m.stem = stem
      PROVE  FALSE
  <2>1. base # <<>> /\ m.stem = base
    BY <1>2 DEF BaseLocations, Exact, Under
  <2> QED BY <1>1, <1>2, <1>4, <2>1 DEF Clear
<1>3. \A m \in Locations(base, enabled) : m.kind = "exact" /\ m.stem = stem => m = l
  BY <1>2, <1>4 DEF Locations
<1>6. Exact(stem, to, instead) \in Locations(base, enabled)
  BY <1>5 DEF l
<1>7. \A m \in Locations(base, enabled) : m.kind = "exact" /\ m.stem = stem => m = Exact(stem, to, instead)
  BY <1>3 DEF l
<1> QED BY <1>6, <1>7, ExactTaken

\* What is asked for under a word.
LEMMA UnderHops ==
  ASSUME NEW base \in Seq(Segments), NEW enabled, Clear(base, enabled), NEW p \in Seq(Segments), p # <<>>
  PROVE  /\ \A s \in {"v1", "ui"} : Hop(base, enabled, <<s>> \o p) = Answer("litellm", <<s>> \o p)
         /\ Hop(base, enabled, <<"litellm">> \o p) = Answer("litellm", p)
         /\ \A s \in {"api", "upstream", "dev"} : Hop(base, enabled, <<s>> \o p) = Answer("llamaswap", <<s>> \o p)
<1>1. ASSUME NEW s \in {"v1", "ui"}
      PROVE  Hop(base, enabled, <<s>> \o p) = Answer("litellm", <<s>> \o p)
  <2>1. Under(<<s>>, "litellm", <<s>>) \in Fixed(enabled) /\ s \in Segments
    BY Members, SegmentsKnown
  <2>2. \A m \in Fixed(enabled) : m.stem[1] = s => m = Under(<<s>>, "litellm", <<s>>) \/ (m.kind = "exact" /\ m.stem = <<s>>)
    <3>1. \A m \in Fixed(enabled) : m.stem[1] = s => m = Under(<<s>>, "litellm", <<s>>) \/ m = Exact(<<s>>, "client", <<s, "">>)
      BY FirstWords, Zenon
    <3>2. Exact(<<s>>, "client", <<s, "">>).kind = "exact" /\ Exact(<<s>>, "client", <<s, "">>).stem = <<s>>
      BY DEF Exact
    <3> QED BY <3>1, <3>2, Zenon
  <2> DEFINE put == <<s>>
  <2>3. ThePrefix(enabled, s, "litellm", put)
    BY <2>1, <2>2 DEF ThePrefix
  <2> HIDE DEF put
  <2>4. Hop(base, enabled, <<s>> \o p) = Answer("litellm", put \o p)
    BY <2>1, <2>3, UnderTaken
  <2> QED BY <2>4 DEF put
<1>2. Hop(base, enabled, <<"litellm">> \o p) = Answer("litellm", <<>> \o p)
  <2>1. Under(<<"litellm">>, "litellm", <<>>) \in Fixed(enabled) /\ "litellm" \in Segments
    BY Members, SegmentsKnown
  <2>2. \A m \in Fixed(enabled) : m.stem[1] = "litellm" =>
          m = Under(<<"litellm">>, "litellm", <<>>) \/ (m.kind = "exact" /\ m.stem = <<"litellm">>)
    <3>1. \A m \in Fixed(enabled) : m.stem[1] = "litellm" =>
            m = Under(<<"litellm">>, "litellm", <<>>) \/ m = Exact(<<"litellm">>, "client", <<"litellm", "">>)
      BY FirstWords, Zenon
    <3>2. Exact(<<"litellm">>, "client", <<"litellm", "">>).kind = "exact" /\ Exact(<<"litellm">>, "client", <<"litellm", "">>).stem = <<"litellm">>
      BY DEF Exact
    <3> QED BY <3>1, <3>2, Zenon
  <2> DEFINE put == <<>>
  <2>3. ThePrefix(enabled, "litellm", "litellm", put)
    BY <2>1, <2>2 DEF ThePrefix
  <2> HIDE DEF put
  <2>4. Hop(base, enabled, <<"litellm">> \o p) = Answer("litellm", put \o p)
    BY <2>1, <2>3, UnderTaken
  <2> QED BY <2>4 DEF put
<1>3. ASSUME NEW s \in {"api", "upstream", "dev"}
      PROVE  Hop(base, enabled, <<s>> \o p) = Answer("llamaswap", <<s>> \o p)
  <2>1. Under(<<s>>, "llamaswap", <<s>>) \in Fixed(enabled) /\ s \in Segments
    BY Members, SegmentsKnown
  <2>2. \A m \in Fixed(enabled) : m.stem[1] = s => m = Under(<<s>>, "llamaswap", <<s>>) \/ (m.kind = "exact" /\ m.stem = <<s>>)
    BY FirstWords
  <2> DEFINE put == <<s>>
  <2>3. ThePrefix(enabled, s, "llamaswap", put)
    BY <2>1, <2>2 DEF ThePrefix
  <2> HIDE DEF put
  <2>4. Hop(base, enabled, <<s>> \o p) = Answer("llamaswap", put \o p)
    BY <2>1, <2>3, UnderTaken
  <2> QED BY <2>4 DEF put
<1>5. <<>> \o p = p
  OBVIOUS
<1> QED BY <1>1, <1>2, <1>3, <1>5

\* What is asked of vLLM, if it is there.
LEMMA VllmHop ==
  ASSUME NEW base \in Seq(Segments), NEW enabled, Clear(base, enabled), NEW p \in Seq(Segments), p # <<>>
  PROVE  enabled => Hop(base, enabled, <<"vllm">> \o p) = Answer("vllm", p)
<1>1. ASSUME enabled
      PROVE  Hop(base, enabled, <<"vllm">> \o p) = Answer("vllm", <<>> \o p)
  <2>1. Under(<<"vllm">>, "vllm", <<>>) \in Fixed(enabled) /\ "vllm" \in Segments
    BY <1>1, Members, SegmentsKnown
  <2>2. \A m \in Fixed(enabled) : m.stem[1] = "vllm" =>
          m = Under(<<"vllm">>, "vllm", <<>>) \/ (m.kind = "exact" /\ m.stem = <<"vllm">>)
    <3>1. \A m \in Fixed(enabled) : m.stem[1] = "vllm" =>
            m = Under(<<"vllm">>, "vllm", <<>>) \/ m = Exact(<<"vllm">>, "client", <<"vllm", "">>)
      BY FirstWords, Zenon
    <3>2. Exact(<<"vllm">>, "client", <<"vllm", "">>).kind = "exact" /\ Exact(<<"vllm">>, "client", <<"vllm", "">>).stem = <<"vllm">>
      BY DEF Exact
    <3> QED BY <3>1, <3>2, Zenon
  <2> DEFINE put == <<>>
  <2>3. ThePrefix(enabled, "vllm", "vllm", put)
    BY <2>1, <2>2 DEF ThePrefix
  <2> HIDE DEF put
  <2>4. Hop(base, enabled, <<"vllm">> \o p) = Answer("vllm", put \o p)
    BY <2>1, <2>3, UnderTaken
  <2> QED BY <2>4 DEF put
<1>2. <<>> \o p = p
  OBVIOUS
<1> QED BY <1>1, <1>2

\* What is asked for by its whole path.
LEMMA ExactHops ==
  ASSUME NEW base \in Seq(Segments), NEW enabled, Clear(base, enabled)
  PROVE  /\ \A q \in {<<"llamaswap", "">>, <<"llamaswap", "ui">>} : Hop(base, enabled, q) = Answer("client", <<"llamaswap", "ui", "">>)
         /\ Hop(base, enabled, <<"llamaswap-health">>) = Answer("llamaswap", <<"health">>)
         /\ \A s \in {"activity", "logs", "models"} : Hop(base, enabled, <<s>>) = Answer("llamaswap", <<s>>)
         /\ enabled => Hop(base, enabled, <<"vllm-health">>) = Answer("vllm", <<"health">>)
         /\ Hop(base, enabled, Root) = Answer("static", <<"index.html">>)
<1>1. ASSUME NEW s \in Segments
      PROVE  <<s>> \in Seq(Segments)
  BY OneSegment
<1>2. ASSUME NEW q, q \in {<<"llamaswap", "">>, <<"llamaswap", "ui">>}
      PROVE  Hop(base, enabled, q) = Answer("client", <<"llamaswap", "ui", "">>)
  <2>1. q \in Seq(Segments) /\ <<"llamaswap", "ui", "">> \in Seq(Segments)
    <3>1. <<"llamaswap", "">> \in Seq(Segments)
      BY SegmentsKnown, TwoSegments
    <3>2. <<"llamaswap", "ui">> \in Seq(Segments)
      BY SegmentsKnown, TwoSegments
    <3>3. <<"llamaswap", "ui", "">> \in Seq(Segments)
      BY SegmentsKnown, ThreeSegments
    <3> QED BY <1>2, <3>1, <3>2, <3>3
  <2>2. TheExact(enabled, Exact(q, "client", <<"llamaswap", "ui", "">>))
    <3>1. Exact(q, "client", <<"llamaswap", "ui", "">>) \in Fixed(enabled)
      BY <1>2, Members
    <3>2. \A m \in Fixed(enabled) : m.kind = "exact" /\ m.stem = q => m = Exact(q, "client", <<"llamaswap", "ui", "">>)
      BY <1>2, ExactOnes
    <3> QED BY <3>1, <3>2, ExactFields DEF TheExact
  <2> DEFINE stem == q
             put == <<"llamaswap", "ui", "">>
  <2>3. stem \in Seq(Segments) /\ put \in Seq(Segments) /\ TheExact(enabled, Exact(stem, "client", put))
    BY <2>1, <2>2
  <2> HIDE DEF stem, put
  <2>4. Hop(base, enabled, stem) = Answer("client", put)
    BY ONLY <2>3, base \in Seq(Segments), Clear(base, enabled), ExactFixed
  <2> QED BY <2>4 DEF stem, put
<1>3. Hop(base, enabled, <<"llamaswap-health">>) = Answer("llamaswap", <<"health">>)
  <2>1. <<"llamaswap-health">> \in Seq(Segments) /\ <<"health">> \in Seq(Segments)
    BY <1>1, SegmentsKnown
  <2>2. TheExact(enabled, Exact(<<"llamaswap-health">>, "llamaswap", <<"health">>))
    <3>1. Exact(<<"llamaswap-health">>, "llamaswap", <<"health">>) \in Fixed(enabled)
      BY Members
    <3>2. \A m \in Fixed(enabled) : m.kind = "exact" /\ m.stem = <<"llamaswap-health">> => m = Exact(<<"llamaswap-health">>, "llamaswap", <<"health">>)
      BY ExactOnes
    <3> QED BY <3>1, <3>2, ExactFields DEF TheExact
  <2> DEFINE stem == <<"llamaswap-health">>
             put == <<"health">>
  <2>3. stem \in Seq(Segments) /\ put \in Seq(Segments) /\ TheExact(enabled, Exact(stem, "llamaswap", put))
    BY <2>1, <2>2
  <2> HIDE DEF stem, put
  <2>4. Hop(base, enabled, stem) = Answer("llamaswap", put)
    BY <2>3, ExactFixed
  <2> QED BY <2>4 DEF stem, put
<1>4. ASSUME NEW s \in {"activity", "logs", "models"}
      PROVE  Hop(base, enabled, <<s>>) = Answer("llamaswap", <<s>>)
  <2>1. <<s>> \in Seq(Segments)
    BY <1>1, SegmentsKnown
  <2>2. TheExact(enabled, Exact(<<s>>, "llamaswap", <<s>>))
    <3>1. Exact(<<s>>, "llamaswap", <<s>>) \in Fixed(enabled)
      BY Members
    <3>2. \A m \in Fixed(enabled) : m.kind = "exact" /\ m.stem = <<s>> => m = Exact(<<s>>, "llamaswap", <<s>>)
      BY ExactOnes
    <3> QED BY <3>1, <3>2, ExactFields DEF TheExact
  <2> DEFINE stem == <<s>>
             put == <<s>>
  <2>3. stem \in Seq(Segments) /\ put \in Seq(Segments) /\ TheExact(enabled, Exact(stem, "llamaswap", put))
    BY <2>1, <2>2
  <2> HIDE DEF stem, put
  <2>4. Hop(base, enabled, stem) = Answer("llamaswap", put)
    BY <2>3, ExactFixed
  <2> QED BY <2>4 DEF stem, put
<1>5. ASSUME enabled
      PROVE  Hop(base, enabled, <<"vllm-health">>) = Answer("vllm", <<"health">>)
  <2>1. <<"vllm-health">> \in Seq(Segments) /\ <<"health">> \in Seq(Segments)
    BY <1>1, SegmentsKnown
  <2>2. TheExact(enabled, Exact(<<"vllm-health">>, "vllm", <<"health">>))
    <3>1. Exact(<<"vllm-health">>, "vllm", <<"health">>) \in Fixed(enabled)
      BY <1>5, Members
    <3>2. \A m \in Fixed(enabled) : m.kind = "exact" /\ m.stem = <<"vllm-health">> => m = Exact(<<"vllm-health">>, "vllm", <<"health">>)
      BY ExactOnes
    <3> QED BY <3>1, <3>2, ExactFields DEF TheExact
  <2> DEFINE stem == <<"vllm-health">>
             put == <<"health">>
  <2>3. stem \in Seq(Segments) /\ put \in Seq(Segments) /\ TheExact(enabled, Exact(stem, "vllm", put))
    BY <2>1, <2>2
  <2> HIDE DEF stem, put
  <2>4. Hop(base, enabled, stem) = Answer("vllm", put)
    BY <2>3, ExactFixed
  <2> QED BY <2>4 DEF stem, put
<1>6. Hop(base, enabled, Root) = Answer("static", <<"index.html">>)
  <2>1. Root \in Seq(Segments) /\ <<"index.html">> \in Seq(Segments)
    BY <1>1, SegmentsKnown DEF Root
  <2>2. TheExact(enabled, Exact(Root, "static", <<"index.html">>))
    <3>1. Exact(Root, "static", <<"index.html">>) \in Fixed(enabled)
      BY Members
    <3>2. \A m \in Fixed(enabled) : m.kind = "exact" /\ m.stem = Root => m = Exact(Root, "static", <<"index.html">>)
      BY ExactOnes
    <3> QED BY <3>1, <3>2, ExactFields DEF TheExact
  <2> DEFINE stem == Root
             put == <<"index.html">>
  <2>3. stem \in Seq(Segments) /\ put \in Seq(Segments) /\ TheExact(enabled, Exact(stem, "static", put))
    BY <2>1, <2>2
  <2> HIDE DEF stem, put
  <2>4. Hop(base, enabled, stem) = Answer("static", put)
    BY <2>3, ExactFixed
  <2> QED BY <2>4 DEF stem, put
<1> QED BY <1>2, <1>3, <1>4, <1>5, <1>6

\* The only location whose prefix is not cut at a slash.
LEMMA FromTaken ==
  ASSUME NEW base \in Seq(Segments), NEW enabled, Clear(base, enabled), NEW s \in Segments, NEW to,
         From(<<s>>, to, <<s>>) \in Fixed(enabled), \A m \in Fixed(enabled) : m.stem[1] = s => m = From(<<s>>, to, <<s>>)
  PROVE  Hop(base, enabled, <<s>>) = Answer(to, <<s>>)
<1> DEFINE path == <<s>>
           l == From(path, to, path)
<1>1. l.stem = path /\ l.to = to /\ l.instead = path /\ l.kind = "from"
  BY DEF From
<1>2. path \in Seq(Segments) /\ Len(path) = 1 /\ path[1] = s /\ path # <<>>
  BY OneSegment
<1>3. l \in Fixed(enabled) /\ l \in Locations(base, enabled)
  BY DEF Locations
<1>4. \A m \in Fixed(enabled) : m.stem[1] = s => m = l
  OBVIOUS
<1> HIDE DEF l, path
<1>5. Covers(l, path)
  <2>1. SubSeq(path, 1, Len(path)) = path
    BY <1>2
  <2> QED BY <1>1, <1>2, <2>1 DEF Covers
<1>6. ASSUME NEW m \in Locations(base, enabled), Covers(m, path)
      PROVE  Len(m.stem) \in Nat /\ (m = l \/ Weight(m) < Weight(l))
  <2>1. Len(m.stem) \in Nat
    BY LocationsTyped
  <2>2. m \in Fixed(enabled) /\ m.stem[1] = path[1]
    BY <1>1, <1>2, <1>3, <1>6, CoversFirst
  <2> QED BY <1>2, <1>4, <2>1, <2>2
<1>7. Hop(base, enabled, path) = Answer(l.to, l.instead \o SubSeq(path, Len(l.stem) + 1, Len(path)))
  BY <1>3, <1>5, <1>6, HeaviestTaken
<1>8. SubSeq(path, Len(path) + 1, Len(path)) = <<>> /\ path \o <<>> = path
  BY <1>2
<1>9. Hop(base, enabled, path) = Answer(to, path)
  BY <1>1, <1>7, <1>8
<1> QED BY <1>9 DEF path

\* The health of LiteLLM.
LEMMA HealthHop ==
  ASSUME NEW base \in Seq(Segments), NEW enabled, Clear(base, enabled)
  PROVE  Hop(base, enabled, <<"health">>) = Answer("litellm", <<"health">>)
<1> DEFINE s == "health"
<1>1. From(<<s>>, "litellm", <<s>>) \in Fixed(enabled) /\ s \in Segments
  BY Members, SegmentsKnown
<1>2. \A m \in Fixed(enabled) : m.stem[1] = s => m = From(<<s>>, "litellm", <<s>>)
  BY FirstWords
<1> HIDE DEF s
<1>3. Hop(base, enabled, <<s>>) = Answer("litellm", <<s>>)
  BY <1>1, <1>2, FromTaken
<1> QED BY <1>3 DEF s


\* Under /llamaswap/, where there are two prefixes.
SwapStems ==
  {Exact(<<"llamaswap">>, "client", <<"llamaswap", "ui", "">>), Under(<<"llamaswap">>, "llamaswap", <<>>),
   Exact(<<"llamaswap", "">>, "client", <<"llamaswap", "ui", "">>), Exact(<<"llamaswap", "ui">>, "client", <<"llamaswap", "ui", "">>),
   Under(<<"llamaswap", "ui">>, "llamaswap", <<"ui">>)}

\* There are no others under that word.
LEMMA SwapKnown ==
  ASSUME NEW enabled, NEW l \in Fixed(enabled), l.stem[1] = "llamaswap"
  PROVE  l \in SwapStems
<1>1. CASE l \in LlamaSwapLocations
  <2>1. ASSUME NEW s \in {"llamaswap-health", "activity", "logs", "models", "api", "upstream", "dev"}, l.stem = <<s>>
        PROVE  FALSE
    <3>1. l.stem[1] = s
      BY <2>1, WordAlone
    <3> QED BY <3>1
  <2> QED BY <1>1, <2>1, LlamaSwapStems, Zenon DEF SwapStems
<1>2. CASE l \in LiteLLMLocations
  <2>1. PICK s \in {"v1", "litellm-asset-prefix", "swagger", "ui", "litellm", "health", "openapi.json"} : l.stem = <<s>>
    BY <1>2, LiteLLMStems
  <2>2. l.stem[1] = s
    BY <2>1, WordAlone
  <2> QED BY <2>1, <2>2
<1>3. CASE l \in VllmLocations(enabled)
  <2>1. PICK s \in {"vllm", "vllm-health"} : l.stem = <<s>>
    BY <1>3, VllmStems
  <2>2. l.stem[1] = s
    BY <2>1, WordAlone
  <2> QED BY <2>1, <2>2
<1>4. CASE l = Exact(Root, "static", <<"index.html">>)
  <2>1. l.stem = <<"">>
    BY <1>4 DEF Exact, Root
  <2>2. l.stem[1] = ""
    BY <2>1, WordAlone
  <2> QED BY <2>2
<1> QED BY <1>1, <1>2, <1>3, <1>4 DEF Fixed

\* What is left of a path after two words.
LEMMA TwoWordsBefore ==
  ASSUME NEW s \in Segments, NEW t \in Segments, NEW p \in Seq(Segments)
  PROVE  /\ <<s>> \o (<<t>> \o p) = <<s, t>> \o p
         /\ <<s, t>> \o p \in Seq(Segments) /\ Len(<<s, t>> \o p) = 2 + Len(p) /\ (<<s, t>> \o p)[1] = s
         /\ SubSeq(<<s, t>> \o p, 1, 2) = <<s, t>> /\ SubSeq(<<s, t>> \o p, 3, Len(<<s, t>> \o p)) = p
<1> DEFINE a == <<s>>
           b == <<t>>
           word == <<s, t>>
<1>1. a \in Seq(Segments) /\ b \in Seq(Segments)
  BY OneSegment
<1>2. word \in Seq(Segments) /\ Len(word) = 2 /\ word[1] = s
  BY TwoSegments
<1>3. a \o b = word
  BY Paired
<1> HIDE DEF a, b, word
<1>4. a \o (b \o p) = word \o p
  <2>1. (a \o b) \o p = a \o (b \o p)
    BY <1>1, ConcatAssociative
  <2> QED BY <1>3, <2>1
<1>5. /\ word \o p \in Seq(Segments) /\ Len(word \o p) = Len(word) + Len(p)
      /\ \A i \in 1..Len(word) : (word \o p)[i] = word[i]
      /\ SubSeq(word \o p, 1, Len(word)) = word
      /\ SubSeq(word \o p, Len(word) + 1, Len(word) + Len(p)) = p
  <2>1. word \in Seq(Segments)
    BY <1>2
  <2> QED BY ONLY <2>1, p \in Seq(Segments), Concatenated
<1>6. (word \o p)[1] = s
  BY <1>2, <1>5
<1>7. Len(word) + 1 = 3 /\ Len(word \o p) = 2 + Len(p)
  BY <1>2, <1>5
<1>8. SubSeq(word \o p, 1, 2) = word /\ SubSeq(word \o p, 3, Len(word \o p)) = p
  BY <1>2, <1>5, <1>7
<1>9. a \o (b \o p) = word \o p
  BY <1>4
<1> QED BY <1>4, <1>5, <1>6, <1>7, <1>8 DEF a, b, word

\* What a location of llama-swap looks like.
LEMMA SwapShape ==
  ASSUME NEW m \in SwapStems
  PROVE  \/ m = Under(<<"llamaswap">>, "llamaswap", <<>>) /\ m.kind = "under" /\ Len(m.stem) = 1
         \/ m = Under(<<"llamaswap", "ui">>, "llamaswap", <<"ui">>) /\ m.kind = "under" /\ Len(m.stem) = 2 /\ m.stem[2] = "ui"
         \/ m.kind = "exact" /\ Len(m.stem) = 1
         \/ m.kind = "exact" /\ Len(m.stem) = 2 /\ m.stem[2] = "ui"
         \/ m.kind = "exact" /\ Len(m.stem) = 2 /\ m.stem[2] = ""
<1>1. CASE m = Exact(<<"llamaswap">>, "client", <<"llamaswap", "ui", "">>)
  <2>1. m.kind = "exact"
    BY <1>1 DEF Exact
  <2>2. m.stem = <<"llamaswap">>
    BY <1>1 DEF Exact
  <2>3. Len(m.stem) = 1
    BY <2>2, WordAlone
  <2> QED BY <2>1, <2>3
<1>2. CASE m = Exact(<<"llamaswap", "">>, "client", <<"llamaswap", "ui", "">>)
  <2>1. m.kind = "exact"
    BY <1>2 DEF Exact
  <2>2. m.stem = <<"llamaswap", "">>
    BY <1>2 DEF Exact
  <2>3. Len(m.stem) = 2 /\ m.stem[2] = ""
    BY <2>2, PairRead
  <2> QED BY <2>1, <2>3
<1>3. CASE m = Exact(<<"llamaswap", "ui">>, "client", <<"llamaswap", "ui", "">>)
  <2>1. m.kind = "exact"
    BY <1>3 DEF Exact
  <2>2. m.stem = <<"llamaswap", "ui">>
    BY <1>3 DEF Exact
  <2>3. Len(m.stem) = 2 /\ m.stem[2] = "ui"
    BY <2>2, PairRead
  <2> QED BY <2>1, <2>3
<1>4. CASE m = Under(<<"llamaswap", "ui">>, "llamaswap", <<"ui">>)
  <2>1. m.kind = "under"
    BY <1>4 DEF Under
  <2>2. m.stem = <<"llamaswap", "ui">>
    BY <1>4 DEF Under
  <2>3. Len(m.stem) = 2 /\ m.stem[2] = "ui"
    BY <2>2, PairRead
  <2> QED BY <1>4, <2>1, <2>3
<1>5. CASE m = Under(<<"llamaswap">>, "llamaswap", <<>>)
  <2>1. m.kind = "under"
    BY <1>5 DEF Under
  <2>2. m.stem = <<"llamaswap">>
    BY <1>5 DEF Under
  <2>3. Len(m.stem) = 1
    BY <2>2, WordAlone
  <2> QED BY <1>5, <2>1, <2>3
<1> QED BY <1>1, <1>2, <1>3, <1>4, <1>5 DEF SwapStems

\* A page under /llamaswap/ui/.
LEMMA SwapUiHop ==
  ASSUME NEW base \in Seq(Segments), NEW enabled, Clear(base, enabled), NEW q \in Seq(Segments), q # <<>>
  PROVE  Hop(base, enabled, <<"llamaswap", "ui">> \o q) = Answer("llamaswap", <<"ui">> \o q)
<1> DEFINE stem == <<"llamaswap", "ui">>
           put == <<"ui">>
           l == Under(stem, "llamaswap", put)
           path == stem \o q
<1>1. l.stem = stem /\ l.to = "llamaswap" /\ l.instead = put /\ l.kind = "under"
  BY DEF Under
<1>2. stem \in Seq(Segments) /\ Len(stem) = 2 /\ stem[1] = "llamaswap"
  BY TwoSegments, SegmentsKnown
<1>3. l \in Fixed(enabled) /\ l \in Locations(base, enabled)
  BY Members DEF Locations
<1>4. /\ path \in Seq(Segments) /\ Len(path) = 2 + Len(q) /\ path[1] = "llamaswap"
      /\ SubSeq(path, 1, 2) = stem /\ SubSeq(path, 3, Len(path)) = q
  <2> DEFINE s == "llamaswap"
             t == "ui"
  <2>1. s \in Segments /\ t \in Segments
    BY SegmentsKnown
  <2> HIDE DEF s, t
  <2>2. /\ <<s, t>> \o q \in Seq(Segments) /\ Len(<<s, t>> \o q) = 2 + Len(q) /\ (<<s, t>> \o q)[1] = s
        /\ SubSeq(<<s, t>> \o q, 1, 2) = <<s, t>> /\ SubSeq(<<s, t>> \o q, 3, Len(<<s, t>> \o q)) = q
    BY <2>1, TwoWordsBefore
  <2> QED BY <2>2 DEF s, t
<1>5. Len(q) \in Nat \ {0}
  OBVIOUS
<1>10. ASSUME NEW m \in SwapStems
       PROVE  m = l \/ (m.kind = "exact" /\ (Len(m.stem) = 1 \/ Len(m.stem) = 2)) \/ (m.kind = "under" /\ Len(m.stem) = 1)
  BY SwapShape, Zenon
<1> HIDE DEF l, path, stem, put
<1>6. Covers(l, path)
  BY <1>1, <1>2, <1>4, <1>5 DEF Covers
<1>7. Weight(l) = 5
  BY <1>1, <1>2 DEF Weight
<1>8. ASSUME NEW m \in Locations(base, enabled), Covers(m, path)
      PROVE  Len(m.stem) \in Nat /\ (m = l \/ Weight(m) < Weight(l))
  <2>1. Len(m.stem) \in Nat
    BY LocationsTyped
  <2>2. path # <<>> /\ l.stem[1] = path[1]
    BY <1>1, <1>2, <1>4, <1>5
  <2>3. m \in Fixed(enabled) /\ m.stem[1] = path[1]
    BY <1>3, <1>4, <1>8, <2>2, CoversFirst
  <2>4. m \in SwapStems
    BY <1>4, <2>3, SwapKnown
  <2>5. CASE m.kind = "exact" /\ (Len(m.stem) = 1 \/ Len(m.stem) = 2)
    <3>1. Len(path) = Len(m.stem)
      BY <1>8, <2>5 DEF Covers
    <3>2. Len(path) = 2 + Len(q) /\ Len(q) \in Nat \ {0}
      BY <1>4, <1>5
    <3> QED BY ONLY <2>5, <3>1, <3>2
  <2>6. CASE m.kind = "under" /\ Len(m.stem) = 1
    <3>1. Weight(m) = 3
      BY <2>6 DEF Weight
    <3> QED BY <1>7, <2>1, <3>1
  <2> QED BY <1>10, <2>1, <2>4, <2>5, <2>6
<1>9. Hop(base, enabled, path) = Answer(l.to, l.instead \o SubSeq(path, Len(l.stem) + 1, Len(path)))
  BY <1>3, <1>6, <1>8, HeaviestTaken
<1>11. Len(l.stem) + 1 = 3
  BY <1>1, <1>2
<1>12. Hop(base, enabled, path) = Answer("llamaswap", put \o q)
  BY <1>1, <1>4, <1>9, <1>11
<1> QED BY <1>12 DEF path, stem, put


\* A path that is longer than one word.
LEMMA OneMore ==
  ASSUME NEW n \in Nat \ {0}, NEW m, m = 1 + n
  PROVE  m > 1 /\ m # 1 /\ (m = 2 => n = 1)
OBVIOUS

\* Any other page under /llamaswap/.
LEMMA SwapPageHop ==
  ASSUME NEW base \in Seq(Segments), NEW enabled, Clear(base, enabled), NEW p \in Seq(Segments), p # <<>>,
         p # Root, p[1] # "ui"
  PROVE  Hop(base, enabled, <<"llamaswap">> \o p) = Answer("llamaswap", p)
<1> DEFINE s == "llamaswap"
           stem == <<s>>
           l == Under(stem, "llamaswap", <<>>)
           path == stem \o p
<1>1. l.stem = stem /\ l.to = "llamaswap" /\ l.instead = <<>> /\ l.kind = "under"
  BY DEF Under
<1>2. stem \in Seq(Segments) /\ Len(stem) = 1 /\ stem[1] = s /\ s \in Segments
  BY OneSegment, SegmentsKnown
<1>3. l \in Fixed(enabled) /\ l \in Locations(base, enabled)
  BY Members DEF Locations
<1>4. ASSUME NEW m \in SwapStems
      PROVE  \/ m = l
             \/ m.kind = "exact" /\ Len(m.stem) = 1
             \/ Len(m.stem) = 2 /\ m.stem[2] = "ui"
             \/ Len(m.stem) = 2 /\ m.stem[2] = "" /\ m.kind = "exact"
  BY SwapShape, Zenon
<1> HIDE DEF l, stem, s
<1>5. /\ path \in Seq(Segments) /\ Len(path) = 1 + Len(p) /\ path[1] = s
      /\ SubSeq(path, 1, 1) = stem /\ SubSeq(path, 2, Len(path)) = p
  BY <1>2, OneWordBefore DEF stem
<1>6. Len(p) \in Nat \ {0} /\ path[2] = p[1] /\ (Len(p) = 1 => p[1] # "")
  <2>1. Len(p) \in Nat \ {0}
    OBVIOUS
  <2>2. path[2] = p[1]
    <3>0. stem \in Seq(Segments)
      BY <1>2
    <3>1. \A i \in 1..Len(p) : (stem \o p)[Len(stem) + i] = p[i]
      BY ONLY <3>0, p \in Seq(Segments), ConcatProperties
    <3>2. 1 \in 1..Len(p) /\ Len(stem) + 1 = 2
      BY <1>2, <2>1
    <3> QED BY <3>1, <3>2
  <2>3. ASSUME Len(p) = 1, p[1] = ""
        PROVE  FALSE
    <3>1. Root \in Seq(Segments) /\ Len(Root) = 1 /\ Root[1] = ""
      BY OneSegment, SegmentsKnown DEF Root
    <3>2. p = Root
      BY ONLY <2>3, <3>1, p \in Seq(Segments), SameWords
    <3> QED BY <3>2
  <2> QED BY <2>1, <2>2, <2>3
<1> HIDE DEF path
<1>13. Len(path) > 1 /\ Len(path) # 1 /\ (Len(path) = 2 => Len(p) = 1)
  <2>1. Len(path) = 1 + Len(p) /\ Len(p) \in Nat \ {0}
    BY <1>5, <1>6
  <2> QED BY <2>1, OneMore
<1>12. path # <<>> /\ l.stem[1] = path[1]
  <2>1. path # <<>>
    BY <1>13
  <2>2. l.stem[1] = path[1]
    BY <1>1, <1>2, <1>5
  <2> QED BY <2>1, <2>2
<1>7. Covers(l, path)
  <2>1. Len(l.stem) = 1 /\ SubSeq(path, 1, Len(l.stem)) = l.stem /\ l.kind = "under"
    BY <1>1, <1>2, <1>5
  <2>2. Len(path) > 1
    BY <1>13
  <2> QED BY <2>1, <2>2 DEF Covers
<1>8. ASSUME NEW m \in Locations(base, enabled), Covers(m, path)
      PROVE  Len(m.stem) \in Nat /\ (m = l \/ Weight(m) < Weight(l))
  <2>1. Len(m.stem) \in Nat /\ m.stem \in Seq(Segments)
    BY LocationsTyped
  <2>3. m \in Fixed(enabled) /\ m.stem[1] = path[1]
    BY <1>3, <1>5, <1>8, <1>12, CoversFirst
  <2>4. m \in SwapStems
    BY <1>5, <2>3, SwapKnown DEF s
  <2>5. CASE m.kind = "exact" /\ Len(m.stem) = 1
    <3>1. Len(path) = 1
      BY <1>8, <2>5 DEF Covers
    <3> QED BY <1>13, <3>1
  <2>6. ASSUME Len(m.stem) = 2
        PROVE  m.stem[2] = p[1]
    <3>1. SubSeq(path, 1, 2) = m.stem /\ Len(path) >= 2
      BY <1>8, <2>1, <2>6 DEF Covers
    <3>2. path \in Seq(Segments)
      BY <1>5
    <3>3. SubSeq(path, 1, 2)[2] = path[2]
      BY ONLY <3>1, <3>2
    <3> QED BY <1>6, <3>1, <3>3
  <2>7. CASE Len(m.stem) = 2 /\ m.stem[2] = "ui"
    BY <2>6, <2>7
  <2>8. CASE Len(m.stem) = 2 /\ m.stem[2] = "" /\ m.kind = "exact"
    <3>1. Len(path) = 2
      BY <1>8, <2>8 DEF Covers
    <3>2. Len(p) = 1
      BY <1>13, <3>1
    <3>3. p[1] = ""
      BY <2>6, <2>8
    <3> QED BY <1>6, <3>2, <3>3
  <2> QED BY <1>4, <2>1, <2>4, <2>5, <2>7, <2>8
<1>9. Hop(base, enabled, path) = Answer(l.to, l.instead \o SubSeq(path, Len(l.stem) + 1, Len(path)))
  BY <1>3, <1>7, <1>8, HeaviestTaken
<1>10. Len(l.stem) + 1 = 2 /\ <<>> \o p = p
  BY <1>1, <1>2
<1>11. Hop(base, enabled, path) = Answer("llamaswap", p)
  BY <1>1, <1>5, <1>9, <1>10
<1> QED BY <1>11 DEF path, stem, s

\* A service ends the search.
LEMMA Ended ==
  ASSUME NEW to, to \notin {"nginx", "client"}, NEW p
  PROVE  Final(Answer(to, p))
BY DEF Final, Answer

\* The start page of llama-swap.
LEMMA StartHop ==
  ASSUME NEW base \in Seq(Segments), NEW enabled, Clear(base, enabled)
  PROVE  Hop(base, enabled, <<"llamaswap", "ui", "">>) = Answer("llamaswap", <<"ui", "">>)
<1> DEFINE s == "llamaswap"
           t == "ui"
           u == ""
<1>1. s \in Segments /\ t \in Segments /\ u \in Segments
  BY SegmentsKnown
<1>2. Root \in Seq(Segments) /\ Root # <<>>
  BY SegmentsKnown, OneSegment DEF Root
<1>3. Hop(base, enabled, <<s, t>> \o Root) = Answer("llamaswap", <<t>> \o Root)
  BY <1>2, SwapUiHop
<1>4. <<t>> \o Root = <<t, u>>
  BY <1>1, Paired DEF Root
<1>5. <<s, t>> \o Root = <<s, t, u>>
  BY <1>1, Tripled DEF Root
<1> QED BY <1>3, <1>4, <1>5

\* A path and its first word.
LEMMA HeadWord ==
  ASSUME NEW p \in Seq(Segments), p # <<>>, NEW s \in Segments, p[1] = s, p # <<s>>
  PROVE  p = <<s>> \o Tail(p) /\ Tail(p) \in Seq(Segments) /\ Tail(p) # <<>>
<1>1. Len(p) \in Nat \ {0} /\ Tail(p) \in Seq(Segments) /\ Len(Tail(p)) = Len(p) - 1
      /\ \A i \in 1..Len(p) - 1 : Tail(p)[i] = p[i + 1]
  OBVIOUS
<1>2. <<s>> \in Seq(Segments) /\ Len(<<s>>) = 1 /\ <<s>>[1] = s
  BY OneSegment
<1>3. p = <<s>> \o Tail(p)
  <2> DEFINE a == <<s>>
             q == a \o Tail(p)
  <2> HIDE DEF a
  <2>1. /\ q \in Seq(Segments) /\ Len(q) = Len(p)
        /\ \A i \in 1..Len(a) : q[i] = a[i]
        /\ \A i \in 1..Len(Tail(p)) : q[Len(a) + i] = Tail(p)[i]
    BY <1>1, <1>2, ConcatProperties DEF a
  <2>2. ASSUME NEW i \in 1..Len(p) PROVE q[i] = p[i]
    <3>1. CASE i = 1
      BY <1>2, <2>1, <3>1 DEF a
    <3>2. CASE i # 1
      <4> DEFINE j == i - 1
      <4>1. j \in 1..Len(Tail(p)) /\ 1 + j = i /\ j + 1 = i /\ j \in 1..Len(p) - 1
        BY <1>1, <3>2
      <4> HIDE DEF j
      <4>2. Len(a) = 1
        BY <1>2 DEF a
      <4>3. q[1 + j] = Tail(p)[j] /\ Tail(p)[j] = p[j + 1]
        BY <1>1, <2>1, <4>1, <4>2
      <4> QED BY <4>1, <4>3
    <3> QED BY <3>1, <3>2
  <2> HIDE DEF q
  <2>3. q = p
    BY <2>1, <2>2, SeqEqual
  <2> QED BY <2>3 DEF q, a
<1>4. Tail(p) # <<>>
  <2>1. SUFFICES ASSUME Len(p) = 1 PROVE FALSE
    BY <1>1
  <2> DEFINE a == <<s>>
  <2>2. a \in Seq(Segments) /\ Len(a) = 1 /\ a[1] = s /\ a # p
    BY <1>2
  <2> HIDE DEF a
  <2> QED BY <2>1, <2>2, SameWords
<1> QED BY <1>1, <1>3, <1>4

\* What llama-swap redirects to is a path.
LEMMA SwapPath ==
  ASSUME NEW p \in Seq(Segments)
  PROVE  <<"llamaswap">> \o p \in Seq(Segments) /\ <<"llamaswap">> \o p # <<>>
<1> DEFINE s == "llamaswap"
           q == <<s>> \o p
<1>1. s \in Segments
  BY SegmentsKnown
<1> HIDE DEF s
<1>2. q \in Seq(Segments) /\ Len(q) = 1 + Len(p) /\ Len(p) \in Nat
  BY <1>1, OneWordBefore
<1> HIDE DEF q
<1>3. q \in Seq(Segments) /\ q # <<>>
  BY <1>2
<1> QED BY <1>3 DEF q, s

\* A client that is redirected there gets the page.
LEMMA SwapFollowed ==
  ASSUME NEW base \in Seq(Segments), NEW enabled, Clear(base, enabled), NEW p \in Seq(Segments), p # <<>>, p \notin {Root, <<"ui">>},
         Hop(base, enabled, <<"llamaswap">> \o p) = Answer("llamaswap", p)
  PROVE  Followed(base, enabled, Redirected(p)) = Answer("llamaswap", IF p \in {Root, <<"ui">>} THEN <<"ui", "">> ELSE p)
<1> DEFINE s == "llamaswap"
           q == <<s>> \o p
           answer == Answer("llamaswap", p)
<1>1. s \in Segments /\ Final(answer)
  BY SegmentsKnown, Ended
<1>2. q \in Seq(Segments) /\ q # <<>>
  <2> HIDE DEF s
  <2>1. q \in Seq(Segments) /\ Len(q) = 1 + Len(p) /\ Len(p) \in Nat
    BY <1>1, OneWordBefore
  <2> HIDE DEF q
  <2> QED BY <2>1
<1>3. Hop(base, enabled, q) = answer
  OBVIOUS
<1> HIDE DEF q, answer
<1>4. Followed(base, enabled, q) = answer
  BY <1>1, <1>2, <1>3, Follows
<1> QED BY <1>4 DEF q, answer, Redirected

\* What the user interface of llama-swap asks for, and where it is redirected.
LEMMA SwapServes ==
  ASSUME NEW base \in Seq(Segments), NEW enabled, Clear(base, enabled)
  PROVE  SwapReached(base, enabled)
<1>1. ASSUME NEW s \in {"activity", "logs", "models"}
      PROVE  Hop(base, enabled, <<s>>) = Answer("llamaswap", <<s>>)
  BY ExactHops
<1>3. ASSUME NEW s \in {"api", "upstream", "dev"}, NEW p \in Pages
      PROVE  Hop(base, enabled, <<s>> \o p) = Answer("llamaswap", <<s>> \o p)
  <2>1. p \in Seq(Segments) /\ p # <<>>
    BY ProxyAssumption
  <2> QED BY <2>1, UnderHops
<1>2. ASSUME NEW p \in Pages
      PROVE  Followed(base, enabled, Redirected(p)) = Answer("llamaswap", IF p \in {Root, <<"ui">>} THEN <<"ui", "">> ELSE p)
  <2>1. p \in Seq(Segments) /\ p # <<>>
    BY ProxyAssumption
  <2>2. CASE p \in {Root, <<"ui">>}
    <3> DEFINE q == <<"llamaswap">> \o p
               start == <<"llamaswap", "ui", "">>
               answer == Answer("llamaswap", <<"ui", "">>)
    <3>1. q \in {<<"llamaswap", "">>, <<"llamaswap", "ui">>}
      BY <2>2, Paired, SegmentsKnown DEF Root
    <3>2. q \in Seq(Segments) /\ q # <<>>
      BY <2>1, SwapPath
    <3>3. Hop(base, enabled, q) = Answer("client", start)
      BY <3>1, ExactHops
    <3>4. Hop(base, enabled, start) = answer
      BY StartHop
    <3>5. Final(answer)
      BY Ended
    <3> HIDE DEF start, answer, q
    <3>6. Followed(base, enabled, q) = answer
      BY <3>2, <3>3, <3>4, <3>5, Follows
    <3> QED BY <2>2, <3>6 DEF q, answer, Redirected
  <2>3. CASE p \notin {Root, <<"ui">>} /\ p[1] = "ui"
    <3> DEFINE q == Tail(p)
    <3>1. p = <<"ui">> \o q /\ q \in Seq(Segments) /\ q # <<>>
      BY <2>1, <2>3, HeadWord
    <3>2. <<"llamaswap">> \o p = <<"llamaswap", "ui">> \o q
      <4> DEFINE s == "llamaswap"
                 t == "ui"
      <4>1. s \in Segments /\ t \in Segments /\ q \in Seq(Segments) /\ p = <<t>> \o q
        BY <3>1, SegmentsKnown
      <4> HIDE DEF s, t, q
      <4>2. <<s>> \o (<<t>> \o q) = <<s, t>> \o q
        BY <4>1, TwoWordsBefore
      <4>3. <<s>> \o p = <<s, t>> \o q
        BY <4>1, <4>2
      <4> QED BY <4>3 DEF s, t
    <3>3. Hop(base, enabled, <<"llamaswap">> \o p) = Answer("llamaswap", p)
      BY <3>1, <3>2, SwapUiHop
    <3> QED BY <2>1, <2>3, <3>3, SwapFollowed
  <2>4. CASE p \notin {Root, <<"ui">>} /\ p[1] # "ui"
    <3>1. Hop(base, enabled, <<"llamaswap">> \o p) = Answer("llamaswap", p)
      BY <2>1, <2>4, SwapPageHop
    <3> QED BY <2>1, <2>4, <3>1, SwapFollowed
  <2> QED BY <2>2, <2>3, <2>4
<1> QED BY <1>1, <1>2, <1>3, Zenon DEF SwapReached


\* A link of one word, or of two.
LEMMA SingleLink ==
  ASSUME NEW base \in Seq(Segments), NEW enabled, Clear(base, enabled), NEW s \in Segments,
         NEW to, to \notin {"nginx", "client"}, NEW page, Hop(base, enabled, <<s>>) = Answer(to, page)
  PROVE  Followed(base, enabled, base \o <<s>>) = Answer(to, page)
<1> DEFINE p == <<s>>
           answer == Answer(to, page)
<1>1. p \in Seq(Segments) /\ p # <<>> /\ Hop(base, enabled, p) = answer /\ Final(answer)
  BY OneSegment, Ended
<1> HIDE DEF p, answer
<1>2. Followed(base, enabled, base \o p) = answer
  BY <1>1, Follows
<1> QED BY <1>2 DEF p, answer

LEMMA DoubleLink ==
  ASSUME NEW base \in Seq(Segments), NEW enabled, Clear(base, enabled), NEW s \in Segments, NEW t \in Segments,
         NEW to, to \notin {"nginx", "client"}, NEW page, Hop(base, enabled, <<s>> \o <<t>>) = Answer(to, page)
  PROVE  Followed(base, enabled, base \o <<s, t>>) = Answer(to, page)
<1> DEFINE p == <<s, t>>
           answer == Answer(to, page)
<1>1. p \in Seq(Segments) /\ p # <<>> /\ Final(answer)
  BY TwoSegments, Ended
<1>2. Hop(base, enabled, p) = answer
  BY Paired
<1> HIDE DEF p, answer
<1>3. Followed(base, enabled, base \o p) = answer
  BY <1>1, <1>2, Follows
<1> QED BY <1>3 DEF p, answer

\* Each link, with the base in front.
LEMMA LinksAnswered ==
  ASSUME NEW base \in Seq(Segments), NEW enabled, Clear(base, enabled)
  PROVE  /\ Followed(base, enabled, base \o <<"v1", "models">>) = Answer("litellm", <<"v1", "models">>)
         /\ Followed(base, enabled, base \o <<"litellm", "">>) = Answer("litellm", Root)
         /\ Followed(base, enabled, base \o <<"ui", "">>) = Answer("litellm", <<"ui", "">>)
         /\ Followed(base, enabled, base \o <<"health">>) = Answer("litellm", <<"health">>)
         /\ Followed(base, enabled, base \o <<"llamaswap", "">>) = Answer("llamaswap", <<"ui", "">>)
         /\ Followed(base, enabled, base \o <<"llamaswap-health">>) = Answer("llamaswap", <<"health">>)
         /\ enabled => /\ Followed(base, enabled, base \o <<"vllm", "">>) = Answer("vllm", Root)
                    /\ Followed(base, enabled, base \o <<"vllm-health">>) = Answer("vllm", <<"health">>)
<1> DEFINE e == ""
           h == "health"
<1>0. e \in Segments /\ h \in Segments /\ Root = <<e>>
  BY SegmentsKnown DEF Root
<1>1. Root \in Seq(Segments) /\ Root # <<>>
  BY <1>0, OneSegment
<1>2. Followed(base, enabled, base \o <<"v1", "models">>) = Answer("litellm", <<"v1", "models">>)
  <2> DEFINE s == "v1"
             t == "models"
  <2>1. s \in Segments /\ t \in Segments
    BY SegmentsKnown
  <2>3. Hop(base, enabled, <<s>> \o <<t>>) = Answer("litellm", <<s>> \o <<t>>)
    <3> DEFINE p == <<t>>
    <3>1. p \in Seq(Segments) /\ p # <<>>
      BY <2>1, OneSegment
    <3> HIDE DEF p
    <3>2. Hop(base, enabled, <<s>> \o p) = Answer("litellm", <<s>> \o p)
      BY <3>1, UnderHops
    <3> QED BY <3>2 DEF p
  <2> HIDE DEF s, t
  <2>4. Hop(base, enabled, <<s>> \o <<t>>) = Answer("litellm", <<s, t>>)
    BY <2>1, <2>3, Paired
  <2>5. Followed(base, enabled, base \o <<s, t>>) = Answer("litellm", <<s, t>>)
    BY <2>1, <2>4, DoubleLink
  <2> QED BY <2>5 DEF s, t
<1>3. Followed(base, enabled, base \o <<"litellm", "">>) = Answer("litellm", Root)
  <2> DEFINE s == "litellm"
  <2>1. s \in Segments
    BY SegmentsKnown
  <2>2. Hop(base, enabled, <<s>> \o Root) = Answer("litellm", Root)
    BY <1>1, UnderHops
  <2> HIDE DEF s, e
  <2>3. Followed(base, enabled, base \o <<s, e>>) = Answer("litellm", Root)
    BY <1>0, <2>1, <2>2, DoubleLink
  <2> QED BY <2>3 DEF s, e
<1>4. Followed(base, enabled, base \o <<"ui", "">>) = Answer("litellm", <<"ui", "">>)
  <2> DEFINE s == "ui"
  <2>1. s \in Segments
    BY SegmentsKnown
  <2>2. Hop(base, enabled, <<s>> \o Root) = Answer("litellm", <<s>> \o Root)
    BY <1>1, UnderHops
  <2> DEFINE page == <<s, e>>
  <2> HIDE DEF s, e
  <2>3. <<s>> \o Root = page
    BY <1>0, <2>1, Paired
  <2> HIDE DEF page
  <2>5. Hop(base, enabled, <<s>> \o <<e>>) = Answer("litellm", page) /\ e \in Segments
    BY <1>0, <2>2, <2>3
  <2>4. Followed(base, enabled, base \o <<s, e>>) = Answer("litellm", page)
    BY <2>1, <2>5, DoubleLink
  <2> QED BY <2>4 DEF s, e, page
<1>5. Followed(base, enabled, base \o <<"health">>) = Answer("litellm", <<"health">>)
  <2>1. Hop(base, enabled, <<h>>) = Answer("litellm", <<h>>)
    BY HealthHop
  <2> DEFINE page == <<h>>
  <2>2. Hop(base, enabled, <<h>>) = Answer("litellm", page)
    BY <2>1
  <2>4. h \in Segments
    BY <1>0
  <2> HIDE DEF h, page
  <2>3. Followed(base, enabled, base \o <<h>>) = Answer("litellm", page)
    BY <2>2, <2>4, SingleLink
  <2> QED BY <2>3 DEF h, page
<1>6. Followed(base, enabled, base \o <<"llamaswap", "">>) = Answer("llamaswap", <<"ui", "">>)
  <2> DEFINE p == <<"llamaswap", "">>
             start == <<"llamaswap", "ui", "">>
             answer == Answer("llamaswap", <<"ui", "">>)
  <2>1. p \in Seq(Segments) /\ p # <<>>
    BY TwoSegments, SegmentsKnown
  <2>2. Hop(base, enabled, p) = Answer("client", start)
    BY ExactHops
  <2>3. Hop(base, enabled, start) = answer
    BY StartHop
  <2>4. Final(answer)
    BY Ended
  <2> HIDE DEF p, start, answer
  <2>5. Followed(base, enabled, base \o p) = answer
    BY <2>1, <2>2, <2>3, <2>4, Follows
  <2> QED BY <2>5 DEF p, answer
<1>7. Followed(base, enabled, base \o <<"llamaswap-health">>) = Answer("llamaswap", <<"health">>)
  <2> DEFINE s == "llamaswap-health"
             page == <<h>>
  <2>1. s \in Segments /\ Hop(base, enabled, <<s>>) = Answer("llamaswap", page)
    BY ExactHops, SegmentsKnown
  <2> HIDE DEF s, page
  <2>2. Followed(base, enabled, base \o <<s>>) = Answer("llamaswap", page)
    BY <2>1, SingleLink
  <2> QED BY <2>2 DEF s, page
<1>8. ASSUME enabled
      PROVE  Followed(base, enabled, base \o <<"vllm", "">>) = Answer("vllm", Root)
  <2> DEFINE s == "vllm"
  <2>1. s \in Segments
    BY SegmentsKnown
  <2>2. Hop(base, enabled, <<s>> \o Root) = Answer("vllm", Root)
    <3> DEFINE p == Root
    <3>1. p \in Seq(Segments) /\ p # <<>>
      BY <1>1
    <3> HIDE DEF p
    <3>2. enabled => Hop(base, enabled, <<"vllm">> \o p) = Answer("vllm", p)
      BY <3>1, VllmHop
    <3> QED BY <1>8, <3>2 DEF p
  <2> HIDE DEF s, e
  <2>3. Followed(base, enabled, base \o <<s, e>>) = Answer("vllm", Root)
    BY <1>0, <2>1, <2>2, DoubleLink
  <2> QED BY <2>3 DEF s, e
<1>9. ASSUME enabled
      PROVE  Followed(base, enabled, base \o <<"vllm-health">>) = Answer("vllm", <<"health">>)
  <2> DEFINE s == "vllm-health"
             page == <<h>>
  <2>1. s \in Segments /\ Hop(base, enabled, <<s>>) = Answer("vllm", page)
    BY <1>9, ExactHops, SegmentsKnown
  <2> HIDE DEF s, page
  <2>2. Followed(base, enabled, base \o <<s>>) = Answer("vllm", page)
    BY <2>1, SingleLink
  <2> QED BY <2>2 DEF s, page
<1> QED BY <1>2, <1>3, <1>4, <1>5, <1>6, <1>7, <1>8, <1>9, Zenon

\* The landing page.
LEMMA LandingReached ==
  ASSUME NEW base \in Seq(Segments), NEW enabled, Clear(base, enabled), NEW path \in {base, base \o Root, Root}, path # <<>>
  PROVE  Followed(base, enabled, path) = Answer("static", <<"index.html">>)
<1> DEFINE page == Answer("static", <<"index.html">>)
<1>1. Root \in Seq(Segments) /\ Root # <<>>
  BY OneSegment, SegmentsKnown DEF Root
<1>2. Hop(base, enabled, Root) = page /\ Final(page)
  BY ExactHops, Ended
<1> HIDE DEF page
<1>3. Followed(base, enabled, Root) = page /\ Followed(base, enabled, base \o Root) = page
  BY <1>1, <1>2, Follows
<1>4. CASE path = base
  <2> DEFINE put == base \o Root
             ask(a) == Ask(base, enabled, a)
  <2>1. base # <<>>
    BY <1>4
  <2>2. put \in Seq(Segments) /\ Hop(base, enabled, put) = Answer("nginx", Root)
    BY <1>1, <2>1, BaseTaken, Concatenated
  <2>3. Hop(base, enabled, base) = Answer("client", put)
    <3> DEFINE l == Exact(base, "client", put)
    <3>1. l \in Locations(base, enabled)
      BY <2>1 DEF Locations, BaseLocations
    <3>2. ASSUME NEW m \in Locations(base, enabled), m.kind = "exact", m.stem = base
          PROVE  m = l
      <4>1. CASE m \in Fixed(enabled)
        BY <2>1, <3>2, <4>1 DEF Clear
      <4>2. m # Under(base, "nginx", <<>>)
        BY <3>2 DEF Under
      <4> QED BY <3>2, <4>1, <4>2 DEF Locations, BaseLocations
    <3> HIDE DEF put
    <3>3. Hop(base, enabled, base) = Answer("client", put)
      BY <2>2, <3>1, <3>2, ExactTaken
    <3> QED BY <3>3
  <2>4. /\ ask(Answer("client", put)) = Hop(base, enabled, put) /\ ask(Answer("nginx", Root)) = Hop(base, enabled, Root)
        /\ ask(page) = page
    BY <1>2 DEF Ask, Final, Answer
  <2>5. Followed(base, enabled, base) = ask(ask(ask(Hop(base, enabled, base))))
    BY DEF Followed
  <2> HIDE DEF ask, put
  <2>6. Followed(base, enabled, base) = page
    BY <1>2, <2>2, <2>3, <2>4, <2>5
  <2> QED BY <1>4, <2>6 DEF page
<1> QED BY <1>3, <1>4 DEF page

\* So every link of the landing page ends where its row says.
LEMMA LinksFollowed ==
  ASSUME NEW base \in Seq(Segments), NEW enabled, Clear(base, enabled)
  PROVE  LinksEnd(base, enabled)
<1> DEFINE ends(path, to, page) == Followed(base, enabled, base \o path) = Answer(to, page)
<1>1. ASSUME NEW l \in Links(enabled)
      PROVE  ends(l.path, l.to, l.page)
  <2>1. \/ l = Link(<<"v1", "models">>, "litellm", <<"v1", "models">>)
        \/ l = Link(<<"litellm", "">>, "litellm", Root)
        \/ l = Link(<<"ui", "">>, "litellm", <<"ui", "">>)
        \/ l = Link(<<"health">>, "litellm", <<"health">>)
        \/ l = Link(<<"llamaswap", "">>, "llamaswap", <<"ui", "">>)
        \/ l = Link(<<"llamaswap-health">>, "llamaswap", <<"health">>)
        \/ enabled /\ l = Link(<<"vllm", "">>, "vllm", Root)
        \/ enabled /\ l = Link(<<"vllm-health">>, "vllm", <<"health">>)
    BY Zenon DEF Links
  <2>2. ASSUME NEW path, NEW to, NEW page, l = Link(path, to, page), ends(path, to, page)
        PROVE  ends(l.path, l.to, l.page)
    <3>1. l.path = path /\ l.to = to /\ l.page = page
      BY <2>2 DEF Link
    <3> QED BY <2>2, <3>1
  <2>3. /\ ends(<<"v1", "models">>, "litellm", <<"v1", "models">>) /\ ends(<<"litellm", "">>, "litellm", Root)
        /\ ends(<<"ui", "">>, "litellm", <<"ui", "">>) /\ ends(<<"health">>, "litellm", <<"health">>)
        /\ ends(<<"llamaswap", "">>, "llamaswap", <<"ui", "">>) /\ ends(<<"llamaswap-health">>, "llamaswap", <<"health">>)
        /\ enabled => ends(<<"vllm", "">>, "vllm", Root) /\ ends(<<"vllm-health">>, "vllm", <<"health">>)
    BY LinksAnswered
  <2> HIDE DEF ends
  <2> QED BY <2>1, <2>2, <2>3, Zenon
<1>2. \A path \in {base, base \o Root, Root} \ {<<>>} : Followed(base, enabled, path) = Answer("static", <<"index.html">>)
  BY LandingReached
<1> QED BY <1>1, <1>2 DEF LinksEnd

\* Whatever network.base_path says, the base is a path.
LEMMA BasesTyped ==
  ASSUME NEW text \in Seq(Segments)
  PROVE  BasePath(text) \in Seq(Segments)
<1> DEFINE words == IF text # <<>> /\ text[1] = "" THEN Tail(text) ELSE text
           ends == {0} \cup {k \in DOMAIN words : words[k] # ""}
           last(n) == \A j \in ends : j <= n
           end == CHOOSE n \in ends : last(n)
<1>0. words \in Seq(Segments)
  <2>1. CASE text # <<>> /\ text[1] = ""
    <3>1. Tail(text) \in Seq(Segments)
      BY ONLY <2>1, text \in Seq(Segments), HeadTailProperties
    <3> QED BY <2>1, <3>1
  <2>2. CASE ~(text # <<>> /\ text[1] = "")
    BY <2>2
  <2> QED BY <2>1, <2>2
<1>3. BasePath(text) = SubSeq(words, 1, end)
  BY DEF BasePath
<1> HIDE DEF words
<1>1. words \in Seq(Segments) /\ Len(words) \in Nat /\ DOMAIN words = 1..Len(words)
  BY <1>0
<1>2. 0 \in ends /\ ends \subseteq 0..Len(words)
  <2>1. ends \subseteq {0} \cup 1..Len(words)
    BY <1>1
  <2>2. {0} \cup 1..Len(words) = 0..Len(words)
    BY <1>1
  <2> QED BY <2>1, <2>2
<1>4. \E n \in ends : last(n)
  <2> DEFINE S == {k \in Nat : last(k)}
  <2>1. Len(words) \in S
    <3> HIDE DEF ends
    <3>1. \A j \in ends : j <= Len(words)
      BY <1>1, <1>2
    <3> QED BY <1>1, <3>1
  <2>2. PICK k \in S : \A j \in S : k <= j
    <3> HIDE DEF ends
    <3>1. S \in SUBSET Nat /\ S # {}
      BY <2>1
    <3> HIDE DEF S
    <3> QED BY <3>1, LeastNumber
  <2>3. k \in ends
    <3>1. SUFFICES ASSUME k \notin ends PROVE FALSE
      OBVIOUS
    <3> HIDE DEF ends
    <3>2. k \in Nat \ {0} /\ \A j \in ends : j \in Nat /\ j <= k /\ j # k
      BY <1>1, <1>2, <2>2, <3>1
    <3>3. k - 1 \in S
      BY <3>2
    <3> QED BY <2>2, <3>2, <3>3
  <2> QED BY <2>2, <2>3
<1> HIDE DEF ends
<1>5. end \in ends
  <2> HIDE DEF last
  <2> QED BY <1>4
<1> HIDE DEF end
<1>6. end \in 0..Len(words)
  BY <1>2, <1>5
<1>7. SubSeq(words, 1, end) \in Seq(Segments)
  BY <1>1, <1>6
<1> QED BY <1>3, <1>7

\* Every link of the landing page, every path under the base and whatever
\* llama-swap is asked for end where they should, for every base that does not
\* start like a location of its own.
THEOREM ProxyEnds == Spec => []ProxyServes
<1>1. CatalogInv => ProxyServes
  <2> SUFFICES ASSUME c \in Configs, Clear(BasePath(c.base), c.vllm)
               PROVE  /\ LinksEnd(BasePath(c.base), c.vllm)
                      /\ BaseTransparent(BasePath(c.base), c.vllm)
                      /\ SwapReached(BasePath(c.base), c.vllm)
    BY DEF CatalogInv, Ordered, ProxyServes
  <2> DEFINE base == BasePath(c.base)
             enabled == c.vllm
  <2>1. base \in Seq(Segments)
    BY BasesTyped, GeneratorAssumption DEF GeneratorAssumption
  <2>2. Clear(base, enabled)
    OBVIOUS
  <2> HIDE DEF base, enabled
  <2>3. LinksEnd(base, enabled) /\ BaseTransparent(base, enabled) /\ SwapReached(base, enabled)
    BY <2>1, <2>2, LinksFollowed, BasePasses, SwapServes
  <2> QED
    BY <2>3 DEF base, enabled
<1> QED
  BY <1>1, CatalogInductive, PTL
================================================================================
