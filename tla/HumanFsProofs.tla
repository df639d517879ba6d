---------------------------- MODULE HumanFsProofs ----------------------------
(***************************************************************************)
(* Theorems about the file system of an image (HumanFs), for every size of *)
(* volume, directory and file, every sound image it may hold at the start, *)
(* and any number of requests and faults.                                  *)
(*                                                                         *)
(* A call is a list of writes computed at once.  Plan says of what is left *)
(* of it that every image on its way is sound (Good), unless the next      *)
(* write closes a window that is marked; a fault then leaves one of these  *)
(* images, and the end of the call the last.  What a sound image is, Tree  *)
(* says with the set of its directories given, not computed, so that a     *)
(* write is judged by what it changes: 6 lists what stays as it was under  *)
(* a change of one slot, of a free cluster or of the end of a chain, 7 the *)
(* changes the calls are made of, and 10 puts the calls together.          *)
(***************************************************************************)
EXTENDS HumanFs, WellFoundedInduction, FiniteSetTheorems, SequenceTheorems, TLAPS

-----------------------------------------------------------------------------
(***************************************************************************)
(* 1. Induction, stated about sets, which the provers can instantiate.     *)
(***************************************************************************)
LEMMA Least ==
  ASSUME NEW T, T \subseteq Nat, T # {}
  PROVE  \E x \in T : \A y \in T : x <= y
  <1> DEFINE R == {ss \in Nat \X Nat : ss[1] < ss[2]}
  <1>1. IsWellFoundedOn(R, Nat)
    BY NatLessThanWellFounded DEF OpToRel
  <1> HIDE DEF R
  <1>2. PICK x \in T : \A y \in T : ~(<<y, x>> \in R)
    BY <1>1, WFMin, Zenon
  <1>3. \A y \in Nat : y < x => <<y, x>> \in R
    BY DEF R
  <1>4. ASSUME NEW y \in T PROVE x <= y
    <2>1. ~(<<y, x>> \in R) /\ x \in Nat /\ y \in Nat
      BY <1>2, Zenon
    <2>2. ~(y < x)
      BY <1>3, <2>1, Zenon
    <2>3. QED
      BY <2>1, <2>2
  <1>5. QED
    BY <1>4

\* What holds of 0, and of n + 1 when it holds of n, holds of every number.
LEMMA Induction ==
  ASSUME NEW S, 0 \in S, \A n \in Nat : n \in S => n + 1 \in S
  PROVE  \A n \in Nat : n \in S
  <1>1. SUFFICES ASSUME Nat \ S # {} PROVE FALSE
    OBVIOUS
  <1>2. PICK x \in Nat \ S : \A y \in Nat \ S : x <= y
    BY <1>1, Least, Zenon
  <1>3. x # 0 /\ x - 1 \in Nat /\ x - 1 \notin Nat \ S
    BY <1>2
  <1>4. x - 1 + 1 = x /\ x - 1 + 1 \in S
    BY <1>3
  <1>5. QED
    BY <1>4, <1>2

\* The first of the cells us, in the order they are read.
LEMMA FirstCell ==
  ASSUME NEW us, us \subseteq Nat \X Nat, us # {}
  PROVE  First(us) \in us /\ \A v \in us : ~Before(v, First(us))
  <1>1. PICK j \in {u[1] : u \in us} : \A y \in {u[1] : u \in us} : j <= y
    <2>1. {u[1] : u \in us} \subseteq Nat /\ {u[1] : u \in us} # {}
      OBVIOUS
    <2>2. QED
      BY <2>1, Least, Zenon
  <1>2. PICK i \in {u[2] : u \in {v \in us : v[1] = j}} :
           \A y \in {u[2] : u \in {v \in us : v[1] = j}} : i <= y
    <2>1. {u[2] : u \in {v \in us : v[1] = j}} \subseteq Nat
      OBVIOUS
    <2>2. {u[2] : u \in {v \in us : v[1] = j}} # {}
      BY <1>1
    <2>3. QED
      BY <2>1, <2>2, Least, Zenon
  <1>3. PICK u \in us : u[1] = j /\ u[2] = i
    BY <1>2
  <1>4. \A v \in us : ~Before(v, u)
    <2>1. SUFFICES ASSUME NEW v \in us PROVE ~Before(v, u)
      OBVIOUS
    <2>2. j <= v[1] /\ (v[1] = j => i <= v[2])
      BY <1>1, <1>2
    <2>3. v[1] \in Nat /\ v[2] \in Nat /\ j \in Nat /\ i \in Nat
      BY <1>3
    <2>4. QED
      BY <1>3, <2>2, <2>3 DEF Before
  <1>5. QED
    BY <1>3, <1>4, Zenon DEF First

-----------------------------------------------------------------------------
(***************************************************************************)
(* 2. Chains.                                                              *)
(***************************************************************************)
Fat == [Clusters -> Clusters \cup {0, Eoc}]

LEMMA ClusterFacts ==
  /\ MaxCluster \in Nat /\ Steps \in Nat /\ Steps >= 1 /\ 0 \in 0..Steps
  /\ Clusters \subseteq Nat /\ \A c \in Clusters : InChain(c) /\ c # 0 /\ c # Eoc
  /\ ~InChain(0) /\ ~InChain(Eoc)
  BY HumanFsAssumption DEF Clusters, Steps, InChain, Eoc

\* The next sequence of a walk.
Further(f, s) == IF s # <<>> /\ InChain(f[Last(s)]) THEN Append(s, f[Last(s)]) ELSE s
Start(c) == IF InChain(c) THEN <<c>> ELSE <<>>

LEMMA WalkExists ==
  ASSUME NEW f, NEW c
  PROVE  Walk(f, c) = [n \in 0..Steps |-> IF n = 0 THEN Start(c) ELSE Further(f, Walk(f, c)[n - 1])]
  <1> DEFINE Upto(k, w) == w = [n \in 0..k |-> IF n = 0 THEN Start(c) ELSE Further(f, w[n - 1])]
             S == {k \in Nat : \E w : Upto(k, w)}
  <1>1. 0 \in S
    <2>1. Upto(0, [n \in 0..0 |-> Start(c)])
      OBVIOUS
    <2>2. QED
      BY <2>1
  <1>2. ASSUME NEW k \in Nat, k \in S PROVE k + 1 \in S
    <2>1. PICK w : Upto(k, w)
      BY <1>2
    <2> DEFINE v == [n \in 0..(k + 1) |-> IF n <= k THEN w[n] ELSE Further(f, w[k])]
    <2>2. \A n \in 0..k : w[n] = IF n = 0 THEN Start(c) ELSE Further(f, w[n - 1])
      BY <2>1
    <2>3. \A n \in 0..(k + 1) : n # 0 => v[n - 1] = w[n - 1]
      OBVIOUS
    <2>4. \A n \in 0..(k + 1) : v[n] = IF n = 0 THEN Start(c) ELSE Further(f, v[n - 1])
      <3>1. SUFFICES ASSUME NEW n \in 0..(k + 1)
                     PROVE  v[n] = IF n = 0 THEN Start(c) ELSE Further(f, v[n - 1])
        OBVIOUS
      <3>2. CASE n <= k
        BY <3>2, <2>2, <2>3
      <3>3. CASE n = k + 1
        BY <3>3, <2>3
      <3>4. QED
        BY <3>2, <3>3
    <2>5. v = [n \in 0..(k + 1) |-> v[n]]
      OBVIOUS
    <2>6. Upto(k + 1, v)
      BY <2>4, <2>5
    <2>7. \E w1 : Upto(k + 1, w1)
      <3> HIDE DEF Upto, v
      <3>1. QED
        BY <2>6, Zenon
    <2>8. QED
      <3> HIDE DEF Upto
      <3>1. QED
        BY <2>7
  <1>3. Steps \in S
    <2> HIDE DEF S
    <2>1. QED
      BY <1>1, <1>2, Induction, ClusterFacts
  <1>4. \E w : Upto(Steps, w)
    BY <1>3
  <1>5. Walk(f, c) = CHOOSE w : Upto(Steps, w)
    BY DEF Walk, Start, Further
  <1>6. QED
    BY <1>4, <1>5

LEMMA WalkStep ==
  ASSUME NEW f, NEW c, NEW n \in 0..Steps
  PROVE  Walk(f, c)[n] = IF n = 0 THEN Start(c) ELSE Further(f, Walk(f, c)[n - 1])
  <1> DEFINE w == Walk(f, c)
  <1>1. w = [m \in 0..Steps |-> IF m = 0 THEN Start(c) ELSE Further(f, w[m - 1])]
    BY WalkExists
  <1> HIDE DEF w
  <1>2. w[n] = IF n = 0 THEN Start(c) ELSE Further(f, w[n - 1])
    BY <1>1
  <1>3. QED
    BY <1>2 DEF w

\* What a walk has seen: a path of the FAT from c, of at most n + 1 clusters.
Path(f, s) == s \in Seq(Clusters) /\ \A i \in 1..(Len(s) - 1) : s[i + 1] = f[s[i]]

LEMMA WalkIsPath ==
  ASSUME NEW f \in Fat, NEW c \in Clusters \cup {0, Eoc}
  PROVE  \A n \in 0..Steps :
           /\ Path(f, Walk(f, c)[n]) /\ Len(Walk(f, c)[n]) <= n + 1
           /\ c \in Clusters => Len(Walk(f, c)[n]) >= 1 /\ Walk(f, c)[n][1] = c
           /\ c \notin Clusters => Walk(f, c)[n] = <<>>
  <1> DEFINE w == Walk(f, c)
             Good(n) == /\ Path(f, w[n]) /\ Len(w[n]) <= n + 1
                        /\ c \in Clusters => Len(w[n]) >= 1 /\ w[n][1] = c
                        /\ c \notin Clusters => w[n] = <<>>
             S == {n \in Nat : n \in 0..Steps => Good(n)}
  <1>1. \A n \in 0..Steps : w[n] = IF n = 0 THEN Start(c) ELSE Further(f, w[n - 1])
    BY WalkStep
  <1> HIDE DEF w
  <1>2. Good(0)
    <2>1. w[0] = Start(c)
      BY <1>1, ClusterFacts
    <2>2. Start(c) = IF c \in Clusters THEN <<c>> ELSE <<>>
      BY ClusterFacts DEF Start
    <2>3. QED
      BY <2>1, <2>2 DEF Path
  <1>3. ASSUME NEW n \in Nat, n + 1 \in 0..Steps, Good(n) PROVE Good(n + 1)
    <2> DEFINE s == w[n]
    <2>1. w[n + 1] = Further(f, s)
      BY <1>1, <1>3
    <2>2. s \in Seq(Clusters) /\ Len(s) \in Nat
      BY <1>3 DEF Path
    <2>3. CASE s # <<>> /\ InChain(f[Last(s)])
      <3> DEFINE x == f[Last(s)]
      <3>1. Last(s) \in Clusters /\ Len(s) >= 1 /\ Last(s) = s[Len(s)]
        BY <2>2, <2>3 DEF Last
      <3>2. x \in Clusters
        BY <2>3, <3>1, ClusterFacts DEF Fat
      <3>3. w[n + 1] = Append(s, x)
        BY <2>1, <2>3 DEF Further
      <3> HIDE DEF x
      <3>4. /\ Append(s, x) \in Seq(Clusters) /\ Len(Append(s, x)) = Len(s) + 1
            /\ \A i \in 1..Len(s) : Append(s, x)[i] = s[i]
            /\ Append(s, x)[Len(s) + 1] = x
        BY <2>2, <3>2
      <3>5. \A i \in 1..Len(s) : Append(s, x)[i + 1] = f[Append(s, x)[i]]
        <4>1. SUFFICES ASSUME NEW i \in 1..Len(s)
                       PROVE  Append(s, x)[i + 1] = f[Append(s, x)[i]]
          OBVIOUS
        <4>2. CASE i = Len(s)
          BY <4>2, <3>1, <3>4 DEF x
        <4>3. CASE i # Len(s)
          <5>1. i + 1 \in 1..Len(s) /\ i \in 1..(Len(s) - 1)
            BY <4>3, <2>2
          <5>2. s[i + 1] = f[s[i]]
            BY <5>1, <1>3 DEF Path
          <5>3. QED
            BY <5>1, <5>2, <3>4
        <4>4. QED
          BY <4>2, <4>3
      <3>6. c \in Clusters
        BY <2>3, <1>3
      <3> DEFINE t == Append(s, x)
      <3>7. Len(t) = Len(s) + 1 /\ Len(t) >= 1 /\ Len(t) - 1 = Len(s) /\ Len(s) <= n + 1
        BY <2>2, <3>4, <1>3
      <3>8. Path(f, t)
        BY <3>4, <3>5, <3>7 DEF Path
      <3>9. t[1] = c
        BY <3>1, <3>4, <3>6, <1>3, <2>2
      <3>10. Len(t) <= (n + 1) + 1
        BY <3>7, <2>2
      <3> HIDE DEF t
      <3>11. w[n + 1] = t
        BY <3>3 DEF t
      <3>12. QED
        BY <3>6, <3>7, <3>8, <3>9, <3>10, <3>11, Zenon
    <2>4. CASE ~(s # <<>> /\ InChain(f[Last(s)]))
      BY <2>1, <2>2, <2>4, <1>3 DEF Further
    <2>5. QED
      BY <2>3, <2>4
  <1>4. \A n \in Nat : n \in S
    <2>1. 0 \in S
      BY <1>2
    <2>2. ASSUME NEW n \in Nat, n \in S PROVE n + 1 \in S
      <3>1. n + 1 \in 0..Steps => Good(n + 1)
        <4>1. SUFFICES ASSUME n + 1 \in 0..Steps PROVE Good(n + 1)
          OBVIOUS
        <4>2. n \in 0..Steps
          BY <4>1, ClusterFacts
        <4>3. Good(n)
          BY <2>2, <4>2
        <4> HIDE DEF Good
        <4>4. QED
          BY <1>3, <4>1, <4>3
      <3> HIDE DEF Good
      <3>2. QED
        BY <3>1
    <2> HIDE DEF S
    <2>3. QED
      BY <2>1, <2>2, Induction
  <1>5. \A n \in 0..Steps : Good(n)
    <2> HIDE DEF Good
    <2>1. QED
      BY <1>4
  <1>6. QED
    BY <1>5 DEF w

\* The chain of a cluster: where it begins, its links, and where it stops.
LEMMA ChainIsPath ==
  ASSUME NEW d, d.fat \in Fat, NEW c \in Clusters \cup {0, Eoc}
  PROVE  /\ Path(d.fat, Chain(d, c)) /\ Len(Chain(d, c)) <= Steps + 1
         /\ c \in Clusters => Len(Chain(d, c)) >= 1 /\ Chain(d, c)[1] = c
         /\ c \notin Clusters => Chain(d, c) = <<>>
  <1> DEFINE f == d.fat
  <1>1. f \in Fat /\ Chain(d, c) = Walk(f, c)[Steps] /\ Steps \in 0..Steps
    BY ClusterFacts DEF Chain
  <1> HIDE DEF f
  <1>2. /\ Path(f, Chain(d, c)) /\ Len(Chain(d, c)) <= Steps + 1
        /\ c \in Clusters => Len(Chain(d, c)) >= 1 /\ Chain(d, c)[1] = c
        /\ c \notin Clusters => Chain(d, c) = <<>>
    BY <1>1, WalkIsPath
  <1>3. QED
    BY <1>2 DEF f

\* A path that ends where the code stops is the chain of its first cluster.
LEMMA ChainIs ==
  ASSUME NEW d, d.fat \in Fat, NEW s, Path(d.fat, s), Len(s) >= 1, Len(s) <= Steps + 1,
         ~InChain(d.fat[s[Len(s)]]), NEW c, c = s[1]
  PROVE  Chain(d, c) = s
  <1> DEFINE w == Walk(d.fat, c)
             upto(n) == IF n < Len(s) THEN n + 1 ELSE Len(s)
             S == {n \in Nat : n \in 0..Steps => w[n] = SubSeq(s, 1, upto(n))}
  <1>0. s \in Seq(Clusters) /\ Len(s) \in Nat /\ \A i \in 1..Len(s) : s[i] \in Clusters
    BY DEF Path
  <1>1. \A n \in 0..Steps : w[n] = IF n = 0 THEN Start(c) ELSE Further(d.fat, w[n - 1])
    BY WalkStep
  <1> HIDE DEF w
  <1>2. 0 \in S
    <2>0. s[1] \in Clusters /\ 1 \in 1..Len(s) /\ upto(0) = 1
      BY <1>0
    <2>1. w[0] = <<s[1]>>
      <3>1. w[0] = Start(c) /\ InChain(c)
        BY <1>1, <2>0, ClusterFacts
      <3>2. QED
        BY <3>1 DEF Start
    <2>2. SubSeq(s, 1, 1) = <<s[1]>>
      <3>1. SubSeq(s, 1, 1) \in Seq(Clusters) /\ Len(SubSeq(s, 1, 1)) = 1 /\ SubSeq(s, 1, 1)[1] = s[1]
        BY <1>0, <2>0
      <3>2. <<s[1]>> \in Seq(Clusters) /\ Len(<<s[1]>>) = 1 /\ <<s[1]>>[1] = s[1]
        BY <2>0
      <3> DEFINE t == SubSeq(s, 1, 1)
      <3>3. t \in Seq(Clusters) /\ <<s[1]>> \in Seq(Clusters) /\ Len(t) = Len(<<s[1]>>)
        BY <3>1, <3>2
      <3>4. \A i \in 1..Len(t) : t[i] = <<s[1]>>[i]
        BY <3>1, <3>2
      <3>5. t = <<s[1]>>
        <4> HIDE DEF t
        <4>1. QED
          BY <3>3, <3>4, SeqEqual, Zenon
      <3>6. QED
        BY <3>5
    <2>3. w[0] = SubSeq(s, 1, upto(0))
      BY <2>0, <2>1, <2>2
    <2>4. QED
      BY <2>3
  <1>3. ASSUME NEW n \in Nat, n \in S PROVE n + 1 \in S
    <2>1. SUFFICES ASSUME n + 1 \in 0..Steps PROVE w[n + 1] = SubSeq(s, 1, upto(n + 1))
      OBVIOUS
    <2>2. n \in 0..Steps
      BY <2>1, ClusterFacts
    <2> DEFINE t == SubSeq(s, 1, upto(n))
    <2>3. w[n] = t /\ w[n + 1] = Further(d.fat, t)
      <3>1. w[n] = t
        BY <1>3, <2>2
      <3>2. n + 1 # 0 /\ (n + 1) - 1 = n
        OBVIOUS
      <3>3. w[n + 1] = Further(d.fat, w[n])
        BY <1>1, <2>1, <3>2
      <3>4. QED
        BY <3>1, <3>3
    <2>4. upto(n) \in 1..Len(s)
      BY <1>0
    <2>5. t \in Seq(Clusters) /\ Len(t) = upto(n) /\ \A i \in 1..upto(n) : t[i] = s[i]
      BY <1>0, <2>4
    <2>6. t # <<>> /\ Last(t) = s[upto(n)]
      BY <2>4, <2>5 DEF Last
    <2>7. CASE n + 1 < Len(s)
      <3>1. upto(n) = n + 1 /\ upto(n + 1) = n + 2 /\ n + 1 \in 1..(Len(s) - 1) /\ n + 2 \in 1..Len(s)
        BY <2>7, <1>0
      <3>2. d.fat[s[n + 1]] = s[n + 2]
        <4>1. s[(n + 1) + 1] = d.fat[s[n + 1]]
          BY <3>1 DEF Path
        <4>2. QED
          BY <4>1
      <3>3. Further(d.fat, t) = Append(t, s[n + 2])
        BY <3>1, <3>2, <2>6, <1>0, ClusterFacts DEF Further
      <3>4. Append(t, s[n + 2]) = SubSeq(s, 1, n + 2)
        BY <3>1, <2>5, <1>0
      <3>5. QED
        BY <2>3, <3>1, <3>3, <3>4
    <2>8. CASE ~(n + 1 < Len(s))
      <3>1. upto(n) = Len(s) /\ upto(n + 1) = Len(s)
        BY <2>8, <1>0
      <3>2. Further(d.fat, t) = t
        BY <3>1, <2>6 DEF Further
      <3>3. QED
        BY <2>3, <3>1, <3>2
    <2>9. QED
      BY <2>7, <2>8
  <1>4. w[Steps] = SubSeq(s, 1, upto(Steps))
    <2>1. \A n \in Nat : n \in S
      <3> HIDE DEF S
      <3>1. QED
        BY <1>2, <1>3, Induction
    <2>2. QED
      BY <2>1, ClusterFacts
  <1>5. SubSeq(s, 1, upto(Steps)) = s
    <2>1. upto(Steps) = Len(s)
      BY <1>0, ClusterFacts
    <2>2. QED
      BY <2>1, <1>0
  <1>6. QED
    BY <1>4, <1>5 DEF Chain, w

Distinct(s) == \A i, j \in DOMAIN s : s[i] = s[j] => i = j

\* Pairwise distinct clusters are no more than there are.
LEMMA FewClusters ==
  ASSUME NEW s \in Seq(Clusters), Distinct(s)
  PROVE  Len(s) <= Steps
  <1>0. Len(s) \in Nat /\ DOMAIN s = 1..Len(s) /\ Steps \in Nat
    BY ClusterFacts
  <1>1. SUFFICES ASSUME Len(s) > Steps PROVE FALSE
    BY <1>0
  <1>2. IsFiniteSet(Clusters) /\ Cardinality(Clusters) = Steps
    <2>1. 2 \in Int /\ MaxCluster \in Int /\ MaxCluster >= 2
      BY HumanFsAssumption
    <2>2. IsFiniteSet(2..MaxCluster)
          /\ Cardinality(2..MaxCluster) = IF 2 > MaxCluster THEN 0 ELSE MaxCluster - 2 + 1
      BY <2>1, FS_Interval
    <2>3. QED
      BY <2>1, <2>2 DEF Clusters, Steps
  <1>3. IsFiniteSet(1..Len(s)) /\ Cardinality(1..Len(s)) = Len(s)
    <2>1. 1 \in Int /\ Len(s) \in Int
      BY <1>0
    <2>2. IsFiniteSet(1..Len(s))
          /\ Cardinality(1..Len(s)) = IF 1 > Len(s) THEN 0 ELSE Len(s) - 1 + 1
      BY <2>1, FS_Interval
    <2>3. QED
      BY <1>0, <2>2
  <1>4. Cardinality(Clusters) < Cardinality(1..Len(s)) /\ s \in [1..Len(s) -> Clusters]
    BY <1>0, <1>1, <1>2, <1>3
  <1>5. \E x, y \in 1..Len(s) : x # y /\ s[x] = s[y]
    BY <1>2, <1>3, <1>4, FS_PigeonHole, Zenon
  <1>6. QED
    BY <1>0, <1>5 DEF Distinct

\* Clusters linked one to the next, the last to the end mark, are the chain of
\* the first.
LEMMA NewChain ==
  ASSUME NEW d, d.fat \in Fat, NEW cs \in Seq(Clusters), Len(cs) >= 1, Distinct(cs),
         \A j \in 1..Len(cs) : d.fat[cs[j]] = NextOf(cs, j)
  PROVE  Chain(d, cs[1]) = cs /\ Ends(d, cs[1])
  <1>0. Len(cs) \in Nat /\ DOMAIN cs = 1..Len(cs) /\ \A j \in 1..Len(cs) : cs[j] \in Clusters
    OBVIOUS
  <1>1. Len(cs) <= Steps + 1
    BY FewClusters, ClusterFacts, <1>0
  <1>2. Path(d.fat, cs)
    <2>1. ASSUME NEW i \in 1..(Len(cs) - 1) PROVE cs[i + 1] = d.fat[cs[i]]
      <3>1. i \in 1..Len(cs) /\ i < Len(cs)
        BY <1>0
      <3>2. QED
        BY <3>1 DEF NextOf
    <2>2. QED
      BY <2>1 DEF Path
  <1>3. d.fat[cs[Len(cs)]] = Eoc
    <2>1. Len(cs) \in 1..Len(cs) /\ ~(Len(cs) < Len(cs))
      BY <1>0
    <2>2. QED
      BY <2>1 DEF NextOf
  <1>4. Chain(d, cs[1]) = cs
    BY <1>1, <1>2, <1>3, ChainIs, ClusterFacts
  <1>5. QED
    BY <1>0, <1>3, <1>4 DEF Ends, Distinct, Last

\* What the chain of c is, when it ends where the code expects it to.
LEMMA EndsFacts ==
  ASSUME NEW d, d.fat \in Fat, NEW c \in Clusters \cup {0}, Ends(d, c)
  PROVE  /\ Chain(d, c) \in Seq(Clusters) /\ Distinct(Chain(d, c))
         /\ \A k \in ToSet(Chain(d, c)) : k \in Clusters /\ d.fat[k] # 0
         /\ \A j \in 1..Len(Chain(d, c)) : d.fat[Chain(d, c)[j]] = NextOf(Chain(d, c), j)
         /\ c \in Clusters => Len(Chain(d, c)) >= 1 /\ Chain(d, c)[1] = c /\ c \in ToSet(Chain(d, c))
         /\ c \notin Clusters => Chain(d, c) = <<>>
  <1> DEFINE ch == Chain(d, c)
  <1>1. /\ Path(d.fat, ch)
        /\ c \in Clusters => Len(ch) >= 1 /\ ch[1] = c
        /\ c \notin Clusters => ch = <<>>
    BY ChainIsPath, Zenon
  <1>2. (ch # <<>> => d.fat[Last(ch)] = Eoc) /\ Distinct(ch)
    BY DEF Ends, Distinct
  <1> HIDE DEF ch
  <1>3. ch \in Seq(Clusters) /\ Len(ch) \in Nat /\ DOMAIN ch = 1..Len(ch)
    BY <1>1 DEF Path
  <1>4. \A j \in 1..Len(ch) : ch[j] \in Clusters
    BY <1>3
  <1>5. \A j \in 1..Len(ch) : d.fat[ch[j]] = NextOf(ch, j)
    <2>1. SUFFICES ASSUME NEW j \in 1..Len(ch) PROVE d.fat[ch[j]] = NextOf(ch, j)
      OBVIOUS
    <2>2. CASE j < Len(ch)
      <3>1. j \in 1..(Len(ch) - 1)
        BY <2>2, <1>3
      <3>2. QED
        BY <3>1, <2>2, <1>1 DEF Path, NextOf
    <2>3. CASE j = Len(ch)
      <3>1. ch # <<>> /\ Last(ch) = ch[j]
        BY <2>3, <1>3 DEF Last
      <3>2. QED
        BY <3>1, <2>3, <1>2, <1>3 DEF NextOf
    <2>4. j < Len(ch) \/ j = Len(ch)
      <3>1. Len(ch) \in Nat /\ j \in 1..Len(ch)
        BY <1>3
      <3>2. QED
        BY ONLY <3>1
    <2>5. QED
      BY <2>2, <2>3, <2>4, Zenon
  <1>6. \A j \in 1..Len(ch) : NextOf(ch, j) # 0
    <2>1. SUFFICES ASSUME NEW j \in 1..Len(ch) PROVE NextOf(ch, j) # 0
      OBVIOUS
    <2>2. j < Len(ch) => j + 1 \in 1..Len(ch)
      BY <1>3
    <2>3. QED
      BY <2>2, <1>4, ClusterFacts DEF NextOf, Eoc
  <1>7. \A k \in ToSet(ch) : k \in Clusters /\ d.fat[k] # 0
    BY <1>3, <1>4, <1>5, <1>6 DEF ToSet
  <1>8. c \in Clusters => c \in ToSet(ch)
    BY <1>1, <1>3 DEF ToSet
  <1>9. QED
    BY <1>1, <1>2, <1>3, <1>5, <1>7, <1>8, Zenon DEF ch

\* A chain is kept while the FAT entries of its clusters are.
LEMMA ChainKept ==
  ASSUME NEW d, d.fat \in Fat, NEW e, e.fat \in Fat, NEW c \in Clusters \cup {0}, Ends(d, c),
         \A k \in ToSet(Chain(d, c)) : e.fat[k] = d.fat[k]
  PROVE  Chain(e, c) = Chain(d, c) /\ Ends(e, c)
  <1> DEFINE ch == Chain(d, c)
  <1>1. /\ ch \in Seq(Clusters) /\ Distinct(ch)
        /\ \A j \in 1..Len(ch) : d.fat[ch[j]] = NextOf(ch, j)
        /\ c \in Clusters => Len(ch) >= 1 /\ ch[1] = c
        /\ c \notin Clusters => ch = <<>>
    BY EndsFacts, Zenon
  <1>2. \A k \in ToSet(ch) : e.fat[k] = d.fat[k]
    OBVIOUS
  <1> HIDE DEF ch
  <1>3. CASE c \in Clusters
    <2>1. \A j \in 1..Len(ch) : e.fat[ch[j]] = NextOf(ch, j)
      <3>1. \A j \in 1..Len(ch) : ch[j] \in ToSet(ch)
        BY <1>1 DEF ToSet
      <3>2. QED
        BY <3>1, <1>1, <1>2
    <2>2. Chain(e, ch[1]) = ch /\ Ends(e, ch[1])
      BY <2>1, <1>1, <1>3, NewChain, Zenon
    <2>3. QED
      BY <2>2, <1>1, <1>3 DEF ch
  <1>4. CASE c \notin Clusters
    <2>1. Chain(e, c) = <<>>
      BY <1>4, ChainIsPath, Zenon
    <2>2. Ends(e, c)
      BY <2>1 DEF Ends
    <2>3. QED
      BY <2>1, <2>2, <1>1, <1>4 DEF ch
  <1>5. QED
    BY <1>3, <1>4

\* A cluster linked behind the last one of a chain becomes its last.
LEMMA ChainGrown ==
  ASSUME NEW d, d.fat \in Fat, NEW e, e.fat \in Fat, NEW c \in Clusters, Ends(d, c),
         NEW nc \in Clusters, nc \notin ToSet(Chain(d, c)),
         \A k \in ToSet(Chain(d, c)) \ {Last(Chain(d, c))} : e.fat[k] = d.fat[k],
         e.fat[Last(Chain(d, c))] = nc, e.fat[nc] = Eoc
  PROVE  Chain(e, c) = Append(Chain(d, c), nc) /\ Ends(e, c)
  <1> DEFINE ch == Chain(d, c)
             cs == Append(ch, nc)
  <1>1. /\ ch \in Seq(Clusters) /\ Distinct(ch) /\ Len(ch) >= 1 /\ ch[1] = c
        /\ \A j \in 1..Len(ch) : d.fat[ch[j]] = NextOf(ch, j)
    BY EndsFacts, Zenon
  <1>2. /\ nc \notin ToSet(ch) /\ e.fat[Last(ch)] = nc
        /\ \A k \in ToSet(ch) \ {Last(ch)} : e.fat[k] = d.fat[k]
    OBVIOUS
  <1> HIDE DEF ch
  <1>3. Len(ch) \in Nat /\ DOMAIN ch = 1..Len(ch) /\ Last(ch) = ch[Len(ch)]
    BY <1>1 DEF Last
  <1>4. /\ cs \in Seq(Clusters) /\ Len(cs) = Len(ch) + 1 /\ cs[Len(ch) + 1] = nc
        /\ \A j \in 1..Len(ch) : cs[j] = ch[j]
    BY <1>1, <1>3
  <1>5. DOMAIN cs = 1..(Len(ch) + 1)
    BY <1>4
  <1>6. \A j \in 1..Len(ch) : ch[j] \in ToSet(ch) /\ ch[j] # nc
    BY <1>2, <1>3 DEF ToSet
  <1> HIDE DEF cs
  <1>7. Distinct(cs)
    <2>1. SUFFICES ASSUME NEW i \in 1..(Len(ch) + 1), NEW j \in 1..(Len(ch) + 1), cs[i] = cs[j]
                   PROVE  i = j
      BY <1>5 DEF Distinct
    <2>2. (i \in 1..Len(ch) \/ i = Len(ch) + 1) /\ (j \in 1..Len(ch) \/ j = Len(ch) + 1)
      BY <1>3
    <2>3. QED
      BY <2>1, <2>2, <1>1, <1>3, <1>4, <1>6 DEF Distinct
  <1>8. \A j \in 1..Len(cs) : e.fat[cs[j]] = NextOf(cs, j)
    <2>1. SUFFICES ASSUME NEW j \in 1..(Len(ch) + 1) PROVE e.fat[cs[j]] = NextOf(cs, j)
      BY <1>4
    <2>2. CASE j = Len(ch) + 1
      BY <2>2, <1>3, <1>4 DEF NextOf
    <2>3. CASE j = Len(ch)
      <3>1. cs[j] = Last(ch) /\ NextOf(cs, j) = nc
        BY <2>3, <1>1, <1>3, <1>4 DEF NextOf
      <3>2. QED
        BY <3>1, <1>2
    <2>4. CASE j < Len(ch)
      <3>1. j \in 1..Len(ch) /\ j + 1 \in 1..Len(ch) /\ Len(ch) \in 1..Len(ch) /\ j # Len(ch)
        BY <2>4, <1>3
      <3>2. cs[j] = ch[j] /\ ch[j] # Last(ch) /\ ch[j] \in ToSet(ch)
        BY <3>1, <1>1, <1>3, <1>4, <1>6 DEF Distinct
      <3>3. NextOf(cs, j) = ch[j + 1] /\ NextOf(ch, j) = ch[j + 1]
        BY <2>4, <3>1, <1>3, <1>4 DEF NextOf
      <3>4. QED
        BY <3>1, <3>2, <3>3, <1>1, <1>2
    <2>5. j = Len(ch) + 1 \/ j = Len(ch) \/ j < Len(ch)
      <3>1. Len(ch) \in Nat /\ j \in 1..(Len(ch) + 1)
        BY <1>3
      <3>2. QED
        BY ONLY <3>1
    <2>6. QED
      BY <2>2, <2>3, <2>4, <2>5, Zenon
  <1>9. Chain(e, cs[1]) = cs /\ Ends(e, cs[1])
    <2>1. Len(cs) >= 1
      BY <1>3, <1>4
    <2>2. QED
      BY <2>1, <1>4, <1>7, <1>8, NewChain, Zenon
  <1>10. cs[1] = c
    BY <1>1, <1>3, <1>4
  <1>11. QED
    BY <1>9, <1>10 DEF cs, ch

-----------------------------------------------------------------------------
(***************************************************************************)
(* 3. Free clusters.                                                       *)
(***************************************************************************)
Scan(f, c, s) == IF c > 1 /\ f[c] = 0 THEN Append(s, c) ELSE IF c > 1 THEN s ELSE <<>>
ScanUpto(f, k, w) ==
  w = [c \in 1..k |-> IF c > 1 /\ f[c] = 0 THEN Append(w[c - 1], c)
                      ELSE IF c > 1 THEN w[c - 1] ELSE <<>>]

LEMMA ScanExists ==
  ASSUME NEW f
  PROVE  \E w : ScanUpto(f, MaxCluster, w)
  <1> DEFINE S == {k \in Nat : \E w : ScanUpto(f, k + 1, w)}
  <1>1. 0 \in S
    <2>1. ScanUpto(f, 0 + 1, [c \in 1..(0 + 1) |-> <<>>])
      <3>1. \A c \in 1..(0 + 1) : ~(c > 1)
        OBVIOUS
      <3>2. QED
        BY <3>1 DEF ScanUpto
    <2>2. QED
      BY <2>1
  <1>2. ASSUME NEW k \in Nat, k \in S PROVE k + 1 \in S
    <2>1. PICK w : ScanUpto(f, k + 1, w)
      BY <1>2
    <2> DEFINE v == [c \in 1..(k + 1 + 1) |-> IF c <= k + 1 THEN w[c] ELSE Scan(f, c, w[k + 1])]
    <2>2. \A c \in 1..(k + 1) : w[c] = IF c > 1 /\ f[c] = 0 THEN Append(w[c - 1], c)
                                       ELSE IF c > 1 THEN w[c - 1] ELSE <<>>
      BY <2>1 DEF ScanUpto
    <2>3. \A c \in 1..(k + 1 + 1) : c > 1 => v[c - 1] = w[c - 1]
      OBVIOUS
    <2>4. \A c \in 1..(k + 1 + 1) : v[c] = IF c > 1 /\ f[c] = 0 THEN Append(v[c - 1], c)
                                           ELSE IF c > 1 THEN v[c - 1] ELSE <<>>
      <3>1. SUFFICES ASSUME NEW c \in 1..(k + 1 + 1)
                     PROVE  v[c] = IF c > 1 /\ f[c] = 0 THEN Append(v[c - 1], c)
                                   ELSE IF c > 1 THEN v[c - 1] ELSE <<>>
        OBVIOUS
      <3>2. CASE c <= k + 1
        <4>1. c \in 1..(k + 1) /\ v[c] = w[c]
          BY <3>2
        <4>2. QED
          BY <4>1, <2>2, <2>3
      <3>3. CASE c = k + 1 + 1
        <4>1. v[c] = Scan(f, c, w[k + 1]) /\ c > 1 /\ c - 1 = k + 1 /\ v[c - 1] = w[k + 1]
          BY <3>3, <2>3
        <4>2. QED
          BY <4>1 DEF Scan
      <3>4. c <= k + 1 \/ c = k + 1 + 1
        BY <3>1
      <3>5. QED
        BY <3>2, <3>3, <3>4
    <2>5. v = [c \in 1..(k + 1 + 1) |-> v[c]]
      OBVIOUS
    <2>6. ScanUpto(f, k + 1 + 1, v)
      <3> HIDE DEF v
      <3>1. QED
        BY <2>4, <2>5 DEF ScanUpto
    <2>7. \E w1 : ScanUpto(f, k + 1 + 1, w1)
      <3> HIDE DEF v
      <3>1. QED
        BY <2>6, Zenon
    <2>8. QED
      BY <2>7
  <1>3. MaxCluster - 1 \in S
    <2> HIDE DEF S
    <2>1. QED
      BY <1>1, <1>2, Induction, HumanFsAssumption
  <1>4. (MaxCluster - 1) + 1 = MaxCluster
    BY HumanFsAssumption
  <1>5. QED
    BY <1>3, <1>4

\* The free clusters, each once.
LEMMA FreeFacts ==
  ASSUME NEW d, d.fat \in Fat
  PROVE  /\ Free(d) \in Seq(Clusters) /\ Distinct(Free(d))
         /\ \A i \in 1..Len(Free(d)) : d.fat[Free(d)[i]] = 0
  <1> DEFINE f == d.fat
             w == CHOOSE w : ScanUpto(f, MaxCluster, w)
  <1>1. Free(d) = w[MaxCluster]
    BY DEF Free, ScanUpto
  <1>2. ScanUpto(f, MaxCluster, w)
    BY ScanExists
  <1> HIDE DEF w
  <1>3. \A c \in 1..MaxCluster : w[c] = Scan(f, c, w[c - 1])
    BY <1>2 DEF ScanUpto, Scan
  <1> DEFINE Good(c) == /\ w[c] \in Seq(Clusters) /\ \A i \in 1..Len(w[c]) : w[c][i] <= c /\ f[w[c][i]] = 0
                        /\ Distinct(w[c])
             S == {k \in Nat : k + 1 <= MaxCluster => Good(k + 1)}
  <1>4. 0 \in S
    <2>1. Good(0 + 1)
      <3>1. w[0 + 1] = <<>>
        BY <1>3, HumanFsAssumption DEF Scan
      <3>2. QED
        BY <3>1 DEF Distinct
    <2>2. QED
      BY <2>1
  <1>5. ASSUME NEW k \in Nat, k \in S PROVE k + 1 \in S
    <2>1. SUFFICES ASSUME k + 1 + 1 <= MaxCluster PROVE Good(k + 1 + 1)
      OBVIOUS
    <2> DEFINE c == k + 1 + 1
               s == w[k + 1]
    <2>2. c \in 1..MaxCluster /\ c - 1 = k + 1 /\ c > 1 /\ c \in Clusters /\ k + 1 <= MaxCluster
      BY <2>1, HumanFsAssumption DEF Clusters
    <2>3. Good(k + 1)
      BY <1>5, <2>2
    <2>4. s \in Seq(Clusters) /\ Distinct(s) /\ \A i \in 1..Len(s) : s[i] <= k + 1 /\ f[s[i]] = 0
      BY <2>3
    <2>5. w[c] = Scan(f, c, s)
      BY <1>3, <2>2
    <2> HIDE DEF s, f
    <2>6. \A i \in 1..Len(s) : s[i] \in Nat
      <3>1. \A i \in 1..Len(s) : s[i] \in Clusters
        BY <2>4
      <3>2. QED
        BY <3>1, ClusterFacts
    <2>7. CASE f[c] = 0
      <3> DEFINE t == Append(s, c)
      <3>1. w[c] = t
        BY <2>2, <2>5, <2>7 DEF Scan
      <3>2. /\ t \in Seq(Clusters) /\ Len(t) = Len(s) + 1 /\ Len(s) \in Nat
            /\ t[Len(s) + 1] = c /\ \A i \in 1..Len(s) : t[i] = s[i]
        BY <2>2, <2>4
      <3>3. \A i \in 1..Len(s) : s[i] \in Nat /\ s[i] <= k + 1
        BY <2>4, <2>6
      <3>4. DOMAIN t = 1..(Len(s) + 1) /\ DOMAIN s = 1..Len(s)
        BY <3>2, <2>4
      <3> HIDE DEF t
      <3>5. \A i \in 1..(Len(s) + 1) : i \in 1..Len(s) \/ i = Len(s) + 1
        BY ONLY <3>2
      <3>6. \A i \in 1..Len(t) : t[i] <= c /\ f[t[i]] = 0
        <4>1. SUFFICES ASSUME NEW i \in 1..(Len(s) + 1) PROVE t[i] <= c /\ f[t[i]] = 0
          BY <3>2
        <4>2. CASE i \in 1..Len(s)
          BY <4>2, <3>2, <3>3, <2>4
        <4>3. CASE i = Len(s) + 1
          BY <4>3, <3>2, <2>7
        <4>4. QED
          BY <4>2, <4>3, <3>5, Zenon
      <3>7. Distinct(t)
        <4>1. SUFFICES ASSUME NEW i \in 1..(Len(s) + 1), NEW j \in 1..(Len(s) + 1), t[i] = t[j]
                       PROVE  i = j
          BY <3>4 DEF Distinct
        <4>2. \A m \in 1..Len(s) : t[m] # c
          BY <3>2, <3>3
        <4>3. CASE i \in 1..Len(s) /\ j \in 1..Len(s)
          BY <4>1, <4>3, <3>2, <3>4, <2>4 DEF Distinct
        <4>4. CASE i = Len(s) + 1 \/ j = Len(s) + 1
          BY <4>1, <4>2, <4>4, <3>2, <3>5
        <4>5. QED
          BY <4>3, <4>4, <3>5, Zenon
      <3>8. QED
        BY <3>1, <3>2, <3>6, <3>7
    <2>8. CASE f[c] # 0
      <3>1. w[c] = s
        BY <2>2, <2>5, <2>8 DEF Scan
      <3>2. \A i \in 1..Len(s) : s[i] <= c
        BY <2>4, <2>6
      <3>3. QED
        BY <3>1, <3>2, <2>4
    <2>9. QED
      BY <2>7, <2>8
  <1>6. Good(MaxCluster)
    <2>1. MaxCluster - 1 \in S
      <3> HIDE DEF S
      <3>1. QED
        BY <1>4, <1>5, Induction, HumanFsAssumption
    <2>2. QED
      <3>1. (MaxCluster - 1) + 1 = MaxCluster /\ MaxCluster <= MaxCluster
        BY HumanFsAssumption
      <3> HIDE DEF Good
      <3>2. QED
        BY <2>1, <3>1
  <1>7. QED
    BY <1>1, <1>6

-----------------------------------------------------------------------------
(***************************************************************************)
(* 4. Slots, clusters and single writes.                                   *)
(***************************************************************************)
LEMMA ImageFacts ==
  ASSUME NEW d \in ImageTypes
  PROVE  /\ d.fat \in Fat /\ d.root \in [1..RootSlots -> RootSlot]
         /\ d.cont \in [Clusters -> Cluster]
         /\ \A c \in Clusters : /\ d.cont[c] \in Cluster /\ d.cont[c].piece \in Nat \X Nat
                                /\ d.cont[c].slots \in {<<>>} \cup [1..SubSlots -> SubSlot]
  <1>1. /\ d.fat \in Fat /\ d.root \in [1..RootSlots -> RootSlot]
        /\ d.cont \in [Clusters -> Cluster]
    BY DEF ImageTypes, Fat
  <1>2. \A c \in Clusters : d.cont[c] \in Cluster
    BY <1>1
  <1>3. QED
    BY <1>1, <1>2 DEF Cluster

LEMMA SlotFacts ==
  /\ RootSlot \subseteq SubSlot
  /\ Unused \in RootSlot /\ Deleted \in RootSlot
  /\ \A c \in {0} \cup Clusters : Dot(c) \in SubSlot
  /\ \A n \in Names, b \in BOOLEAN, c \in {0} \cup Clusters, z \in 0..MaxSize : Slot("ent", n, b, c, z) \in RootSlot
  /\ Blank \in Cluster /\ Blank.slots # <<>>
  /\ \A i, j \in Nat : Piece(i, j) \in Cluster
  /\ \A s \in [1..SubSlots -> SubSlot] : s # <<>> /\ DOMAIN s = 1..SubSlots
  <1>1. MaxSize \in Nat /\ SubSlots \in Nat /\ SubSlots > 2 /\ 0 \in 0..MaxSize /\ 1 \in 1..SubSlots
    BY HumanFsAssumption
  <1>2. Unused \in RootSlot /\ Deleted \in RootSlot
    BY <1>1 DEF Unused, Deleted, Slot, RootSlot, SlotTypes
  <1>3. RootSlot \subseteq SubSlot
    BY DEF RootSlot, SubSlot, SlotTypes
  <1>4. \A c \in {0} \cup Clusters : Dot(c) \in SubSlot
    BY <1>1 DEF Dot, Slot, SubSlot, SlotTypes
  <1>5. \A n \in Names, b \in BOOLEAN, c \in {0} \cup Clusters, z \in 0..MaxSize : Slot("ent", n, b, c, z) \in RootSlot
    BY <1>1 DEF Slot, RootSlot, SlotTypes
  <1>6. \A s \in [1..SubSlots -> SubSlot] : s # <<>> /\ DOMAIN s = 1..SubSlots
    <2>1. SUFFICES ASSUME NEW s \in [1..SubSlots -> SubSlot] PROVE s # <<>> /\ DOMAIN s = 1..SubSlots
      OBVIOUS
    <2>2. DOMAIN s = 1..SubSlots
      OBVIOUS
    <2>3. DOMAIN <<>> = {}
      OBVIOUS
    <2>4. QED
      BY <2>2, <2>3, <1>1
  <1>7. Blank \in Cluster /\ Blank.slots # <<>>
    <2>1. [i \in 1..SubSlots |-> Unused] \in [1..SubSlots -> SubSlot]
      BY <1>2, <1>3
    <2>2. QED
      BY <2>1, <1>6 DEF Blank, Cluster
  <1>8. \A i, j \in Nat : Piece(i, j) \in Cluster
    BY DEF Piece, Cluster
  <1>9. QED
    BY <1>2, <1>3, <1>4, <1>5, <1>6, <1>7, <1>8, Zenon

LEMMA SlotAtFacts ==
  ASSUME NEW d \in ImageTypes
  PROVE  /\ \A i \in 1..RootSlots : SlotAt(d, <<0, i>>) = d.root[i] /\ d.root[i] \in RootSlot
         /\ \A c \in Clusters, i \in 1..SubSlots :
              /\ SlotAt(d, <<c, i>>) = IF d.cont[c].slots = <<>> THEN Unused ELSE d.cont[c].slots[i]
              /\ SlotAt(d, <<c, i>>) \in SubSlot
  <1>1. \A i \in 1..RootSlots : SlotAt(d, <<0, i>>) = d.root[i] /\ d.root[i] \in RootSlot
    BY ImageFacts DEF SlotAt
  <1>2. ASSUME NEW c \in Clusters, NEW i \in 1..SubSlots
        PROVE  /\ SlotAt(d, <<c, i>>) = IF d.cont[c].slots = <<>> THEN Unused ELSE d.cont[c].slots[i]
               /\ SlotAt(d, <<c, i>>) \in SubSlot
    <2>1. c # 0 /\ <<c, i>>[1] = c /\ <<c, i>>[2] = i
      BY ClusterFacts
    <2>2. SlotAt(d, <<c, i>>) = IF d.cont[c].slots = <<>> THEN Unused ELSE d.cont[c].slots[i]
      <3>1. CASE d.cont[c].slots = <<>>
        BY <2>1, <3>1 DEF SlotAt
      <3>2. CASE d.cont[c].slots # <<>>
        BY <2>1, <3>2 DEF SlotAt
      <3>3. QED
        BY <3>1, <3>2
    <2>3. d.cont[c].slots # <<>> => d.cont[c].slots[i] \in SubSlot
      BY ImageFacts
    <2>4. QED
      BY <2>2, <2>3, SlotFacts
  <1>3. QED
    BY <1>1, <1>2

LEMMA ImageMake ==
  ASSUME NEW f \in Fat, NEW r \in [1..RootSlots -> RootSlot], NEW c \in [Clusters -> Cluster]
  PROVE  LET e == [fat |-> f, root |-> r, cont |-> c]
         IN  e \in ImageTypes /\ e.fat = f /\ e.root = r /\ e.cont = c
  BY DEF ImageTypes, Fat

\* What each kind of write does to an image.
LEMMA ApplyFat ==
  ASSUME NEW d \in ImageTypes, NEW c \in Clusters, NEW v \in Clusters \cup {0, Eoc}, NEW o
  PROVE  LET e == Apply(d, Write("fat", c, v, o))
         IN  e \in ImageTypes /\ e.fat = [d.fat EXCEPT ![c] = v] /\ e.root = d.root /\ e.cont = d.cont
  <1> DEFINE w == Write("fat", c, v, o)
  <1>1. w.w = "fat" /\ w.at = c /\ w.as = v
    BY DEF Write
  <1>2. Apply(d, w) = [d EXCEPT !.fat[w.at] = w.as]
    BY <1>1 DEF Apply
  <1>3. Apply(d, w) = [fat |-> [d.fat EXCEPT ![c] = v], root |-> d.root, cont |-> d.cont]
    <2> HIDE DEF w
    <2>1. QED
      BY <1>1, <1>2 DEF ImageTypes
  <1>4. [d.fat EXCEPT ![c] = v] \in Fat
    BY ImageFacts DEF Fat
  <1> DEFINE e == Apply(d, w)
  <1>5. d.fat \in Fat /\ d.root \in [1..RootSlots -> RootSlot] /\ d.cont \in [Clusters -> Cluster]
    BY ImageFacts
  <1> DEFINE x == [d.fat EXCEPT ![c] = v]
  <1>6. x \in Fat /\ e = [fat |-> x, root |-> d.root, cont |-> d.cont]
    BY <1>3, <1>4
  <1> HIDE DEF x, e
  <1>7. e \in ImageTypes /\ e.fat = x /\ e.root = d.root /\ e.cont = d.cont
    BY <1>5, <1>6, ImageMake
  <1>8. QED
    BY <1>7 DEF e, x

LEMMA ApplyData ==
  ASSUME NEW d \in ImageTypes, NEW c \in Clusters, NEW v \in Cluster, NEW o
  PROVE  LET e == Apply(d, Write("data", c, v, o))
         IN  e \in ImageTypes /\ e.cont = [d.cont EXCEPT ![c] = v] /\ e.root = d.root /\ e.fat = d.fat
  <1> DEFINE w == Write("data", c, v, o)
  <1>1. w.w = "data" /\ w.at = c /\ w.as = v
    BY DEF Write
  <1>2. Apply(d, w) = [d EXCEPT !.cont[w.at] = w.as]
    BY <1>1 DEF Apply
  <1>3. Apply(d, w) = [fat |-> d.fat, root |-> d.root, cont |-> [d.cont EXCEPT ![c] = v]]
    <2> HIDE DEF w
    <2>1. QED
      BY <1>1, <1>2 DEF ImageTypes
  <1>4. [d.cont EXCEPT ![c] = v] \in [Clusters -> Cluster]
    BY ImageFacts
  <1> DEFINE e == Apply(d, w)
  <1>5. d.fat \in Fat /\ d.root \in [1..RootSlots -> RootSlot] /\ d.cont \in [Clusters -> Cluster]
    BY ImageFacts
  <1> DEFINE x == [d.cont EXCEPT ![c] = v]
  <1>6. x \in [Clusters -> Cluster] /\ e = [fat |-> d.fat, root |-> d.root, cont |-> x]
    BY <1>3, <1>4
  <1> HIDE DEF x, e
  <1>7. e \in ImageTypes /\ e.cont = x /\ e.root = d.root /\ e.fat = d.fat
    BY <1>5, <1>6, ImageMake
  <1>8. QED
    BY <1>7 DEF e, x

LEMMA ApplyRoot ==
  ASSUME NEW d \in ImageTypes, NEW i \in 1..RootSlots, NEW s \in RootSlot, NEW o
  PROVE  LET e == Apply(d, Write("slot", <<0, i>>, s, o))
         IN  e \in ImageTypes /\ e.root = [d.root EXCEPT ![i] = s] /\ e.cont = d.cont /\ e.fat = d.fat
  <1> DEFINE w == Write("slot", <<0, i>>, s, o)
  <1>1. w.w = "slot" /\ w.at[1] = 0 /\ w.at[2] = i /\ w.as = s
    BY DEF Write
  <1>2. Apply(d, w) = [d EXCEPT !.root[w.at[2]] = w.as]
    BY <1>1 DEF Apply
  <1>3. Apply(d, w) = [fat |-> d.fat, root |-> [d.root EXCEPT ![i] = s], cont |-> d.cont]
    <2> HIDE DEF w
    <2>1. QED
      BY <1>1, <1>2 DEF ImageTypes
  <1>4. [d.root EXCEPT ![i] = s] \in [1..RootSlots -> RootSlot]
    BY ImageFacts
  <1> DEFINE e == Apply(d, w)
  <1>5. d.fat \in Fat /\ d.root \in [1..RootSlots -> RootSlot] /\ d.cont \in [Clusters -> Cluster]
    BY ImageFacts
  <1> DEFINE x == [d.root EXCEPT ![i] = s]
  <1>6. x \in [1..RootSlots -> RootSlot] /\ e = [fat |-> d.fat, root |-> x, cont |-> d.cont]
    BY <1>3, <1>4
  <1> HIDE DEF x, e
  <1>7. e \in ImageTypes /\ e.root = x /\ e.cont = d.cont /\ e.fat = d.fat
    BY <1>5, <1>6, ImageMake
  <1>8. QED
    BY <1>7 DEF e, x

LEMMA ApplySub ==
  ASSUME NEW d \in ImageTypes, NEW c \in Clusters, NEW i \in 1..SubSlots, NEW s \in SubSlot, NEW o
  PROVE  LET e == Apply(d, Write("slot", <<c, i>>, s, o))
         IN  /\ e \in ImageTypes /\ e.root = d.root /\ e.fat = d.fat
             /\ \A k \in Clusters : k # c => e.cont[k] = d.cont[k]
             /\ e.cont[c].piece = d.cont[c].piece
             /\ e.cont[c].slots = [d.cont[c].slots EXCEPT ![i] = s]
             /\ e.cont[c].slots = <<>> <=> d.cont[c].slots = <<>>
  <1> DEFINE w == Write("slot", <<c, i>>, s, o)
             k == [slots |-> [d.cont[c].slots EXCEPT ![i] = s], piece |-> d.cont[c].piece]
             b == d.cont[c].slots
  <1>1. w.w = "slot" /\ w.at[1] = c /\ w.at[2] = i /\ w.as = s /\ c # 0
    BY ClusterFacts DEF Write
  <1>2. Apply(d, w) = [d EXCEPT !.cont[w.at[1]].slots[w.at[2]] = w.as]
    BY <1>1 DEF Apply
  <1>3. d.cont \in [Clusters -> Cluster] /\ d.cont[c] \in Cluster /\ b \in {<<>>} \cup [1..SubSlots -> SubSlot]
    BY ImageFacts
  <1>4. [b EXCEPT ![i] = s] \in {<<>>} \cup [1..SubSlots -> SubSlot]
        /\ ([b EXCEPT ![i] = s] = <<>> <=> b = <<>>)
    <2>1. CASE b = <<>>
      <3>1. DOMAIN [b EXCEPT ![i] = s] = {}
        BY <2>1
      <3>2. [b EXCEPT ![i] = s] = <<>>
        BY <2>1
      <3>3. QED
        BY <2>1, <3>2
    <2>2. CASE b \in [1..SubSlots -> SubSlot]
      <3>1. [b EXCEPT ![i] = s] \in [1..SubSlots -> SubSlot]
        BY <2>2
      <3>2. QED
        BY <3>1, <2>2, SlotFacts
    <2>3. QED
      BY <1>3, <2>1, <2>2
  <1>5. Apply(d, w) = [fat |-> d.fat, root |-> d.root, cont |-> [d.cont EXCEPT ![c] = k]]
    <2>1. [d.cont[c] EXCEPT !.slots[i] = s] = k
      BY <1>3 DEF Cluster
    <2> HIDE DEF w, k
    <2>2. [d.cont EXCEPT ![c].slots[i] = s] = [d.cont EXCEPT ![c] = k]
      BY <2>1
    <2>3. [d EXCEPT !.cont[w.at[1]].slots[w.at[2]] = w.as] = [d EXCEPT !.cont[c].slots[i] = s]
      BY <1>1
    <2>4. [d EXCEPT !.cont[c].slots[i] = s] = [d EXCEPT !.cont = [d.cont EXCEPT ![c] = k]]
      BY <2>2
    <2>5. [d EXCEPT !.cont = [d.cont EXCEPT ![c] = k]] = [fat |-> d.fat, root |-> d.root, cont |-> [d.cont EXCEPT ![c] = k]]
      BY DEF ImageTypes
    <2>6. QED
      BY <1>2, <2>3, <2>4, <2>5
  <1>6. k \in Cluster
    BY <1>3, <1>4, ImageFacts DEF Cluster
  <1>7. [d.cont EXCEPT ![c] = k] \in [Clusters -> Cluster] /\ [d.cont EXCEPT ![c] = k][c] = k
    BY <1>3, <1>6
  <1>8. k.slots = [b EXCEPT ![i] = s] /\ k.piece = d.cont[c].piece
    OBVIOUS
  <1> HIDE DEF k
  <1> DEFINE e == Apply(d, w)
             x == [d.cont EXCEPT ![c] = k]
  <1>9. /\ x \in [Clusters -> Cluster] /\ x[c] = k /\ \A m \in Clusters : m # c => x[m] = d.cont[m]
        /\ d.fat \in Fat /\ d.root \in [1..RootSlots -> RootSlot]
        /\ e = [fat |-> d.fat, root |-> d.root, cont |-> x]
    BY <1>3, <1>5, <1>7, ImageFacts
  <1> HIDE DEF e, x
  <1>10. e \in ImageTypes /\ e.root = d.root /\ e.fat = d.fat /\ e.cont = x
    BY <1>9, ImageMake
  <1>11. QED
    BY <1>4, <1>8, <1>9, <1>10 DEF e

-----------------------------------------------------------------------------
(***************************************************************************)
(* 5. The cells of a directory.                                            *)
(***************************************************************************)
LEMMA CellOrder ==
  ASSUME NEW u \in Nat \X Nat, NEW v \in Nat \X Nat
  PROVE  (u = v \/ Before(u, v) \/ Before(v, u)) /\ ~Before(u, u)
  <1>1. u = <<u[1], u[2]>> /\ v = <<v[1], v[2]>> /\ u[1] \in Nat /\ u[2] \in Nat /\ v[1] \in Nat /\ v[2] \in Nat
    OBVIOUS
  <1>2. (u[1] = v[1] /\ u[2] = v[2]) \/ Before(u, v) \/ Before(v, u)
    BY <1>1 DEF Before
  <1>3. ~Before(u, u)
    BY <1>1 DEF Before
  <1>4. QED
    BY <1>1, <1>2, <1>3

LEMMA DirFacts ==
  ASSUME NEW d, NEW D, Skeleton(d, D), NEW x \in D
  PROVE  /\ DirChain(d, x) \in Seq({0} \cup Clusters) /\ Len(DirChain(d, x)) \in Nat
         /\ Len(DirChain(d, x)) >= 1 /\ Distinct(DirChain(d, x)) /\ x \in ToSet(DirChain(d, x))
         /\ x = 0 => DirChain(d, x) = <<0>>
         /\ x # 0 => /\ x \in Clusters /\ DirChain(d, x) = Chain(d, x) /\ Ends(d, x)
                     /\ DirChain(d, x) \in Seq(Clusters)
                     /\ \A k \in ToSet(DirChain(d, x)) :
                          k \in Clusters /\ d.cont[k].slots # <<>> /\ d.fat[k] # 0
  <1>1. d.fat \in Fat /\ x \in {0} \cup Clusters
    BY ImageFacts DEF Skeleton
  <1>2. CASE x = 0
    <2>1. DirChain(d, x) = <<0>> /\ DOMAIN <<0>> = 1..1 /\ Len(<<0>>) = 1 /\ <<0>>[1] = 0
      BY <1>2 DEF DirChain
    <2>2. 0 \in ToSet(<<0>>)
      BY <2>1 DEF ToSet
    <2>3. \A i, j \in DOMAIN <<0>> : i = j
      BY <2>1
    <2>4. <<0>> \in Seq({0} \cup Clusters)
      OBVIOUS
    <2>5. QED
      BY <1>2, <2>1, <2>2, <2>3, <2>4 DEF Distinct
  <1>3. CASE x # 0
    <2>1. DirChain(d, x) = Chain(d, x) /\ x \in Clusters
      BY <1>1, <1>3 DEF DirChain
    <2>2. Ends(d, x) /\ \A k \in ToSet(Chain(d, x)) : d.cont[k].slots # <<>>
      BY <1>3 DEF Skeleton
    <2>3. /\ Chain(d, x) \in Seq(Clusters) /\ Distinct(Chain(d, x)) /\ Len(Chain(d, x)) >= 1
          /\ \A k \in ToSet(Chain(d, x)) : k \in Clusters /\ d.fat[k] # 0
          /\ x \in ToSet(Chain(d, x))
      BY <1>1, <2>1, <2>2, EndsFacts, Zenon
    <2> DEFINE ch == Chain(d, x)
    <2>4. ch \in Seq({0} \cup Clusters) /\ Len(ch) \in Nat
      <3>1. ch \in Seq(Clusters)
        BY <2>3
      <3> HIDE DEF ch
      <3>2. QED
        BY <3>1
    <2>5. QED
      BY <1>3, <2>1, <2>2, <2>3, <2>4, Zenon
  <1>4. QED
    BY <1>2, <1>3

LEMMA CellFacts ==
  ASSUME NEW d, NEW D, Skeleton(d, D), NEW x \in D, NEW u \in CellsOf(d, x)
  PROVE  LET ch == DirChain(d, x)
         IN  /\ u \in Nat \X Nat /\ u[1] \in 1..Len(ch) /\ u[2] \in 1..Width(x) /\ u = <<u[1], u[2]>>
             /\ Place(ch, u) = <<ch[u[1]], u[2]>> /\ ch[u[1]] \in ToSet(ch)
             /\ x = 0 => /\ Place(ch, u) = <<0, u[2]>> /\ u[1] = 1 /\ u[2] \in 1..RootSlots
                         /\ At(d, x, u) = d.root[u[2]] /\ At(d, x, u) \in RootSlot
             /\ x # 0 => /\ ch[u[1]] \in Clusters /\ u[2] \in 1..SubSlots
                         /\ At(d, x, u) = d.cont[ch[u[1]]].slots[u[2]]
             /\ At(d, x, u) \in SubSlot
  <1> DEFINE ch == DirChain(d, x)
  <1>1. /\ Len(ch) \in Nat /\ x = 0 => ch = <<0>>
        /\ x # 0 => ch \in Seq(Clusters) /\ \A k \in ToSet(ch) : k \in Clusters /\ d.cont[k].slots # <<>>
        /\ ch \in Seq({0} \cup Clusters)
    BY DirFacts, Zenon
  <1>2. u \in (1..Len(ch)) \X (1..Width(x)) /\ At(d, x, u) = SlotAt(d, Place(ch, u))
    BY DEF CellsOf, Cells, At
  <1>3. d \in ImageTypes /\ RootSlots \in Nat /\ SubSlots \in Nat
    BY HumanFsAssumption DEF Skeleton
  <1> HIDE DEF ch
  <1>4. u[1] \in 1..Len(ch) /\ u[2] \in 1..Width(x) /\ u = <<u[1], u[2]>> /\ Place(ch, u) = <<ch[u[1]], u[2]>>
    BY <1>2 DEF Place
  <1>5. Width(x) \in Nat /\ u \in Nat \X Nat
    BY <1>1, <1>2, <1>3 DEF Width
  <1>6. ch[u[1]] \in ToSet(ch)
    BY <1>1, <1>4 DEF ToSet
  <1>7. CASE x = 0
    <2>1. u[1] = 1 /\ u[2] \in 1..RootSlots
      <3>1. Len(ch) = 1
        BY <1>1, <1>7
      <3>2. QED
        BY <3>1, <1>4, <1>7 DEF Width
    <2>2. Place(ch, u) = <<0, u[2]>>
      BY <2>1, <1>1, <1>4, <1>7
    <2>3. At(d, x, u) = d.root[u[2]] /\ At(d, x, u) \in RootSlot
      BY <2>1, <2>2, <1>2, <1>3, SlotAtFacts
    <2>4. QED
      BY <2>1, <2>2, <2>3, <1>4, <1>5, <1>6, <1>7, SlotFacts DEF ch
  <1>8. CASE x # 0
    <2>1. ch[u[1]] \in Clusters /\ u[2] \in 1..SubSlots
      BY <1>1, <1>4, <1>6, <1>8 DEF Width
    <2>2. At(d, x, u) = d.cont[ch[u[1]]].slots[u[2]] /\ At(d, x, u) \in SubSlot
      BY <2>1, <1>1, <1>2, <1>3, <1>4, <1>6, <1>8, SlotAtFacts
    <2>3. QED
      BY <2>1, <2>2, <1>4, <1>5, <1>6, <1>8 DEF ch
  <1>9. QED
    BY <1>7, <1>8

\* In a sound directory every entry is read.
LEMMA ListedIs ==
  ASSUME NEW d, NEW D, Skeleton(d, D), NEW x \in D
  PROVE  ListedIn(d, x) = {u \in CellsOf(d, x) : At(d, x, u).k = "ent"}
  <1>1. ListedIn(d, x) = {u \in CellsOf(d, x) : At(d, x, u).k = "ent"
                             /\ \A v \in {w \in CellsOf(d, x) : At(d, x, w).k = "00"} : Before(u, v)}
    BY DEF ListedIn, Listed, CellsOf, At
  <1>2. ASSUME NEW u \in CellsOf(d, x), At(d, x, u).k = "ent",
               NEW v \in CellsOf(d, x), At(d, x, v).k = "00"
        PROVE  Before(u, v)
    <2>1. u \in Nat \X Nat /\ v \in Nat \X Nat
      BY CellFacts
    <2>2. ~Before(v, u)
      <3>1. Before(v, u) => At(d, x, u).k = "00"
        BY <1>2 DEF Skeleton
      <3>2. QED
        BY <3>1, <1>2
    <2>3. u # v
      BY <1>2
    <2>4. QED
      BY <2>1, <2>2, <2>3, CellOrder
  <1>3. QED
    BY <1>1, <1>2

-----------------------------------------------------------------------------
(***************************************************************************)
(* 6. What a change of the image leaves as it was.                         *)
(***************************************************************************)
\* The directories D are the same on d and on e, slot by slot.
SameDirs(d, e, D) ==
  \A y \in D : /\ DirChain(e, y) = DirChain(d, y) /\ CellsOf(e, y) = CellsOf(d, y)
               /\ ListedIn(e, y) = ListedIn(d, y)
               /\ \A v \in CellsOf(d, y) : At(e, y, v) = At(d, y, v)

LEMMA WholeKept ==
  ASSUME NEW d \in ImageTypes, NEW e \in ImageTypes, NEW n \in SubSlot, Whole(d, n),
         \A k \in ToSet(Chain(d, n.first)) : e.fat[k] = d.fat[k] /\ e.cont[k].piece = d.cont[k].piece
  PROVE  Whole(e, n) /\ Chain(e, n.first) = Chain(d, n.first)
  <1> DEFINE ch == Chain(d, n.first)
  <1>1. /\ n.first \in Clusters \cup {0} /\ d.fat \in Fat /\ e.fat \in Fat
    BY ImageFacts DEF SubSlot, SlotTypes
  <1>2. /\ Ends(d, n.first) /\ Len(ch) = n.size
        /\ \A j \in DOMAIN ch : d.cont[ch[j]].piece = <<d.cont[ch[1]].piece[1], j>>
    BY DEF Whole
  <1>3. Chain(e, n.first) = ch /\ Ends(e, n.first)
    BY <1>1, <1>2, ChainKept, Zenon
  <1>4. ch \in Seq(Clusters)
    BY <1>1, <1>2, EndsFacts, Zenon
  <1>5. \A k \in ToSet(ch) : e.cont[k].piece = d.cont[k].piece
    OBVIOUS
  <1> HIDE DEF ch
  <1>6. \A j \in DOMAIN ch : ch[j] \in ToSet(ch) /\ ch[1] \in ToSet(ch)
    <2>1. SUFFICES ASSUME NEW j \in DOMAIN ch PROVE ch[j] \in ToSet(ch) /\ ch[1] \in ToSet(ch)
      OBVIOUS
    <2>2. DOMAIN ch = 1..Len(ch) /\ Len(ch) \in Nat
      BY <1>4
    <2>3. 1 \in DOMAIN ch
      BY <2>1, <2>2
    <2>4. QED
      BY <2>1, <2>3 DEF ToSet
  <1>7. \A j \in DOMAIN ch : e.cont[ch[j]].piece = <<e.cont[ch[1]].piece[1], j>>
    BY <1>2, <1>5, <1>6
  <1>8. QED
    BY <1>2, <1>3, <1>7, Zenon DEF Whole, ch

LEMMA SkeletonKept ==
  ASSUME NEW d, NEW D, Skeleton(d, D), NEW e \in ImageTypes,
         \A y \in D : DirChain(e, y) = DirChain(d, y),
         \A y \in D \ {0} : Ends(e, y),
         \A y \in D : \A v \in CellsOf(d, y) : At(e, y, v) = At(d, y, v),
         \A y \in D \ {0} : \A k \in ToSet(DirChain(d, y)) : e.cont[k].slots # <<>>
  PROVE  Skeleton(e, D) /\ SameDirs(d, e, D)
  <1>1. \A y \in D : CellsOf(e, y) = CellsOf(d, y)
    BY DEF CellsOf
  <1>2. 0 \in D /\ D \subseteq {0} \cup Clusters
    BY DEF Skeleton
  <1>3. \A y \in D \ {0} : Ends(e, y) /\ \A k \in ToSet(Chain(e, y)) : e.cont[k].slots # <<>>
    <2>1. \A y \in D \ {0} : Chain(e, y) = DirChain(e, y)
      BY DEF DirChain
    <2>2. QED
      BY <2>1
  <1>4. \A x, y \in D : x # y => ToSet(DirChain(e, x)) \cap ToSet(DirChain(e, y)) = {}
    <2>1. \A x, y \in D : x # y => ToSet(DirChain(d, x)) \cap ToSet(DirChain(d, y)) = {}
      BY DEF Skeleton
    <2>2. QED
      BY <2>1
  <1>5. \A x \in D : \A u, v \in CellsOf(e, x) :
            At(e, x, u).k = "00" /\ Before(u, v) => At(e, x, v).k = "00"
    <2>1. \A x \in D : \A u, v \in CellsOf(d, x) :
            At(d, x, u).k = "00" /\ Before(u, v) => At(d, x, v).k = "00"
      BY DEF Skeleton
    <2>2. QED
      BY <2>1, <1>1
  <1>6. Skeleton(e, D)
    BY <1>2, <1>3, <1>4, <1>5, Zenon DEF Skeleton
  <1>7. \A y \in D : ListedIn(e, y) = ListedIn(d, y)
    BY <1>1, <1>6, ListedIs
  <1>8. QED
    BY <1>1, <1>6, <1>7 DEF SameDirs

\* A cluster that no directory of D and no file has.
Spare(d, D, c) ==
  \A y \in D : /\ c \notin ToSet(DirChain(d, y))
               /\ \A v \in ListedIn(d, y) :
                    ~At(d, y, v).dir => c \notin ToSet(Chain(d, At(d, y, v).first))

LEMMA TreeFacts ==
  ASSUME NEW d, NEW D, Tree(d, D)
  PROVE  /\ Skeleton(d, D) /\ d \in ImageTypes /\ d.fat \in Fat
         /\ \A x \in D : \A u \in ListedIn(d, x) :
              /\ u \in CellsOf(d, x) /\ At(d, x, u).k = "ent" /\ At(d, x, u) \in SubSlot
              /\ EntrySound(d, D, At(d, x, u))
         /\ \A c \in Clusters : d.fat[c] = 0 => Spare(d, D, c)
  <1>1. Skeleton(d, D) /\ d \in ImageTypes /\ d.fat \in Fat
    BY ImageFacts DEF Tree, Skeleton
  <1>2. \A x \in D : \A u \in ListedIn(d, x) :
              /\ u \in CellsOf(d, x) /\ At(d, x, u).k = "ent" /\ At(d, x, u) \in SubSlot
              /\ EntrySound(d, D, At(d, x, u))
    BY <1>1, ListedIs, CellFacts DEF Tree
  <1>3. ASSUME NEW c \in Clusters, d.fat[c] = 0, NEW y \in D PROVE c \notin ToSet(DirChain(d, y))
    <2>1. CASE y = 0
      <3>1. DirChain(d, y) = <<0>>
        BY <2>1, <1>1, DirFacts, Zenon
      <3>2. QED
        BY <3>1, ClusterFacts DEF ToSet
    <2>2. CASE y # 0
      <3>1. \A k \in ToSet(DirChain(d, y)) : d.fat[k] # 0
        BY <2>2, <1>1, DirFacts, Zenon
      <3>2. QED
        BY <3>1, <1>3
    <2>3. QED
      BY <2>1, <2>2
  <1>4. ASSUME NEW c \in Clusters, d.fat[c] = 0, NEW y \in D, NEW v \in ListedIn(d, y), ~At(d, y, v).dir
        PROVE  c \notin ToSet(Chain(d, At(d, y, v).first))
    <2> DEFINE n == At(d, y, v)
    <2>1. n \in SubSlot /\ EntrySound(d, D, n)
      BY <1>2
    <2>2. n.first \in Clusters \cup {0} /\ Ends(d, n.first)
      BY <1>4, <2>1 DEF SubSlot, SlotTypes, EntrySound, Whole
    <2>3. \A k \in ToSet(Chain(d, n.first)) : d.fat[k] # 0
      BY <1>1, <2>2, EndsFacts, Zenon
    <2>4. QED
      BY <2>3, <1>4
  <1>5. \A c \in Clusters : d.fat[c] = 0 => Spare(d, D, c)
    BY <1>3, <1>4 DEF Spare
  <1>6. QED
    BY <1>1, <1>2, <1>5, Zenon

\* Writes to spare clusters leave the tree as it was.
LEMMA Frame ==
  ASSUME NEW d, NEW D, Tree(d, D), NEW e \in ImageTypes, e.root = d.root,
         \A c \in Clusters : Spare(d, D, c) \/ (e.fat[c] = d.fat[c] /\ e.cont[c] = d.cont[c])
  PROVE  /\ Tree(e, D) /\ SameDirs(d, e, D)
         /\ \A c : Spare(e, D, c) <=> Spare(d, D, c)
  <1>1. /\ Skeleton(d, D) /\ d \in ImageTypes /\ d.fat \in Fat /\ e.fat \in Fat
        /\ D \subseteq Clusters \cup {0}
    BY TreeFacts, ImageFacts DEF Skeleton
  <1>2. \A y \in D \ {0} : \A k \in ToSet(DirChain(d, y)) :
           k \in Clusters /\ e.fat[k] = d.fat[k] /\ e.cont[k] = d.cont[k] /\ e.cont[k].slots # <<>>
    <2>1. SUFFICES ASSUME NEW y \in D \ {0}, NEW k \in ToSet(DirChain(d, y))
                   PROVE  k \in Clusters /\ e.fat[k] = d.fat[k] /\ e.cont[k] = d.cont[k] /\ e.cont[k].slots # <<>>
      BY Zenon
    <2>2. k \in Clusters /\ d.cont[k].slots # <<>>
      <3>1. y \in D /\ y # 0
        OBVIOUS
      <3>2. QED
        BY <1>1, <3>1, DirFacts
    <2>3. ~Spare(d, D, k)
      BY DEF Spare
    <2>4. e.fat[k] = d.fat[k] /\ e.cont[k] = d.cont[k]
      BY <2>2, <2>3
    <2>5. QED
      BY <2>2, <2>4
  <1>3. \A y \in D \ {0} : Chain(e, y) = Chain(d, y) /\ Ends(e, y)
    <2>1. SUFFICES ASSUME NEW y \in D \ {0} PROVE Chain(e, y) = Chain(d, y) /\ Ends(e, y)
      OBVIOUS
    <2>2. y \in Clusters \cup {0} /\ Ends(d, y) /\ DirChain(d, y) = Chain(d, y)
      <3>1. y \in D /\ y # 0
        OBVIOUS
      <3>2. y \in Clusters /\ Ends(d, y) /\ DirChain(d, y) = Chain(d, y)
        BY <1>1, <3>1, DirFacts
      <3>3. QED
        BY <3>2
    <2>3. \A k \in ToSet(Chain(d, y)) : e.fat[k] = d.fat[k]
      BY <1>2, <2>2
    <2>4. QED
      BY <1>1, <2>2, <2>3, ChainKept, Zenon
  <1>4. \A y \in D : DirChain(e, y) = DirChain(d, y)
    BY <1>3 DEF DirChain
  <1>5. \A y \in D : \A v \in CellsOf(d, y) : At(e, y, v) = At(d, y, v)
    <2>1. SUFFICES ASSUME NEW y \in D, NEW v \in CellsOf(d, y) PROVE At(e, y, v) = At(d, y, v)
      OBVIOUS
    <2> DEFINE ch == DirChain(d, y)
    <2>2. At(e, y, v) = SlotAt(e, Place(ch, v)) /\ At(d, y, v) = SlotAt(d, Place(ch, v))
      BY <1>4 DEF At
    <2>3. /\ Place(ch, v) = <<ch[v[1]], v[2]>> /\ ch[v[1]] \in ToSet(ch)
          /\ y = 0 => Place(ch, v) = <<0, v[2]>> /\ v[2] \in 1..RootSlots
          /\ y # 0 => ch[v[1]] \in Clusters /\ v[2] \in 1..SubSlots
      BY <1>1, CellFacts
    <2>4. CASE y = 0
      BY <2>2, <2>3, <2>4, <1>1, SlotAtFacts
    <2>5. CASE y # 0
      <3>1. e.cont[ch[v[1]]] = d.cont[ch[v[1]]]
        BY <1>2, <2>3, <2>5
      <3> HIDE DEF ch
      <3>2. SlotAt(e, <<ch[v[1]], v[2]>>) = SlotAt(d, <<ch[v[1]], v[2]>>)
        BY <2>3, <2>5, <3>1, <1>1, SlotAtFacts
      <3>3. QED
        BY <2>2, <2>3, <3>2
    <2>6. QED
      BY <2>4, <2>5
  <1>6. Skeleton(e, D) /\ SameDirs(d, e, D)
    <2>1. \A y \in D \ {0} : \A k \in ToSet(DirChain(d, y)) : e.cont[k].slots # <<>>
      BY <1>2
    <2>2. \A y \in D \ {0} : Ends(e, y)
      BY <1>3
    <2>3. QED
      BY <1>1, <1>4, <1>5, <2>1, <2>2, SkeletonKept, Zenon
  <1>7. \A x \in D : \A u \in ListedIn(d, x) :
           ~At(d, x, u).dir => /\ Whole(e, At(d, x, u))
                               /\ Chain(e, At(d, x, u).first) = Chain(d, At(d, x, u).first)
    <2>1. SUFFICES ASSUME NEW x \in D, NEW u \in ListedIn(d, x), ~At(d, x, u).dir
                   PROVE  /\ Whole(e, At(d, x, u))
                          /\ Chain(e, At(d, x, u).first) = Chain(d, At(d, x, u).first)
      OBVIOUS
    <2> DEFINE n == At(d, x, u)
    <2>2. n \in SubSlot /\ Whole(d, n)
      BY <2>1, TreeFacts DEF EntrySound
    <2>3. \A k \in ToSet(Chain(d, n.first)) : k \in Clusters /\ ~Spare(d, D, k)
      <3>1. n.first \in Clusters \cup {0} /\ Ends(d, n.first)
        BY <2>2 DEF SubSlot, SlotTypes, Whole
      <3>2. \A k \in ToSet(Chain(d, n.first)) : k \in Clusters
        BY <1>1, <3>1, EndsFacts, Zenon
      <3>3. QED
        BY <3>2, <2>1 DEF Spare
    <2>4. \A k \in ToSet(Chain(d, n.first)) : e.fat[k] = d.fat[k] /\ e.cont[k].piece = d.cont[k].piece
      BY <2>3
    <2> HIDE DEF n
    <2>5. Whole(e, n) /\ Chain(e, n.first) = Chain(d, n.first)
      BY <1>1, <2>2, <2>4, WholeKept, Zenon
    <2>6. QED
      BY <2>5 DEF n
  <1>8. \A x \in D : ListedIn(e, x) = ListedIn(d, x) /\ \A u \in ListedIn(d, x) : At(e, x, u) = At(d, x, u)
    BY <1>6, TreeFacts DEF SameDirs
  <1>9. ASSUME NEW x \in D, NEW u \in ListedIn(e, x) PROVE EntrySound(e, D, At(e, x, u))
    <2>1. u \in ListedIn(d, x) /\ At(e, x, u) = At(d, x, u) /\ EntrySound(d, D, At(d, x, u))
      BY <1>8, TreeFacts
    <2>2. CASE At(d, x, u).dir
      BY <2>1, <2>2 DEF EntrySound
    <2>3. CASE ~At(d, x, u).dir
      <3>1. Whole(e, At(d, x, u)) /\ Chain(e, At(d, x, u).first) = Chain(d, At(d, x, u).first)
        BY <2>1, <2>3, <1>7
      <3>2. QED
        BY <2>1, <2>3, <3>1, <1>4 DEF EntrySound
    <2>4. QED
      BY <2>2, <2>3
  <1>10. ASSUME NEW x \in D, NEW y \in D, NEW u \in ListedIn(e, x), NEW v \in ListedIn(e, y), <<x, u>> # <<y, v>>
         PROVE  /\ Apart(e, At(e, x, u), At(e, y, v))
                /\ x = y /\ AsGiven => At(e, x, u).name # At(e, y, v).name
    <2> DEFINE n == At(d, x, u)
               m == At(d, y, v)
    <2>1. u \in ListedIn(d, x) /\ At(e, x, u) = n /\ v \in ListedIn(d, y) /\ At(e, y, v) = m
      BY <1>8
    <2>2. Apart(d, n, m) /\ (x = y /\ AsGiven => n.name # m.name)
      BY <2>1, <1>10 DEF Tree
    <2>3. /\ ~n.dir => Chain(e, n.first) = Chain(d, n.first)
          /\ ~m.dir => Chain(e, m.first) = Chain(d, m.first)
      BY <2>1, <1>7
    <2> HIDE DEF n, m
    <2>4. Apart(e, n, m)
      BY <2>2, <2>3 DEF Apart
    <2>5. QED
      BY <2>1, <2>2, <2>4
  <1>11. Tree(e, D)
    BY <1>6, <1>9, <1>10 DEF Tree
  <1>12. ASSUME NEW c PROVE Spare(e, D, c) <=> Spare(d, D, c)
    BY <1>4, <1>7, <1>8 DEF Spare
  <1>13. QED
    BY <1>6, <1>11, <1>12

\* A file rewritten in place: the same clusters, with the pieces of one new
\* contents in their old order.
LEMMA RewrittenTree ==
  ASSUME NEW d, NEW D, Tree(d, D), NEW e \in ImageTypes, e.fat = d.fat, e.root = d.root,
         NEW x0 \in D, NEW u0 \in ListedIn(d, x0), ~At(d, x0, u0).dir, NEW id \in Nat,
         \A c \in Clusters :
            /\ e.cont[c].slots = d.cont[c].slots
            /\ e.cont[c].piece = IF c \in ToSet(Chain(d, At(d, x0, u0).first))
                                 THEN <<id, d.cont[c].piece[2]>> ELSE d.cont[c].piece
  PROVE  Tree(e, D)
  <1> DEFINE n0 == At(d, x0, u0)
  <1>1. /\ Skeleton(d, D) /\ d \in ImageTypes /\ d.fat \in Fat /\ e.fat \in Fat
        /\ D \subseteq Clusters \cup {0}
    BY TreeFacts, ImageFacts DEF Skeleton
  <1>2. \A c : Chain(e, c) = Chain(d, c)
    BY DEF Chain
  <1>3. \A c : Ends(e, c) <=> Ends(d, c)
    BY <1>2 DEF Ends
  <1>4. \A y \in D : DirChain(e, y) = DirChain(d, y)
    BY <1>2 DEF DirChain
  <1>5. \A y \in D : \A v \in CellsOf(d, y) : At(e, y, v) = At(d, y, v)
    <2>1. SUFFICES ASSUME NEW y \in D, NEW v \in CellsOf(d, y) PROVE At(e, y, v) = At(d, y, v)
      OBVIOUS
    <2> DEFINE ch == DirChain(d, y)
    <2>2. At(e, y, v) = SlotAt(e, Place(ch, v)) /\ At(d, y, v) = SlotAt(d, Place(ch, v))
      BY <1>4 DEF At
    <2>3. /\ Place(ch, v) = <<ch[v[1]], v[2]>>
          /\ y = 0 => Place(ch, v) = <<0, v[2]>> /\ v[2] \in 1..RootSlots
          /\ y # 0 => ch[v[1]] \in Clusters /\ v[2] \in 1..SubSlots
      BY <1>1, CellFacts
    <2>4. CASE y = 0
      BY <2>2, <2>3, <2>4, <1>1, SlotAtFacts
    <2>5. CASE y # 0
      <3>1. e.cont[ch[v[1]]].slots = d.cont[ch[v[1]]].slots
        BY <2>3, <2>5
      <3> HIDE DEF ch
      <3>2. SlotAt(e, <<ch[v[1]], v[2]>>) = SlotAt(d, <<ch[v[1]], v[2]>>)
        BY <2>3, <2>5, <3>1, <1>1, SlotAtFacts
      <3>3. QED
        BY <2>2, <2>3, <3>2
    <2>6. QED
      BY <2>4, <2>5
  <1>6. Skeleton(e, D) /\ SameDirs(d, e, D)
    <2>1. \A y \in D \ {0} : \A k \in ToSet(DirChain(d, y)) : e.cont[k].slots # <<>>
      <3>1. SUFFICES ASSUME NEW y \in D, y # 0, NEW k \in ToSet(DirChain(d, y))
                     PROVE  e.cont[k].slots # <<>>
        BY Zenon
      <3>2. k \in Clusters /\ d.cont[k].slots # <<>>
        BY <1>1, <3>1, DirFacts
      <3>3. QED
        BY <3>2
    <2>2. \A y \in D \ {0} : Ends(e, y)
      BY <1>3 DEF Tree, Skeleton
    <2>3. QED
      BY <1>1, <1>4, <1>5, <2>1, <2>2, SkeletonKept, Zenon
  <1>7. ASSUME NEW x \in D, NEW u \in ListedIn(d, x), ~At(d, x, u).dir
        PROVE  Whole(e, At(d, x, u))
    <2> DEFINE n == At(d, x, u)
               ch == Chain(d, n.first)
               K == ToSet(Chain(d, n0.first))
    <2>1. n \in SubSlot /\ Whole(d, n)
      BY <1>7, TreeFacts DEF EntrySound
    <2>2. /\ ch \in Seq(Clusters) /\ Ends(e, n.first) /\ Len(ch) = n.size /\ Chain(e, n.first) = ch
          /\ \A j \in DOMAIN ch : d.cont[ch[j]].piece = <<d.cont[ch[1]].piece[1], j>>
      <3>1. n.first \in Clusters \cup {0} /\ Ends(d, n.first)
        BY <2>1 DEF SubSlot, SlotTypes, Whole
      <3>2. ch \in Seq(Clusters)
        BY <1>1, <3>1, EndsFacts, Zenon
      <3>3. QED
        BY <2>1, <3>1, <3>2, <1>2, <1>3 DEF Whole
    <2>3. CASE <<x, u>> = <<x0, u0>>
      <3>1. \A k \in ToSet(ch) : k \in K
        BY <2>3
      <3> HIDE DEF ch, K, n
      <3>2. ASSUME NEW j \in DOMAIN ch PROVE e.cont[ch[j]].piece = <<e.cont[ch[1]].piece[1], j>>
        <4>1. 1 \in DOMAIN ch /\ ch[j] \in Clusters /\ ch[1] \in Clusters
          BY <2>2, <3>2
        <4>2. ch[j] \in K /\ ch[1] \in K
          BY <3>1, <3>2, <4>1 DEF ToSet
        <4>3. e.cont[ch[j]].piece = <<id, d.cont[ch[j]].piece[2]>> /\ e.cont[ch[1]].piece = <<id, d.cont[ch[1]].piece[2]>>
          BY <4>1, <4>2 DEF K
        <4>4. d.cont[ch[j]].piece[2] = j
          BY <2>2, <3>2
        <4>5. QED
          BY <4>3, <4>4
      <3>3. Whole(e, n)
        BY <2>2, <3>2 DEF Whole
      <3>4. QED
        BY <3>3 DEF n
    <2>4. CASE <<x, u>> # <<x0, u0>>
      <3>1. Apart(d, n, n0)
        BY <2>4 DEF Tree
      <3>2. ToSet(ch) \cap K = {}
        BY <3>1, <1>7 DEF Apart
      <3> HIDE DEF K, n
      <3>3. \A k \in ToSet(ch) : e.fat[k] = d.fat[k] /\ e.cont[k].piece = d.cont[k].piece
        <4>1. \A k \in ToSet(ch) : k \in Clusters
          <5> HIDE DEF ch
          <5>1. QED
            BY <2>2 DEF ToSet
        <4>2. QED
          BY <3>2, <4>1 DEF K
      <3>4. Whole(e, n)
        BY <1>1, <2>1, <3>3, WholeKept, Zenon
      <3>5. QED
        BY <3>4 DEF n
    <2>5. QED
      BY <2>3, <2>4
  <1>8. \A x \in D : ListedIn(e, x) = ListedIn(d, x) /\ \A u \in ListedIn(d, x) : At(e, x, u) = At(d, x, u)
    BY <1>6, TreeFacts DEF SameDirs
  <1>9. ASSUME NEW x \in D, NEW u \in ListedIn(e, x) PROVE EntrySound(e, D, At(e, x, u))
    <2>1. u \in ListedIn(d, x) /\ At(e, x, u) = At(d, x, u) /\ EntrySound(d, D, At(d, x, u))
      BY <1>8, TreeFacts
    <2>2. CASE At(d, x, u).dir
      BY <2>1, <2>2 DEF EntrySound
    <2>3. CASE ~At(d, x, u).dir
      <3>1. Whole(e, At(d, x, u))
        BY <2>1, <2>3, <1>7
      <3>2. QED
        BY <2>1, <2>3, <3>1, <1>2, <1>4 DEF EntrySound
    <2>4. QED
      BY <2>2, <2>3
  <1>10. ASSUME NEW x \in D, NEW y \in D, NEW u \in ListedIn(e, x), NEW v \in ListedIn(e, y), <<x, u>> # <<y, v>>
         PROVE  /\ Apart(e, At(e, x, u), At(e, y, v))
                /\ x = y /\ AsGiven => At(e, x, u).name # At(e, y, v).name
    <2>1. u \in ListedIn(d, x) /\ At(e, x, u) = At(d, x, u) /\ v \in ListedIn(d, y) /\ At(e, y, v) = At(d, y, v)
      BY <1>8
    <2>2. Apart(d, At(d, x, u), At(d, y, v)) /\ (x = y /\ AsGiven => At(d, x, u).name # At(d, y, v).name)
      BY <2>1, <1>10 DEF Tree
    <2>3. Apart(e, At(d, x, u), At(d, y, v))
      BY <2>2, <1>2 DEF Apart
    <2>4. QED
      BY <2>1, <2>2, <2>3
  <1>11. QED
    BY <1>6, <1>9, <1>10 DEF Tree

\* e is d with s in slot u of the directory x.
SlotChange(d, e, D, x, u, s) ==
  /\ e \in ImageTypes /\ e.fat = d.fat /\ Skeleton(e, D)
  /\ \A c \in Clusters : e.cont[c].piece = d.cont[c].piece
  /\ \A y \in D : /\ DirChain(e, y) = DirChain(d, y) /\ CellsOf(e, y) = CellsOf(d, y)
                  /\ \A v \in CellsOf(d, y) : At(e, y, v) = IF y = x /\ v = u THEN s ELSE At(d, y, v)
                  /\ ListedIn(e, y) = IF y # x THEN ListedIn(d, y)
                                      ELSE IF s.k = "ent" THEN ListedIn(d, y) \cup {u}
                                      ELSE ListedIn(d, y) \ {u}

LEMMA OneSlot ==
  ASSUME NEW d, NEW D, Skeleton(d, D), NEW x \in D, NEW u \in CellsOf(d, x), NEW s \in RootSlot,
         s.k # "00", \A v \in CellsOf(d, x) : Before(v, u) => At(d, x, v).k # "00", NEW o
  PROVE  SlotChange(d, Apply(d, Write("slot", Place(DirChain(d, x), u), s, o)), D, x, u, s)
  <1> DEFINE ch == DirChain(d, x)
             c == ch[u[1]]
             i == u[2]
             e == Apply(d, Write("slot", Place(ch, u), s, o))
  <1>1. d \in ImageTypes /\ s \in SubSlot /\ 0 \in D /\ D \subseteq {0} \cup Clusters
    BY SlotFacts DEF Skeleton
  <1>2. /\ u \in Nat \X Nat /\ u[1] \in 1..Len(ch) /\ u = <<u[1], i>> /\ Place(ch, u) = <<c, i>>
        /\ c \in ToSet(ch)
        /\ x = 0 => Place(ch, u) = <<0, i>> /\ i \in 1..RootSlots
        /\ x # 0 => c \in Clusters /\ i \in 1..SubSlots
    BY CellFacts
  <1> HIDE DEF c
  <1>3. /\ e \in ImageTypes /\ e.fat = d.fat
        /\ x = 0 => e.root = [d.root EXCEPT ![i] = s] /\ e.cont = d.cont
        /\ x # 0 => /\ e.root = d.root /\ \A k \in Clusters : k # c => e.cont[k] = d.cont[k]
                    /\ e.cont[c].piece = d.cont[c].piece
                    /\ e.cont[c].slots = [d.cont[c].slots EXCEPT ![i] = s]
                    /\ e.cont[c].slots = <<>> <=> d.cont[c].slots = <<>>
    <2>1. CASE x = 0
      <3>1. e = Apply(d, Write("slot", <<0, i>>, s, o)) /\ i \in 1..RootSlots
        BY <1>2, <2>1
      <3> HIDE DEF e
      <3>2. e \in ImageTypes /\ e.root = [d.root EXCEPT ![i] = s] /\ e.cont = d.cont /\ e.fat = d.fat
        BY <1>1, <3>1, ApplyRoot
      <3>3. QED
        BY <2>1, <3>2
    <2>2. CASE x # 0
      <3>1. e = Apply(d, Write("slot", <<c, i>>, s, o)) /\ i \in 1..SubSlots /\ c \in Clusters
        BY <1>2, <2>2
      <3> HIDE DEF e
      <3>2. QED
        BY <1>1, <2>2, <3>1, ApplySub
    <2>3. QED
      BY <2>1, <2>2
  <1> HIDE DEF e
  <1>4. /\ \A k \in Clusters : e.cont[k].piece = d.cont[k].piece
        /\ \A k \in Clusters : e.cont[k].slots = <<>> <=> d.cont[k].slots = <<>>
    BY <1>3
  <1>5. \A k : Chain(e, k) = Chain(d, k) /\ (Ends(e, k) <=> Ends(d, k))
    BY <1>3 DEF Chain, Ends
  <1>6. \A y : DirChain(e, y) = DirChain(d, y) /\ CellsOf(e, y) = CellsOf(d, y)
    BY <1>5 DEF DirChain, CellsOf
  <1>7. ASSUME NEW y \in D, NEW v \in CellsOf(d, y)
        PROVE  At(e, y, v) = IF y = x /\ v = u THEN s ELSE At(d, y, v)
    <2> DEFINE h == DirChain(d, y)
               b == h[v[1]]
               j == v[2]
    <2>1. /\ v[1] \in 1..Len(h) /\ v = <<v[1], j>> /\ Place(h, v) = <<b, j>> /\ b \in ToSet(h)
          /\ y = 0 => Place(h, v) = <<0, j>> /\ j \in 1..RootSlots
          /\ y # 0 => b \in Clusters /\ j \in 1..SubSlots /\ At(d, y, v) = d.cont[b].slots[j]
      BY CellFacts
    <2>2. At(e, y, v) = SlotAt(e, <<b, j>>) /\ At(d, y, v) = SlotAt(d, <<b, j>>)
      BY <1>6, <2>1 DEF At
    <2>3. y # x => b # c
      <3>1. y # x => ToSet(h) \cap ToSet(ch) = {}
        BY DEF Skeleton
      <3> HIDE DEF b, h
      <3>2. QED
        BY <3>1, <2>1, <1>2
    <2>4. y = x /\ b = c => v[1] = u[1]
      <3>1. SUFFICES ASSUME y = x, b = c PROVE v[1] = u[1]
        OBVIOUS
      <3>2. h = ch /\ h[v[1]] = h[u[1]] /\ u[1] \in 1..Len(h)
        BY <3>1, <1>2 DEF c
      <3>3. Distinct(h) /\ h \in Seq({0} \cup Clusters)
        BY DirFacts
      <3> HIDE DEF h
      <3>4. DOMAIN h = 1..Len(h)
        BY <3>3
      <3>5. QED
        BY <3>2, <3>3, <3>4, <2>1 DEF Distinct
    <2>5. (y = x /\ v = u) <=> (b = c /\ j = i)
      <3>1. ASSUME y = x, v = u PROVE b = c /\ j = i
        BY <3>1 DEF c
      <3> HIDE DEF b, j, i
      <3>2. ASSUME b = c, j = i PROVE y = x /\ v = u
        BY <3>2, <2>1, <2>3, <2>4, <1>2
      <3>3. QED
        BY <3>1, <3>2
    <2> HIDE DEF b, j, h, i
    <2>6. y = 0 => b = 0
      BY <2>1
    <2>7. x = 0 => c = 0
      BY <1>2
    <2>8. CASE y = 0
      <3>1. At(e, y, v) = e.root[j] /\ At(d, y, v) = d.root[j] /\ j \in 1..RootSlots
        BY <2>1, <2>2, <2>6, <2>8, <1>1, <1>3, SlotAtFacts
      <3>2. CASE x = 0
        <4>1. e.root[j] = IF j = i THEN s ELSE d.root[j]
          BY <1>1, <1>3, <3>1, <3>2, ImageFacts
        <4>2. QED
          BY <4>1, <3>1, <3>2, <2>5, <2>6, <2>7, <2>8
      <3>3. CASE x # 0
        BY <3>1, <3>3, <1>3, <2>8
      <3>4. QED
        BY <3>2, <3>3
    <2>9. CASE y # 0
      <3>1. b \in Clusters /\ j \in 1..SubSlots
        BY <2>1, <2>9
      <3>2. CASE b = c /\ x # 0
        <4>1. d.cont[b].slots # <<>>
          <5>1. \A k \in ToSet(DirChain(d, y)) : d.cont[k].slots # <<>>
            BY <2>9, DirFacts
          <5>2. QED
            BY <5>1, <2>1 DEF h
        <4>2. d.cont[b].slots \in [1..SubSlots -> SubSlot]
          BY <4>1, <3>1, <1>1, ImageFacts
        <4>3. e.cont[b].slots[j] = IF j = i THEN s ELSE d.cont[b].slots[j]
          BY <1>3, <3>1, <3>2, <4>2
        <4>4. At(e, y, v) = e.cont[b].slots[j] /\ At(d, y, v) = d.cont[b].slots[j]
          BY <2>2, <3>1, <3>2, <4>1, <1>1, <1>3, <1>4, SlotAtFacts
        <4>5. QED
          BY <3>2, <4>3, <4>4, <2>5
      <3>3. CASE ~(b = c /\ x # 0)
        <4>1. e.cont[b] = d.cont[b]
          BY <1>3, <3>1, <3>3
        <4>2. At(e, y, v) = At(d, y, v)
          BY <2>2, <3>1, <4>1, <1>1, <1>3, SlotAtFacts
        <4>3. ~(b = c /\ j = i)
          BY <3>1, <3>3, <2>7, ClusterFacts
        <4>4. QED
          BY <4>2, <4>3, <2>5
      <3>4. QED
        BY <3>2, <3>3
    <2>10. QED
      BY <2>8, <2>9
  <1>8. Skeleton(e, D)
    <2>1. \A y \in D \ {0} : Ends(e, y) /\ \A k \in ToSet(Chain(e, y)) : e.cont[k].slots # <<>>
      <3>1. SUFFICES ASSUME NEW y \in D \ {0}
                     PROVE  Ends(e, y) /\ \A k \in ToSet(Chain(e, y)) : e.cont[k].slots # <<>>
        OBVIOUS
      <3>2. y \in D /\ y # 0
        OBVIOUS
      <3>3. Ends(d, y) /\ \A k \in ToSet(Chain(d, y)) : k \in Clusters /\ d.cont[k].slots # <<>>
        BY <3>2, DirFacts
      <3>4. QED
        BY <3>3, <1>4, <1>5
    <2>2. \A y, z \in D : y # z => ToSet(DirChain(e, y)) \cap ToSet(DirChain(e, z)) = {}
      BY <1>6 DEF Skeleton
    <2>3. ASSUME NEW y \in D, NEW v \in CellsOf(d, y), NEW w \in CellsOf(d, y),
                 At(e, y, v).k = "00", Before(v, w)
          PROVE  At(e, y, w).k = "00"
      <3>1. At(e, y, v) = At(d, y, v) /\ At(d, y, v).k = "00"
        BY <2>3, <1>7
      <3>2. At(d, y, w).k = "00"
        BY <2>3, <3>1 DEF Skeleton
      <3>3. ~(y = x /\ w = u)
        BY <2>3, <3>1
      <3>4. QED
        BY <3>2, <3>3, <1>7
    <2>4. QED
      BY <1>1, <1>3, <1>6, <2>1, <2>2, <2>3 DEF Skeleton
  <1>9. \A y \in D : ListedIn(e, y) = IF y # x THEN ListedIn(d, y)
                                      ELSE IF s.k = "ent" THEN ListedIn(d, y) \cup {u}
                                      ELSE ListedIn(d, y) \ {u}
    <2>1. SUFFICES ASSUME NEW y \in D
                   PROVE  ListedIn(e, y) = IF y # x THEN ListedIn(d, y)
                                      ELSE IF s.k = "ent" THEN ListedIn(d, y) \cup {u}
                                      ELSE ListedIn(d, y) \ {u}
      OBVIOUS
    <2>2. /\ ListedIn(e, y) = {v \in CellsOf(d, y) : At(e, y, v).k = "ent"}
          /\ ListedIn(d, y) = {v \in CellsOf(d, y) : At(d, y, v).k = "ent"}
      BY <1>6, <1>8, ListedIs
    <2>3. \A v \in CellsOf(d, y) : At(e, y, v) = IF y = x /\ v = u THEN s ELSE At(d, y, v)
      BY <1>7
    <2>4. QED
      BY <2>2, <2>3
  <1>10. QED
    BY <1>3, <1>4, <1>6, <1>7, <1>8, <1>9 DEF SlotChange, e

-----------------------------------------------------------------------------
(***************************************************************************)
(* 7. The operations of the tree.                                          *)
(***************************************************************************)
\* e has the FAT, the data and the directories of d: only slots differ.
SlotsOnly(d, e, D) ==
  /\ d \in ImageTypes /\ e \in ImageTypes /\ e.fat = d.fat
  /\ \A c \in Clusters : e.cont[c].piece = d.cont[c].piece
  /\ \A y \in D : DirChain(e, y) = DirChain(d, y)

LEMMA ChangeKeeps ==
  ASSUME NEW d, NEW e, NEW D, SlotsOnly(d, e, D)
  PROVE  /\ \A n \in SubSlot : EntrySound(d, D, n) => EntrySound(e, D, n)
         /\ \A n, m : Apart(d, n, m) => Apart(e, n, m)
         /\ \A c : Chain(e, c) = Chain(d, c)
  <1>1. \A c : Chain(e, c) = Chain(d, c)
    BY DEF Chain, SlotsOnly
  <1>2. \A n, m : Apart(d, n, m) => Apart(e, n, m)
    BY <1>1 DEF Apart
  <1>3. ASSUME NEW n \in SubSlot, EntrySound(d, D, n) PROVE EntrySound(e, D, n)
    <2>1. CASE n.dir
      BY <2>1, <1>3 DEF EntrySound
    <2>2. CASE ~n.dir
      <3>1. Whole(d, n)
        BY <2>2, <1>3 DEF EntrySound
      <3>2. \A k \in ToSet(Chain(d, n.first)) : k \in Clusters
        <4>1. n.first \in Clusters \cup {0} /\ Ends(d, n.first) /\ d.fat \in Fat
          BY <3>1, ImageFacts DEF SubSlot, SlotTypes, Whole, SlotsOnly
        <4>2. QED
          BY <4>1, EndsFacts, Zenon
      <3>3. \A k \in ToSet(Chain(d, n.first)) : e.fat[k] = d.fat[k] /\ e.cont[k].piece = d.cont[k].piece
        BY <3>2 DEF SlotsOnly
      <3>4. Whole(e, n)
        BY <3>1, <3>3, WholeKept DEF SlotsOnly
      <3>5. QED
        BY <2>2, <3>4, <1>1, <1>3 DEF EntrySound, SlotsOnly
    <2>3. QED
      BY <2>1, <2>2
  <1>4. QED
    BY <1>1, <1>2, <1>3

SameFile(n, m) == n.dir = m.dir /\ n.first = m.first /\ n.size = m.size

LEMMA SameFileSound ==
  ASSUME NEW d, NEW D, NEW n, NEW m, SameFile(n, m)
  PROVE  /\ EntrySound(d, D, m) => EntrySound(d, D, n)
         /\ \A l : Apart(d, m, l) => Apart(d, n, l)
         /\ \A l : Apart(d, l, m) => Apart(d, l, n)
  BY DEF SameFile, EntrySound, Whole, Apart

\* src tells where an entry of e was on d; no name is listed twice.
Traced(d, e, D, src) ==
  /\ \A y \in D : \A v \in ListedIn(e, y) : \E z \in D : \E w \in ListedIn(d, z) :
        src[<<y, v>>] = <<z, w>> /\ SameFile(At(e, y, v), At(d, z, w))
  /\ \A y1, y2 \in D : \A v1 \in ListedIn(e, y1), v2 \in ListedIn(e, y2) :
        src[<<y1, v1>>] = src[<<y2, v2>>] => y1 = y2 /\ v1 = v2
NamedOnce(e, D) ==
  \A y \in D : \A v1, v2 \in ListedIn(e, y) :
     v1 # v2 /\ AsGiven => At(e, y, v1).name # At(e, y, v2).name

\* Entries moved, renamed or gone.
LEMMA Relisted ==
  ASSUME NEW d, NEW D, Tree(d, D), NEW e, SlotsOnly(d, e, D), Skeleton(e, D), NEW src,
         Traced(d, e, D, src), NamedOnce(e, D)
  PROVE  Tree(e, D)
  <1>1. ASSUME NEW y \in D, NEW v \in ListedIn(e, y) PROVE EntrySound(e, D, At(e, y, v))
    <2>0. PICK z \in D : \E w \in ListedIn(d, z) : SameFile(At(e, y, v), At(d, z, w))
      BY <1>1 DEF Traced
    <2>1. PICK w \in ListedIn(d, z) : SameFile(At(e, y, v), At(d, z, w))
      BY <2>0
    <2>2. At(e, y, v) \in SubSlot
      BY ListedIs, CellFacts
    <2>3. EntrySound(d, D, At(d, z, w))
      BY TreeFacts
    <2>4. EntrySound(d, D, At(e, y, v))
      BY <2>1, <2>3, SameFileSound
    <2>5. QED
      BY <2>2, <2>4, ChangeKeeps
  <1>2. ASSUME NEW y1 \in D, NEW y2 \in D, NEW v1 \in ListedIn(e, y1), NEW v2 \in ListedIn(e, y2),
               <<y1, v1>> # <<y2, v2>>
        PROVE  /\ Apart(e, At(e, y1, v1), At(e, y2, v2))
               /\ y1 = y2 /\ AsGiven => At(e, y1, v1).name # At(e, y2, v2).name
    <2>10. PICK z1 \in D : \E w1 \in ListedIn(d, z1) :
              src[<<y1, v1>>] = <<z1, w1>> /\ SameFile(At(e, y1, v1), At(d, z1, w1))
      BY <1>2 DEF Traced
    <2>1. PICK w1 \in ListedIn(d, z1) :
             src[<<y1, v1>>] = <<z1, w1>> /\ SameFile(At(e, y1, v1), At(d, z1, w1))
      BY <2>10
    <2>20. PICK z2 \in D : \E w2 \in ListedIn(d, z2) :
              src[<<y2, v2>>] = <<z2, w2>> /\ SameFile(At(e, y2, v2), At(d, z2, w2))
      BY <1>2 DEF Traced
    <2>2. PICK w2 \in ListedIn(d, z2) :
             src[<<y2, v2>>] = <<z2, w2>> /\ SameFile(At(e, y2, v2), At(d, z2, w2))
      BY <2>20
    <2>3. <<z1, w1>> # <<z2, w2>>
      <3>1. src[<<y1, v1>>] # src[<<y2, v2>>]
        <4>1. src[<<y1, v1>>] = src[<<y2, v2>>] => y1 = y2 /\ v1 = v2
          BY DEF Traced
        <4>2. QED
          BY ONLY <4>1, <1>2
      <3>2. QED
        BY ONLY <3>1, <2>1, <2>2, Zenon
    <2>4. Apart(d, At(d, z1, w1), At(d, z2, w2))
      BY <2>3 DEF Tree
    <2>5. Apart(d, At(e, y1, v1), At(d, z2, w2))
      BY <2>1, <2>4, SameFileSound
    <2>6. Apart(d, At(e, y1, v1), At(e, y2, v2))
      BY <2>2, <2>5, SameFileSound
    <2>7. y1 = y2 => v1 # v2
      BY <1>2
    <2>8. QED
      BY <2>6, <2>7, ChangeKeeps DEF NamedOnce
  <1>3. QED
    BY <1>1, <1>2 DEF Tree

\* An entry put into an unused slot.
LEMMA Inserted ==
  ASSUME NEW d, NEW D, Tree(d, D), NEW x \in D, NEW u \in CellsOf(d, x), At(d, x, u).k # "ent",
         NEW s \in RootSlot, s.k = "ent", NEW e, SlotChange(d, e, D, x, u, s),
         EntrySound(d, D, s), \A y \in D : \A v \in ListedIn(d, y) : Apart(d, s, At(d, y, v)),
         AsGiven => \A v \in ListedIn(d, x) : At(d, x, v).name # s.name
  PROVE  Tree(e, D)
  <1>1. SlotsOnly(d, e, D) /\ Skeleton(d, D) /\ Skeleton(e, D)
    BY TreeFacts DEF SlotChange, SlotsOnly
  <1>2. \A y \in D : ListedIn(e, y) = IF y # x THEN ListedIn(d, y) ELSE ListedIn(d, y) \cup {u}
    BY DEF SlotChange
  <1>3. \A y \in D : \A v \in ListedIn(e, y) :
           /\ <<y, v>> = <<x, u>> => At(e, y, v) = s
           /\ <<y, v>> # <<x, u>> => v \in ListedIn(d, y) /\ At(e, y, v) = At(d, y, v)
    <2>1. SUFFICES ASSUME NEW y \in D, NEW v \in ListedIn(e, y)
                   PROVE  /\ <<y, v>> = <<x, u>> => At(e, y, v) = s
                          /\ <<y, v>> # <<x, u>> => v \in ListedIn(d, y) /\ At(e, y, v) = At(d, y, v)
      OBVIOUS
    <2>2. v \in CellsOf(d, y)
      BY <1>1, ListedIs DEF SlotChange
    <2>3. At(e, y, v) = IF y = x /\ v = u THEN s ELSE At(d, y, v)
      BY <2>2 DEF SlotChange
    <2>4. QED
      BY <2>3, <1>2
  <1>4. s \in SubSlot
    BY SlotFacts
  <1>5. ASSUME NEW y \in D, NEW v \in ListedIn(e, y) PROVE EntrySound(e, D, At(e, y, v))
    <2>1. CASE <<y, v>> = <<x, u>>
      BY <2>1, <1>1, <1>3, <1>4, ChangeKeeps
    <2>2. CASE <<y, v>> # <<x, u>>
      BY <2>2, <1>1, <1>3, TreeFacts, ChangeKeeps
    <2>3. QED
      BY <2>1, <2>2
  <1>6. \A n, m : Apart(d, n, m) => Apart(e, n, m) /\ Apart(e, m, n)
    <2>1. \A n, m : Apart(d, n, m) => Apart(d, m, n)
      BY DEF Apart
    <2>2. QED
      BY <2>1, <1>1, ChangeKeeps
  <1>7. ASSUME NEW y1 \in D, NEW y2 \in D, NEW v1 \in ListedIn(e, y1), NEW v2 \in ListedIn(e, y2),
               <<y1, v1>> # <<y2, v2>>
        PROVE  /\ Apart(e, At(e, y1, v1), At(e, y2, v2))
               /\ y1 = y2 /\ AsGiven => At(e, y1, v1).name # At(e, y2, v2).name
    <2>1. CASE <<y1, v1>> = <<x, u>>
      <3>1. <<y2, v2>> # <<x, u>> /\ y1 = x
        BY <2>1, <1>7
      <3>2. v2 \in ListedIn(d, y2) /\ At(e, y2, v2) = At(d, y2, v2) /\ At(e, y1, v1) = s
        BY <3>1, <2>1, <1>3
      <3>3. QED
        BY <3>1, <3>2, <1>6
    <2>2. CASE <<y2, v2>> = <<x, u>>
      <3>1. <<y1, v1>> # <<x, u>> /\ y2 = x
        BY <2>2, <1>7
      <3>2. v1 \in ListedIn(d, y1) /\ At(e, y1, v1) = At(d, y1, v1) /\ At(e, y2, v2) = s
        BY <3>1, <2>2, <1>3
      <3>3. QED
        BY <3>1, <3>2, <1>6
    <2>3. CASE <<y1, v1>> # <<x, u>> /\ <<y2, v2>> # <<x, u>>
      <3>1. /\ v1 \in ListedIn(d, y1) /\ At(e, y1, v1) = At(d, y1, v1)
            /\ v2 \in ListedIn(d, y2) /\ At(e, y2, v2) = At(d, y2, v2)
        BY <2>3, <1>3
      <3>2. /\ Apart(d, At(d, y1, v1), At(d, y2, v2))
            /\ y1 = y2 /\ AsGiven => At(d, y1, v1).name # At(d, y2, v2).name
        BY <3>1, <1>7 DEF Tree
      <3>3. QED
        BY <3>1, <3>2, <1>6
    <2>4. QED
      BY <2>1, <2>2, <2>3
  <1>8. QED
    BY <1>1, <1>5, <1>7 DEF Tree

\* An entry deleted, or the slot of one given another name.
LEMMA Erased ==
  ASSUME NEW d, NEW D, Tree(d, D), NEW x \in D, NEW u \in ListedIn(d, x), NEW e,
         SlotChange(d, e, D, x, u, Deleted)
  PROVE  /\ Tree(e, D)
         /\ \A y \in D : ListedIn(e, y) = IF y = x THEN ListedIn(d, y) \ {u} ELSE ListedIn(d, y)
         /\ \A y \in D : \A v \in ListedIn(e, y) : v \in ListedIn(d, y) /\ At(e, y, v) = At(d, y, v)
  <1>1. SlotsOnly(d, e, D) /\ Skeleton(d, D) /\ Skeleton(e, D)
    BY TreeFacts DEF SlotChange, SlotsOnly
  <1>2. \A y \in D : ListedIn(e, y) = IF y = x THEN ListedIn(d, y) \ {u} ELSE ListedIn(d, y)
    BY DEF SlotChange, Deleted, Slot
  <1>3. ASSUME NEW y \in D, NEW v \in ListedIn(e, y)
        PROVE  v \in ListedIn(d, y) /\ At(e, y, v) = At(d, y, v) /\ v \in Nat \X Nat
    <2>1. v \in ListedIn(d, y) /\ ~(y = x /\ v = u)
      BY <1>2
    <2>2. v \in CellsOf(d, y) /\ v \in Nat \X Nat
      BY <2>1, <1>1, TreeFacts, CellFacts
    <2>3. QED
      BY <2>1, <2>2 DEF SlotChange
  <1> DEFINE src == [p \in D \X (Nat \X Nat) |-> p]
  <1>4. \A y \in D : \A v \in ListedIn(e, y) : src[<<y, v>>] = <<y, v>>
    BY <1>3
  <1> HIDE DEF src
  <1>5. \A y \in D : \A v \in ListedIn(e, y) : \E z \in D : \E w \in ListedIn(d, z) :
            src[<<y, v>>] = <<z, w>> /\ SameFile(At(e, y, v), At(d, z, w))
    BY <1>3, <1>4 DEF SameFile
  <1>6. \A y1, y2 \in D : \A v1 \in ListedIn(e, y1), v2 \in ListedIn(e, y2) :
            src[<<y1, v1>>] = src[<<y2, v2>>] => y1 = y2 /\ v1 = v2
    BY <1>4
  <1>7. \A y \in D : \A v1, v2 \in ListedIn(e, y) :
            v1 # v2 /\ AsGiven => At(e, y, v1).name # At(e, y, v2).name
    <2>1. SUFFICES ASSUME NEW y \in D, NEW v1 \in ListedIn(e, y), NEW v2 \in ListedIn(e, y), v1 # v2, AsGiven
                   PROVE  At(e, y, v1).name # At(e, y, v2).name
      OBVIOUS
    <2>2. /\ v1 \in ListedIn(d, y) /\ At(e, y, v1) = At(d, y, v1)
          /\ v2 \in ListedIn(d, y) /\ At(e, y, v2) = At(d, y, v2) /\ <<y, v1>> # <<y, v2>>
      BY <2>1, <1>3
    <2>3. At(d, y, v1).name # At(d, y, v2).name
      BY <2>1, <2>2 DEF Tree
    <2>4. QED
      BY <2>2, <2>3
  <1>8. Tree(e, D)
    <2>1. Traced(d, e, D, src) /\ NamedOnce(e, D)
      BY <1>5, <1>6, <1>7, Zenon DEF Traced, NamedOnce
    <2>2. QED
      BY <1>1, <2>1, Relisted, Zenon
  <1>9. QED
    BY <1>2, <1>3, <1>8

LEMMA Renamed ==
  ASSUME NEW d, NEW D, Tree(d, D), NEW x \in D, NEW u \in ListedIn(d, x), NEW n,
         NEW s, s = [At(d, x, u) EXCEPT !.name = n], NEW e, SlotChange(d, e, D, x, u, s),
         AsGiven => \A v \in ListedIn(d, x) : v # u => At(d, x, v).name # n
  PROVE  Tree(e, D)
  <1>1. SlotsOnly(d, e, D) /\ Skeleton(d, D) /\ Skeleton(e, D)
    BY TreeFacts DEF SlotChange, SlotsOnly
  <1>0. /\ At(d, x, u) \in SubSlot /\ At(d, x, u).k = "ent"
    BY TreeFacts
  <1>2. /\ s.k = "ent" /\ s.name = n /\ SameFile(s, At(d, x, u))
    BY <1>0 DEF SameFile, SubSlot, SlotTypes
  <1>3. \A y \in D : ListedIn(e, y) = ListedIn(d, y)
    BY <1>2 DEF SlotChange
  <1>4. ASSUME NEW y \in D, NEW v \in ListedIn(d, y)
        PROVE  At(e, y, v) = (IF y = x /\ v = u THEN s ELSE At(d, y, v)) /\ v \in Nat \X Nat
    <2>1. v \in CellsOf(d, y) /\ v \in Nat \X Nat
      BY <1>1, TreeFacts, CellFacts
    <2>2. QED
      BY <2>1 DEF SlotChange
  <1> DEFINE src == [p \in D \X (Nat \X Nat) |-> p]
  <1>5. \A y \in D : \A v \in ListedIn(e, y) : src[<<y, v>>] = <<y, v>>
    BY <1>3, <1>4
  <1> HIDE DEF src
  <1>6. \A y \in D : \A v \in ListedIn(e, y) : \E z \in D : \E w \in ListedIn(d, z) :
            src[<<y, v>>] = <<z, w>> /\ SameFile(At(e, y, v), At(d, z, w))
    <2>1. SUFFICES ASSUME NEW y \in D, NEW v \in ListedIn(e, y) PROVE SameFile(At(e, y, v), At(d, y, v))
      BY <1>3, <1>5
    <2>2. QED
      BY <1>2, <1>3, <1>4 DEF SameFile
  <1>7. \A y1, y2 \in D : \A v1 \in ListedIn(e, y1), v2 \in ListedIn(e, y2) :
            src[<<y1, v1>>] = src[<<y2, v2>>] => y1 = y2 /\ v1 = v2
    BY <1>5
  <1>8. \A y \in D : \A v1, v2 \in ListedIn(e, y) :
            v1 # v2 /\ AsGiven => At(e, y, v1).name # At(e, y, v2).name
    <2>1. SUFFICES ASSUME NEW y \in D, NEW v1 \in ListedIn(d, y), NEW v2 \in ListedIn(d, y), v1 # v2, AsGiven
                   PROVE  At(e, y, v1).name # At(e, y, v2).name
      BY <1>3
    <2>2. At(d, y, v1).name # At(d, y, v2).name
      <3>1. <<y, v1>> # <<y, v2>>
        BY <2>1
      <3>2. QED
        BY <2>1, <3>1 DEF Tree
    <2>3. y = x => /\ (v1 # u => At(d, y, v1).name # n) /\ (v2 # u => At(d, y, v2).name # n)
      BY <2>1
    <2>4. QED
      BY <2>1, <2>2, <2>3, <1>2, <1>4
  <1>9. Traced(d, e, D, src) /\ NamedOnce(e, D)
    BY <1>6, <1>7, <1>8, Zenon DEF Traced, NamedOnce
  <1>10. QED
    BY <1>1, <1>9, Relisted, Zenon

\* An entry copied to another directory, then freed where it was.
LEMMA Moved ==
  ASSUME NEW d, NEW D, Tree(d, D), NEW x \in D, NEW u \in ListedIn(d, x),
         NEW y \in D, y # x, NEW w \in CellsOf(d, y), At(d, y, w).k # "ent",
         NEW e, SlotChange(d, e, D, y, w, At(d, x, u)), NEW f, SlotChange(e, f, D, x, u, Deleted),
         AsGiven => \A v \in ListedIn(d, y) : At(d, y, v).name # At(d, x, u).name
  PROVE  Tree(f, D)
  <1> DEFINE s == At(d, x, u)
  <1>1. SlotsOnly(d, f, D) /\ Skeleton(d, D) /\ Skeleton(f, D)
    BY TreeFacts DEF SlotChange, SlotsOnly
  <1>0. s \in SubSlot /\ s.k = "ent" /\ u \in CellsOf(d, x) /\ Deleted.k = "E5"
    BY TreeFacts DEF Deleted, Slot
  <1>2. \A z \in D : ListedIn(f, z) = IF z = x THEN ListedIn(d, z) \ {u}
                                      ELSE IF z = y THEN ListedIn(d, z) \cup {w} ELSE ListedIn(d, z)
    BY <1>0 DEF SlotChange
  <1>3. ASSUME NEW z \in D, NEW v \in ListedIn(f, z)
        PROVE  /\ v \in Nat \X Nat
               /\ z = y /\ v = w => At(f, z, v) = s
               /\ ~(z = y /\ v = w) => /\ v \in ListedIn(d, z) /\ At(f, z, v) = At(d, z, v)
                                       /\ <<z, v>> # <<x, u>>
    <2>1. v \in CellsOf(f, z) /\ CellsOf(f, z) = CellsOf(d, z) /\ CellsOf(e, z) = CellsOf(d, z)
      BY <1>1, ListedIs DEF SlotChange
    <2>2. /\ At(e, z, v) = IF z = y /\ v = w THEN s ELSE At(d, z, v)
          /\ At(f, z, v) = IF z = x /\ v = u THEN Deleted ELSE At(e, z, v)
      BY <2>1 DEF SlotChange
    <2>3. v \in Nat \X Nat
      BY <2>1, <1>1, CellFacts
    <2>4. ~(z = x /\ v = u)
      BY <1>2
    <2>5. ~(z = y /\ v = w) => v \in ListedIn(d, z)
      BY <1>2
    <2> HIDE DEF s
    <2>6. QED
      BY <2>2, <2>3, <2>4, <2>5
  <1> DEFINE src == [p \in D \X (Nat \X Nat) |-> IF p = <<y, w>> THEN <<x, u>> ELSE p]
  <1>4. \A z \in D : \A v \in ListedIn(f, z) : src[<<z, v>>] = IF z = y /\ v = w THEN <<x, u>> ELSE <<z, v>>
    BY <1>3
  <1> HIDE DEF src, s
  <1>5. \A z \in D : \A v \in ListedIn(f, z) : \E z2 \in D : \E v2 \in ListedIn(d, z2) :
            src[<<z, v>>] = <<z2, v2>> /\ SameFile(At(f, z, v), At(d, z2, v2))
    <2>1. SUFFICES ASSUME NEW z \in D, NEW v \in ListedIn(f, z)
                   PROVE  \E z2 \in D : \E v2 \in ListedIn(d, z2) :
                             src[<<z, v>>] = <<z2, v2>> /\ SameFile(At(f, z, v), At(d, z2, v2))
      OBVIOUS
    <2>2. CASE z = y /\ v = w
      <3>1. src[<<z, v>>] = <<x, u>> /\ At(f, z, v) = At(d, x, u)
        BY <2>2, <1>3, <1>4 DEF s
      <3>2. QED
        BY <3>1 DEF SameFile
    <2>3. CASE ~(z = y /\ v = w)
      BY <2>3, <1>3, <1>4 DEF SameFile
    <2>4. QED
      BY <2>2, <2>3
  <1>6. \A y1, y2 \in D : \A v1 \in ListedIn(f, y1), v2 \in ListedIn(f, y2) :
            src[<<y1, v1>>] = src[<<y2, v2>>] => y1 = y2 /\ v1 = v2
    BY <1>3, <1>4
  <1>7. \A z \in D : \A v1, v2 \in ListedIn(f, z) :
            v1 # v2 /\ AsGiven => At(f, z, v1).name # At(f, z, v2).name
    <2>1. SUFFICES ASSUME NEW z \in D, NEW v1 \in ListedIn(f, z), NEW v2 \in ListedIn(f, z), v1 # v2, AsGiven
                   PROVE  At(f, z, v1).name # At(f, z, v2).name
      OBVIOUS
    <2>2. CASE z = y /\ v1 = w
      <3>1. v2 \in ListedIn(d, y) /\ At(f, z, v2) = At(d, y, v2) /\ At(f, z, v1) = s
        BY <2>1, <2>2, <1>3
      <3>2. QED
        BY <3>1, <2>1 DEF s
    <2>3. CASE z = y /\ v2 = w
      <3>1. v1 \in ListedIn(d, y) /\ At(f, z, v1) = At(d, y, v1) /\ At(f, z, v2) = s
        BY <2>1, <2>3, <1>3
      <3>2. QED
        BY <3>1, <2>1 DEF s
    <2>4. CASE ~(z = y /\ v1 = w) /\ ~(z = y /\ v2 = w)
      <3>1. /\ v1 \in ListedIn(d, z) /\ At(f, z, v1) = At(d, z, v1)
            /\ v2 \in ListedIn(d, z) /\ At(f, z, v2) = At(d, z, v2) /\ <<z, v1>> # <<z, v2>>
        BY <2>1, <2>4, <1>3
      <3>2. At(d, z, v1).name # At(d, z, v2).name
        BY <2>1, <3>1 DEF Tree
      <3>3. QED
        BY <3>1, <3>2
    <2>5. QED
      BY <2>2, <2>3, <2>4
  <1>8. Traced(d, f, D, src) /\ NamedOnce(f, D)
    BY <1>5, <1>6, <1>7, Zenon DEF Traced, NamedOnce
  <1>9. QED
    BY <1>1, <1>8, Relisted, Zenon

\* A spare cluster made a directory, which nothing refers to yet.
LEMMA DirAdded ==
  ASSUME NEW d, NEW D, Tree(d, D), NEW c \in Clusters, Spare(d, D, c), d.fat[c] = Eoc,
         d.cont[c].slots # <<>>, \A i \in 1..SubSlots : d.cont[c].slots[i].k # "ent",
         \A i, j \in 1..SubSlots : d.cont[c].slots[i].k = "00" /\ i < j => d.cont[c].slots[j].k = "00"
  PROVE  /\ c \notin D /\ Tree(d, D \cup {c}) /\ ListedIn(d, c) = {}
  <1>1. /\ Skeleton(d, D) /\ d \in ImageTypes /\ d.fat \in Fat /\ c # 0
    BY TreeFacts, ClusterFacts
  <1>2. \A y \in D : c \notin ToSet(DirChain(d, y))
    BY DEF Spare
  <1>3. c \notin D
    BY <1>1, <1>2, DirFacts
  <1>4. Chain(d, c) = <<c>> /\ Ends(d, c)
    <2> DEFINE cs == <<c>>
    <2>1. cs \in Seq(Clusters) /\ Len(cs) = 1 /\ cs[1] = c /\ DOMAIN cs = 1..1
      OBVIOUS
    <2> HIDE DEF cs
    <2>2. Distinct(cs)
      BY <2>1 DEF Distinct
    <2>3. \A j \in 1..Len(cs) : d.fat[cs[j]] = NextOf(cs, j)
      BY <2>1 DEF NextOf
    <2>4. Chain(d, cs[1]) = cs /\ Ends(d, cs[1])
      BY <1>1, <2>1, <2>2, <2>3, NewChain
    <2>5. QED
      BY <2>1, <2>4 DEF cs
  <1>5. DirChain(d, c) = <<c>> /\ ToSet(<<c>>) = {c}
    <2>1. DOMAIN <<c>> = 1..1 /\ <<c>>[1] = c
      OBVIOUS
    <2>2. QED
      BY <2>1, <1>1, <1>4 DEF DirChain, ToSet
  <1>6. ASSUME NEW u \in CellsOf(d, c)
        PROVE  u[1] = 1 /\ u[2] \in 1..SubSlots /\ At(d, c, u) = d.cont[c].slots[u[2]]
    <2>1. u \in (1..1) \X (1..SubSlots)
      BY <1>1, <1>5 DEF CellsOf, Cells, Width
    <2>2. Place(<<c>>, u) = <<c, u[2]>> /\ u[2] \in 1..SubSlots /\ u[1] = 1
      BY <2>1 DEF Place
    <2>3. QED
      BY <2>2, <1>1, <1>5, SlotAtFacts DEF At
  <1>7. ListedIn(d, c) = {}
    <2>1. \A u \in ListedIn(d, c) : u \in CellsOf(d, c) /\ At(d, c, u).k = "ent"
      BY DEF ListedIn, Listed, CellsOf, At
    <2>2. QED
      BY <2>1, <1>6
  <1>8. Skeleton(d, D \cup {c})
    <2>1. 0 \in D \cup {c} /\ D \cup {c} \subseteq {0} \cup Clusters
      BY <1>1 DEF Skeleton
    <2>2. \A x \in (D \cup {c}) \ {0} : Ends(d, x) /\ \A k \in ToSet(Chain(d, x)) : d.cont[k].slots # <<>>
      BY <1>1, <1>4, <1>5 DEF Skeleton
    <2>3. \A x, y \in D \cup {c} : x # y => ToSet(DirChain(d, x)) \cap ToSet(DirChain(d, y)) = {}
      BY <1>1, <1>2, <1>5 DEF Skeleton
    <2>4. ASSUME NEW x \in D \cup {c}, NEW u \in CellsOf(d, x), NEW v \in CellsOf(d, x),
                 At(d, x, u).k = "00", Before(u, v)
          PROVE  At(d, x, v).k = "00"
      <3>1. CASE x \in D
        BY <3>1, <2>4, <1>1 DEF Skeleton
      <3>2. CASE x = c
        <4>1. /\ u[1] = 1 /\ u[2] \in 1..SubSlots /\ At(d, x, u) = d.cont[c].slots[u[2]]
              /\ v[1] = 1 /\ v[2] \in 1..SubSlots /\ At(d, x, v) = d.cont[c].slots[v[2]]
          BY <3>2, <1>6
        <4>2. u[2] < v[2]
          BY <4>1, <2>4 DEF Before
        <4>3. QED
          BY <4>1, <4>2, <2>4
      <3>3. QED
        BY <3>1, <3>2
    <2>5. QED
      BY <1>1, <2>1, <2>2, <2>3, <2>4 DEF Skeleton
  <1>9. ASSUME NEW x \in D \cup {c}, NEW u \in ListedIn(d, x)
        PROVE  x \in D /\ EntrySound(d, D \cup {c}, At(d, x, u))
    <2>1. x \in D
      BY <1>7
    <2>2. EntrySound(d, D, At(d, x, u))
      BY <2>1, TreeFacts
    <2>3. ~At(d, x, u).dir => ToSet(Chain(d, At(d, x, u).first)) \cap ToSet(DirChain(d, c)) = {}
      BY <2>1, <1>5 DEF Spare
    <2>4. QED
      BY <2>1, <2>2, <2>3 DEF EntrySound
  <1>10. Tree(d, D \cup {c})
    BY <1>8, <1>9 DEF Tree
  <1>11. QED
    BY <1>3, <1>7, <1>10

\* An empty directory nothing refers to any more.
LEMMA DirGone ==
  ASSUME NEW d, NEW D, Tree(d, D), NEW c \in D, c # 0, ListedIn(d, c) = {},
         \A y \in D : \A v \in ListedIn(d, y) : At(d, y, v).dir => At(d, y, v).first # c
  PROVE  Tree(d, D \ {c}) /\ \A k \in ToSet(Chain(d, c)) : k \in Clusters /\ Spare(d, D \ {c}, k)
  <1>1. Skeleton(d, D) /\ DirChain(d, c) = Chain(d, c)
    BY TreeFacts, DirFacts
  <1>2. Skeleton(d, D \ {c})
    BY <1>1 DEF Skeleton
  <1>3. ASSUME NEW x \in D \ {c}, NEW u \in ListedIn(d, x) PROVE EntrySound(d, D \ {c}, At(d, x, u))
    BY TreeFacts DEF EntrySound
  <1>4. Tree(d, D \ {c})
    BY <1>2, <1>3 DEF Tree
  <1>5. ASSUME NEW k \in ToSet(Chain(d, c)) PROVE k \in Clusters /\ Spare(d, D \ {c}, k)
    <2>1. k \in Clusters
      BY <1>1, DirFacts
    <2>2. \A y \in D \ {c} : k \notin ToSet(DirChain(d, y))
      BY <1>1 DEF Skeleton
    <2>3. ASSUME NEW y \in D \ {c}, NEW v \in ListedIn(d, y), ~At(d, y, v).dir
          PROVE  k \notin ToSet(Chain(d, At(d, y, v).first))
      <3>1. EntrySound(d, D, At(d, y, v))
        BY TreeFacts
      <3>2. QED
        BY <3>1, <2>3, <1>1 DEF EntrySound
    <2>4. QED
      BY <2>1, <2>2, <2>3 DEF Spare
  <1>6. QED
    BY <1>4, <1>5

\* A directory with no usable slot given one more cluster, which is blank.
LEMMA Extended ==
  ASSUME NEW d, NEW D, Tree(d, D), NEW x \in D, x # 0,
         \A u \in CellsOf(d, x) : At(d, x, u).k \notin {"00", "E5"},
         NEW nc \in Clusters, Spare(d, D, nc), d.cont[nc] = Blank,
         NEW e \in ImageTypes, e.root = d.root, e.cont = d.cont,
         e.fat[Last(Chain(d, x))] = nc, e.fat[nc] = Eoc,
         \A k \in Clusters \ {nc, Last(Chain(d, x))} : e.fat[k] = d.fat[k]
  PROVE  LET u == <<Len(Chain(d, x)) + 1, 1>>
         IN  /\ Tree(e, D) /\ \A k : k # nc /\ Spare(d, D, k) => Spare(e, D, k)
             /\ \A y \in D : ListedIn(e, y) = ListedIn(d, y)
             /\ \A y \in D : \A v \in ListedIn(d, y) : At(e, y, v) = At(d, y, v)
             /\ u \in CellsOf(e, x) /\ Place(DirChain(e, x), u) = <<nc, 1>> /\ At(e, x, u).k = "00"
             /\ \A v \in CellsOf(e, x) : Before(v, u) => At(e, x, v).k # "00"
  <1> DEFINE ch == Chain(d, x)
             l == Last(ch)
             u == <<Len(ch) + 1, 1>>
  <1>1. /\ Skeleton(d, D) /\ d \in ImageTypes /\ d.fat \in Fat /\ e.fat \in Fat
        /\ 0 \in D /\ D \subseteq Clusters \cup {0}
    BY TreeFacts, ImageFacts DEF Skeleton
  <1>2. /\ ch = DirChain(d, x) /\ ch \in Seq(Clusters) /\ Len(ch) \in Nat /\ Len(ch) >= 1 /\ Ends(d, x) /\ x \in Clusters
        /\ \A k \in ToSet(ch) : k \in Clusters /\ d.cont[k].slots # <<>>
    BY <1>1, DirFacts
  <1>3. \A y \in D : nc \notin ToSet(DirChain(d, y))
    BY DEF Spare
  <1>4. Chain(e, x) = Append(ch, nc) /\ Ends(e, x)
    <2>1. nc \notin ToSet(ch)
      BY <1>2, <1>3
    <2>2. \A k \in ToSet(ch) \ {Last(ch)} : e.fat[k] = d.fat[k]
      BY <1>2, <2>1
    <2>3. QED
      BY <1>1, <1>2, <2>1, <2>2, ChainGrown
  <1>5. DirChain(e, x) = Append(ch, nc)
    BY <1>4 DEF DirChain
  <1>6. l \in ToSet(ch) /\ l \in Clusters
    <2> HIDE DEF ch
    <2>1. Last(ch) = ch[Len(ch)] /\ Len(ch) \in DOMAIN ch
      BY <1>2 DEF Last
    <2>2. QED
      BY <2>1, <1>2 DEF ToSet
  <1>7. ASSUME NEW y \in D, y # x PROVE DirChain(e, y) = DirChain(d, y) /\ (y # 0 => Ends(e, y))
    <2>1. CASE y = 0
      BY <2>1 DEF DirChain
    <2>2. CASE y # 0
      <3>1. /\ DirChain(d, y) = Chain(d, y) /\ Ends(d, y) /\ y \in Clusters \cup {0}
            /\ \A k \in ToSet(Chain(d, y)) : k \in Clusters
        BY <1>1, <2>2, DirFacts
      <3>2. l \notin ToSet(Chain(d, y)) /\ nc \notin ToSet(Chain(d, y))
        BY <3>1, <1>1, <1>2, <1>3, <1>6, <1>7 DEF Skeleton
      <3>3. \A k \in ToSet(Chain(d, y)) : e.fat[k] = d.fat[k]
        BY <3>1, <3>2
      <3>4. Chain(e, y) = Chain(d, y) /\ Ends(e, y)
        BY <3>1, <3>3, <1>1, ChainKept
      <3>5. QED
        BY <3>1, <3>4, <2>2 DEF DirChain
    <2>3. QED
      BY <2>1, <2>2
  <1>8. \A y \in D : y # x => CellsOf(e, y) = CellsOf(d, y) /\ \A v \in CellsOf(d, y) : At(e, y, v) = At(d, y, v)
    <2>1. \A p : SlotAt(e, p) = SlotAt(d, p)
      BY DEF SlotAt
    <2>2. QED
      BY <2>1, <1>7 DEF CellsOf, At
  <1>9. /\ u \in CellsOf(e, x) /\ Place(DirChain(e, x), u) = <<nc, 1>>
        /\ \A v \in CellsOf(e, x) :
              /\ v \in CellsOf(d, x) => At(e, x, v) = At(d, x, v)
              /\ v \notin CellsOf(d, x) => At(e, x, v).k = "00" /\ v[1] = Len(ch) + 1 /\ v[2] \in 1..SubSlots
        /\ CellsOf(d, x) \subseteq CellsOf(e, x)
    <2>0. \A p : SlotAt(e, p) = SlotAt(d, p)
      BY DEF SlotAt
    <2>1. 1 \in 1..SubSlots /\ SubSlots \in Nat
      BY HumanFsAssumption
    <2> HIDE DEF ch
    <2>2. Len(Append(ch, nc)) = Len(ch) + 1 /\ Append(ch, nc)[Len(ch) + 1] = nc
          /\ \A j \in 1..Len(ch) : Append(ch, nc)[j] = ch[j]
      BY <1>2
    <2>3. CellsOf(d, x) = (1..Len(ch)) \X (1..SubSlots) /\ CellsOf(e, x) = (1..(Len(ch) + 1)) \X (1..SubSlots)
      BY <1>2, <1>5, <2>2 DEF CellsOf, Cells, Width
    <2>4. u \in CellsOf(e, x) /\ Place(DirChain(e, x), u) = <<nc, 1>>
      BY <1>2, <1>5, <2>1, <2>2, <2>3 DEF Place
    <2>5. ASSUME NEW v \in CellsOf(d, x) PROVE At(e, x, v) = At(d, x, v)
      <3>1. v[1] \in 1..Len(ch)
        BY <2>3
      <3>2. Place(DirChain(e, x), v) = Place(DirChain(d, x), v)
        BY <3>1, <2>2, <1>2, <1>5 DEF Place
      <3>3. QED
        BY <3>2, <2>0 DEF At
    <2>6. ASSUME NEW v \in CellsOf(e, x), v \notin CellsOf(d, x)
          PROVE  At(e, x, v).k = "00" /\ v[1] = Len(ch) + 1 /\ v[2] \in 1..SubSlots
      <3>1. v[1] = Len(ch) + 1 /\ v[2] \in 1..SubSlots
        <4>1. v = <<v[1], v[2]>> /\ v[1] \in 1..(Len(ch) + 1) /\ v[2] \in 1..SubSlots
          BY <2>3
        <4>2. v[1] \notin 1..Len(ch)
          <5>1. v[1] \in 1..Len(ch) => <<v[1], v[2]>> \in (1..Len(ch)) \X (1..SubSlots)
            BY ONLY <4>1
          <5>2. QED
            BY <5>1, <4>1, <2>3, <2>6
        <4>3. Len(ch) \in Nat /\ v[1] \in 1..(Len(ch) + 1)
          BY <1>2, <4>1
        <4>4. v[1] = Len(ch) + 1
          BY ONLY <4>2, <4>3
        <4>5. QED
          BY <4>1, <4>4
      <3>2. Place(DirChain(e, x), v) = <<nc, v[2]>>
        BY <3>1, <2>2, <1>5 DEF Place
      <3>3. At(e, x, v) = d.cont[nc].slots[v[2]]
        BY <3>1, <3>2, <2>0, <1>1, SlotFacts, SlotAtFacts DEF At
      <3>4. d.cont[nc].slots[v[2]] = Unused
        BY <3>1 DEF Blank
      <3>5. QED
        BY <3>1, <3>3, <3>4 DEF Unused, Slot
    <2>7. CellsOf(d, x) \subseteq CellsOf(e, x)
      <3>1. 1..Len(ch) \subseteq 1..(Len(ch) + 1)
        BY <1>2
      <3>2. QED
        BY <3>1, <2>3
    <2>8. QED
      BY <2>4, <2>5, <2>6, <2>7
  <1> HIDE DEF u, l, ch
  <1>10. Skeleton(e, D)
    <2>1. \A y \in D \ {0} : Ends(e, y) /\ \A k \in ToSet(Chain(e, y)) : e.cont[k].slots # <<>>
      <3>1. ASSUME NEW y \in D, y # 0, NEW k \in ToSet(Chain(e, y)) PROVE e.cont[k].slots # <<>>
        <4>1. CASE y = x
          <5>1. k = nc \/ k \in ToSet(ch)
            <6>1. ToSet(Append(ch, nc)) = ToSet(ch) \cup {nc}
              <7>1. /\ DOMAIN Append(ch, nc) = 1..(Len(ch) + 1) /\ DOMAIN ch = 1..Len(ch)
                    /\ Append(ch, nc)[Len(ch) + 1] = nc /\ \A j \in 1..Len(ch) : Append(ch, nc)[j] = ch[j]
                BY <1>2
              <7>2. \A j : j \in 1..(Len(ch) + 1) <=> (j \in 1..Len(ch) \/ j = Len(ch) + 1)
                BY <1>2
              <7>3. QED
                BY <7>1, <7>2 DEF ToSet
            <6>2. QED
              BY <6>1, <4>1, <3>1, <1>4
          <5>2. QED
            BY <5>1, <1>2, SlotFacts
        <4>2. CASE y # x
          <5>1. DirChain(e, y) = DirChain(d, y) /\ Chain(e, y) = DirChain(e, y)
            BY <4>2, <3>1, <1>7 DEF DirChain
          <5>2. QED
            BY <5>1, <3>1, <1>1, DirFacts
        <4>3. QED
          BY <4>1, <4>2
      <3>2. QED
        BY <3>1, <1>4, <1>7
    <2>2. ASSUME NEW y \in D, NEW z \in D, y # z
          PROVE  ToSet(DirChain(e, y)) \cap ToSet(DirChain(e, z)) = {}
      <3>1. \A w \in D : ToSet(DirChain(e, w)) \subseteq ToSet(DirChain(d, w)) \cup (IF w = x THEN {nc} ELSE {})
        <4>1. SUFFICES ASSUME NEW w \in D
                       PROVE  ToSet(DirChain(e, w)) \subseteq ToSet(DirChain(d, w)) \cup (IF w = x THEN {nc} ELSE {})
          OBVIOUS
        <4>2. CASE w = x
          <5>1. /\ DOMAIN Append(ch, nc) = 1..(Len(ch) + 1) /\ DOMAIN ch = 1..Len(ch)
                /\ Append(ch, nc)[Len(ch) + 1] = nc /\ \A j \in 1..Len(ch) : Append(ch, nc)[j] = ch[j]
            BY <1>2
          <5>2. \A j : j \in 1..(Len(ch) + 1) <=> (j \in 1..Len(ch) \/ j = Len(ch) + 1)
            BY <1>2
          <5>3. ToSet(Append(ch, nc)) = ToSet(ch) \cup {nc}
            BY <5>1, <5>2 DEF ToSet
          <5>4. QED
            BY <5>3, <4>2, <1>2, <1>5
        <4>3. CASE w # x
          BY <4>3, <1>7
        <4>4. QED
          BY <4>2, <4>3
      <3>2. ToSet(DirChain(d, y)) \cap ToSet(DirChain(d, z)) = {}
        BY <2>2, <1>1 DEF Skeleton
      <3>3. QED
        BY <3>1, <3>2, <2>2, <1>3
    <2>3. ASSUME NEW y \in D, NEW v \in CellsOf(e, y), NEW w \in CellsOf(e, y),
                 At(e, y, v).k = "00", Before(v, w)
          PROVE  At(e, y, w).k = "00"
      <3>1. CASE y # x
        BY <3>1, <2>3, <1>1, <1>8 DEF Skeleton
      <3>2. CASE y = x
        <4>1. v \notin CellsOf(d, x)
          BY <3>2, <2>3, <1>9
        <4>2. w \notin CellsOf(d, x)
          <5>1. SUFFICES ASSUME w \in CellsOf(d, x) PROVE FALSE
            OBVIOUS
          <5>2. v[1] = Len(ch) + 1 /\ v[2] \in 1..SubSlots
            BY <4>1, <3>2, <1>9
          <5>3. w[1] \in 1..Len(ch)
            BY <5>1, <1>1, <1>2, CellFacts
          <5>4. QED
            BY <5>2, <5>3, <1>2, <2>3 DEF Before
        <4>3. QED
          BY <4>2, <3>2, <1>9
      <3>3. QED
        BY <3>1, <3>2
    <2>4. QED
      BY <1>1, <2>1, <2>2, <2>3 DEF Skeleton
  <1>11. \A y \in D : ListedIn(e, y) = ListedIn(d, y)
    <2>1. SUFFICES ASSUME NEW y \in D PROVE ListedIn(e, y) = ListedIn(d, y)
      OBVIOUS
    <2>2. /\ ListedIn(e, y) = {v \in CellsOf(e, y) : At(e, y, v).k = "ent"}
          /\ ListedIn(d, y) = {v \in CellsOf(d, y) : At(d, y, v).k = "ent"}
      BY <1>1, <1>10, ListedIs
    <2>3. CASE y # x
      BY <2>2, <2>3, <1>8
    <2>4. CASE y = x
      BY <2>2, <2>4, <1>9
    <2>5. QED
      BY <2>3, <2>4
  <1>12. \A y \in D : \A v \in ListedIn(d, y) : At(e, y, v) = At(d, y, v)
    <2>1. SUFFICES ASSUME NEW y \in D, NEW v \in ListedIn(d, y) PROVE At(e, y, v) = At(d, y, v)
      OBVIOUS
    <2>2. v \in CellsOf(d, y)
      BY TreeFacts
    <2>3. QED
      BY <2>2, <1>8, <1>9
  <1>13. ASSUME NEW y \in D, NEW v \in ListedIn(d, y), ~At(d, y, v).dir
         PROVE  /\ Whole(e, At(d, y, v)) /\ Chain(e, At(d, y, v).first) = Chain(d, At(d, y, v).first)
                /\ nc \notin ToSet(Chain(d, At(d, y, v).first))
    <2> DEFINE n == At(d, y, v)
    <2>1. n \in SubSlot /\ EntrySound(d, D, n) /\ Whole(d, n)
      BY <1>13, TreeFacts DEF EntrySound
    <2>2. ~n.dir /\ nc \notin ToSet(Chain(d, n.first))
      BY <1>13 DEF Spare
    <2> HIDE DEF n
    <2>3. l \notin ToSet(Chain(d, n.first))
      BY <2>1, <2>2, <1>2, <1>6 DEF EntrySound
    <2>4. \A k \in ToSet(Chain(d, n.first)) : k \in Clusters
      <3>1. n.first \in Clusters \cup {0} /\ Ends(d, n.first)
        BY <2>1 DEF SubSlot, SlotTypes, Whole
      <3>2. QED
        BY <1>1, <3>1, EndsFacts
    <2>5. \A k \in ToSet(Chain(d, n.first)) : e.fat[k] = d.fat[k] /\ e.cont[k].piece = d.cont[k].piece
      BY <2>2, <2>3, <2>4 DEF l, ch
    <2>6. Whole(e, n) /\ Chain(e, n.first) = Chain(d, n.first)
      BY <1>1, <2>1, <2>5, WholeKept
    <2>7. QED
      BY <2>2, <2>6 DEF n
  <1>14. \A w \in D : ToSet(DirChain(e, w)) \subseteq ToSet(DirChain(d, w)) \cup {nc}
    <2>1. SUFFICES ASSUME NEW w \in D PROVE ToSet(DirChain(e, w)) \subseteq ToSet(DirChain(d, w)) \cup {nc}
      OBVIOUS
    <2>2. CASE w = x
      <3>1. /\ DOMAIN Append(ch, nc) = 1..(Len(ch) + 1) /\ DOMAIN ch = 1..Len(ch)
            /\ Append(ch, nc)[Len(ch) + 1] = nc /\ \A j \in 1..Len(ch) : Append(ch, nc)[j] = ch[j]
        BY <1>2
      <3>2. \A j : j \in 1..(Len(ch) + 1) <=> (j \in 1..Len(ch) \/ j = Len(ch) + 1)
        BY <1>2
      <3>3. ToSet(Append(ch, nc)) = ToSet(ch) \cup {nc}
        BY <3>1, <3>2 DEF ToSet
      <3>4. QED
        BY <3>3, <2>2, <1>2, <1>5
    <2>3. CASE w # x
      BY <2>3, <1>7
    <2>4. QED
      BY <2>2, <2>3
  <1>15. ASSUME NEW y \in D, NEW v \in ListedIn(e, y) PROVE EntrySound(e, D, At(e, y, v))
    <2>1. v \in ListedIn(d, y) /\ At(e, y, v) = At(d, y, v) /\ EntrySound(d, D, At(d, y, v))
      BY <1>11, <1>12, TreeFacts
    <2>2. CASE At(d, y, v).dir
      BY <2>1, <2>2 DEF EntrySound
    <2>3. CASE ~At(d, y, v).dir
      <3>1. /\ Whole(e, At(d, y, v)) /\ Chain(e, At(d, y, v).first) = Chain(d, At(d, y, v).first)
            /\ nc \notin ToSet(Chain(d, At(d, y, v).first))
        BY <2>1, <2>3, <1>13
      <3>2. QED
        BY <2>1, <2>3, <3>1, <1>14 DEF EntrySound
    <2>4. QED
      BY <2>2, <2>3
  <1>16. ASSUME NEW y1 \in D, NEW y2 \in D, NEW v1 \in ListedIn(e, y1), NEW v2 \in ListedIn(e, y2),
                <<y1, v1>> # <<y2, v2>>
         PROVE  /\ Apart(e, At(e, y1, v1), At(e, y2, v2))
                /\ y1 = y2 /\ AsGiven => At(e, y1, v1).name # At(e, y2, v2).name
    <2> DEFINE n == At(d, y1, v1)
               m == At(d, y2, v2)
    <2>1. v1 \in ListedIn(d, y1) /\ At(e, y1, v1) = n /\ v2 \in ListedIn(d, y2) /\ At(e, y2, v2) = m
      BY <1>11, <1>12
    <2>2. Apart(d, n, m) /\ (y1 = y2 /\ AsGiven => n.name # m.name)
      BY <2>1, <1>16 DEF Tree
    <2>3. /\ ~n.dir => Chain(e, n.first) = Chain(d, n.first)
          /\ ~m.dir => Chain(e, m.first) = Chain(d, m.first)
      BY <2>1, <1>13
    <2> HIDE DEF n, m
    <2>4. Apart(e, n, m)
      BY <2>2, <2>3 DEF Apart
    <2>5. QED
      BY <2>1, <2>2, <2>4
  <1>17. Tree(e, D)
    BY <1>10, <1>15, <1>16 DEF Tree
  <1>18. ASSUME NEW k, k # nc, Spare(d, D, k) PROVE Spare(e, D, k)
    <2>1. \A w \in D : k \notin ToSet(DirChain(e, w))
      BY <1>14, <1>18 DEF Spare
    <2>2. ASSUME NEW y \in D, NEW v \in ListedIn(e, y), ~At(e, y, v).dir
          PROVE  k \notin ToSet(Chain(e, At(e, y, v).first))
      <3>1. v \in ListedIn(d, y) /\ At(e, y, v) = At(d, y, v)
        BY <1>11, <1>12
      <3>2. Chain(e, At(d, y, v).first) = Chain(d, At(d, y, v).first)
        BY <3>1, <2>2, <1>13
      <3>3. QED
        BY <3>1, <3>2, <2>2, <1>18 DEF Spare
    <2>3. QED
      BY <2>1, <2>2 DEF Spare
  <1>19. At(e, x, u).k = "00" /\ \A v \in CellsOf(e, x) : Before(v, u) => At(e, x, v).k # "00"
    <2>1. ASSUME NEW v \in CellsOf(e, x), v \notin CellsOf(d, x) PROVE ~Before(v, u) /\ At(e, x, v).k = "00"
      <3>1. v[1] = Len(ch) + 1 /\ v[2] \in 1..SubSlots /\ At(e, x, v).k = "00"
        BY <2>1, <1>9
      <3>2. u[1] = Len(ch) + 1 /\ u[2] = 1
        BY DEF u
      <3>3. v[2] \in Nat /\ v[2] >= 1
        BY <3>1, HumanFsAssumption
      <3>4. ~Before(v, u)
        <4>1. Len(ch) + 1 \in Nat
          BY <1>2
        <4>2. QED
          BY <3>1, <3>2, <3>3, <4>1 DEF Before
      <3>5. QED
        BY <3>1, <3>4
    <2>2. u \notin CellsOf(d, x)
      <3>1. u \in CellsOf(d, x) => u[1] \in 1..Len(ch)
        BY <1>1, <1>2, CellFacts
      <3>2. QED
        BY <3>1, <1>2 DEF u
    <2>3. QED
      BY <2>1, <2>2, <1>9
  <1>20. QED
    BY <1>9, <1>11, <1>12, <1>17, <1>18, <1>19 DEF u, ch

-----------------------------------------------------------------------------
(***************************************************************************)
(* 8. Calls: where their writes lead, one at a time.                       *)
(***************************************************************************)
\* The name the overwrite nx goes on with is not listed.
Ready(d, D, nx) ==
  nx # NoNext => /\ nx.dir \in D
                 /\ AsGiven => \A v \in ListedIn(d, nx.dir) : At(d, nx.dir, v).name # nx.name
Good(d, nx) == \E D : Tree(d, D) /\ Ready(d, D, nx)

\* Nothing is lost if the write w is the first that does not reach the card.
Safe(d, w, nx) == w.open \/ Good(d, IF w.w = "slot" THEN NoNext ELSE nx)

\* The writes ws lead from d to e, and each of them may be the first to fail.
Run(d, ws, e, nx, r) ==
  /\ r[0] = d /\ r[Len(ws)] = e
  /\ \A i \in 1..Len(ws) : r[i] = Apply(r[i - 1], ws[i]) /\ Safe(r[i - 1], ws[i], nx)
Reaches(d, ws, e, nx) == \E r : Run(d, ws, e, nx, r)

\* What a call may be left to do: all of it ends in a sound image.
Plan(d, ws, nx) == \E e : Reaches(d, ws, e, nx) /\ Good(e, nx)

LEMMA ReachesNil ==
  ASSUME NEW d, NEW nx
  PROVE  Reaches(d, <<>>, d, nx)
  <1>1. Run(d, <<>>, d, nx, [i \in {0} |-> d])
    BY DEF Run
  <1>2. QED
    BY <1>1 DEF Reaches

LEMMA ReachesNext ==
  ASSUME NEW X, NEW ws \in Seq(X), NEW w \in X, NEW d, NEW e, NEW nx,
         Reaches(d, ws, e, nx), Safe(e, w, nx)
  PROVE  Reaches(d, Append(ws, w), Apply(e, w), nx)
  <1>1. PICK r : Run(d, ws, e, nx, r)
    BY DEF Reaches
  <1> DEFINE n == Len(ws)
             s == [i \in 0..(n + 1) |-> IF i <= n THEN r[i] ELSE Apply(e, w)]
             vs == Append(ws, w)
  <1>2. n \in Nat /\ Len(vs) = n + 1 /\ vs[n + 1] = w /\ \A i \in 1..n : vs[i] = ws[i]
    OBVIOUS
  <1>3. /\ \A i \in 0..n : s[i] = r[i]
        /\ s[n + 1] = Apply(e, w)
    BY <1>2
  <1> HIDE DEF s, vs
  <1>4. s[0] = d /\ s[n + 1] = Apply(e, w) /\ s[n] = e
    BY <1>1, <1>2, <1>3 DEF Run
  <1>5. ASSUME NEW i \in 1..(n + 1) PROVE s[i] = Apply(s[i - 1], vs[i]) /\ Safe(s[i - 1], vs[i], nx)
    <2>1. CASE i = n + 1
      <3>1. i - 1 = n
        BY <2>1, <1>2
      <3>2. QED
        BY <3>1, <2>1, <1>2, <1>4
    <2>2. CASE i # n + 1
      <3>1. i \in 1..n /\ i - 1 \in 0..n /\ i \in 0..n
        BY <2>2, <1>2
      <3>2. s[i] = r[i] /\ s[i - 1] = r[i - 1] /\ vs[i] = ws[i]
        BY <3>1, <1>2, <1>3
      <3>3. r[i] = Apply(r[i - 1], ws[i]) /\ Safe(r[i - 1], ws[i], nx)
        BY <3>1, <1>1 DEF Run
      <3>4. QED
        BY <3>2, <3>3
    <2>3. QED
      BY <2>1, <2>2
  <1>6. Run(d, vs, Apply(e, w), nx, s)
    BY <1>2, <1>4, <1>5 DEF Run
  <1>7. QED
    BY <1>6 DEF Reaches, vs

LEMMA ReachesOne ==
  ASSUME NEW w, NEW d, NEW nx, Safe(d, w, nx)
  PROVE  Reaches(d, <<w>>, Apply(d, w), nx)
  <1>1. <<>> \in Seq({w}) /\ w \in {w} /\ Append(<<>>, w) = <<w>>
    OBVIOUS
  <1>2. Reaches(d, Append(<<>>, w), Apply(d, w), nx)
    BY <1>1, ReachesNil, ReachesNext
  <1>3. QED
    BY <1>1, <1>2

LEMMA ReachesJoin ==
  ASSUME NEW X, NEW ws \in Seq(X), NEW vs \in Seq(X), NEW d, NEW e, NEW f, NEW nx,
         Reaches(d, ws, e, nx), Reaches(e, vs, f, nx)
  PROVE  Reaches(d, ws \o vs, f, nx)
  <1>1. PICK r : Run(d, ws, e, nx, r)
    BY DEF Reaches
  <1>2. PICK t : Run(e, vs, f, nx, t)
    BY DEF Reaches
  <1> DEFINE n == Len(ws)
             m == Len(vs)
             us == ws \o vs
             s == [i \in 0..(n + m) |-> IF i <= n THEN r[i] ELSE t[i - n]]
  <1>3. /\ n \in Nat /\ m \in Nat /\ Len(us) = n + m
        /\ \A i \in 1..n : us[i] = ws[i]
        /\ \A i \in 1..m : us[n + i] = vs[i]
    OBVIOUS
  <1>4. r[0] = d /\ r[n] = e /\ t[0] = e /\ t[m] = f
    BY <1>1, <1>2 DEF Run
  <1> HIDE DEF us, n, m
  <1>5. \A i \in 0..n : s[i] = r[i]
    BY <1>3
  <1>6. \A i \in 0..m : s[n + i] = t[i]
    <2>1. SUFFICES ASSUME NEW i \in 0..m PROVE s[n + i] = t[i]
      OBVIOUS
    <2>2. n + i \in 0..(n + m) /\ (n + i) - n = i
      BY <1>3
    <2>3. CASE i = 0
      <3>1. n + i = n
        BY <2>3, <1>3
      <3>2. QED
        BY <3>1, <2>2, <2>3, <1>4
    <2>4. CASE i # 0
      <3>1. ~(n + i <= n)
        BY <2>4, <1>3
      <3>2. QED
        BY <3>1, <2>2
    <2>5. QED
      BY <2>3, <2>4
  <1> HIDE DEF s
  <1>7. s[0] = d /\ s[n + m] = f
    BY <1>3, <1>4, <1>5, <1>6
  <1>8. ASSUME NEW i \in 1..(n + m) PROVE s[i] = Apply(s[i - 1], us[i]) /\ Safe(s[i - 1], us[i], nx)
    <2>1. CASE i <= n
      <3>1. i \in 1..n /\ i - 1 \in 0..n /\ i \in 0..n
        BY <2>1, <1>3
      <3>2. s[i] = r[i] /\ s[i - 1] = r[i - 1] /\ us[i] = ws[i]
        BY <3>1, <1>3, <1>5
      <3>3. r[i] = Apply(r[i - 1], ws[i]) /\ Safe(r[i - 1], ws[i], nx)
        BY <3>1, <1>1 DEF Run, n
      <3>4. QED
        BY <3>2, <3>3
    <2>2. CASE ~(i <= n)
      <3> DEFINE j == i - n
      <3>1. j \in 1..m /\ j - 1 \in 0..m /\ j \in 0..m /\ i = n + j /\ i - 1 = n + (j - 1)
        BY <2>2, <1>3
      <3> HIDE DEF j
      <3>2. s[i] = t[j] /\ s[i - 1] = t[j - 1] /\ us[i] = vs[j]
        BY <3>1, <1>3, <1>6
      <3>3. t[j] = Apply(t[j - 1], vs[j]) /\ Safe(t[j - 1], vs[j], nx)
        BY <3>1, <1>2 DEF Run, m
      <3>4. QED
        BY <3>2, <3>3
    <2>3. QED
      BY <2>1, <2>2
  <1>9. Run(d, us, f, nx, s)
    BY <1>3, <1>7, <1>8 DEF Run
  <1>10. QED
    BY <1>9 DEF Reaches, us

LEMMA PlanStep ==
  ASSUME NEW X, NEW ws \in Seq(X), ws # <<>>, NEW d, NEW nx, Plan(d, ws, nx)
  PROVE  Safe(d, Head(ws), nx) /\ Plan(Apply(d, Head(ws)), Tail(ws), nx)
  <1>1. PICK e : Reaches(d, ws, e, nx) /\ Good(e, nx)
    BY DEF Plan
  <1>2. PICK r : Run(d, ws, e, nx, r)
    BY <1>1 DEF Reaches
  <1> DEFINE n == Len(ws)
             vs == Tail(ws)
             s == [i \in 0..(n - 1) |-> r[i + 1]]
  <1>3. /\ n \in Nat /\ n >= 1 /\ Len(vs) = n - 1 /\ Head(ws) = ws[1]
        /\ \A i \in 1..(n - 1) : vs[i] = ws[i + 1]
    OBVIOUS
  <1> HIDE DEF vs
  <1>4. r[0] = d /\ r[n] = e /\ \A i \in 1..n : r[i] = Apply(r[i - 1], ws[i]) /\ Safe(r[i - 1], ws[i], nx)
    BY <1>2 DEF Run
  <1> HIDE DEF n
  <1>5. 1 \in 1..n /\ 1 - 1 = 0
    BY <1>3
  <1>6. Safe(d, Head(ws), nx) /\ r[1] = Apply(d, Head(ws))
    <2>1. r[1] = Apply(r[1 - 1], ws[1]) /\ Safe(r[1 - 1], ws[1], nx)
      BY <1>4, <1>5
    <2>2. QED
      BY <2>1, <1>3, <1>4, <1>5
  <1>7. \A i \in 0..(n - 1) : s[i] = r[i + 1]
    OBVIOUS
  <1> HIDE DEF s
  <1>8. s[0] = r[1] /\ s[n - 1] = e
    <2>1. 0 \in 0..(n - 1) /\ n - 1 \in 0..(n - 1) /\ 0 + 1 = 1 /\ (n - 1) + 1 = n
      BY <1>3
    <2>2. s[0] = r[0 + 1] /\ s[n - 1] = r[(n - 1) + 1]
      BY <2>1, <1>7
    <2>3. QED
      BY <2>1, <2>2, <1>4
  <1>9. ASSUME NEW i \in 1..(n - 1) PROVE s[i] = Apply(s[i - 1], vs[i]) /\ Safe(s[i - 1], vs[i], nx)
    <2>1. i + 1 \in 1..n /\ (i + 1) - 1 = i /\ i - 1 \in 0..(n - 1) /\ i \in 0..(n - 1) /\ (i - 1) + 1 = i
      BY <1>3
    <2>2. r[i + 1] = Apply(r[(i + 1) - 1], ws[i + 1]) /\ Safe(r[(i + 1) - 1], ws[i + 1], nx)
      BY <2>1, <1>4
    <2>3. s[i] = r[i + 1] /\ s[i - 1] = r[(i - 1) + 1] /\ vs[i] = ws[i + 1]
      BY <2>1, <1>3, <1>7
    <2>4. QED
      BY <2>1, <2>2, <2>3
  <1>10. Run(r[1], vs, e, nx, s)
    BY <1>3, <1>8, <1>9 DEF Run
  <1>11. QED
    BY <1>1, <1>6, <1>10 DEF Plan, Reaches, vs

LEMMA PlanNil ==
  ASSUME NEW d, NEW nx
  PROVE  /\ Good(d, nx) => Plan(d, <<>>, nx)
         /\ Plan(d, <<>>, nx) => Good(d, nx)
  <1>1. Good(d, nx) => Plan(d, <<>>, nx)
    BY ReachesNil DEF Plan
  <1>2. ASSUME Plan(d, <<>>, nx) PROVE Good(d, nx)
    <2>1. PICK e : Reaches(d, <<>>, e, nx) /\ Good(e, nx)
      BY <1>2 DEF Plan
    <2>2. PICK r : Run(d, <<>>, e, nx, r)
      BY <2>1 DEF Reaches
    <2>3. e = d
      BY <2>2 DEF Run
    <2>4. QED
      BY <2>1, <2>3
  <1>3. QED
    BY <1>1, <1>2

LEMMA PlanJoin ==
  ASSUME NEW X, NEW ws \in Seq(X), NEW vs \in Seq(X), NEW d, NEW e, NEW nx,
         Reaches(d, ws, e, nx), Plan(e, vs, nx)
  PROVE  Plan(d, ws \o vs, nx)
  <1>1. PICK f : Reaches(e, vs, f, nx) /\ Good(f, nx)
    BY DEF Plan
  <1>2. Reaches(d, ws \o vs, f, nx)
    BY <1>1, ReachesJoin
  <1>3. QED
    BY <1>1, <1>2 DEF Plan

LEMMA GoodIsSafe ==
  ASSUME NEW d, NEW D, Tree(d, D), NEW nx, Ready(d, D, nx)
  PROVE  Good(d, nx) /\ Good(d, NoNext) /\ \A w : Safe(d, w, nx)
  <1>1. Ready(d, D, NoNext)
    BY DEF Ready
  <1>2. QED
    BY <1>1 DEF Good, Safe

LEMMA ReadyKept ==
  ASSUME NEW d, NEW D, Tree(d, D), NEW nx, Ready(d, D, nx), NEW e, SameDirs(d, e, D)
  PROVE  Ready(e, D, nx)
  <1>1. SUFFICES ASSUME nx # NoNext
                 PROVE  /\ nx.dir \in D
                        /\ AsGiven => \A v \in ListedIn(e, nx.dir) : At(e, nx.dir, v).name # nx.name
    BY DEF Ready
  <1>2. nx.dir \in D /\ (AsGiven => \A v \in ListedIn(d, nx.dir) : At(d, nx.dir, v).name # nx.name)
    BY <1>1 DEF Ready
  <1>3. ListedIn(e, nx.dir) = ListedIn(d, nx.dir)
        /\ \A v \in ListedIn(d, nx.dir) : At(e, nx.dir, v) = At(d, nx.dir, v)
    BY <1>2, TreeFacts DEF SameDirs
  <1>4. QED
    BY <1>2, <1>3

\* A write to a spare cluster, and an image such writes have led to.
SpareWrite(d, D, w) ==
  \E c \in Clusters : /\ Spare(d, D, c)
                      /\ \/ \E v \in Clusters \cup {0, Eoc} : w = fat_set(c, v)
                         \/ \E v \in Cluster : w = PutData(c, v)
Framed(d, D, e) ==
  /\ e \in ImageTypes /\ e.root = d.root
  /\ \A c \in Clusters : Spare(d, D, c) \/ (e.fat[c] = d.fat[c] /\ e.cont[c] = d.cont[c])
Landed(e, w) == (w.w = "fat" => e.fat[w.at] = w.as) /\ (w.w = "data" => e.cont[w.at] = w.as)

LEMMA SpareStep ==
  ASSUME NEW d, NEW D, NEW e, Framed(d, D, e), NEW w, SpareWrite(d, D, w)
  PROVE  /\ Framed(d, D, Apply(e, w)) /\ Landed(Apply(e, w), w)
         /\ \A v : SpareWrite(d, D, v) /\ Landed(e, v) /\ ~(v.w = w.w /\ v.at = w.at) => Landed(Apply(e, w), v)
  <1>1. PICK c \in Clusters : /\ Spare(d, D, c)
                              /\ \/ \E v \in Clusters \cup {0, Eoc} : w = fat_set(c, v)
                                 \/ \E v \in Cluster : w = PutData(c, v)
    BY DEF SpareWrite
  <1>2. e \in ImageTypes /\ e.fat \in Fat /\ e.cont \in [Clusters -> Cluster]
    BY ImageFacts DEF Framed
  <1>3. \A v : SpareWrite(d, D, v) => v.at \in Clusters
    BY DEF SpareWrite, fat_set, PutData, Write
  <1> DEFINE f == Apply(e, w)
  <1>4. CASE \E v \in Clusters \cup {0, Eoc} : w = fat_set(c, v)
    <2>1. PICK v \in Clusters \cup {0, Eoc} : w = fat_set(c, v)
      BY <1>4
    <2>2. f \in ImageTypes /\ f.fat = [e.fat EXCEPT ![c] = v] /\ f.root = e.root /\ f.cont = e.cont
      <3> DEFINE o == FALSE
      <3>1. w = Write("fat", c, v, o)
        BY <2>1 DEF fat_set
      <3> HIDE DEF o
      <3>2. e \in ImageTypes
        BY <1>2
      <3>3. QED
        BY <3>1, <3>2, ApplyFat
    <2>3. w.w = "fat" /\ w.at = c /\ w.as = v
      BY <2>1 DEF fat_set, Write
    <2> HIDE DEF f
    <2>4. \A k \in Clusters : f.fat[k] = IF k = c THEN v ELSE e.fat[k]
      BY <2>2, <1>2 DEF Fat
    <2>5. Framed(d, D, f)
      BY <2>2, <2>4, <1>1 DEF Framed
    <2>6. QED
      BY <2>2, <2>3, <2>4, <2>5, <1>3 DEF Landed, f
  <1>5. CASE \E v \in Cluster : w = PutData(c, v)
    <2>1. PICK v \in Cluster : w = PutData(c, v)
      BY <1>5
    <2>2. f \in ImageTypes /\ f.cont = [e.cont EXCEPT ![c] = v] /\ f.root = e.root /\ f.fat = e.fat
      <3> DEFINE o == FALSE
      <3>1. w = Write("data", c, v, o)
        BY <2>1 DEF PutData
      <3> HIDE DEF o
      <3>2. e \in ImageTypes
        BY <1>2
      <3>3. QED
        BY <3>1, <3>2, ApplyData
    <2>3. w.w = "data" /\ w.at = c /\ w.as = v
      BY <2>1 DEF PutData, Write
    <2> HIDE DEF f
    <2>4. \A k \in Clusters : f.cont[k] = IF k = c THEN v ELSE e.cont[k]
      BY <2>2, <1>2
    <2>5. Framed(d, D, f)
      BY <2>2, <2>4, <1>1 DEF Framed
    <2>6. QED
      BY <2>2, <2>3, <2>4, <2>5, <1>3 DEF Landed, f
  <1>6. QED
    BY <1>1, <1>4, <1>5

\* Writes to spare clusters, in any number: each may be the first to fail, and
\* in the end all of them have landed.
LEMMA FrameReach ==
  ASSUME NEW d, NEW D, Tree(d, D), NEW nx, Ready(d, D, nx), NEW X, NEW ws \in Seq(X),
         \A i \in 1..Len(ws) : SpareWrite(d, D, ws[i]),
         \A i, j \in 1..Len(ws) : ws[i].w = ws[j].w /\ ws[i].at = ws[j].at => i = j
  PROVE  \E e : /\ Reaches(d, ws, e, nx) /\ Framed(d, D, e)
                /\ Tree(e, D) /\ Ready(e, D, nx) /\ SameDirs(d, e, D)
                /\ \A c : Spare(e, D, c) <=> Spare(d, D, c)
                /\ \A i \in 1..Len(ws) : Landed(e, ws[i])
  <1> DEFINE n == Len(ws)
             Upto(k, e) == /\ Reaches(d, SubSeq(ws, 1, k), e, nx) /\ Framed(d, D, e)
                           /\ \A i \in 1..k : Landed(e, ws[i])
             S == {k \in Nat : k <= n => \E e : Upto(k, e)}
  <1>0. n \in Nat
    OBVIOUS
  <1>1. 0 \in S
    <2>1. SubSeq(ws, 1, 0) = <<>>
      OBVIOUS
    <2>2. Framed(d, D, d)
      BY TreeFacts DEF Framed
    <2>3. Reaches(d, SubSeq(ws, 1, 0), d, nx)
      BY <2>1, ReachesNil
    <2>4. Upto(0, d)
      BY <2>2, <2>3
    <2> HIDE DEF Upto
    <2>5. QED
      BY <2>4
  <1>2. \A e : Framed(d, D, e) => /\ Tree(e, D) /\ Ready(e, D, nx) /\ SameDirs(d, e, D)
                                  /\ \A c : Spare(e, D, c) <=> Spare(d, D, c)
    <2>1. SUFFICES ASSUME NEW e, Framed(d, D, e)
                   PROVE  /\ Tree(e, D) /\ Ready(e, D, nx) /\ SameDirs(d, e, D)
                          /\ \A c : Spare(e, D, c) <=> Spare(d, D, c)
      OBVIOUS
    <2>2. Tree(e, D) /\ SameDirs(d, e, D) /\ \A c : Spare(e, D, c) <=> Spare(d, D, c)
      BY <2>1, Frame DEF Framed
    <2>3. QED
      BY <2>2, ReadyKept
  <1>3. ASSUME NEW k \in Nat, k \in S PROVE k + 1 \in S
    <2>1. SUFFICES ASSUME k + 1 <= n PROVE \E f : Upto(k + 1, f)
      OBVIOUS
    <2>2. k <= n /\ k + 1 \in 1..n
      BY <2>1, <1>0
    <2>3. PICK e : Upto(k, e)
      BY <2>2, <1>3
    <2> DEFINE w == ws[k + 1]
               f == Apply(e, w)
    <2>4. SpareWrite(d, D, w)
      BY <2>2
    <2>5. Reaches(d, SubSeq(ws, 1, k), e, nx) /\ Framed(d, D, e) /\ \A i \in 1..k : Landed(e, ws[i])
      BY <2>3
    <2>6. Safe(e, w, nx)
      BY <2>5, <1>2, GoodIsSafe
    <2>7. SubSeq(ws, 1, k + 1) = Append(SubSeq(ws, 1, k), w) /\ SubSeq(ws, 1, k) \in Seq(X) /\ w \in X
      BY <2>2, <1>0
    <2>8. Reaches(d, SubSeq(ws, 1, k + 1), f, nx)
      <3> DEFINE vs == SubSeq(ws, 1, k)
      <3>1. vs \in Seq(X) /\ w \in X /\ Reaches(d, vs, e, nx) /\ Safe(e, w, nx)
        BY <2>5, <2>6, <2>7
      <3> HIDE DEF vs, w
      <3>2. Reaches(d, Append(vs, w), Apply(e, w), nx)
        BY <3>1, ReachesNext, Zenon
      <3>3. QED
        BY <3>2, <2>7 DEF vs
    <2>9. Framed(d, D, f) /\ Landed(f, w)
      BY <2>4, <2>5, SpareStep
    <2>10. \A i \in 1..k : Landed(f, ws[i])
      <3>1. SUFFICES ASSUME NEW i \in 1..k PROVE Landed(f, ws[i])
        OBVIOUS
      <3>2. i \in 1..n /\ i # k + 1
        BY <2>2, <1>0
      <3>3. SpareWrite(d, D, ws[i]) /\ Landed(e, ws[i]) /\ ~(ws[i].w = w.w /\ ws[i].at = w.at)
        BY <3>2, <2>2, <2>5
      <3> HIDE DEF w
      <3>4. QED
        BY <3>3, <2>4, <2>5, SpareStep
    <2>11. \A i \in 1..(k + 1) : i \in 1..k \/ i = k + 1
      OBVIOUS
    <2> HIDE DEF f
    <2>12. Upto(k + 1, f)
      BY <2>8, <2>9, <2>10, <2>11
    <2> HIDE DEF Upto
    <2>13. QED
      BY <2>12
  <1>4. n \in S
    <2> HIDE DEF S, n
    <2>1. QED
      BY <1>0, <1>1, <1>3, Induction
  <1>5. PICK e : Upto(n, e)
    BY <1>0, <1>4
  <1>6. SubSeq(ws, 1, n) = ws
    OBVIOUS
  <1>7. Reaches(d, ws, e, nx) /\ Framed(d, D, e) /\ \A i \in 1..n : Landed(e, ws[i])
    BY <1>5, <1>6
  <1>8. QED
    BY <1>2, <1>7

-----------------------------------------------------------------------------
(***************************************************************************)
(* 9. The types of what a call writes.                                     *)
(***************************************************************************)
Writes ==
  {Write("fat", c, v, o) : c \in Clusters, v \in Clusters \cup {0, Eoc}, o \in BOOLEAN}
  \cup {Write("data", c, v, o) : c \in Clusters, v \in Cluster, o \in BOOLEAN}
  \cup {Write("slot", <<0, i>>, s, o) : i \in 1..RootSlots, s \in RootSlot, o \in BOOLEAN}
  \cup {Write("slot", p, s, o) : p \in Clusters \X (1..SubSlots), s \in SubSlot, o \in BOOLEAN}
SlotPlaces == ({0} \X (1..RootSlots)) \cup (Clusters \X (1..SubSlots))

LEMMA WriteKinds ==
  /\ \A c \in Clusters, v \in Clusters \cup {0, Eoc} : fat_set(c, v) \in Writes /\ Exposed(fat_set(c, v)) \in Writes
  /\ \A c \in Clusters, v \in Cluster : PutData(c, v) \in Writes
  /\ \A p \in SlotPlaces, s \in RootSlot : PutSlot(p, s) \in Writes /\ Exposed(PutSlot(p, s)) \in Writes
  /\ \A c \in Clusters, i \in 1..SubSlots, s \in SubSlot : PutSlot(<<c, i>>, s) \in Writes
  <1>0. \A a, b, c, o : Exposed(Write(a, b, c, o)) = Write(a, b, c, TRUE)
    BY DEF Exposed, Write
  <1>1. ASSUME NEW c \in Clusters, NEW v \in Clusters \cup {0, Eoc}
        PROVE  fat_set(c, v) \in Writes /\ Exposed(fat_set(c, v)) \in Writes
    <2>1. \A o \in BOOLEAN : Write("fat", c, v, o) \in Writes
      BY DEF Writes
    <2>2. fat_set(c, v) = Write("fat", c, v, FALSE) /\ Exposed(fat_set(c, v)) = Write("fat", c, v, TRUE)
      BY <1>0 DEF fat_set
    <2>3. QED
      BY <2>1, <2>2
  <1>2. ASSUME NEW c \in Clusters, NEW v \in Cluster PROVE PutData(c, v) \in Writes
    <2>1. \A o \in BOOLEAN : Write("data", c, v, o) \in Writes
      BY DEF Writes
    <2>2. QED
      BY <2>1 DEF PutData
  <1>3. ASSUME NEW c \in Clusters, NEW i \in 1..SubSlots, NEW s \in SubSlot, NEW o \in BOOLEAN
        PROVE  Write("slot", <<c, i>>, s, o) \in Writes
    <2>1. <<c, i>> \in Clusters \X (1..SubSlots)
      OBVIOUS
    <2>2. QED
      BY <2>1 DEF Writes
  <1>4. ASSUME NEW i \in 1..RootSlots, NEW s \in RootSlot, NEW o \in BOOLEAN
        PROVE  Write("slot", <<0, i>>, s, o) \in Writes
    BY DEF Writes
  <1>5. ASSUME NEW p \in SlotPlaces, NEW s \in RootSlot
        PROVE  PutSlot(p, s) \in Writes /\ Exposed(PutSlot(p, s)) \in Writes
    <2>1. s \in SubSlot
      BY SlotFacts
    <2>2. \/ \E i \in 1..RootSlots : p = <<0, i>>
          \/ \E c \in Clusters, i \in 1..SubSlots : p = <<c, i>>
      BY DEF SlotPlaces
    <2>3. \A o \in BOOLEAN : Write("slot", p, s, o) \in Writes
      BY <2>1, <2>2, <1>3, <1>4
    <2>4. PutSlot(p, s) = Write("slot", p, s, FALSE) /\ Exposed(PutSlot(p, s)) = Write("slot", p, s, TRUE)
      BY <1>0 DEF PutSlot
    <2>5. QED
      BY <2>3, <2>4
  <1>6. ASSUME NEW c \in Clusters, NEW i \in 1..SubSlots, NEW s \in SubSlot
        PROVE  PutSlot(<<c, i>>, s) \in Writes
    BY <1>3 DEF PutSlot
  <1>7. QED
    BY <1>1, <1>2, <1>5, <1>6

LEMMA ApplyTyped ==
  ASSUME NEW d \in ImageTypes, NEW w \in Writes
  PROVE  Apply(d, w) \in ImageTypes
  <1>1. CASE w \in {Write("fat", c, v, o) : c \in Clusters, v \in Clusters \cup {0, Eoc}, o \in BOOLEAN}
    <2>1. PICK c \in Clusters, v \in Clusters \cup {0, Eoc}, o \in BOOLEAN : w = Write("fat", c, v, o)
      BY <1>1
    <2>2. QED
      BY <2>1, ApplyFat
  <1>2. CASE w \in {Write("data", c, v, o) : c \in Clusters, v \in Cluster, o \in BOOLEAN}
    <2>1. PICK c \in Clusters, v \in Cluster, o \in BOOLEAN : w = Write("data", c, v, o)
      BY <1>2
    <2>2. QED
      BY <2>1, ApplyData
  <1>3. CASE w \in {Write("slot", <<0, i>>, s, o) : i \in 1..RootSlots, s \in RootSlot, o \in BOOLEAN}
    <2>1. PICK i \in 1..RootSlots, s \in RootSlot, o \in BOOLEAN : w = Write("slot", <<0, i>>, s, o)
      BY <1>3
    <2>2. QED
      BY <2>1, ApplyRoot
  <1>4. CASE w \in {Write("slot", p, s, o) : p \in Clusters \X (1..SubSlots), s \in SubSlot, o \in BOOLEAN}
    <2>1. PICK p \in Clusters \X (1..SubSlots), s \in SubSlot, o \in BOOLEAN : w = Write("slot", p, s, o)
      BY <1>4
    <2>2. PICK c \in Clusters, i \in 1..SubSlots : p = <<c, i>>
      BY <2>1
    <2>3. w = Write("slot", <<c, i>>, s, o)
      BY <2>1, <2>2
    <2>4. QED
      BY <2>3, ApplySub
  <1>5. QED
    BY <1>1, <1>2, <1>3, <1>4 DEF Writes

\* Where the slots of any directory are, whatever the image holds.
LEMMA TypedCells ==
  ASSUME NEW d \in ImageTypes, NEW x \in {0} \cup Clusters
  PROVE  /\ CellsOf(d, x) \subseteq Nat \X Nat
         /\ \A u \in CellsOf(d, x) : Place(DirChain(d, x), u) \in SlotPlaces /\ At(d, x, u) \in SubSlot
         /\ ListedIn(d, x) \subseteq CellsOf(d, x)
         /\ \A u \in ListedIn(d, x) : At(d, x, u).k = "ent"
         /\ Usable(d, x) = {u \in CellsOf(d, x) : At(d, x, u).k \in {"00", "E5"}}
         /\ \A n : Named(d, x, n) = {u \in ListedIn(d, x) : At(d, x, u).name = n}
         /\ x # 0 => Last(Chain(d, x)) \in Clusters /\ Chain(d, x) \in Seq(Clusters)
  <1> DEFINE ch == DirChain(d, x)
  <1>1. d.fat \in Fat /\ RootSlots \in Nat /\ SubSlots \in Nat
    BY ImageFacts, HumanFsAssumption
  <1>2. x # 0 => ch = Chain(d, x) /\ ch \in Seq(Clusters) /\ Len(ch) >= 1
    <2>1. SUFFICES ASSUME x # 0 PROVE ch = Chain(d, x) /\ ch \in Seq(Clusters) /\ Len(ch) >= 1
      OBVIOUS
    <2>2. Path(d.fat, Chain(d, x)) /\ Len(Chain(d, x)) >= 1
      BY <1>1, <2>1, ChainIsPath
    <2>3. QED
      BY <2>1, <2>2 DEF DirChain, Path
  <1>3. x = 0 => ch = <<0>>
    BY DEF DirChain
  <1>4. /\ ListedIn(d, x) \subseteq CellsOf(d, x)
        /\ \A u \in ListedIn(d, x) : At(d, x, u).k = "ent"
        /\ Usable(d, x) = {u \in CellsOf(d, x) : At(d, x, u).k \in {"00", "E5"}}
        /\ \A n : Named(d, x, n) = {u \in ListedIn(d, x) : At(d, x, u).name = n}
    BY DEF ListedIn, Listed, CellsOf, Usable, Named, At
  <1> HIDE DEF ch
  <1>5. x # 0 => Last(Chain(d, x)) \in Clusters /\ Chain(d, x) \in Seq(Clusters)
    <2>1. x # 0 => Last(ch) \in Clusters
      BY <1>2 DEF Last
    <2>2. QED
      BY <2>1, <1>2
  <1>6. ASSUME NEW u \in CellsOf(d, x)
        PROVE  u \in Nat \X Nat /\ Place(ch, u) \in SlotPlaces /\ At(d, x, u) \in SubSlot
    <2>1. u \in (1..Len(ch)) \X (1..Width(x)) /\ At(d, x, u) = SlotAt(d, Place(ch, u))
      BY DEF CellsOf, Cells, At, ch
    <2>2. CASE x = 0
      <3>1. u \in (1..1) \X (1..RootSlots)
        BY <2>1, <2>2, <1>3 DEF Width
      <3>2. Place(ch, u) = <<0, u[2]>> /\ u[2] \in 1..RootSlots /\ u \in Nat \X Nat
        BY <3>1, <2>2, <1>1, <1>3 DEF Place
      <3>3. QED
        BY <3>2, <2>1, SlotAtFacts, SlotFacts DEF SlotPlaces
    <2>3. CASE x # 0
      <3>1. u \in (1..Len(ch)) \X (1..SubSlots) /\ Len(ch) \in Nat /\ ch \in Seq(Clusters)
        BY <2>1, <2>3, <1>2 DEF Width
      <3>2. Place(ch, u) = <<ch[u[1]], u[2]>> /\ ch[u[1]] \in Clusters /\ u[2] \in 1..SubSlots /\ u \in Nat \X Nat
        BY <3>1, <1>1 DEF Place
      <3>3. QED
        BY <3>2, <2>1, SlotAtFacts DEF SlotPlaces
    <2>4. QED
      BY <2>2, <2>3
  <1>7. QED
    BY <1>4, <1>5, <1>6 DEF ch

LEMMA FoundEntry ==
  ASSUME NEW d \in ImageTypes, NEW x \in {0} \cup Clusters, NEW n, Named(d, x, n) # {}
  PROVE  LET u == First(Named(d, x, n))
         IN  /\ u \in ListedIn(d, x) /\ u \in CellsOf(d, x) /\ At(d, x, u).name = n
             /\ find_entry(d, x, n) = Place(DirChain(d, x), u)
             /\ find_entry(d, x, n) \in SlotPlaces
             /\ SlotAt(d, find_entry(d, x, n)) = At(d, x, u)
             /\ At(d, x, u) \in RootSlot /\ At(d, x, u).k = "ent"
  <1> DEFINE us == Named(d, x, n)
             u == First(us)
  <1>1. us \subseteq Nat \X Nat /\ us = {v \in ListedIn(d, x) : At(d, x, v).name = n}
    BY TypedCells
  <1>2. u \in us
    BY <1>1, FirstCell
  <1> HIDE DEF u
  <1>3. u \in ListedIn(d, x) /\ u \in CellsOf(d, x) /\ At(d, x, u).name = n /\ At(d, x, u).k = "ent"
        /\ At(d, x, u) \in SubSlot /\ Place(DirChain(d, x), u) \in SlotPlaces
    BY <1>1, <1>2, TypedCells
  <1>4. At(d, x, u) \in RootSlot
    BY <1>3 DEF SubSlot, RootSlot, SlotTypes
  <1>5. find_entry(d, x, n) = Place(DirChain(d, x), u)
    BY DEF find_entry, u
  <1>6. QED
    BY <1>3, <1>4, <1>5 DEF At, u

\* What find_dir_slot returns: a slot, a cluster to take, or no room.
LEMMA SlotCases ==
  ASSUME NEW d \in ImageTypes, NEW x \in {0} \cup Clusters
  PROVE  LET s == find_dir_slot(d, x)
             nc == Head(Free(d))
             u == First(Usable(d, x))
         IN  \/ /\ s.ws = <<>> /\ s.rc = 0 /\ s.at = Place(DirChain(d, x), u)
                /\ u \in Usable(d, x) /\ \A v \in Usable(d, x) : ~Before(v, u)
             \/ s.ws = <<>> /\ s.rc # 0
             \/ /\ Usable(d, x) = {} /\ x # 0 /\ Free(d) # <<>> /\ nc \in Clusters /\ d.fat[nc] = 0
                /\ s.ws = Extension(d, x, nc) /\ s.rc = 0 /\ s.at = <<nc, 1>>
  <1> DEFINE us == Usable(d, x)
             u == First(us)
  <1>1. us \subseteq Nat \X Nat
    BY TypedCells
  <1>2. us # {} => u \in us /\ \A v \in us : ~Before(v, u)
    BY <1>1, FirstCell
  <1> HIDE DEF us, u
  <1>3. Free(d) # <<>> => Head(Free(d)) \in Clusters /\ d.fat[Head(Free(d))] = 0
    <2>1. /\ Free(d) \in Seq(Clusters)
          /\ \A i \in 1..Len(Free(d)) : d.fat[Free(d)[i]] = 0
      BY FreeFacts, ImageFacts
    <2>2. QED
      BY <2>1
  <1>4. CASE us # {}
    BY <1>2, <1>4 DEF find_dir_slot, us, u
  <1>5. CASE us = {} /\ x = 0
    BY <1>5 DEF find_dir_slot, NoRoom, us
  <1>6. CASE us = {} /\ x # 0 /\ Free(d) = <<>>
    BY <1>6 DEF find_dir_slot, NoRoom, us
  <1>7. CASE us = {} /\ x # 0 /\ Free(d) # <<>>
    <2>1. find_dir_slot(d, x) = [ws |-> Extension(d, x, Head(Free(d))), rc |-> 0, at |-> <<Head(Free(d)), 1>>]
      BY <1>7 DEF find_dir_slot, us
    <2>2. QED
      BY <2>1, <1>3, <1>7 DEF us
  <1>8. QED
    BY <1>4, <1>5, <1>6, <1>7

LEMMA FoundTyped ==
  ASSUME NEW d \in ImageTypes, NEW x \in {0} \cup Clusters
  PROVE  LET s == find_dir_slot(d, x)
         IN  /\ s.ws \in Seq(Writes)
             /\ s.rc = 0 => s.at \in SlotPlaces
             /\ s.rc = 0 => FreeAfter(d, s) \in Seq(Clusters) /\ Distinct(FreeAfter(d, s))
  <1> DEFINE s == find_dir_slot(d, x)
             nc == Head(Free(d))
             u == First(Usable(d, x))
  <1>1. \/ s.ws = <<>> /\ s.rc = 0 /\ s.at = Place(DirChain(d, x), u) /\ u \in Usable(d, x)
        \/ s.ws = <<>> /\ s.rc # 0
        \/ /\ x # 0 /\ Free(d) # <<>> /\ nc \in Clusters
           /\ s.ws = Extension(d, x, nc) /\ s.rc = 0 /\ s.at = <<nc, 1>>
    BY SlotCases
  <1>2. Free(d) \in Seq(Clusters) /\ Distinct(Free(d))
    BY FreeFacts, ImageFacts
  <1>3. Free(d) # <<>> => Tail(Free(d)) \in Seq(Clusters) /\ Distinct(Tail(Free(d)))
    <2> DEFINE f == Free(d)
               t == Tail(f)
    <2>1. SUFFICES ASSUME f # <<>> PROVE t \in Seq(Clusters) /\ Distinct(t)
      OBVIOUS
    <2>2. f \in Seq(Clusters) /\ Distinct(f)
      BY <1>2
    <2> HIDE DEF f
    <2>3. t \in Seq(Clusters) /\ \A i \in DOMAIN t : i \in Nat /\ i + 1 \in DOMAIN f /\ t[i] = f[i + 1]
      BY <2>1, <2>2
    <2>4. ASSUME NEW i \in DOMAIN t, NEW j \in DOMAIN t, t[i] = t[j] PROVE i = j
      <3>1. i + 1 = j + 1
        BY <2>2, <2>3, <2>4 DEF Distinct
      <3>2. QED
        BY <3>1, <2>3
    <2>5. QED
      BY <2>3, <2>4 DEF Distinct
  <1>4. FreeAfter(d, s) = IF s.ws = <<>> THEN Free(d) ELSE Tail(Free(d))
    BY DEF FreeAfter
  <1> HIDE DEF s, nc, u
  <1>5. CASE s.ws = <<>> /\ s.rc = 0 /\ s.at = Place(DirChain(d, x), u) /\ u \in Usable(d, x)
    <2>1. s.at \in SlotPlaces
      BY <1>5, TypedCells
    <2>2. QED
      BY <1>5, <2>1, <1>2, <1>4 DEF s
  <1>6. CASE s.ws = <<>> /\ s.rc # 0
    BY <1>6 DEF s
  <1>7. CASE x # 0 /\ Free(d) # <<>> /\ nc \in Clusters /\ s.ws = Extension(d, x, nc) /\ s.rc = 0 /\ s.at = <<nc, 1>>
    <2>1. 1 \in 1..SubSlots /\ s.at \in SlotPlaces
      BY <1>7, HumanFsAssumption DEF SlotPlaces
    <2>2. Last(Chain(d, x)) \in Clusters
      BY <1>7, TypedCells
    <2>3. /\ PutData(nc, Blank) \in Writes /\ fat_set(Last(Chain(d, x)), nc) \in Writes
          /\ Exposed(fat_set(nc, Eoc)) \in Writes
      BY <1>7, <2>2, WriteKinds, SlotFacts
    <2>4. s.ws \in Seq(Writes) /\ s.ws # <<>>
      <3> DEFINE a == PutData(nc, Blank)
                 b == fat_set(Last(Chain(d, x)), nc)
                 c == Exposed(fat_set(nc, Eoc))
      <3>1. a \in Writes /\ b \in Writes /\ c \in Writes /\ s.ws = <<a, b, c>>
        BY <2>3, <1>7 DEF Extension
      <3> HIDE DEF a, b, c
      <3>2. QED
        BY <3>1
    <2>5. QED
      BY <1>7, <2>1, <2>4, <1>3, <1>4 DEF s
  <1>8. QED
    BY <1>1, <1>5, <1>6, <1>7 DEF s

LEMMA PiecesTyped ==
  ASSUME NEW cs \in Seq(Clusters), NEW id \in Nat
  PROVE  /\ Pieces(cs, id) \in Seq(Writes) /\ Len(Pieces(cs, id)) = 2 * Len(cs)
         /\ \A i \in 1..(2 * Len(cs)) :
              \E j \in 1..Len(cs) : \/ i = 2 * j /\ Pieces(cs, id)[i] = fat_set(cs[j], NextOf(cs, j))
                                    \/ i = 2 * j - 1 /\ Pieces(cs, id)[i] = PutData(cs[j], Piece(id, j))
         /\ \A j \in 1..Len(cs) : /\ 2 * j \in 1..(2 * Len(cs)) /\ 2 * j - 1 \in 1..(2 * Len(cs))
                                  /\ Pieces(cs, id)[2 * j] = fat_set(cs[j], NextOf(cs, j))
                                  /\ Pieces(cs, id)[2 * j - 1] = PutData(cs[j], Piece(id, j))
         /\ \A j \in 1..Len(cs) : cs[j] \in Clusters /\ NextOf(cs, j) \in Clusters \cup {0, Eoc}
  <1> DEFINE n == Len(cs)
             ps == Pieces(cs, id)
             half(i) == (i + 1) \div 2
  <1>1. n \in Nat
    OBVIOUS
  <1>2. \A i \in 1..(2 * n) : half(i) \in 1..n /\ (i = 2 * half(i) \/ i = 2 * half(i) - 1)
    BY <1>1
  <1>3. \A j \in 1..n : 2 * j \in 1..(2 * n) /\ 2 * j - 1 \in 1..(2 * n) /\ half(2 * j) = j /\ half(2 * j - 1) = j
    BY <1>1
  <1>4. \A j \in 1..n : cs[j] \in Clusters /\ NextOf(cs, j) \in Clusters \cup {0, Eoc}
    BY DEF NextOf
  <1>5. /\ \A i \in 1..(2 * n) : ps[i] = IF i = 2 * half(i) THEN fat_set(cs[half(i)], NextOf(cs, half(i)))
                                         ELSE PutData(cs[half(i)], Piece(id, half(i)))
        /\ DOMAIN ps = 1..(2 * n)
    BY DEF Pieces
  <1>6. ps = [i \in 1..(2 * n) |-> ps[i]]
    BY DEF Pieces
  <1> HIDE DEF ps, half, n
  <1>7. ASSUME NEW i \in 1..(2 * n)
        PROVE  /\ ps[i] \in Writes
               /\ \E j \in 1..n : \/ i = 2 * j /\ ps[i] = fat_set(cs[j], NextOf(cs, j))
                                  \/ i = 2 * j - 1 /\ ps[i] = PutData(cs[j], Piece(id, j))
    <2> DEFINE j == half(i)
    <2>1. j \in 1..n /\ (i = 2 * j \/ i = 2 * j - 1)
      BY <1>2
    <2>2. ps[i] = IF i = 2 * j THEN fat_set(cs[j], NextOf(cs, j)) ELSE PutData(cs[j], Piece(id, j))
      BY <1>5
    <2>3. fat_set(cs[j], NextOf(cs, j)) \in Writes
      BY <2>1, <1>4, WriteKinds
    <2>4. PutData(cs[j], Piece(id, j)) \in Writes
      <3>0. j \in Nat
        BY <2>1, <1>1
      <3> HIDE DEF j
      <3>1. Piece(id, j) \in Cluster
        BY <3>0, SlotFacts
      <3>2. QED
        BY <2>1, <3>1, <1>4, WriteKinds
    <2> HIDE DEF j
    <2>5. CASE i = 2 * j
      BY <2>1, <2>2, <2>3, <2>5
    <2>6. CASE i # 2 * j
      BY <2>1, <2>2, <2>4, <2>6
    <2>7. QED
      BY <2>5, <2>6
  <1>8. ASSUME NEW j \in 1..n
        PROVE  /\ ps[2 * j] = fat_set(cs[j], NextOf(cs, j))
               /\ ps[2 * j - 1] = PutData(cs[j], Piece(id, j))
    <2>1. 2 * j \in 1..(2 * n) /\ 2 * j - 1 \in 1..(2 * n) /\ half(2 * j) = j /\ half(2 * j - 1) = j
      BY <1>3
    <2>2. 2 * j - 1 # 2 * j
      BY <1>1
    <2>3. QED
      BY <2>1, <2>2, <1>5
  <1>9. ps \in Seq(Writes) /\ Len(ps) = 2 * n
    <2>1. 2 * n \in Nat
      BY <1>1
    <2>2. \A i \in 1..(2 * n) : ps[i] \in Writes
      BY <1>7
    <2> DEFINE m == 2 * n
    <2> HIDE DEF m
    <2>3. m \in Nat /\ ps = [i \in 1..m |-> ps[i]] /\ \A i \in 1..m : ps[i] \in Writes
      BY <2>1, <2>2, <1>6 DEF m
    <2>4. ps \in Seq(Writes) /\ Len(ps) = m
      BY <2>3
    <2>5. QED
      BY <2>4 DEF m
  <1>10. QED
    BY <1>3, <1>4, <1>7, <1>8, <1>9 DEF ps, n

LEMMA ReleasedTyped ==
  ASSUME NEW d \in ImageTypes, NEW c \in {0} \cup Clusters
  PROVE  LET ch == Chain(d, c) ws == Released(d, c)
         IN  /\ ch \in Seq(Clusters) /\ ws \in Seq(Writes) /\ Len(ws) = Len(ch)
             /\ \A i \in 1..Len(ch) : ch[i] \in Clusters /\ ws[i] = fat_set(ch[i], 0)
  <1> DEFINE ch == Chain(d, c)
             ws == Released(d, c)
  <1>1. ch \in Seq(Clusters)
    BY ImageFacts, ChainIsPath DEF Path
  <1>2. ws = [i \in DOMAIN ch |-> fat_set(ch[i], 0)]
    BY DEF Released
  <1> HIDE DEF ch, ws
  <1>3. DOMAIN ch = 1..Len(ch) /\ Len(ch) \in Nat /\ \A i \in 1..Len(ch) : ch[i] \in Clusters
    BY <1>1
  <1>4. \A i \in 1..Len(ch) : fat_set(ch[i], 0) \in Writes
    BY <1>3, WriteKinds
  <1>5. ws \in Seq(Writes) /\ Len(ws) = Len(ch)
    BY <1>2, <1>3, <1>4
  <1>6. QED
    BY <1>1, <1>2, <1>3, <1>5 DEF ch, ws

\* Whatever the image holds, every call writes what the image can hold.
LEMMA InjectTyped ==
  ASSUME NEW d \in ImageTypes, NEW x \in {0} \cup Clusters, NEW n \in Names, NEW z \in 0..MaxSize, NEW id \in Nat
  PROVE  h68k_inject_stream_at(d, x, n, z, id).ws \in Seq(Writes)
  <1> DEFINE s == find_dir_slot(d, x)
             free == FreeAfter(d, s)
             cs == SubSeq(free, 1, z)
             e == Slot("ent", Shown[n], FALSE, IF z = 0 THEN 0 ELSE cs[1], z)
             call == h68k_inject_stream_at(d, x, n, z, id)
  <1>0. <<>> \in Seq(Writes)
    OBVIOUS
  <1> HIDE DEF call
  <1>a. SUFFICES call.ws \in Seq(Writes)
    BY DEF call
  <1>1. \/ call.ws = <<>>
        \/ call.ws = s.ws
        \/ s.rc = 0 /\ ~(Len(free) < z) /\ call.ws = s.ws \o Filled(cs, s.at, e, id)
    BY DEF h68k_inject_stream_at, Call, Refuse, call
  <1>2. /\ s.ws \in Seq(Writes)
        /\ s.rc = 0 => s.at \in SlotPlaces
        /\ s.rc = 0 => free \in Seq(Clusters)
    BY FoundTyped
  <1>3. z \in Nat /\ Shown[n] \in Names
    BY HumanFsAssumption
  <1> HIDE DEF s, free, call
  <1>4. CASE s.rc = 0 /\ ~(Len(free) < z) /\ call.ws = s.ws \o Filled(cs, s.at, e, id)
    <2>1. cs \in Seq(Clusters) /\ Len(cs) = z /\ (z # 0 => cs[1] \in Clusters)
      <3>1. free \in Seq(Clusters) /\ z <= Len(free) /\ Len(free) \in Nat
        BY <1>2, <1>3, <1>4
      <3>2. QED
        BY <3>1, <1>3
    <2>2. e \in RootSlot
      <3> DEFINE c == IF z = 0 THEN 0 ELSE cs[1]
      <3>1. c \in {0} \cup Clusters
        BY <2>1
      <3> HIDE DEF c
      <3>2. Slot("ent", Shown[n], FALSE, c, z) \in RootSlot
        BY <3>1, <1>3, SlotFacts
      <3>3. QED
        BY <3>2 DEF c
    <2> HIDE DEF cs, e
    <2>3. PutSlot(s.at, e) \in Writes
      BY <2>2, <1>2, <1>4, WriteKinds
    <2>4. Pieces(cs, id) \in Seq(Writes)
      BY <2>1, PiecesTyped
    <2>5. <<PutSlot(s.at, e)>> \in Seq(Writes)
      BY <2>3
    <2>6. s.ws \o Filled(cs, s.at, e, id) \in Seq(Writes)
      BY <1>2, <2>4, <2>5 DEF Filled
    <2>7. QED
      BY <1>4, <2>6 DEF cs, e
  <1> HIDE DEF cs, e
  <1>5. QED
    BY <1>0, <1>1, <1>2, <1>4

LEMMA DeleteTyped ==
  ASSUME NEW d \in ImageTypes, NEW x \in {0} \cup Clusters, NEW n
  PROVE  h68k_delete(d, x, n).ws \in Seq(Writes)
  <1> DEFINE p == find_entry(d, x, n)
             e == SlotAt(d, p)
             call == h68k_delete(d, x, n)
  <1>0. <<>> \in Seq(Writes)
    OBVIOUS
  <1> HIDE DEF call
  <1>a. SUFFICES call.ws \in Seq(Writes)
    BY DEF call
  <1>1. \/ call.ws = <<>>
        \/ Named(d, x, n) # {} /\ call.ws = <<PutSlot(p, Deleted)>> \o Released(d, e.first)
    BY DEF h68k_delete, Call, Refuse, call
  <1>2. CASE Named(d, x, n) # {} /\ call.ws = <<PutSlot(p, Deleted)>> \o Released(d, e.first)
    <2>1. p \in SlotPlaces /\ e \in RootSlot
      <3> DEFINE u == First(Named(d, x, n))
      <3>1. p \in SlotPlaces /\ e = At(d, x, u) /\ At(d, x, u) \in RootSlot
        BY <1>2, FoundEntry
      <3>2. QED
        BY <3>1
    <2> HIDE DEF e, p
    <2>2. e.first \in {0} \cup Clusters
      BY <2>1 DEF RootSlot, SlotTypes
    <2>3. Released(d, e.first) \in Seq(Writes)
      BY <2>2, ReleasedTyped
    <2>4. PutSlot(p, Deleted) \in Writes
      BY <2>1, WriteKinds, SlotFacts
    <2>5. call.ws \in Seq(Writes)
      <3> DEFINE a == PutSlot(p, Deleted)
                 r == Released(d, e.first)
      <3>1. a \in Writes /\ r \in Seq(Writes) /\ call.ws = <<a>> \o r
        BY <1>2, <2>3, <2>4 DEF e, p
      <3> HIDE DEF a, r
      <3>2. QED
        BY <3>1
    <2>6. QED
      BY <2>5
  <1>3. QED
    BY <1>0, <1>1, <1>2

LEMMA RenameTyped ==
  ASSUME NEW d \in ImageTypes, NEW x \in {0} \cup Clusters, NEW n, NEW to \in Names
  PROVE  h68k_rename(d, x, n, to).ws \in Seq(Writes)
  <1> DEFINE p == find_entry(d, x, n)
             e == [SlotAt(d, p) EXCEPT !.name = Shown[to]]
             call == h68k_rename(d, x, n, to)
  <1>0. <<>> \in Seq(Writes)
    OBVIOUS
  <1> HIDE DEF call
  <1>a. SUFFICES call.ws \in Seq(Writes)
    BY DEF call
  <1>1. \/ call.ws = <<>>
        \/ Named(d, x, n) # {} /\ call.ws = <<PutSlot(p, e)>>
    BY DEF h68k_rename, Call, Refuse, call
  <1>2. CASE Named(d, x, n) # {} /\ call.ws = <<PutSlot(p, e)>>
    <2>1. p \in SlotPlaces /\ SlotAt(d, p) \in RootSlot
      <3> DEFINE u == First(Named(d, x, n))
      <3>1. p \in SlotPlaces /\ SlotAt(d, p) = At(d, x, u) /\ At(d, x, u) \in RootSlot
        BY <1>2, FoundEntry
      <3>2. QED
        BY <3>1
    <2>2. e \in RootSlot
      <3>1. Shown[to] \in Names
        BY HumanFsAssumption
      <3> HIDE DEF p
      <3>2. QED
        BY <2>1, <3>1 DEF RootSlot, SlotTypes
    <2>3. PutSlot(p, e) \in Writes
      BY <2>1, <2>2, WriteKinds
    <2>4. QED
      BY <1>2, <2>3
  <1>3. QED
    BY <1>0, <1>1, <1>2

LEMMA MoveTyped ==
  ASSUME NEW d \in ImageTypes, NEW x \in {0} \cup Clusters, NEW y \in {0} \cup Clusters, NEW n
  PROVE  h68k_move(d, x, n, y).ws \in Seq(Writes)
  <1> DEFINE p == find_entry(d, x, n)
             e == SlotAt(d, p)
             s == find_dir_slot(d, y)
             call == h68k_move(d, x, n, y)
  <1>0. <<>> \in Seq(Writes)
    OBVIOUS
  <1> HIDE DEF call
  <1>a. SUFFICES call.ws \in Seq(Writes)
    BY DEF call
  <1>1. \/ call.ws = <<>>
        \/ /\ Named(d, x, n) # {} /\ s.rc = 0
           /\ call.ws = s.ws \o <<PutSlot(s.at, e), Exposed(PutSlot(p, Deleted))>>
    BY DEF h68k_move, Call, Refuse, call
  <1>2. CASE /\ Named(d, x, n) # {} /\ s.rc = 0
             /\ call.ws = s.ws \o <<PutSlot(s.at, e), Exposed(PutSlot(p, Deleted))>>
    <2>1. p \in SlotPlaces /\ e \in RootSlot
      <3> DEFINE u == First(Named(d, x, n))
      <3>1. p \in SlotPlaces /\ e = At(d, x, u) /\ At(d, x, u) \in RootSlot
        BY <1>2, FoundEntry
      <3>2. QED
        BY <3>1
    <2>2. s.ws \in Seq(Writes) /\ s.at \in SlotPlaces
      BY <1>2, FoundTyped
    <2>3. PutSlot(s.at, e) \in Writes /\ Exposed(PutSlot(p, Deleted)) \in Writes
      BY <2>1, <2>2, WriteKinds, SlotFacts
    <2> DEFINE a == PutSlot(s.at, e)
               b == Exposed(PutSlot(p, Deleted))
    <2>4. a \in Writes /\ b \in Writes /\ call.ws = s.ws \o <<a, b>>
      BY <1>2, <2>3
    <2> HIDE DEF a, b, s, call
    <2>5. call.ws \in Seq(Writes)
      BY <2>2, <2>4
    <2>6. QED
      BY <2>5
  <1>3. QED
    BY <1>0, <1>1, <1>2

LEMMA MkdirTyped ==
  ASSUME NEW d \in ImageTypes, NEW x \in {0} \cup Clusters, NEW n \in Names
  PROVE  h68k_mkdir(d, x, n).ws \in Seq(Writes)
  <1> DEFINE s == find_dir_slot(d, x)
             free == FreeAfter(d, s)
             c == Head(free)
             e == Slot("ent", Shown[n], TRUE, c, 0)
             call == h68k_mkdir(d, x, n)
  <1>0. <<>> \in Seq(Writes)
    OBVIOUS
  <1> HIDE DEF call
  <1>a. SUFFICES call.ws \in Seq(Writes)
    BY DEF call
  <1>1. \/ call.ws = <<>>
        \/ call.ws = s.ws
        \/ /\ s.rc = 0 /\ free # <<>>
           /\ call.ws = s.ws \o <<fat_set(c, Eoc), PutData(c, Blank)>> \o DotEntries(c, x, s.at)
                          \o <<PutSlot(s.at, e)>>
    BY DEF h68k_mkdir, Call, Refuse, call
  <1>2. s.ws \in Seq(Writes) /\ (s.rc = 0 => s.at \in SlotPlaces /\ free \in Seq(Clusters))
    BY FoundTyped
  <1>3. CASE /\ s.rc = 0 /\ free # <<>>
             /\ call.ws = s.ws \o <<fat_set(c, Eoc), PutData(c, Blank)>> \o DotEntries(c, x, s.at)
                            \o <<PutSlot(s.at, e)>>
    <2>1. c \in Clusters /\ s.at \in SlotPlaces
      <3> HIDE DEF free
      <3>1. QED
        BY <1>2, <1>3
    <2> HIDE DEF c, s, free, call
    <2>2. fat_set(c, Eoc) \in Writes /\ PutData(c, Blank) \in Writes
      BY <2>1, WriteKinds, SlotFacts
    <2>a. SubSlots \in Nat /\ SubSlots > 2
      BY HumanFsAssumption
    <2>b. 1 \in 1..SubSlots /\ 2 \in 1..SubSlots
      BY ONLY <2>a
    <2>3. Dot(c) \in SubSlot /\ Dot(x) \in SubSlot /\ 1 \in 1..SubSlots /\ 2 \in 1..SubSlots
      BY <2>1, <2>b, SlotFacts
    <2>4. PutSlot(<<c, 1>>, Dot(c)) \in Writes /\ PutSlot(<<c, 2>>, Dot(x)) \in Writes
      BY <2>1, <2>3, WriteKinds
    <2>5. e \in RootSlot
      <3> DEFINE b == TRUE
                 z == 0
      <3>1. b \in BOOLEAN /\ z \in 0..MaxSize /\ Shown[n] \in Names /\ c \in {0} \cup Clusters
        BY <2>1, HumanFsAssumption
      <3> HIDE DEF b, z
      <3>2. Slot("ent", Shown[n], b, c, z) \in RootSlot
        BY <3>1, SlotFacts
      <3>3. QED
        BY <3>2 DEF b, z
    <2>6. PutSlot(s.at, e) \in Writes
      BY <2>1, <2>5, WriteKinds
    <2> DEFINE w1 == fat_set(c, Eoc)
               w2 == PutData(c, Blank)
               w3 == PutSlot(<<c, 1>>, Dot(c))
               w4 == PutSlot(<<c, 2>>, Dot(x))
               w5 == PutSlot(s.at, e)
    <2>7. /\ call.ws = s.ws \o <<w1, w2>> \o <<w3, w4>> \o <<w5>>
          /\ w1 \in Writes /\ w2 \in Writes /\ w3 \in Writes /\ w4 \in Writes /\ w5 \in Writes
      BY <1>3, <2>2, <2>4, <2>6 DEF DotEntries
    <2> HIDE DEF w1, w2, w3, w4, w5
    <2>8. call.ws \in Seq(Writes)
      BY <1>2, <2>7
    <2>9. QED
      BY <2>8 DEF call
  <1> HIDE DEF s, free, c, e
  <1>4. QED
    BY <1>0, <1>1, <1>2, <1>3

-----------------------------------------------------------------------------
(***************************************************************************)
(* 10. The calls: each of their writes leaves a sound image, or closes a   *)
(* window that is marked as one.                                           *)
(***************************************************************************)
SameList(d, e, D) ==
  \A y \in D : /\ ListedIn(e, y) = ListedIn(d, y)
               /\ \A v \in ListedIn(d, y) : At(e, y, v) = At(d, y, v)

LEMMA ReadyListed ==
  ASSUME NEW d, NEW D, NEW nx, Ready(d, D, nx), NEW e, SameList(d, e, D)
  PROVE  Ready(e, D, nx)
  BY DEF Ready, SameList

LEMMA SameDirsList ==
  ASSUME NEW d, NEW D, Tree(d, D), NEW e, SameDirs(d, e, D)
  PROVE  SameList(d, e, D)
  BY TreeFacts DEF SameDirs, SameList

LEMMA FreeSpare ==
  ASSUME NEW d, NEW D, Tree(d, D)
  PROVE  \A i \in 1..Len(Free(d)) : Free(d)[i] \in Clusters /\ d.fat[Free(d)[i]] = 0 /\ Spare(d, D, Free(d)[i])
  <1>1. d.fat \in Fat /\ \A c \in Clusters : d.fat[c] = 0 => Spare(d, D, c)
    BY TreeFacts
  <1>2. Free(d) \in Seq(Clusters) /\ \A i \in 1..Len(Free(d)) : d.fat[Free(d)[i]] = 0
    BY <1>1, FreeFacts
  <1>3. QED
    BY <1>1, <1>2

\* The slot s.at is usable on e, in the directory x, and no end mark precedes it.
Open(e, x, at, u) ==
  /\ u \in CellsOf(e, x) /\ at = Place(DirChain(e, x), u)
  /\ At(e, x, u).k # "ent"
  /\ \A v \in CellsOf(e, x) : Before(v, u) => At(e, x, v).k # "00"
\* Where a slot has been found, on e: the tree of d, and what is left is spare.
Opened(d, D, x, s, nx, e) ==
  /\ Reaches(d, s.ws, e, nx) /\ Tree(e, D) /\ Ready(e, D, nx) /\ SameList(d, e, D)
  /\ \E u : Open(e, x, s.at, u)
  /\ \A y \in D : y # x => DirChain(e, y) = DirChain(d, y)
  /\ \A i \in 1..Len(FreeAfter(d, s)) : Spare(e, D, FreeAfter(d, s)[i])

LEMMA SlotThere ==
  ASSUME NEW d, NEW D, Tree(d, D), NEW x \in D, NEW nx, Ready(d, D, nx),
         NEW s, s.ws = <<>>, NEW u \in Usable(d, x), s.at = Place(DirChain(d, x), u),
         \A v \in Usable(d, x) : ~Before(v, u)
  PROVE  Opened(d, D, x, s, nx, d)
  <1>1. Usable(d, x) = {v \in CellsOf(d, x) : At(d, x, v).k \in {"00", "E5"}}
    BY DEF Usable, CellsOf, At
  <1>2. Open(d, x, s.at, u)
    BY <1>1 DEF Open
  <1>3. SameList(d, d, D)
    BY DEF SameList
  <1>4. FreeAfter(d, s) = Free(d)
    BY DEF FreeAfter
  <1>5. QED
    BY <1>2, <1>3, <1>4, FreeSpare, ReachesNil DEF Opened

LEMMA SlotAdded ==
  ASSUME NEW d, NEW D, Tree(d, D), NEW x \in D, x # 0, NEW nx, Ready(d, D, nx),
         Usable(d, x) = {}, Free(d) # <<>>, NEW s, s.ws = Extension(d, x, Head(Free(d))),
         s.at = <<Head(Free(d)), 1>>
  PROVE  \E e : Opened(d, D, x, s, nx, e)
  <1> DEFINE nc == Head(Free(d))
             last == Last(Chain(d, x))
             w1 == PutData(nc, Blank)
             w2 == fat_set(last, nc)
             w3 == Exposed(fat_set(nc, Eoc))
             d1 == Apply(d, w1)
             d2 == Apply(d1, w2)
             f == Apply(d2, w3)
  <1>1. d \in ImageTypes /\ d.fat \in Fat /\ d.cont \in [Clusters -> Cluster] /\ Skeleton(d, D)
    BY TreeFacts, ImageFacts
  <1>2. nc \in Clusters /\ d.fat[nc] = 0 /\ Spare(d, D, nc) /\ nc = Free(d)[1]
    <2>1. Free(d) \in Seq(Clusters)
      BY <1>1, FreeFacts
    <2>2. 1 \in 1..Len(Free(d)) /\ nc = Free(d)[1]
      BY <2>1
    <2>3. QED
      BY <2>2, FreeSpare
  <1>3. last \in Clusters /\ d.fat[last] # 0 /\ last # nc /\ DirChain(d, x) = Chain(d, x)
    <2>1. x \in Clusters /\ Ends(d, x) /\ DirChain(d, x) = Chain(d, x)
      BY <1>1, DirFacts
    <2>2. Chain(d, x) \in Seq(Clusters) /\ Len(Chain(d, x)) >= 1
          /\ \A k \in ToSet(Chain(d, x)) : k \in Clusters /\ d.fat[k] # 0
      BY <1>1, <2>1, EndsFacts
    <2> DEFINE ch == Chain(d, x)
    <2> HIDE DEF ch
    <2>3. ch[Len(ch)] \in ToSet(ch) /\ last = ch[Len(ch)]
      BY <2>2 DEF ch, ToSet, Last
    <2>4. last \in ToSet(Chain(d, x))
      BY <2>3 DEF ch
    <2>5. QED
      BY <2>1, <2>2, <2>4, <1>2
  <1> HIDE DEF nc, last
  <1>4. d1 \in ImageTypes /\ d1.cont = [d.cont EXCEPT ![nc] = Blank] /\ d1.root = d.root /\ d1.fat = d.fat
    <2> DEFINE o == FALSE
    <2>1. w1 = Write("data", nc, Blank, o) /\ Blank \in Cluster
      BY SlotFacts DEF PutData
    <2> HIDE DEF o
    <2>2. QED
      BY <2>1, <1>1, <1>2, ApplyData
  <1> HIDE DEF d1
  <1>5. d2 \in ImageTypes /\ d2.fat = [d1.fat EXCEPT ![last] = nc] /\ d2.root = d1.root /\ d2.cont = d1.cont
    <2> DEFINE o == FALSE
    <2>1. w2 = Write("fat", last, nc, o)
      BY DEF fat_set
    <2> HIDE DEF o
    <2>2. QED
      BY <2>1, <1>2, <1>3, <1>4, ApplyFat
  <1> HIDE DEF d2
  <1>6. f \in ImageTypes /\ f.fat = [d2.fat EXCEPT ![nc] = Eoc] /\ f.root = d2.root /\ f.cont = d2.cont
    <2> DEFINE o == TRUE
               v == Eoc
    <2>1. w3 = Write("fat", nc, v, o)
      BY DEF fat_set, Exposed, Write
    <2>2. d2 \in ImageTypes /\ nc \in Clusters /\ v \in Clusters \cup {0, Eoc}
      BY <1>2, <1>5
    <2> HIDE DEF o, v, w3
    <2>3. LET g == Apply(d2, Write("fat", nc, v, o))
          IN  g \in ImageTypes /\ g.fat = [d2.fat EXCEPT ![nc] = v] /\ g.root = d2.root /\ g.cont = d2.cont
      BY <2>2, ApplyFat
    <2>4. QED
      BY <2>1, <2>3 DEF v
  <1> HIDE DEF f
  <1>7. /\ f.cont = d1.cont /\ f.root = d1.root
        /\ \A k \in Clusters : f.fat[k] = IF k = nc THEN Eoc ELSE IF k = last THEN nc ELSE d1.fat[k]
        /\ d1.cont[nc] = Blank
        /\ \A k \in Clusters : k # nc => d1.cont[k] = d.cont[k]
    BY <1>1, <1>2, <1>3, <1>4, <1>5, <1>6 DEF Fat
  <1>8. /\ Tree(d1, D) /\ SameDirs(d, d1, D)
        /\ \A c : Spare(d1, D, c) <=> Spare(d, D, c)
    <2>1. \A c \in Clusters : Spare(d, D, c) \/ (d1.fat[c] = d.fat[c] /\ d1.cont[c] = d.cont[c])
      BY <1>2, <1>4, <1>7
    <2>2. QED
      BY <2>1, <1>4, Frame
  <1>9. Ready(d1, D, nx) /\ SameList(d, d1, D)
    BY <1>8, ReadyKept, SameDirsList
  <1>10. Reaches(d, s.ws, f, nx)
    <2>1. Safe(d, w1, nx) /\ Safe(d1, w2, nx)
      BY <1>8, <1>9, GoodIsSafe
    <2>2. Safe(d2, w3, nx)
      BY DEF Safe, Exposed, Write
    <2>3. s.ws = Append(Append(<<w1>>, w2), w3)
      BY DEF Extension, nc, last
    <2> HIDE DEF w1, w2, w3
    <2>4. Reaches(d, <<w1>>, d1, nx)
      BY <2>1, ReachesOne DEF d1
    <2> DEFINE X == {w1, w2, w3}
               v1 == <<w1>>
               v2 == Append(v1, w2)
    <2>5. v1 \in Seq(X) /\ v2 \in Seq(X) /\ w2 \in X /\ w3 \in X
      OBVIOUS
    <2> HIDE DEF X, v1, v2
    <2>6. Reaches(d, v1, d1, nx)
      BY <2>4 DEF v1
    <2>7. Reaches(d, Append(v1, w2), d2, nx)
      BY <2>1, <2>5, <2>6, ReachesNext, Zenon DEF d2
    <2>8. Reaches(d, v2, d2, nx)
      BY <2>7 DEF v2
    <2>9. Reaches(d, Append(v2, w3), f, nx)
      BY <2>2, <2>5, <2>8, ReachesNext, Zenon DEF f
    <2>10. QED
      BY <2>3, <2>9 DEF v1, v2
  <1> HIDE DEF w1, w2, w3
  <1>11. Chain(d1, x) = Chain(d, x)
    <2>1. DirChain(d1, x) = DirChain(d, x)
      BY <1>8 DEF SameDirs
    <2>2. QED
      BY <2>1 DEF DirChain
  <1>12. \A u \in CellsOf(d1, x) : At(d1, x, u).k \notin {"00", "E5"}
    <2>1. CellsOf(d1, x) = CellsOf(d, x) /\ \A u \in CellsOf(d, x) : At(d1, x, u) = At(d, x, u)
      BY <1>8 DEF SameDirs, CellsOf
    <2>2. Usable(d, x) = {v \in CellsOf(d, x) : At(d, x, v).k \in {"00", "E5"}}
      BY DEF Usable, CellsOf, At
    <2>3. QED
      BY <2>1, <2>2
  <1> DEFINE u == <<Len(Chain(d1, x)) + 1, 1>>
  <1>13. /\ Tree(f, D) /\ \A k : k # nc /\ Spare(d1, D, k) => Spare(f, D, k)
         /\ \A y \in D : ListedIn(f, y) = ListedIn(d1, y)
         /\ \A y \in D : \A v \in ListedIn(d1, y) : At(f, y, v) = At(d1, y, v)
         /\ u \in CellsOf(f, x) /\ Place(DirChain(f, x), u) = <<nc, 1>> /\ At(f, x, u).k = "00"
         /\ \A v \in CellsOf(f, x) : Before(v, u) => At(f, x, v).k # "00"
    <2>1. f.fat[Last(Chain(d1, x))] = nc /\ f.fat[nc] = Eoc
      BY <1>2, <1>3, <1>7, <1>11 DEF last
    <2>2. \A k \in Clusters \ {nc, Last(Chain(d1, x))} : f.fat[k] = d1.fat[k]
      BY <1>7, <1>11 DEF last
    <2>3. nc \in Clusters /\ Spare(d1, D, nc) /\ d1.cont[nc] = Blank /\ f \in ImageTypes
          /\ f.root = d1.root /\ f.cont = d1.cont
      BY <1>2, <1>6, <1>7, <1>8
    <2>4. QED
      BY <2>1, <2>2, <2>3, <1>8, <1>12, Extended
  <1>14. SameList(d, f, D)
    BY <1>9, <1>13 DEF SameList
  <1>15. Open(f, x, s.at, u)
    <2> HIDE DEF u
    <2>1. QED
      BY <1>13 DEF Open, nc
  <1>16. ASSUME NEW i \in 1..Len(FreeAfter(d, s)) PROVE Spare(f, D, FreeAfter(d, s)[i])
    <2> DEFINE fr == Free(d)
    <2>1. s.ws # <<>>
      BY DEF Extension
    <2>2. FreeAfter(d, s) = Tail(fr) /\ fr \in Seq(Clusters) /\ Distinct(fr) /\ fr # <<>>
      BY <2>1, <1>1, FreeFacts DEF FreeAfter
    <2>3. fr[1] = nc /\ \A j \in 1..Len(fr) : Spare(d, D, fr[j])
      BY <1>2, FreeSpare
    <2> HIDE DEF fr
    <2>4. i + 1 \in 1..Len(fr) /\ 1 \in 1..Len(fr) /\ i + 1 # 1 /\ FreeAfter(d, s)[i] = fr[i + 1]
      BY <2>2
    <2>5. fr[i + 1] # nc
      BY <2>2, <2>3, <2>4 DEF Distinct
    <2>6. QED
      BY <2>3, <2>4, <2>5, <1>8, <1>13
  <1>17. ASSUME NEW y \in D, y # x PROVE DirChain(f, y) = DirChain(d, y)
    <2>1. CASE y = 0
      BY <2>1 DEF DirChain
    <2>2. CASE y # 0
      <3>1. Skeleton(d1, D) /\ d1.fat \in Fat /\ f.fat \in Fat
        BY <1>4, <1>6, <1>8, TreeFacts, ImageFacts
      <3>2. y \in Clusters /\ Ends(d1, y) /\ DirChain(d1, y) = Chain(d1, y)
            /\ \A k \in ToSet(Chain(d1, y)) : k \in Clusters /\ d1.fat[k] # 0
        BY <2>2, <3>1, DirFacts
      <3>3. last \in ToSet(DirChain(d1, x))
        <4> DEFINE ch == Chain(d, x)
        <4>1. ch \in Seq(Clusters) /\ Len(ch) >= 1 /\ DirChain(d1, x) = ch
          <5>1. x \in Clusters /\ Ends(d, x) /\ DirChain(d, x) = ch
            BY <1>1, DirFacts
          <5>2. ch \in Seq(Clusters) /\ Len(ch) >= 1
            BY <1>1, <5>1, EndsFacts
          <5>3. QED
            BY <5>1, <5>2, <1>8 DEF SameDirs
        <4>2. last = Last(ch)
          BY DEF last
        <4> HIDE DEF ch
        <4>3. last = ch[Len(ch)] /\ Len(ch) \in DOMAIN ch
          BY <4>1, <4>2 DEF Last
        <4>4. QED
          BY <4>1, <4>3 DEF ToSet
      <3>4. ToSet(DirChain(d1, x)) \cap ToSet(DirChain(d1, y)) = {}
        BY <3>1, <1>17 DEF Skeleton
      <3>5. \A k \in ToSet(Chain(d1, y)) : f.fat[k] = d1.fat[k]
        BY <3>2, <3>3, <3>4, <1>2, <1>4, <1>7
      <3>6. Chain(f, y) = Chain(d1, y)
        BY <3>1, <3>2, <3>5, ChainKept
      <3>7. DirChain(d1, y) = DirChain(d, y)
        BY <1>8 DEF SameDirs
      <3>8. QED
        BY <2>2, <3>2, <3>6, <3>7 DEF DirChain
    <2>3. QED
      BY <2>1, <2>2
  <1>18. QED
    BY <1>9, <1>10, <1>13, <1>14, <1>15, <1>16, <1>17, ReadyListed DEF Opened

LEMMA SlotFound ==
  ASSUME NEW d, NEW D, Tree(d, D), NEW x \in D, NEW nx, Ready(d, D, nx)
  PROVE  LET s == find_dir_slot(d, x)
         IN  /\ s.rc # 0 => s.ws = <<>>
             /\ s.rc = 0 => \E e : Opened(d, D, x, s, nx, e)
  <1> DEFINE s == find_dir_slot(d, x)
             nc == Head(Free(d))
             u == First(Usable(d, x))
  <1>0. d \in ImageTypes /\ x \in {0} \cup Clusters
    BY TreeFacts DEF Skeleton
  <1>1. \/ /\ s.ws = <<>> /\ s.rc = 0 /\ s.at = Place(DirChain(d, x), u)
           /\ u \in Usable(d, x) /\ \A v \in Usable(d, x) : ~Before(v, u)
        \/ s.ws = <<>> /\ s.rc # 0
        \/ /\ Usable(d, x) = {} /\ x # 0 /\ Free(d) # <<>>
           /\ s.ws = Extension(d, x, nc) /\ s.rc = 0 /\ s.at = <<nc, 1>>
    BY <1>0, SlotCases
  <1> SUFFICES /\ s.rc # 0 => s.ws = <<>>
               /\ s.rc = 0 => \E e : Opened(d, D, x, s, nx, e)
    OBVIOUS
  <1> HIDE DEF s, u
  <1>2. CASE /\ s.ws = <<>> /\ s.rc = 0 /\ s.at = Place(DirChain(d, x), u)
             /\ u \in Usable(d, x) /\ \A v \in Usable(d, x) : ~Before(v, u)
    <2>1. Opened(d, D, x, s, nx, d)
      BY <1>2, SlotThere
    <2>2. QED
      BY <1>2, <2>1
  <1>3. CASE s.ws = <<>> /\ s.rc # 0
    BY <1>3
  <1>4. CASE /\ Usable(d, x) = {} /\ x # 0 /\ Free(d) # <<>>
             /\ s.ws = Extension(d, x, nc) /\ s.rc = 0 /\ s.at = <<nc, 1>>
    <2>1. \E e : Opened(d, D, x, s, nx, e)
      BY <1>4, SlotAdded
    <2>2. QED
      BY <1>4, <2>1
  <1>5. QED
    BY <1>1, <1>2, <1>3, <1>4

LEMMA SameDirsTrans ==
  ASSUME NEW d, NEW e, NEW f, NEW D, SameDirs(d, e, D), SameDirs(e, f, D)
  PROVE  SameDirs(d, f, D)
  BY DEF SameDirs

LEMMA SameListTrans ==
  ASSUME NEW d, NEW e, NEW f, NEW D, SameList(d, e, D), SameList(e, f, D)
  PROVE  SameList(d, f, D)
  BY DEF SameList

LEMMA OpenKept ==
  ASSUME NEW d, NEW e, NEW D, SameDirs(d, e, D), NEW x \in D, NEW at, NEW u, Open(d, x, at, u)
  PROVE  Open(e, x, at, u)
  BY DEF SameDirs, Open

\* No entry of the directory x is listed under n.
Unnamed(d, x, n) == AsGiven => \A v \in ListedIn(d, x) : At(d, x, v).name # n

LEMMA UnnamedKept ==
  ASSUME NEW d, NEW e, NEW D, SameList(d, e, D), NEW x \in D, NEW n, Unnamed(d, x, n)
  PROVE  Unnamed(e, x, n)
  BY DEF SameList, Unnamed

LEMMA NotNamed ==
  ASSUME NEW d, NEW x, NEW n \in Names, Named(d, x, n) = {}
  PROVE  Unnamed(d, x, Shown[n]) /\ Unnamed(d, x, n)
  BY DEF Named, Unnamed, AsGiven, ListedIn, At

\* An entry written to the slot that was found for it.
LEMMA EntryPut ==
  ASSUME NEW d, NEW D, Tree(d, D), NEW x \in D, NEW at, NEW u, Open(d, x, at, u),
         NEW s \in RootSlot, s.k = "ent", NEW o, EntrySound(d, D, s),
         \A y \in D : \A v \in ListedIn(d, y) : Apart(d, s, At(d, y, v)), Unnamed(d, x, s.name)
  PROVE  Tree(Apply(d, Write("slot", at, s, o)), D)
  <1> DEFINE e == Apply(d, Write("slot", at, s, o))
  <1>1. u \in CellsOf(d, x) /\ at = Place(DirChain(d, x), u) /\ At(d, x, u).k # "ent"
        /\ \A v \in CellsOf(d, x) : Before(v, u) => At(d, x, v).k # "00"
    BY DEF Open
  <1>2. Skeleton(d, D)
    BY TreeFacts
  <1>3. SlotChange(d, e, D, x, u, s)
    BY <1>1, <1>2, OneSlot
  <1>4. AsGiven => \A v \in ListedIn(d, x) : At(d, x, v).name # s.name
    BY DEF Unnamed
  <1> HIDE DEF e
  <1>5. Tree(e, D)
    BY <1>1, <1>3, <1>4, Inserted
  <1>6. QED
    BY <1>5 DEF e

\* Before an entry no slot is an end mark.
LEMMA EntrySlot ==
  ASSUME NEW d, NEW D, Skeleton(d, D), NEW x \in D, NEW u \in CellsOf(d, x), At(d, x, u).k = "ent"
  PROVE  \A v \in CellsOf(d, x) : Before(v, u) => At(d, x, v).k # "00"
  BY DEF Skeleton

LEMMA EntryFreed ==
  ASSUME NEW d, NEW D, Skeleton(d, D), NEW x \in D, NEW u \in CellsOf(d, x), At(d, x, u).k = "ent", NEW o
  PROVE  SlotChange(d, Apply(d, Write("slot", Place(DirChain(d, x), u), Deleted, o)), D, x, u, Deleted)
  <1>1. \A v \in CellsOf(d, x) : Before(v, u) => At(d, x, v).k # "00"
    BY EntrySlot
  <1>2. Deleted \in RootSlot /\ Deleted.k # "00"
    BY SlotFacts DEF Deleted, Slot
  <1>3. QED
    BY <1>1, <1>2, OneSlot

\* An entry found by name, in a sound image.
LEMMA FoundSound ==
  ASSUME NEW d, NEW D, Tree(d, D), NEW x \in D, NEW n, Named(d, x, n) # {}
  PROVE  \E u : /\ u \in ListedIn(d, x) /\ u \in CellsOf(d, x) /\ At(d, x, u).name = n /\ At(d, x, u).k = "ent"
                /\ find_entry(d, x, n) = Place(DirChain(d, x), u)
                /\ SlotAt(d, find_entry(d, x, n)) = At(d, x, u) /\ At(d, x, u) \in RootSlot
                /\ EntrySound(d, D, At(d, x, u))
                /\ \A y \in D : \A v \in ListedIn(d, y) : <<x, u>> # <<y, v>> => Apart(d, At(d, x, u), At(d, y, v))
                /\ AsGiven => \A v \in ListedIn(d, x) : v # u => At(d, x, v).name # n
  <1> DEFINE u == First(Named(d, x, n))
  <1>1. d \in ImageTypes /\ x \in {0} \cup Clusters
    BY TreeFacts DEF Skeleton
  <1>2. /\ u \in ListedIn(d, x) /\ u \in CellsOf(d, x) /\ At(d, x, u).name = n /\ At(d, x, u).k = "ent"
        /\ find_entry(d, x, n) = Place(DirChain(d, x), u)
        /\ SlotAt(d, find_entry(d, x, n)) = At(d, x, u) /\ At(d, x, u) \in RootSlot
    BY <1>1, FoundEntry
  <1> HIDE DEF u
  <1>3. EntrySound(d, D, At(d, x, u))
    BY <1>2, TreeFacts
  <1>4. /\ \A y \in D : \A v \in ListedIn(d, y) : <<x, u>> # <<y, v>> => Apart(d, At(d, x, u), At(d, y, v))
        /\ AsGiven => \A v \in ListedIn(d, x) : v # u => At(d, x, v).name # n
    <2>1. \A y \in D : \A v \in ListedIn(d, y) : <<x, u>> # <<y, v>> =>
             /\ Apart(d, At(d, x, u), At(d, y, v))
             /\ x = y /\ AsGiven => At(d, x, u).name # At(d, y, v).name
      BY <1>2 DEF Tree
    <2>2. QED
      BY <2>1, <1>2
  <1>5. QED
    BY <1>2, <1>3, <1>4

\* The clusters of a chain that nothing refers to any more, released one by one.
LEMMA Release ==
  ASSUME NEW d, d \in ImageTypes, NEW f, NEW D, Tree(f, D), NEW nx, Ready(f, D, nx),
         NEW c \in {0} \cup Clusters, Ends(d, c),
         \A k \in ToSet(Chain(d, c)) : Spare(f, D, k)
  PROVE  Plan(f, Released(d, c), nx)
  <1> DEFINE ch == Chain(d, c)
             ws == Released(d, c)
  <1>1. /\ ch \in Seq(Clusters) /\ ws \in Seq(Writes) /\ Len(ws) = Len(ch)
        /\ \A i \in 1..Len(ch) : ch[i] \in Clusters /\ ws[i] = fat_set(ch[i], 0)
    BY ReleasedTyped
  <1>2. Distinct(ch)
    BY ImageFacts, EndsFacts
  <1>3. \A k \in ToSet(ch) : Spare(f, D, k)
    OBVIOUS
  <1> HIDE DEF ch, ws
  <1>4. ASSUME NEW i \in 1..Len(ws) PROVE SpareWrite(f, D, ws[i])
    <2>1. i \in 1..Len(ch) /\ ch[i] \in Clusters /\ ch[i] \in ToSet(ch) /\ ws[i] = fat_set(ch[i], 0)
      BY <1>1 DEF ToSet
    <2>2. Spare(f, D, ch[i])
      BY <2>1, <1>3
    <2>3. QED
      BY <2>1, <2>2 DEF SpareWrite
  <1>5. \A i, j \in 1..Len(ws) : ws[i].w = ws[j].w /\ ws[i].at = ws[j].at => i = j
    <2>1. \A i \in 1..Len(ws) : ws[i].at = ch[i] /\ i \in DOMAIN ch
      <3>1. SUFFICES ASSUME NEW i \in 1..Len(ws) PROVE ws[i].at = ch[i] /\ i \in DOMAIN ch
        OBVIOUS
      <3>2. i \in 1..Len(ch) /\ ws[i] = fat_set(ch[i], 0)
        BY <1>1
      <3>3. ws[i].at = ch[i]
        BY <3>2 DEF fat_set, Write
      <3>4. QED
        BY <3>2, <3>3, <1>1
    <2>2. QED
      BY <2>1, <1>2 DEF Distinct
  <1>6. PICK e : Reaches(f, ws, e, nx) /\ Tree(e, D) /\ Ready(e, D, nx)
    BY <1>1, <1>4, <1>5, FrameReach
  <1>7. Plan(f, ws, nx)
    BY <1>6 DEF Plan, Good
  <1>8. QED
    BY <1>7 DEF ws

\* What h68k_delete leaves to do, in an overwrite or by itself.
LEMMA DeletePlan ==
  ASSUME NEW d, NEW D, Tree(d, D), NEW x \in D, NEW n, NEW nx,
         nx = NoNext \/ (nx.dir = x /\ nx.name = n /\ Named(d, x, n) # {} /\ h68k_delete(d, x, n).rc # 6)
  PROVE  Plan(d, h68k_delete(d, x, n).ws, nx)
  <1> DEFINE p == find_entry(d, x, n)
             e == SlotAt(d, p)
             call == h68k_delete(d, x, n)
  <1>1. d \in ImageTypes /\ d.fat \in Fat /\ Skeleton(d, D) /\ D \subseteq {0} \cup Clusters
    BY TreeFacts DEF Skeleton
  <1>2. CASE nx = NoNext /\ call.ws = <<>>
    <2>1. Good(d, nx)
      BY <1>2, GoodIsSafe DEF Ready
    <2>2. QED
      BY <1>2, <2>1, PlanNil
  <1>3. CASE /\ Named(d, x, n) # {} /\ (e.dir => dir_is_empty(d, e.first))
             /\ call.ws = <<PutSlot(p, Deleted)>> \o Released(d, e.first)
    <2>1. PICK u : /\ u \in ListedIn(d, x) /\ u \in CellsOf(d, x) /\ At(d, x, u).name = n /\ At(d, x, u).k = "ent"
                   /\ p = Place(DirChain(d, x), u) /\ e = At(d, x, u) /\ At(d, x, u) \in RootSlot
                   /\ EntrySound(d, D, At(d, x, u))
                   /\ \A y \in D : \A v \in ListedIn(d, y) : <<x, u>> # <<y, v>> => Apart(d, At(d, x, u), At(d, y, v))
                   /\ AsGiven => \A v \in ListedIn(d, x) : v # u => At(d, x, v).name # n
      BY <1>3, FoundSound
    <2> DEFINE o == FALSE
               w == Write("slot", p, Deleted, o)
               f == Apply(d, w)
               rs == Released(d, e.first)
    <2>2. w = PutSlot(p, Deleted) /\ w.w = "slot" /\ ~w.open
      BY DEF PutSlot, Write
    <2>3. call.ws = <<w>> \o rs
      BY <1>3, <2>2
    <2> HIDE DEF o, p, e, call, rs
    <2>4. SlotChange(d, f, D, x, u, Deleted)
      BY <1>1, <2>1, EntryFreed
    <2> HIDE DEF f
    <2>5. /\ Tree(f, D)
          /\ \A y \in D : ListedIn(f, y) = IF y = x THEN ListedIn(d, y) \ {u} ELSE ListedIn(d, y)
          /\ \A y \in D : \A v \in ListedIn(f, y) : v \in ListedIn(d, y) /\ At(f, y, v) = At(d, y, v)
      BY <2>1, <2>4, Erased
    <2>6. f.fat = d.fat /\ \A y \in D : DirChain(f, y) = DirChain(d, y)
      BY <2>4 DEF SlotChange
    <2>7. Ready(f, D, nx)
      <3>1. SUFFICES ASSUME nx # NoNext PROVE nx.dir \in D /\ (AsGiven => \A v \in ListedIn(f, nx.dir) : At(f, nx.dir, v).name # nx.name)
        BY DEF Ready
      <3>2. nx.dir = x /\ nx.name = n
        BY <3>1
      <3>3. \A v \in ListedIn(f, x) : v \in ListedIn(d, x) /\ v # u /\ At(f, x, v) = At(d, x, v)
        BY <2>5
      <3>4. QED
        BY <2>1, <3>2, <3>3
    <2>8. Reaches(d, <<w>>, f, nx)
      <3>1. Safe(d, w, nx)
        BY <2>2, GoodIsSafe DEF Safe, Ready
      <3>2. QED
        BY <3>1, ReachesOne DEF f
    <2>9. e.first \in {0} \cup Clusters /\ e.dir \in BOOLEAN
      BY <2>1 DEF RootSlot, SlotTypes
    <2>10. \A y \in D : \A v \in ListedIn(f, y) : <<x, u>> # <<y, v>> /\ v \in ListedIn(d, y)
      BY <2>5
    <2>11. Plan(f, rs, nx)
      <3>1. CASE ~e.dir
        <4>1. Ends(d, e.first) /\ \A y \in D : ToSet(Chain(d, e.first)) \cap ToSet(DirChain(d, y)) = {}
          BY <2>1, <3>1 DEF EntrySound, Whole
        <4>2. ASSUME NEW k \in ToSet(Chain(d, e.first)) PROVE Spare(f, D, k)
          <5>1. SUFFICES ASSUME NEW y \in D
                         PROVE  /\ k \notin ToSet(DirChain(f, y))
                                /\ \A v \in ListedIn(f, y) :
                                     ~At(f, y, v).dir => k \notin ToSet(Chain(f, At(f, y, v).first))
            BY DEF Spare
          <5>2. k \notin ToSet(DirChain(f, y))
            BY <4>1, <4>2, <2>6
          <5>3. ASSUME NEW v \in ListedIn(f, y), ~At(f, y, v).dir PROVE k \notin ToSet(Chain(f, At(f, y, v).first))
            <6>1. Apart(d, e, At(d, y, v)) /\ At(f, y, v) = At(d, y, v)
              BY <2>1, <2>5, <2>10
            <6>2. ToSet(Chain(d, e.first)) \cap ToSet(Chain(d, At(d, y, v).first)) = {}
              BY <3>1, <5>3, <6>1 DEF Apart
            <6>3. Chain(f, At(d, y, v).first) = Chain(d, At(d, y, v).first)
              BY <2>6 DEF Chain
            <6>4. QED
              BY <4>2, <6>1, <6>2, <6>3
          <5>4. QED
            BY <5>2, <5>3
        <4>3. QED
          BY <4>1, <4>2, <1>1, <2>5, <2>7, <2>9, Release DEF rs
      <3>2. CASE e.dir
        <4> DEFINE c == e.first
        <4>1. c \in D /\ c # 0
          BY <2>1, <3>2 DEF EntrySound
        <4>2. ListedIn(d, c) = {}
          <5>1. Entries(d, c) = {}
            BY <1>3, <3>2 DEF dir_is_empty
          <5>2. QED
            BY <5>1 DEF Entries, ListedIn
        <4>3. c # x
          BY <4>2, <2>1
        <4>4. ListedIn(f, c) = {}
          BY <4>1, <4>2, <4>3, <2>5
        <4>5. ASSUME NEW y \in D, NEW v \in ListedIn(f, y), At(f, y, v).dir PROVE At(f, y, v).first # c
          <5>1. Apart(d, e, At(d, y, v)) /\ At(f, y, v) = At(d, y, v)
            BY <2>1, <2>5, <2>10
          <5>2. QED
            BY <5>1, <4>5, <3>2 DEF Apart
        <4>6. Tree(f, D \ {c}) /\ \A k \in ToSet(Chain(f, c)) : Spare(f, D \ {c}, k)
          <5> HIDE DEF c
          <5>1. QED
            BY <4>1, <4>4, <4>5, <2>5, DirGone
        <4>7. Ready(f, D \ {c}, nx)
          <5>1. nx # NoNext => nx.dir = x /\ x # c
            BY <4>3
          <5> HIDE DEF c
          <5>2. QED
            BY <2>7, <5>1 DEF Ready
        <4>8. Chain(f, c) = Chain(d, c) /\ Ends(d, c)
          <5>1. Chain(f, c) = Chain(d, c)
            BY <2>6 DEF Chain
          <5>2. c \in D \ {0} 
            BY <4>1
          <5>3. Ends(d, c)
            BY <1>1, <5>2 DEF Skeleton
          <5>4. QED
            BY <5>1, <5>3
        <4>9. QED
          BY <4>6, <4>7, <4>8, <1>1, <2>9, Release DEF rs
      <3>3. QED
        BY <2>9, <3>1, <3>2
    <2>12. <<w>> \in Seq(Writes) /\ rs \in Seq(Writes)
      <3>1. rs \in Seq(Writes)
        BY <1>1, <2>9, ReleasedTyped DEF rs
      <3>2. u \in CellsOf(d, x) /\ x \in {0} \cup Clusters
        BY <1>1, <2>1
      <3>3. p \in SlotPlaces
        BY <1>1, <2>1, <3>2, TypedCells
      <3>4. w \in Writes
        BY <3>3, <2>2, WriteKinds, SlotFacts
      <3> HIDE DEF w
      <3>5. QED
        BY <3>1, <3>4
    <2> HIDE DEF w
    <2>13. Plan(d, <<w>> \o rs, nx)
      BY <2>8, <2>11, <2>12, PlanJoin
    <2>14. QED
      BY <2>3, <2>13 DEF call
  <1>4. \/ call.ws = <<>> /\ (nx = NoNext \/ Named(d, x, n) = {} \/ call.rc = 6)
        \/ /\ Named(d, x, n) # {} /\ (e.dir => dir_is_empty(d, e.first))
           /\ call.ws = <<PutSlot(p, Deleted)>> \o Released(d, e.first)
    BY DEF h68k_delete, Call, Refuse
  <1>5. QED
    BY <1>2, <1>3, <1>4

LEMMA RenamePlan ==
  ASSUME NEW d, NEW D, Tree(d, D), NEW x \in D, NEW n \in Names, NEW to \in Names
  PROVE  Plan(d, h68k_rename(d, x, n, to).ws, NoNext)
  <1> DEFINE p == find_entry(d, x, n)
             s == [SlotAt(d, p) EXCEPT !.name = Shown[to]]
             call == h68k_rename(d, x, n, to)
  <1>1. Skeleton(d, D) /\ Ready(d, D, NoNext)
    BY TreeFacts DEF Ready
  <1>2. CASE call.ws = <<>>
    <2>1. Good(d, NoNext)
      BY <1>1, GoodIsSafe
    <2>2. QED
      BY <1>2, <2>1, PlanNil
  <1>3. CASE /\ n = to \/ Named(d, x, to) = {}
             /\ Named(d, x, n) # {} /\ call.ws = <<PutSlot(p, s)>>
    <2>1. PICK u : /\ u \in ListedIn(d, x) /\ u \in CellsOf(d, x) /\ At(d, x, u).name = n /\ At(d, x, u).k = "ent"
                   /\ p = Place(DirChain(d, x), u) /\ SlotAt(d, p) = At(d, x, u) /\ At(d, x, u) \in RootSlot
                   /\ AsGiven => \A v \in ListedIn(d, x) : v # u => At(d, x, v).name # n
      BY <1>3, FoundSound
    <2>2. s = [At(d, x, u) EXCEPT !.name = Shown[to]] /\ s \in RootSlot /\ s.k = "ent"
      <3>1. Shown[to] \in Names
        BY HumanFsAssumption
      <3>2. s = [At(d, x, u) EXCEPT !.name = Shown[to]]
        BY <2>1
      <3>3. QED
        BY <2>1, <3>1, <3>2 DEF RootSlot, SlotTypes
    <2> DEFINE o == FALSE
               w == Write("slot", p, s, o)
               f == Apply(d, w)
               m == Shown[to]
    <2>3. call.ws = <<w>>
      BY <1>3 DEF PutSlot
    <2> HIDE DEF o, call, m
    <2>4. \A v \in CellsOf(d, x) : Before(v, u) => At(d, x, v).k # "00"
      BY <1>1, <2>1, EntrySlot
    <2> HIDE DEF s
    <2>5. SlotChange(d, f, D, x, u, s)
      BY <1>1, <2>1, <2>2, <2>4, OneSlot
    <2> HIDE DEF p, f
    <2>6. AsGiven => \A v \in ListedIn(d, x) : v # u => At(d, x, v).name # m
      <3>1. SUFFICES ASSUME AsGiven, NEW v \in ListedIn(d, x), v # u PROVE At(d, x, v).name # m
        OBVIOUS
      <3>2. m = to
        BY <3>1 DEF AsGiven, m
      <3>3. CASE n = to
        BY <3>1, <3>2, <3>3, <2>1
      <3>4. CASE Named(d, x, to) = {}
        BY <3>1, <3>2, <3>4, NotNamed DEF Unnamed
      <3>5. QED
        BY <1>3, <3>3, <3>4
    <2>7. Tree(f, D)
      <3>1. s = [At(d, x, u) EXCEPT !.name = m]
        BY <2>2 DEF m
      <3>2. QED
        BY <3>1, <2>1, <2>5, <2>6, Renamed
    <2>8. Good(f, NoNext)
      BY <2>7 DEF Good, Ready
    <2>9. Reaches(d, <<w>>, f, NoNext)
      BY <1>1, GoodIsSafe, ReachesOne DEF f
    <2>10. QED
      BY <2>3, <2>8, <2>9 DEF Plan, call
  <1>4. \/ call.ws = <<>>
        \/ /\ n = to \/ Named(d, x, to) = {}
           /\ Named(d, x, n) # {} /\ call.ws = <<PutSlot(p, s)>>
    BY DEF h68k_rename, Call, Refuse
  <1>5. QED
    BY <1>2, <1>3, <1>4

LEMMA MovePlan ==
  ASSUME NEW d, NEW D, Tree(d, D), NEW x \in D, NEW y \in D, NEW n \in Names
  PROVE  Plan(d, h68k_move(d, x, n, y).ws, NoNext)
  <1> DEFINE p == find_entry(d, x, n)
             e == SlotAt(d, p)
             s == find_dir_slot(d, y)
             call == h68k_move(d, x, n, y)
  <1>1. Skeleton(d, D) /\ Ready(d, D, NoNext) /\ d \in ImageTypes /\ x \in {0} \cup Clusters /\ y \in {0} \cup Clusters
    BY TreeFacts DEF Ready, Skeleton
  <1>2. CASE call.ws = <<>>
    <2>1. Good(d, NoNext)
      BY <1>1, GoodIsSafe
    <2>2. QED
      BY <1>2, <2>1, PlanNil
  <1>3. CASE /\ x # y /\ Named(d, y, n) = {} /\ Named(d, x, n) # {} /\ ~e.dir /\ s.rc = 0
             /\ call.ws = s.ws \o <<PutSlot(s.at, e), Exposed(PutSlot(p, Deleted))>>
    <2>1. PICK u : /\ u \in ListedIn(d, x) /\ u \in CellsOf(d, x) /\ At(d, x, u).name = n /\ At(d, x, u).k = "ent"
                   /\ p = Place(DirChain(d, x), u) /\ e = At(d, x, u) /\ At(d, x, u) \in RootSlot
      BY <1>3, FoundSound
    <2>2. PICK g : Opened(d, D, y, s, NoNext, g)
      BY <1>1, <1>3, SlotFound
    <2>3. PICK w : Open(g, y, s.at, w)
      BY <2>2 DEF Opened
    <2>4. /\ Reaches(d, s.ws, g, NoNext) /\ Tree(g, D) /\ Ready(g, D, NoNext) /\ SameList(d, g, D)
          /\ DirChain(g, x) = DirChain(d, x)
      BY <2>2, <1>3 DEF Opened
    <2>5. /\ w \in CellsOf(g, y) /\ s.at = Place(DirChain(g, y), w) /\ At(g, y, w).k # "ent"
          /\ \A v \in CellsOf(g, y) : Before(v, w) => At(g, y, v).k # "00"
      BY <2>3 DEF Open
    <2>6. s.ws \in Seq(Writes) /\ s.at \in SlotPlaces
      BY <1>1, <1>3, FoundTyped
    <2>7. p \in SlotPlaces
      BY <1>1, <2>1, TypedCells
    <2>8. u \in ListedIn(g, x) /\ At(g, x, u) = e /\ p = Place(DirChain(g, x), u)
      BY <2>1, <2>4 DEF SameList
    <2> DEFINE o == FALSE
               q == TRUE
               w1 == Write("slot", s.at, e, o)
               w2 == Write("slot", p, Deleted, q)
               f1 == Apply(g, w1)
               f2 == Apply(f1, w2)
    <2>9. call.ws = s.ws \o <<w1, w2>> /\ w2.open
      <3>1. w1 = PutSlot(s.at, e) /\ w2 = Exposed(PutSlot(p, Deleted)) /\ w2.open
        BY DEF PutSlot, Exposed, Write
      <3>2. QED
        BY <3>1, <1>3
    <2>10. w1 \in Writes /\ w2 \in Writes
      <3>1. w1 = PutSlot(s.at, e) /\ w2 = Exposed(PutSlot(p, Deleted))
        BY DEF PutSlot, Exposed, Write
      <3>2. e \in RootSlot
        BY <2>1
      <3> HIDE DEF w1, w2, e, s, p
      <3>3. QED
        BY <3>1, <3>2, <2>6, <2>7, WriteKinds, SlotFacts
    <2> HIDE DEF o, q, e, call, s, p
    <2>11. Skeleton(g, D) /\ u \in CellsOf(g, x) /\ At(g, x, u).k = "ent"
      BY <2>1, <2>4, <2>8, TreeFacts
    <2>12. SlotChange(g, f1, D, y, w, e)
      BY <2>1, <2>5, <2>11, OneSlot
    <2> HIDE DEF f1
    <2>13. Skeleton(f1, D) /\ u \in CellsOf(f1, x) /\ At(f1, x, u) = e /\ DirChain(f1, x) = DirChain(g, x)
      <3>1. x # y
        BY <1>3
      <3>2. QED
        BY <3>1, <2>8, <2>11, <2>12 DEF SlotChange
    <2>14. SlotChange(f1, f2, D, x, u, Deleted)
      <3>1. p = Place(DirChain(f1, x), u) /\ At(f1, x, u).k = "ent"
        BY <2>1, <2>8, <2>13
      <3>2. QED
        BY <3>1, <2>13, EntryFreed
    <2> HIDE DEF f2
    <2>15. AsGiven => \A v \in ListedIn(g, y) : At(g, y, v).name # At(g, x, u).name
      <3>1. Unnamed(d, y, n)
        BY <1>3, NotNamed
      <3>2. Unnamed(g, y, n)
        BY <3>1, <2>4, UnnamedKept
      <3>3. QED
        BY <3>2, <2>1, <2>8 DEF Unnamed
    <2>16. Tree(f2, D)
      <3>1. x # y
        BY <1>3
      <3>2. SlotChange(g, f1, D, y, w, At(g, x, u))
        BY <2>8, <2>12
      <3>3. QED
        BY <3>1, <3>2, <2>4, <2>5, <2>8, <2>14, <2>15, Moved
    <2>17. Reaches(g, <<w1, w2>>, f2, NoNext)
      <3>1. Safe(g, w1, NoNext)
        BY <2>4, GoodIsSafe
      <3>2. Safe(f1, w2, NoNext)
        BY <2>9 DEF Safe
      <3>3. Reaches(g, <<w1>>, f1, NoNext)
        BY <3>1, ReachesOne DEF f1
      <3> DEFINE v1 == <<w1>>
      <3>4. v1 \in Seq(Writes) /\ <<w1, w2>> = Append(v1, w2)
        BY <2>10
      <3> HIDE DEF w1, w2
      <3>5. Reaches(g, v1, f1, NoNext)
        BY <3>3
      <3> HIDE DEF v1
      <3>6. Reaches(g, Append(v1, w2), f2, NoNext)
        BY <3>2, <3>4, <3>5, <2>10, ReachesNext, Zenon DEF f2
      <3>7. QED
        BY <3>4, <3>6
    <2> HIDE DEF w1, w2
    <2>18. Plan(g, <<w1, w2>>, NoNext)
      BY <2>16, <2>17 DEF Plan, Good, Ready
    <2>19. <<w1, w2>> \in Seq(Writes)
      BY <2>10
    <2>20. Plan(d, s.ws \o <<w1, w2>>, NoNext)
      BY <2>4, <2>6, <2>18, <2>19, PlanJoin
    <2>21. QED
      BY <2>9, <2>20 DEF call
  <1>4. \/ call.ws = <<>>
        \/ /\ x # y /\ Named(d, y, n) = {} /\ Named(d, x, n) # {} /\ ~e.dir /\ s.rc = 0
           /\ call.ws = s.ws \o <<PutSlot(s.at, e), Exposed(PutSlot(p, Deleted))>>
    BY DEF h68k_move, MoveClash, Call, Refuse
  <1>5. QED
    BY <1>2, <1>3, <1>4

\* A file made of spare clusters, which no entry names yet.
LEMMA FileMade ==
  ASSUME NEW d, NEW D, Tree(d, D), NEW cs \in Seq(Clusters), Distinct(cs),
         \A j \in 1..Len(cs) : Spare(d, D, cs[j]), NEW id \in Nat,
         \A j \in 1..Len(cs) : d.fat[cs[j]] = NextOf(cs, j) /\ d.cont[cs[j]].piece = <<id, j>>,
         NEW s, ~s.dir, s.size = Len(cs), s.first = IF Len(cs) = 0 THEN 0 ELSE cs[1]
  PROVE  /\ EntrySound(d, D, s)
         /\ \A y \in D : \A v \in ListedIn(d, y) : Apart(d, s, At(d, y, v))
  <1> DEFINE ch == Chain(d, s.first)
  <1>0. d.fat \in Fat /\ Len(cs) \in Nat
    BY TreeFacts
  <1>1. ch = cs /\ Ends(d, s.first)
    <2>1. CASE Len(cs) = 0
      <3>1. s.first = 0 /\ 0 \notin Clusters /\ cs = <<>>
        BY <2>1, ClusterFacts
      <3>2. ch = <<>>
        BY <3>1, <1>0, ChainIsPath
      <3>3. QED
        BY <3>1, <3>2 DEF Ends
    <2>2. CASE Len(cs) # 0
      <3>1. Len(cs) >= 1 /\ s.first = cs[1]
        BY <2>2, <1>0
      <3>2. Chain(d, cs[1]) = cs /\ Ends(d, cs[1])
        BY <3>1, <1>0, NewChain
      <3>3. QED
        BY <3>1, <3>2
    <2>3. QED
      BY <2>1, <2>2
  <1> HIDE DEF ch
  <1>2. Whole(d, s)
    <2>1. ASSUME NEW j \in DOMAIN ch PROVE d.cont[ch[j]].piece = <<d.cont[ch[1]].piece[1], j>>
      <3>1. j \in 1..Len(cs) /\ 1 \in 1..Len(cs)
        BY <1>1, <2>1
      <3>2. d.cont[cs[j]].piece = <<id, j>> /\ d.cont[cs[1]].piece = <<id, 1>>
        BY <3>1
      <3>3. QED
        BY <3>2, <1>1
    <2>2. QED
      BY <1>1, <2>1 DEF Whole, ch
  <1>3. \A k \in ToSet(ch) : Spare(d, D, k)
    BY <1>1 DEF ToSet
  <1>4. EntrySound(d, D, s)
    <2>1. ASSUME NEW y \in D PROVE ToSet(ch) \cap ToSet(DirChain(d, y)) = {}
      BY <1>3 DEF Spare
    <2>2. QED
      BY <2>1, <1>2 DEF EntrySound, ch
  <1>5. ASSUME NEW y \in D, NEW v \in ListedIn(d, y) PROVE Apart(d, s, At(d, y, v))
    <2>1. ~At(d, y, v).dir => ToSet(ch) \cap ToSet(Chain(d, At(d, y, v).first)) = {}
      BY <1>3 DEF Spare
    <2>2. QED
      BY <2>1 DEF Apart, ch
  <1>6. QED
    BY <1>4, <1>5

LEMMA InjectPlan ==
  ASSUME NEW d, NEW D, Tree(d, D), NEW x \in D, NEW n \in Names, Unnamed(d, x, Shown[n]),
         NEW z \in 0..MaxSize, NEW id \in Nat
  PROVE  Plan(d, h68k_inject_stream_at(d, x, n, z, id).ws, NoNext)
  <1> DEFINE s == find_dir_slot(d, x)
             free == FreeAfter(d, s)
             cs == SubSeq(free, 1, z)
             e == Slot("ent", Shown[n], FALSE, IF z = 0 THEN 0 ELSE cs[1], z)
             call == h68k_inject_stream_at(d, x, n, z, id)
  <1>1. /\ Ready(d, D, NoNext) /\ d \in ImageTypes /\ x \in {0} \cup Clusters
        /\ z \in Nat /\ Shown[n] \in Names
    BY TreeFacts, HumanFsAssumption DEF Ready, Skeleton
  <1>2. \/ call.ws = <<>>
        \/ s.rc = 0 /\ call.ws = s.ws
        \/ s.rc = 0 /\ ~(Len(free) < z) /\ call.ws = s.ws \o Filled(cs, s.at, e, id)
    BY DEF h68k_inject_stream_at, Call, Refuse
  <1>3. CASE call.ws = <<>>
    <2>1. Good(d, NoNext)
      BY <1>1, GoodIsSafe
    <2>2. QED
      BY <1>3, <2>1, PlanNil
  <1>4. CASE s.rc = 0 /\ call.ws = s.ws
    <2>1. PICK g : Opened(d, D, x, s, NoNext, g)
      BY <1>1, <1>4, SlotFound
    <2>2. QED
      BY <1>4, <2>1 DEF Opened, Plan, Good
  <1>5. CASE s.rc = 0 /\ ~(Len(free) < z) /\ call.ws = s.ws \o Filled(cs, s.at, e, id)
    <2>1. PICK g : Opened(d, D, x, s, NoNext, g)
      BY <1>1, <1>5, SlotFound
    <2>2. s.ws \in Seq(Writes) /\ s.at \in SlotPlaces /\ free \in Seq(Clusters) /\ Distinct(free)
      BY <1>1, <1>5, FoundTyped
    <2> HIDE DEF s, free, call
    <2>3. /\ cs \in Seq(Clusters) /\ Len(cs) = z
          /\ \A j \in 1..z : cs[j] = free[j] /\ j \in 1..Len(free) /\ cs[j] \in Clusters
      <3>1. free \in Seq(Clusters) /\ z <= Len(free) /\ Len(free) \in Nat
        BY <2>2, <1>1, <1>5
      <3>2. QED
        BY <3>1, <1>1
    <2>4. e \in RootSlot /\ e.k = "ent" /\ ~e.dir /\ e.size = z /\ e.name = Shown[n]
          /\ e.first = IF z = 0 THEN 0 ELSE cs[1]
      <3> DEFINE c == IF z = 0 THEN 0 ELSE cs[1]
                 b == FALSE
      <3>1. c \in {0} \cup Clusters /\ b \in BOOLEAN
        <4>1. z # 0 => 1 \in 1..z
          BY <1>1
        <4>2. QED
          BY <2>3, <4>1
      <3>2. e = Slot("ent", Shown[n], b, c, z)
        OBVIOUS
      <3>3. ~b /\ c = IF z = 0 THEN 0 ELSE cs[1]
        OBVIOUS
      <3> HIDE DEF c, e, b
      <3>4. e \in RootSlot
        BY <3>1, <3>2, <1>1, SlotFacts
      <3>5. e.k = "ent" /\ e.dir = b /\ e.size = z /\ e.name = Shown[n] /\ e.first = c
        BY <3>2 DEF Slot
      <3>6. QED
        BY <3>3, <3>4, <3>5
    <2> HIDE DEF cs, e
    <2> DEFINE ps == Pieces(cs, id)
    <2>5. /\ ps \in Seq(Writes) /\ Len(ps) = 2 * z
          /\ \A i \in 1..(2 * z) :
               \E j \in 1..z : \/ i = 2 * j /\ ps[i] = fat_set(cs[j], NextOf(cs, j))
                               \/ i = 2 * j - 1 /\ ps[i] = PutData(cs[j], Piece(id, j))
          /\ \A j \in 1..z : /\ 2 * j \in 1..(2 * z) /\ 2 * j - 1 \in 1..(2 * z)
                             /\ ps[2 * j] = fat_set(cs[j], NextOf(cs, j))
                             /\ ps[2 * j - 1] = PutData(cs[j], Piece(id, j))
          /\ \A j \in 1..z : cs[j] \in Clusters /\ NextOf(cs, j) \in Clusters \cup {0, Eoc}
      BY <2>3, PiecesTyped
    <2> HIDE DEF ps
    <2>6. Distinct(cs)
      <3>1. \A j \in DOMAIN cs : j \in 1..z /\ cs[j] = free[j] /\ j \in DOMAIN free
        BY <2>2, <2>3
      <3>2. QED
        BY <3>1, <2>2 DEF Distinct
    <2>7. /\ Reaches(d, s.ws, g, NoNext) /\ Tree(g, D) /\ Ready(g, D, NoNext) /\ SameList(d, g, D)
          /\ \A j \in 1..z : Spare(g, D, cs[j])
      BY <2>1, <2>3 DEF Opened, free
    <2>8. PICK u : Open(g, x, s.at, u)
      BY <2>1 DEF Opened
    <2>9. ASSUME NEW i \in 1..Len(ps) PROVE SpareWrite(g, D, ps[i])
      <3>1. PICK j \in 1..z : \/ i = 2 * j /\ ps[i] = fat_set(cs[j], NextOf(cs, j))
                              \/ i = 2 * j - 1 /\ ps[i] = PutData(cs[j], Piece(id, j))
        BY <2>5
      <3>2. cs[j] \in Clusters /\ NextOf(cs, j) \in Clusters \cup {0, Eoc} /\ Spare(g, D, cs[j])
        BY <2>5, <2>7
      <3>3. j \in Nat
        OBVIOUS
      <3>4. Piece(id, j) \in Cluster
        BY <3>3, SlotFacts
      <3>5. QED
        BY <3>1, <3>2, <3>4 DEF SpareWrite
    <2>10. ASSUME NEW i \in 1..Len(ps), NEW l \in 1..Len(ps), ps[i].w = ps[l].w, ps[i].at = ps[l].at
           PROVE  i = l
      <3>1. PICK j \in 1..z : \/ i = 2 * j /\ ps[i] = fat_set(cs[j], NextOf(cs, j))
                              \/ i = 2 * j - 1 /\ ps[i] = PutData(cs[j], Piece(id, j))
        BY <2>5
      <3>2. PICK m \in 1..z : \/ l = 2 * m /\ ps[l] = fat_set(cs[m], NextOf(cs, m))
                              \/ l = 2 * m - 1 /\ ps[l] = PutData(cs[m], Piece(id, m))
        BY <2>5
      <3>3. ps[i].at = cs[j] /\ ps[l].at = cs[m]
        BY <3>1, <3>2 DEF fat_set, PutData, Write
      <3>4. \/ i = 2 * j /\ ps[i].w = "fat"
            \/ i = 2 * j - 1 /\ ps[i].w = "data"
        BY <3>1 DEF fat_set, PutData, Write
      <3>5. \/ l = 2 * m /\ ps[l].w = "fat"
            \/ l = 2 * m - 1 /\ ps[l].w = "data"
        BY <3>2 DEF fat_set, PutData, Write
      <3>6. j = m
        <4>1. j \in DOMAIN cs /\ m \in DOMAIN cs
          BY <2>3
        <4>2. QED
          BY <4>1, <3>3, <2>10, <2>6 DEF Distinct
      <3>7. QED
        BY <3>4, <3>5, <3>6, <2>10
    <2>11. PICK h : /\ Reaches(g, ps, h, NoNext)
                    /\ Tree(h, D) /\ Ready(h, D, NoNext) /\ SameDirs(g, h, D)
                    /\ \A c : Spare(h, D, c) <=> Spare(g, D, c)
                    /\ \A i \in 1..Len(ps) : Landed(h, ps[i])
      BY <2>5, <2>7, <2>9, <2>10, FrameReach
    <2>12. \A j \in 1..z : h.fat[cs[j]] = NextOf(cs, j) /\ h.cont[cs[j]].piece = <<id, j>>
      <3>0. \A j : Piece(id, j).piece = <<id, j>>
        BY DEF Piece
      <3>1. SUFFICES ASSUME NEW j \in 1..z
                     PROVE  h.fat[cs[j]] = NextOf(cs, j) /\ h.cont[cs[j]] = Piece(id, j)
        BY <3>0
      <3> DEFINE a == ps[2 * j]
                 b == ps[2 * j - 1]
      <3>2. Landed(h, a) /\ Landed(h, b) /\ a = fat_set(cs[j], NextOf(cs, j)) /\ b = PutData(cs[j], Piece(id, j))
        BY <2>5, <2>11
      <3> HIDE DEF a, b
      <3>3. a.w = "fat" /\ a.at = cs[j] /\ a.as = NextOf(cs, j) /\ b.w = "data" /\ b.at = cs[j] /\ b.as = Piece(id, j)
        BY <3>2 DEF fat_set, PutData, Write
      <3>4. QED
        BY <3>2, <3>3 DEF Landed
    <2>13. /\ EntrySound(h, D, e)
           /\ \A y \in D : \A v \in ListedIn(h, y) : Apart(h, e, At(h, y, v))
      BY <2>3, <2>4, <2>6, <2>7, <2>11, <2>12, FileMade
    <2>14. Open(h, x, s.at, u)
      BY <2>8, <2>11, OpenKept
    <2>15. Unnamed(h, x, e.name)
      <3>1. SameList(g, h, D)
        BY <2>7, <2>11, SameDirsList
      <3>2. SameList(d, h, D)
        BY <3>1, <2>7, SameListTrans
      <3>3. Unnamed(h, x, Shown[n])
        BY <3>2, UnnamedKept
      <3>4. QED
        BY <3>3, <2>4
    <2> DEFINE o == FALSE
               w == Write("slot", s.at, e, o)
               f == Apply(h, w)
    <2>16. w = PutSlot(s.at, e)
      BY DEF PutSlot
    <2> HIDE DEF o
    <2>17. Tree(f, D)
      BY <2>4, <2>11, <2>13, <2>14, <2>15, EntryPut
    <2>18. Reaches(h, <<w>>, f, NoNext)
      BY <2>11, GoodIsSafe, ReachesOne
    <2>19. w \in Writes
      BY <2>16, <2>2, <2>4, WriteKinds
    <2> HIDE DEF w, f
    <2>20. <<w>> \in Seq(Writes) /\ ps \o <<w>> \in Seq(Writes)
      BY <2>5, <2>19
    <2>21. Plan(h, <<w>>, NoNext)
      BY <2>17, <2>18 DEF Plan, Good, Ready
    <2>22. Plan(g, ps \o <<w>>, NoNext)
      BY <2>5, <2>11, <2>20, <2>21, PlanJoin
    <2>23. Plan(d, s.ws \o (ps \o <<w>>), NoNext)
      BY <2>2, <2>7, <2>20, <2>22, PlanJoin
    <2>24. call.ws = s.ws \o (ps \o <<w>>)
      BY <1>5, <2>16 DEF Filled, ps, cs, e
    <2>25. QED
      BY <2>23, <2>24 DEF call
  <1>6. QED
    BY <1>2, <1>3, <1>4, <1>5

\* The cluster of a new directory: two dots, and no slot used after them.
Dotted(d, c, e, f) ==
  /\ e \in ImageTypes /\ e.root = d.root /\ e.fat = d.fat
  /\ \A k \in Clusters \ {c} : e.cont[k] = d.cont[k]
  /\ f \in ImageTypes /\ f.root = d.root /\ f.fat = d.fat
  /\ \A k \in Clusters \ {c} : f.cont[k] = d.cont[k]
  /\ f.cont[c].slots # <<>>
  /\ \A i \in 1..SubSlots : f.cont[c].slots[i].k # "ent"
  /\ \A i, j \in 1..SubSlots : f.cont[c].slots[i].k = "00" /\ i < j => f.cont[c].slots[j].k = "00"

LEMMA DotsWritten ==
  ASSUME NEW d \in ImageTypes, NEW c \in Clusters, d.cont[c] = Blank, NEW x \in {0} \cup Clusters, NEW o
  PROVE  LET e == Apply(d, Write("slot", <<c, 1>>, Dot(c), o))
         IN  Dotted(d, c, e, Apply(e, Write("slot", <<c, 2>>, Dot(x), o)))
  <1> DEFINE a == Dot(c)
             b == Dot(x)
             e == Apply(d, Write("slot", <<c, 1>>, a, o))
             f == Apply(e, Write("slot", <<c, 2>>, b, o))
  <1>1. SubSlots \in Nat /\ SubSlots > 2
    BY HumanFsAssumption
  <1>2. 1 \in 1..SubSlots /\ 2 \in 1..SubSlots
    BY ONLY <1>1
  <1>3. a \in SubSlot /\ b \in SubSlot /\ a.k = "dot" /\ b.k = "dot"
    <2>1. a \in SubSlot /\ b \in SubSlot
      BY SlotFacts
    <2>2. a.k = "dot" /\ b.k = "dot"
      BY DEF Dot, Slot
    <2>3. QED
      BY <2>1, <2>2
  <1>4. d.cont[c].slots = [i \in 1..SubSlots |-> Unused] /\ d.cont[c].slots # <<>>
    <2>1. d.cont[c].slots = [i \in 1..SubSlots |-> Unused]
      BY DEF Blank
    <2>2. QED
      BY <2>1, SlotFacts
  <1> HIDE DEF a, b
  <1>5. /\ e \in ImageTypes /\ e.root = d.root /\ e.fat = d.fat
        /\ \A k \in Clusters : k # c => e.cont[k] = d.cont[k]
        /\ e.cont[c].slots = [d.cont[c].slots EXCEPT ![1] = a]
        /\ e.cont[c].slots = <<>> <=> d.cont[c].slots = <<>>
    BY <1>2, <1>3, ApplySub
  <1> HIDE DEF e
  <1>6. /\ f \in ImageTypes /\ f.root = e.root /\ f.fat = e.fat
        /\ \A k \in Clusters : k # c => f.cont[k] = e.cont[k]
        /\ f.cont[c].slots = [e.cont[c].slots EXCEPT ![2] = b]
        /\ f.cont[c].slots = <<>> <=> e.cont[c].slots = <<>>
    BY <1>2, <1>3, <1>5, ApplySub
  <1> HIDE DEF f
  <1>7. ASSUME NEW i \in 1..SubSlots
        PROVE  f.cont[c].slots[i] = IF i = 2 THEN b ELSE IF i = 1 THEN a ELSE Unused
    <2> DEFINE s0 == d.cont[c].slots
               s1 == e.cont[c].slots
               s2 == f.cont[c].slots
    <2>1. s0 = [k \in 1..SubSlots |-> Unused] /\ s1 = [s0 EXCEPT ![1] = a] /\ s2 = [s1 EXCEPT ![2] = b]
      BY <1>4, <1>5, <1>6
    <2> HIDE DEF s0, s1, s2
    <2>2. s2[i] = IF i = 2 THEN b ELSE IF i = 1 THEN a ELSE Unused
      BY <2>1, <1>2
    <2>3. QED
      BY <2>2 DEF s2
  <1>8. Unused.k = "00"
    BY DEF Unused, Slot
  <1>9. \A i \in 1..SubSlots : f.cont[c].slots[i].k = IF i \in {1, 2} THEN "dot" ELSE "00"
    BY <1>3, <1>7, <1>8
  <1>10. \A i \in 1..SubSlots : f.cont[c].slots[i].k # "ent"
    BY <1>9
  <1>11. ASSUME NEW i \in 1..SubSlots, NEW j \in 1..SubSlots, f.cont[c].slots[i].k = "00", i < j
         PROVE  f.cont[c].slots[j].k = "00"
    <2>1. i \notin {1, 2}
      BY <1>9, <1>11
    <2>2. j \notin {1, 2}
      BY <2>1, <1>1, <1>11
    <2>3. QED
      BY <2>2, <1>9
  <1>12. QED
    BY <1>4, <1>5, <1>6, <1>10, <1>11 DEF a, b, e, f, Dotted

LEMMA MkdirPlan ==
  ASSUME NEW d, NEW D, Tree(d, D), NEW x \in D, NEW n \in Names
  PROVE  Plan(d, h68k_mkdir(d, x, n).ws, NoNext)
  <1> DEFINE s == find_dir_slot(d, x)
             free == FreeAfter(d, s)
             c == Head(free)
             e == Slot("ent", Shown[n], TRUE, c, 0)
             call == h68k_mkdir(d, x, n)
             v1 == <<fat_set(c, Eoc), PutData(c, Blank)>>
             v2 == DotEntries(c, x, s.at)
             v3 == <<PutSlot(s.at, e)>>
  <1>1. Ready(d, D, NoNext) /\ d \in ImageTypes /\ x \in {0} \cup Clusters /\ Shown[n] \in Names
    BY TreeFacts, HumanFsAssumption DEF Ready, Skeleton
  <1>2. \/ call.ws = <<>>
        \/ s.rc = 0 /\ call.ws = s.ws
        \/ s.rc = 0 /\ Named(d, x, n) = {} /\ free # <<>> /\ call.ws = s.ws \o v1 \o v2 \o v3
    BY DEF h68k_mkdir, Call, Refuse
  <1>3. CASE call.ws = <<>>
    <2>1. Good(d, NoNext)
      BY <1>1, GoodIsSafe
    <2>2. QED
      BY <1>3, <2>1, PlanNil
  <1>4. CASE s.rc = 0 /\ call.ws = s.ws
    <2>1. PICK g : Opened(d, D, x, s, NoNext, g)
      BY <1>1, <1>4, SlotFound
    <2>2. QED
      BY <1>4, <2>1 DEF Opened, Plan, Good
  <1>5. CASE s.rc = 0 /\ Named(d, x, n) = {} /\ free # <<>> /\ call.ws = s.ws \o v1 \o v2 \o v3
    <2>1. PICK g : Opened(d, D, x, s, NoNext, g)
      BY <1>1, <1>5, SlotFound
    <2>2. s.ws \in Seq(Writes) /\ s.at \in SlotPlaces /\ free \in Seq(Clusters)
      BY <1>1, <1>5, FoundTyped
    <2>3. PICK u : Open(g, x, s.at, u)
      BY <2>1 DEF Opened
    <2>4. /\ Reaches(d, s.ws, g, NoNext) /\ Tree(g, D) /\ Ready(g, D, NoNext) /\ SameList(d, g, D)
          /\ \A i \in 1..Len(free) : Spare(g, D, free[i])
      BY <2>1 DEF Opened
    <2> HIDE DEF free, s, call
    <2>5. c \in Clusters /\ Spare(g, D, c)
      <3>1. c = free[1] /\ 1 \in 1..Len(free) /\ c \in Clusters
        BY <2>2, <1>5
      <3>2. QED
        BY <3>1, <2>4
    <2> HIDE DEF c
    <2>6. e \in RootSlot /\ e.k = "ent" /\ e.dir = TRUE /\ e.size = 0 /\ e.name = Shown[n] /\ e.first = c
      <3> DEFINE b == TRUE
                 z == 0
      <3>1. b \in BOOLEAN /\ z \in 0..MaxSize /\ c \in {0} \cup Clusters
        BY <2>5, HumanFsAssumption
      <3>2. e = Slot("ent", Shown[n], b, c, z) /\ b = TRUE /\ z = 0
        OBVIOUS
      <3> HIDE DEF b, z, e
      <3>3. e \in RootSlot
        BY <3>1, <3>2, <1>1, SlotFacts
      <3>4. e.k = "ent" /\ e.dir = b /\ e.size = z /\ e.name = Shown[n] /\ e.first = c
        BY <3>2 DEF Slot
      <3>5. QED
        BY <3>2, <3>3, <3>4
    <2> HIDE DEF e
    <2> DEFINE w1 == fat_set(c, Eoc)
               w2 == PutData(c, Blank)
    <2>7. w1.w = "fat" /\ w1.at = c /\ w1.as = Eoc /\ w2.w = "data" /\ w2.at = c /\ w2.as = Blank
      BY DEF fat_set, PutData, Write
    <2>8. w1 \in Writes /\ w2 \in Writes /\ SpareWrite(g, D, w1) /\ SpareWrite(g, D, w2)
      <3>1. Blank \in Cluster /\ Eoc \in Clusters \cup {0, Eoc}
        BY SlotFacts
      <3>2. w1 \in Writes /\ w2 \in Writes
        BY <3>1, <2>5, WriteKinds
      <3>3. QED
        BY <3>1, <3>2, <2>5 DEF SpareWrite
    <2>9. v1 = <<w1, w2>>
      OBVIOUS
    <2> HIDE DEF w1, w2, v1
    <2>10. v1 \in Seq(Writes) /\ Len(v1) = 2 /\ v1[1] = w1 /\ v1[2] = w2
      BY <2>8, <2>9
    <2>11. /\ \A i \in 1..Len(v1) : SpareWrite(g, D, v1[i])
           /\ \A i, j \in 1..Len(v1) : v1[i].w = v1[j].w /\ v1[i].at = v1[j].at => i = j
      <3>1. \A i \in 1..Len(v1) : (i = 1 /\ v1[i] = w1) \/ (i = 2 /\ v1[i] = w2)
        BY <2>10
      <3>2. QED
        BY <3>1, <2>7, <2>8
    <2>12. PICK h : /\ Reaches(g, v1, h, NoNext)
                    /\ Tree(h, D) /\ Ready(h, D, NoNext) /\ SameDirs(g, h, D)
                    /\ \A k : Spare(h, D, k) <=> Spare(g, D, k)
                    /\ \A i \in 1..Len(v1) : Landed(h, v1[i])
      BY <2>4, <2>10, <2>11, FrameReach
    <2>13. h.fat[c] = Eoc /\ h.cont[c] = Blank /\ Spare(h, D, c) /\ h \in ImageTypes
      <3>1. Landed(h, w1) /\ Landed(h, w2)
        BY <2>10, <2>12
      <3>2. QED
        BY <3>1, <2>5, <2>7, <2>12, TreeFacts DEF Landed
    <2> DEFINE o == FALSE
               w3 == Write("slot", <<c, 1>>, Dot(c), o)
               w4 == Write("slot", <<c, 2>>, Dot(x), o)
               h3 == Apply(h, w3)
               h4 == Apply(h3, w4)
               w5 == Write("slot", s.at, e, o)
               f == Apply(h4, w5)
    <2>14. v2 = <<w3, w4>> /\ v3 = <<w5>>
      BY DEF DotEntries, PutSlot
    <2>15. w3 \in Writes /\ w4 \in Writes /\ w5 \in Writes
      <3>a. SubSlots \in Nat /\ SubSlots > 2
        BY HumanFsAssumption
      <3>b. 1 \in 1..SubSlots /\ 2 \in 1..SubSlots
        BY ONLY <3>a
      <3>1. Dot(c) \in SubSlot /\ Dot(x) \in SubSlot
        BY <1>1, <2>5, SlotFacts
      <3>2. PutSlot(<<c, 1>>, Dot(c)) \in Writes /\ PutSlot(<<c, 2>>, Dot(x)) \in Writes
        BY <2>5, <3>b, <3>1, WriteKinds
      <3>3. PutSlot(s.at, e) \in Writes
        BY <2>2, <2>6, WriteKinds
      <3>4. QED
        BY <3>2, <3>3 DEF PutSlot
    <2> HIDE DEF o, v2, v3
    <2>16. /\ h3 \in ImageTypes /\ h3.root = h.root /\ h3.fat = h.fat
           /\ \A k \in Clusters \ {c} : h3.cont[k] = h.cont[k]
           /\ h4 \in ImageTypes /\ h4.root = h.root /\ h4.fat = h.fat
           /\ \A k \in Clusters \ {c} : h4.cont[k] = h.cont[k]
           /\ h4.cont[c].slots # <<>>
           /\ \A i \in 1..SubSlots : h4.cont[c].slots[i].k # "ent"
           /\ \A i, j \in 1..SubSlots : h4.cont[c].slots[i].k = "00" /\ i < j => h4.cont[c].slots[j].k = "00"
      <3>1. Dotted(h, c, h3, h4)
        BY <1>1, <2>5, <2>13, DotsWritten
      <3> HIDE DEF h3, h4
      <3>2. QED
        BY <3>1 DEF Dotted
    <2> HIDE DEF h4
    <2>17. /\ Tree(h3, D) /\ Ready(h3, D, NoNext)
           /\ Tree(h4, D) /\ SameDirs(h, h4, D) /\ Spare(h4, D, c)
      <3> HIDE DEF h3
      <3>1. \A k \in Clusters : Spare(h, D, k) \/ (h3.fat[k] = h.fat[k] /\ h3.cont[k] = h.cont[k])
        BY <2>13, <2>16
      <3>2. \A k \in Clusters : Spare(h, D, k) \/ (h4.fat[k] = h.fat[k] /\ h4.cont[k] = h.cont[k])
        BY <2>13, <2>16
      <3>3. Tree(h3, D)
        BY <3>1, <2>12, <2>16, Frame
      <3>4. Tree(h4, D) /\ SameDirs(h, h4, D) /\ Spare(h4, D, c)
        BY <3>2, <2>12, <2>13, <2>16, Frame
      <3>5. QED
        BY <3>3, <3>4 DEF Ready
    <2>18. c \notin D /\ Tree(h4, D \cup {c}) /\ ListedIn(h4, c) = {}
      BY <2>5, <2>13, <2>16, <2>17, DirAdded
    <2>19. Open(h4, x, s.at, u)
      <3>1. SameDirs(g, h4, D)
        BY <2>12, <2>17, SameDirsTrans
      <3>2. QED
        BY <3>1, <2>3, OpenKept
    <2>20. Unnamed(h4, x, e.name)
      <3>1. SameDirs(g, h4, D)
        BY <2>12, <2>17, SameDirsTrans
      <3>2. SameList(g, h4, D)
        BY <3>1, <2>4, SameDirsList
      <3>3. SameList(d, h4, D)
        BY <3>2, <2>4, SameListTrans
      <3>4. Unnamed(d, x, Shown[n])
        BY <1>5, NotNamed
      <3>5. Unnamed(h4, x, Shown[n])
        BY <3>3, <3>4, UnnamedKept
      <3>6. QED
        BY <3>5, <2>6
    <2>21. /\ EntrySound(h4, D \cup {c}, e)
           /\ \A y \in D \cup {c} : \A v \in ListedIn(h4, y) : Apart(h4, e, At(h4, y, v))
      <3>1. EntrySound(h4, D \cup {c}, e)
        <4>1. c # 0
          BY <2>5, ClusterFacts
        <4>2. QED
          BY <4>1, <2>6 DEF EntrySound
      <3>2. ASSUME NEW y \in D \cup {c}, NEW v \in ListedIn(h4, y) PROVE Apart(h4, e, At(h4, y, v))
        <4>1. y \in D
          BY <3>2, <2>18
        <4>2. EntrySound(h4, D, At(h4, y, v))
          BY <4>1, <3>2, <2>17, TreeFacts
        <4>3. At(h4, y, v).dir => At(h4, y, v).first # c
          BY <4>2, <2>18 DEF EntrySound
        <4>4. QED
          BY <4>3, <2>6 DEF Apart
      <3>3. QED
        BY <3>1, <3>2
    <2>22. Tree(f, D \cup {c})
      <3> DEFINE E == D \cup {c}
      <3>1. x \in E /\ Tree(h4, E) /\ EntrySound(h4, E, e) /\ \A y \in E : \A v \in ListedIn(h4, y) : Apart(h4, e, At(h4, y, v))
        BY <2>18, <2>21
      <3> HIDE DEF E
      <3>2. Tree(f, E)
        BY <3>1, <2>6, <2>19, <2>20, EntryPut
      <3>3. QED
        BY <3>2 DEF E
    <2>23. Reaches(h, v2, h4, NoNext)
      <3>1. Safe(h, w3, NoNext) /\ Safe(h3, w4, NoNext)
        BY <2>12, <2>17, GoodIsSafe
      <3>2. Reaches(h, <<w3>>, h3, NoNext)
        BY <3>1, ReachesOne
      <3> DEFINE t == <<w3>>
      <3> HIDE DEF h3
      <3>3. t \in Seq(Writes) /\ v2 = Append(t, w4)
        BY <2>14, <2>15
      <3>4. Reaches(h, t, h3, NoNext)
        BY <3>2
      <3> HIDE DEF t, w3, w4
      <3>5. Reaches(h, Append(t, w4), Apply(h3, w4), NoNext)
        BY <3>1, <3>3, <3>4, <2>15, ReachesNext, Zenon
      <3>6. QED
        BY <3>3, <3>5 DEF h4
    <2>24. Reaches(h4, v3, f, NoNext)
      <3>1. Ready(h4, D, NoNext)
        BY DEF Ready
      <3>2. Safe(h4, w5, NoNext)
        BY <3>1, <2>17, GoodIsSafe
      <3>3. QED
        BY <3>2, <2>14, ReachesOne
    <2> HIDE DEF f, h3, w3, w4, w5
    <2>25. v2 \in Seq(Writes) /\ v3 \in Seq(Writes)
      BY <2>14, <2>15
    <2>26. Plan(h4, v3, NoNext)
      BY <2>22, <2>24 DEF Plan, Good, Ready
    <2> DEFINE v0 == s.ws
    <2>27. v0 \in Seq(Writes) /\ Reaches(d, v0, g, NoNext)
      BY <2>2, <2>4
    <2>28. call.ws = v0 \o v1 \o v2 \o v3
      BY <1>5 DEF call, v1, v2, v3, c, e
    <2> HIDE DEF v0
    <2> DEFINE u1 == v0 \o v1
               u2 == u1 \o v2
    <2>29. u1 \in Seq(Writes)
      BY <2>10, <2>27
    <2>30. Reaches(d, u1, h, NoNext)
      BY <2>10, <2>12, <2>27, ReachesJoin
    <2>31. call.ws = u2 \o v3
      BY <2>28
    <2> HIDE DEF u1
    <2>32. u2 \in Seq(Writes)
      BY <2>25, <2>29
    <2>33. Reaches(d, u2, h4, NoNext)
      BY <2>23, <2>25, <2>29, <2>30, ReachesJoin
    <2> HIDE DEF u2
    <2>34. Plan(d, u2 \o v3, NoNext)
      BY <2>25, <2>26, <2>32, <2>33, PlanJoin
    <2>35. QED
      BY <2>31, <2>34 DEF call
  <1>6. QED
    BY <1>2, <1>3, <1>4, <1>5

-----------------------------------------------------------------------------
(***************************************************************************)
(* 11. What the directories of a sound image list.                         *)
(***************************************************************************)
Grown(d, known) ==
  known \cup {SlotAt(d, p).first : p \in
     {q \in UNION {Entries(d, x) : x \in known} : SlotAt(d, q).dir}}

LEMMA LevelsExist ==
  ASSUME NEW d
  PROVE  \E w : /\ w = [n \in 0..Steps |-> IF n = 0 THEN {0} ELSE Grown(d, w[n - 1])]
                /\ Dirs(d) = w[Steps]
  <1> DEFINE Upto(k, w) == w = [n \in 0..k |-> IF n = 0 THEN {0} ELSE Grown(d, w[n - 1])]
             S == {k \in Nat : \E w : Upto(k, w)}
  <1>1. 0 \in S
    <2>1. Upto(0, [n \in 0..0 |-> {0}])
      OBVIOUS
    <2>2. QED
      BY <2>1
  <1>2. ASSUME NEW k \in Nat, k \in S PROVE k + 1 \in S
    <2>1. PICK w : Upto(k, w)
      BY <1>2
    <2> DEFINE v == [n \in 0..(k + 1) |-> IF n <= k THEN w[n] ELSE Grown(d, w[k])]
    <2>2. \A n \in 0..k : w[n] = IF n = 0 THEN {0} ELSE Grown(d, w[n - 1])
      BY <2>1
    <2>3. \A n \in 0..(k + 1) : n # 0 => v[n - 1] = w[n - 1]
      OBVIOUS
    <2>4. \A n \in 0..(k + 1) : v[n] = IF n = 0 THEN {0} ELSE Grown(d, v[n - 1])
      <3>1. SUFFICES ASSUME NEW n \in 0..(k + 1)
                     PROVE  v[n] = IF n = 0 THEN {0} ELSE Grown(d, v[n - 1])
        OBVIOUS
      <3>2. CASE n <= k
        BY <3>2, <2>2, <2>3
      <3>3. CASE n = k + 1
        BY <3>3, <2>3
      <3>4. QED
        BY <3>2, <3>3
    <2>5. v = [n \in 0..(k + 1) |-> v[n]]
      OBVIOUS
    <2>6. Upto(k + 1, v)
      BY <2>4, <2>5
    <2>7. \E w1 : Upto(k + 1, w1)
      <3> HIDE DEF Upto, v
      <3>1. QED
        BY <2>6, Zenon
    <2>8. QED
      <3> HIDE DEF Upto
      <3>1. QED
        BY <2>7
  <1>3. Steps \in S
    <2> HIDE DEF S
    <2>1. QED
      BY <1>1, <1>2, Induction, ClusterFacts
  <1>4. \E w : Upto(Steps, w)
    BY <1>3
  <1> DEFINE ws == CHOOSE w : Upto(Steps, w)
  <1>5. Dirs(d) = ws[Steps]
    BY DEF Dirs, Grown
  <1>6. Upto(Steps, ws)
    <2> HIDE DEF Upto
    <2>1. QED
      BY <1>4
  <1> HIDE DEF ws
  <1>7. QED
    BY <1>5, <1>6

\* A listed slot, by its place and by its cell.
LEMMA EntryCell ==
  ASSUME NEW d, NEW x, NEW p \in Entries(d, x)
  PROVE  \E u \in ListedIn(d, x) : p = Place(DirChain(d, x), u) /\ SlotAt(d, p) = At(d, x, u)
  BY DEF Entries, ListedIn, At

\* Every directory reached from the root is one of the tree.
LEMMA DirsInTree ==
  ASSUME NEW d, NEW D, Tree(d, D)
  PROVE  Dirs(d) \subseteq D
  <1>1. PICK w : /\ w = [n \in 0..Steps |-> IF n = 0 THEN {0} ELSE Grown(d, w[n - 1])]
                 /\ Dirs(d) = w[Steps]
    BY LevelsExist
  <1>2. \A n \in 0..Steps : w[n] = IF n = 0 THEN {0} ELSE Grown(d, w[n - 1])
    BY <1>1
  <1>3. ASSUME NEW known, known \subseteq D PROVE Grown(d, known) \subseteq D
    <2>1. SUFFICES ASSUME NEW x \in known, NEW p \in Entries(d, x), SlotAt(d, p).dir
                   PROVE  SlotAt(d, p).first \in D
      BY <1>3 DEF Grown
    <2>2. x \in D
      BY <1>3
    <2>3. PICK u \in ListedIn(d, x) : SlotAt(d, p) = At(d, x, u)
      BY EntryCell
    <2>4. EntrySound(d, D, At(d, x, u))
      BY <2>2, TreeFacts
    <2>5. QED
      BY <2>1, <2>3, <2>4 DEF EntrySound
  <1> DEFINE S == {n \in Nat : n <= Steps => w[n] \subseteq D}
  <1>4. 0 \in S
    <2>1. 0 \in D /\ 0 \in 0..Steps
      BY TreeFacts, ClusterFacts DEF Skeleton
    <2>2. w[0] = {0}
      BY <1>2, <2>1
    <2>3. QED
      BY <2>1, <2>2
  <1>5. ASSUME NEW n \in Nat, n \in S PROVE n + 1 \in S
    <2>1. SUFFICES ASSUME n + 1 <= Steps PROVE w[n + 1] \subseteq D
      OBVIOUS
    <2>2. n + 1 \in 0..Steps /\ n + 1 # 0 /\ (n + 1) - 1 = n /\ n <= Steps
      BY <2>1, ClusterFacts
    <2>3. w[n + 1] = Grown(d, w[n])
      BY <1>2, <2>2
    <2>4. w[n] \subseteq D
      BY <1>5, <2>2
    <2>5. QED
      BY <1>3, <2>3, <2>4
  <1>6. Steps \in S
    <2> HIDE DEF S
    <2>1. QED
      BY <1>4, <1>5, Induction, ClusterFacts
  <1>7. QED
    BY <1>1, <1>6, ClusterFacts

LEMMA LiveCell ==
  ASSUME NEW d, NEW D, Tree(d, D), NEW p \in Live(d)
  PROVE  \E x \in D : \E u \in ListedIn(d, x) :
            /\ p = Place(DirChain(d, x), u) /\ SlotAt(d, p) = At(d, x, u)
            /\ EntrySound(d, D, At(d, x, u)) /\ At(d, x, u) \in SubSlot
  <1>1. PICK x \in Dirs(d) : p \in Entries(d, x)
    BY DEF Live
  <1>2. x \in D
    BY DirsInTree
  <1>3. PICK u \in ListedIn(d, x) : p = Place(DirChain(d, x), u) /\ SlotAt(d, p) = At(d, x, u)
    BY <1>1, EntryCell
  <1>4. QED
    BY <1>2, <1>3, TreeFacts

LEMMA SoundFiles ==
  ASSUME NEW d, NEW D, Tree(d, D), NEW p \in Live(d), ~SlotAt(d, p).dir
  PROVE  LET c == Contents(d, p)
         IN  Len(c) = SlotAt(d, p).size /\ \A j \in DOMAIN c : c[j] = <<c[1][1], j>>
  <1>1. PICK x \in D : \E u \in ListedIn(d, x) : SlotAt(d, p) = At(d, x, u) /\ EntrySound(d, D, At(d, x, u))
                                                /\ At(d, x, u) \in SubSlot
    BY LiveCell
  <1> DEFINE e == SlotAt(d, p)
             ch == Chain(d, e.first)
             c == Contents(d, p)
  <1>2. Whole(d, e) /\ e \in SubSlot
    BY <1>1 DEF EntrySound
  <1>3. c = [j \in DOMAIN ch |-> d.cont[ch[j]].piece]
    BY DEF Contents
  <1> HIDE DEF e
  <1>4. ch \in Seq(Clusters)
    <2>1. e.first \in {0} \cup Clusters
      BY <1>2 DEF SubSlot, SlotTypes
    <2>2. QED
      BY <2>1, TreeFacts, ChainIsPath DEF Path
  <1>5. Len(ch) = e.size /\ \A j \in DOMAIN ch : d.cont[ch[j]].piece = <<d.cont[ch[1]].piece[1], j>>
    BY <1>2 DEF Whole
  <1> HIDE DEF ch, c
  <1>6. DOMAIN ch = 1..Len(ch) /\ Len(ch) \in Nat
    BY <1>4
  <1>7. DOMAIN c = 1..Len(ch) /\ Len(c) = Len(ch)
    BY <1>3, <1>6
  <1>8. ASSUME NEW j \in DOMAIN c PROVE c[j] = <<c[1][1], j>>
    <2>1. j \in DOMAIN ch /\ 1 \in DOMAIN ch
      BY <1>6, <1>7
    <2>2. c[j] = d.cont[ch[j]].piece /\ c[1] = d.cont[ch[1]].piece
      BY <2>1, <1>3
    <2>3. QED
      BY <2>1, <2>2, <1>5
  <1>9. QED
    BY <1>5, <1>7, <1>8 DEF c, e

\* The clusters of two entries are apart.
LEMMA SoundOwners ==
  ASSUME NEW d, NEW D, Tree(d, D), NEW p \in Live(d), NEW q \in Live(d), q # p
  PROVE  Owned(d, q) \cap Owned(d, p) = {}
  <1>1. PICK x \in D : \E u \in ListedIn(d, x) :
            p = Place(DirChain(d, x), u) /\ SlotAt(d, p) = At(d, x, u) /\ EntrySound(d, D, At(d, x, u))
    BY LiveCell
  <1>2. PICK u \in ListedIn(d, x) :
            p = Place(DirChain(d, x), u) /\ SlotAt(d, p) = At(d, x, u) /\ EntrySound(d, D, At(d, x, u))
    BY <1>1
  <1>3. PICK y \in D : \E v \in ListedIn(d, y) :
            q = Place(DirChain(d, y), v) /\ SlotAt(d, q) = At(d, y, v) /\ EntrySound(d, D, At(d, y, v))
    BY LiveCell
  <1>4. PICK v \in ListedIn(d, y) :
            q = Place(DirChain(d, y), v) /\ SlotAt(d, q) = At(d, y, v) /\ EntrySound(d, D, At(d, y, v))
    BY <1>3
  <1>5. <<x, u>> # <<y, v>>
    BY <1>2, <1>4
  <1> DEFINE e == At(d, x, u)
             f == At(d, y, v)
  <1>6. Apart(d, e, f)
    BY <1>5 DEF Tree
  <1>7. EntrySound(d, D, e) /\ EntrySound(d, D, f)
    BY <1>2, <1>4
  <1>8. e.dir \in BOOLEAN /\ f.dir \in BOOLEAN
    BY TreeFacts DEF SubSlot, SlotTypes
  <1>9. Owned(d, p) = ToSet(Chain(d, e.first)) /\ Owned(d, q) = ToSet(Chain(d, f.first))
    BY <1>2, <1>4 DEF Owned
  <1> HIDE DEF e, f
  <1>10. \A c : c # 0 => DirChain(d, c) = Chain(d, c)
    BY DEF DirChain
  <1>11. Skeleton(d, D)
    BY TreeFacts
  <1>12. CASE e.dir /\ f.dir
    <2>1. e.first \in D /\ f.first \in D /\ e.first # 0 /\ f.first # 0 /\ e.first # f.first
      BY <1>12, <1>6, <1>7 DEF Apart, EntrySound
    <2>2. ToSet(DirChain(d, f.first)) \cap ToSet(DirChain(d, e.first)) = {}
      BY <2>1, <1>11 DEF Skeleton
    <2>3. QED
      BY <2>1, <2>2, <1>9, <1>10
  <1>13. CASE e.dir /\ ~f.dir
    <2>1. e.first \in D /\ e.first # 0
      BY <1>13, <1>7 DEF EntrySound
    <2>2. ToSet(Chain(d, f.first)) \cap ToSet(DirChain(d, e.first)) = {}
      BY <1>13, <2>1, <1>7 DEF EntrySound
    <2>3. QED
      BY <2>1, <2>2, <1>9, <1>10
  <1>14. CASE ~e.dir /\ f.dir
    <2>1. f.first \in D /\ f.first # 0
      BY <1>14, <1>7 DEF EntrySound
    <2>2. ToSet(Chain(d, e.first)) \cap ToSet(DirChain(d, f.first)) = {}
      BY <1>14, <2>1, <1>7 DEF EntrySound
    <2>3. QED
      BY <2>1, <2>2, <1>9, <1>10
  <1>15. CASE ~e.dir /\ ~f.dir
    BY <1>15, <1>6, <1>9 DEF Apart
  <1>16. QED
    BY <1>8, <1>12, <1>13, <1>14, <1>15

LEMMA SoundChains ==
  ASSUME NEW d, NEW D, Tree(d, D), NEW p \in Live(d)
  PROVE  LET e == SlotAt(d, p)
             ch == Chain(d, e.first)
         IN  /\ ch # <<>> => d.fat[Last(ch)] = Eoc
             /\ e.dir => ch # <<>> /\ \A c \in ToSet(ch) : d.cont[c].slots # <<>>
  <1>1. PICK x \in D : \E u \in ListedIn(d, x) : SlotAt(d, p) = At(d, x, u) /\ EntrySound(d, D, At(d, x, u))
    BY LiveCell
  <1> DEFINE e == SlotAt(d, p)
  <1>2. EntrySound(d, D, e)
    BY <1>1
  <1> HIDE DEF e
  <1>3. Skeleton(d, D)
    BY TreeFacts
  <1>4. CASE e.dir
    <2>1. e.first \in D /\ e.first # 0
      BY <1>2, <1>4 DEF EntrySound
    <2>2. /\ Ends(d, e.first) /\ e.first \in Clusters
          /\ \A k \in ToSet(Chain(d, e.first)) : d.cont[k].slots # <<>>
      BY <2>1, <1>3, DirFacts
    <2>3. Chain(d, e.first) # <<>>
      BY <2>2, TreeFacts, EndsFacts
    <2>4. QED
      BY <2>2, <2>3 DEF Ends, e
  <1>5. CASE ~e.dir
    <2>1. Ends(d, e.first)
      BY <1>2, <1>5 DEF EntrySound, Whole
    <2>2. QED
      BY <2>1, <1>5 DEF Ends, e
  <1>6. QED
    BY <1>4, <1>5

LEMMA SoundNames ==
  ASSUME NEW d, NEW D, Tree(d, D), AsGiven, NEW x \in Dirs(d), NEW n
  PROVE  Cardinality(Named(d, x, n)) <= 1
  <1>1. x \in D
    BY DirsInTree
  <1> DEFINE us == Named(d, x, n)
  <1>2. us = {u \in ListedIn(d, x) : At(d, x, u).name = n}
    BY DEF Named, ListedIn, At
  <1>3. \A u, v \in us : u = v
    <2>1. SUFFICES ASSUME NEW u \in us, NEW v \in us, u # v PROVE FALSE
      OBVIOUS
    <2>2. u \in ListedIn(d, x) /\ v \in ListedIn(d, x) /\ At(d, x, u).name = n /\ At(d, x, v).name = n
      BY <1>2
    <2>3. At(d, x, u).name # At(d, x, v).name
      BY <1>1, <2>1, <2>2 DEF Tree
    <2>4. QED
      BY <2>2, <2>3
  <1> HIDE DEF us
  <1>4. CASE us = {}
    <2>1. Cardinality(us) = 0
      BY <1>4, FS_EmptySet
    <2>2. QED
      BY <2>1 DEF us
  <1>5. CASE us # {}
    <2>0. PICK u : u \in us
      BY <1>5
    <2>1. us = {u}
      BY <2>0, <1>3
    <2>2. Cardinality(us) = 1
      BY <2>1, FS_Singleton
    <2>3. QED
      BY <2>2 DEF us
  <1>6. QED
    BY <1>4, <1>5

-----------------------------------------------------------------------------
(***************************************************************************)
(* 12. The invariant.                                                      *)
(***************************************************************************)
Nexts == {NoNext} \cup [dir : {0} \cup Clusters, name : Names, size : 0..MaxSize]
Gets == [on : BOOLEAN, at : {0} \cup Clusters, left : 0..MaxSize,
         sent : Seq(Nat \X Nat), want : Seq(Nat \X Nat)]

TypeInv ==
  /\ Disk \in ImageTypes /\ todo \in Seq(Writes) /\ next \in Nexts /\ get \in Gets
  /\ reqs \in 0..MaxReqs /\ faults \in 0..MaxFaults /\ scar \in BOOLEAN

\* What is left of a call leads to a sound image, whatever fails on the way.
PlanInv == ~scar => Plan(Disk, todo, next)

\* A download follows the chain of the file; the contents are as they were,
\* unless a guest may write while the download is open.
Follows(d, g) ==
  \E c \in {0} \cup Clusters :
    LET ch == Chain(d, c)
    IN  /\ g.left + Len(g.sent) = Len(g.want) /\ Len(g.want) <= Len(ch)
        /\ g.at = IF g.sent = <<>> THEN c ELSE ch[Len(g.sent)]
        /\ ~GuestDuringGet => /\ \A j \in 1..Len(g.want) : g.want[j] = d.cont[ch[j]].piece
                              /\ \A j \in 1..Len(g.sent) : g.sent[j] = g.want[j]
GetInv == get.on => todo = <<>> /\ next = NoNext /\ Follows(Disk, get)

Inv == TypeInv /\ PlanInv /\ GetInv

LEMMA NoGetTyped == NoGet \in Gets /\ ~NoGet.on
  <1>1. NoGet.on = FALSE
    BY DEF NoGet
  <1>2. <<>> \in Seq(Nat \X Nat)
    OBVIOUS
  <1>3. NoGet \in Gets
    BY <1>2, HumanFsAssumption DEF NoGet, Gets
  <1>4. QED
    BY <1>1, <1>3

LEMMA DiskIs ==
  ASSUME NEW d \in ImageTypes
  PROVE  d = [fat |-> d.fat, root |-> d.root, cont |-> d.cont]
  BY DEF ImageTypes

\* What is sound when a call begins.
LEMMA IdleSound ==
  ASSUME Inv, ~scar, todo = <<>>
  PROVE  Good(Disk, next)
  BY PlanNil DEF Inv, PlanInv

LEMMA TreeThere ==
  ASSUME Inv, ~Exposing
  PROVE  \E D : Tree(Disk, D)
  <1>1. ~scar /\ (todo # <<>> => ~Head(todo).open)
    BY DEF Exposing
  <1>2. CASE todo = <<>>
    BY <1>1, <1>2, IdleSound DEF Good
  <1>3. CASE todo # <<>>
    <2>1. Plan(Disk, todo, next) /\ todo \in Seq(Writes)
      BY <1>1 DEF Inv, PlanInv, TypeInv
    <2>2. Safe(Disk, Head(todo), next)
      BY <2>1, <1>3, PlanStep
    <2>3. QED
      BY <2>2, <1>1, <1>3 DEF Safe, Good
  <1>4. QED
    BY <1>2, <1>3

LEMMA InvInit ==
  ASSUME Init
  PROVE  Inv
  <1>1. PICK d \in Images : fat = d.fat /\ root = d.root /\ cont = d.cont
    BY DEF Init
  <1>2. Tree(d, Dirs(d)) /\ d \in ImageTypes
    BY ImagesAssumption, TreeFacts
  <1>3. Disk = d
    BY <1>1, <1>2, DiskIs DEF Disk
  <1>4. todo = <<>> /\ next = NoNext /\ get = NoGet /\ reqs = 0 /\ faults = 0 /\ scar = FALSE
    BY DEF Init
  <1>5. TypeInv
    <2>1. <<>> \in Seq(Writes) /\ NoNext \in Nexts /\ 0 \in 0..MaxReqs /\ 0 \in 0..MaxFaults
      BY HumanFsAssumption DEF Nexts
    <2>2. QED
      BY <1>2, <1>3, <1>4, <2>1, NoGetTyped DEF TypeInv
  <1>6. PlanInv
    <2>1. Good(Disk, next)
      BY <1>2, <1>3, <1>4 DEF Good, Ready
    <2>2. QED
      BY <1>4, <2>1, PlanNil DEF PlanInv
  <1>7. GetInv
    BY <1>4, NoGetTyped DEF GetInv
  <1>8. QED
    BY <1>5, <1>6, <1>7 DEF Inv

\* A request begins on a sound image: its call is typed and has a plan.
LEMMA BeginStep ==
  ASSUME Inv, NEW c, NEW nx, NEW ts, Begin(c, nx, ts), c.ws \in Seq(Writes), nx \in Nexts,
         scar' \in BOOLEAN, ~scar' => Plan(Disk, c.ws, nx)
  PROVE  Inv'
  <1>1. /\ ~get.on /\ reqs < MaxReqs /\ reqs' = reqs + 1
        /\ todo' = c.ws /\ next' = nx /\ Disk' = Disk /\ get' = get /\ faults' = faults
    BY DEF Begin, open_rw, disk, Disk
  <1>2. TypeInv'
    <2>1. reqs' \in 0..MaxReqs
      BY <1>1, HumanFsAssumption DEF Inv, TypeInv
    <2>2. QED
      BY <1>1, <2>1 DEF Inv, TypeInv
  <1>3. PlanInv'
    BY <1>1 DEF PlanInv
  <1>4. GetInv'
    BY <1>1 DEF GetInv
  <1>5. QED
    BY <1>2, <1>3, <1>4 DEF Inv

\* The tree a request finds.
LEMMA RequestTree ==
  ASSUME Inv, ~scar, open_rw
  PROVE  \E D : /\ Tree(Disk, D) /\ Dirs(Disk) \subseteq D /\ D \subseteq {0} \cup Clusters
                /\ Disk \in ImageTypes
  <1>1. PICK D : Tree(Disk, D)
    BY IdleSound DEF open_rw, Good
  <1>2. Dirs(Disk) \subseteq D
    BY <1>1, DirsInTree
  <1>3. D \subseteq {0} \cup Clusters /\ Disk \in ImageTypes
    BY <1>1, TreeFacts DEF Skeleton
  <1>4. QED
    BY <1>1, <1>2, <1>3

LEMMA InjectStep ==
  ASSUME Inv, ~scar, NEW dir \in Dirs(Disk), NEW n \in Names, NEW z \in 0..MaxSize, NEW ow \in BOOLEAN,
         imgfs_inject(dir, n, z, ow)
  PROVE  Inv'
  <1>1. CASE /\ Named(Disk, dir, n) = {}
             /\ Begin(h68k_inject_stream_at(Disk, dir, n, z, reqs + 1), NoNext, {<<dir, Shown[n]>>})
             /\ UNCHANGED scar
    <2> DEFINE id == reqs + 1
               c == h68k_inject_stream_at(Disk, dir, n, z, id)
    <2>1. PICK D : Tree(Disk, D) /\ Dirs(Disk) \subseteq D /\ D \subseteq {0} \cup Clusters /\ Disk \in ImageTypes
      BY <1>1, RequestTree DEF Begin
    <2>a. reqs \in 0..MaxReqs /\ scar \in BOOLEAN
      BY DEF Inv, TypeInv
    <2>b. id \in Nat
      BY <2>a, HumanFsAssumption
    <2>2. dir \in D /\ dir \in {0} \cup Clusters /\ id \in Nat
      BY <2>1, <2>b
    <2>c. Begin(c, NoNext, {<<dir, Shown[n]>>}) /\ scar' \in BOOLEAN /\ NoNext \in Nexts
      <3>1. scar' \in BOOLEAN /\ NoNext \in Nexts
        BY <1>1, <2>a DEF Nexts
      <3>2. QED
        BY <3>1, <1>1
    <2> HIDE DEF id
    <2>3. c.ws \in Seq(Writes)
      BY <2>1, <2>2, InjectTyped
    <2>4. Unnamed(Disk, dir, Shown[n])
      BY <1>1, NotNamed
    <2>5. Plan(Disk, c.ws, NoNext)
      BY <2>1, <2>2, <2>4, InjectPlan
    <2> HIDE DEF c
    <2>6. QED
      BY <2>3, <2>5, <2>c, BeginStep
  <1>2. CASE /\ Named(Disk, dir, n) # {} /\ ow
             /\ Begin(h68k_delete(Disk, dir, n), [dir |-> dir, name |-> n, size |-> z],
                      {<<dir, n>>, <<dir, Shown[n]>>})
             /\ scar' = (h68k_delete(Disk, dir, n).rc = 6)
    <2> DEFINE c == h68k_delete(Disk, dir, n)
               nx == [dir |-> dir, name |-> n, size |-> z]
               ts == {<<dir, n>>, <<dir, Shown[n]>>}
    <2>1. PICK D : Tree(Disk, D) /\ Dirs(Disk) \subseteq D /\ D \subseteq {0} \cup Clusters /\ Disk \in ImageTypes
      BY <1>2, RequestTree DEF Begin
    <2>2. dir \in D /\ dir \in {0} \cup Clusters
      BY <2>1
    <2>3. c.ws \in Seq(Writes)
      BY <2>1, <2>2, DeleteTyped
    <2>4. nx \in Nexts /\ nx.dir = dir /\ nx.name = n
      BY <2>2 DEF Nexts
    <2>5. Begin(c, nx, ts) /\ scar' = (c.rc = 6) /\ scar' \in BOOLEAN
      BY <1>2
    <2> HIDE DEF nx, ts
    <2>6. ~scar' => Plan(Disk, c.ws, nx)
      <3>1. SUFFICES ASSUME c.rc # 6 PROVE Plan(Disk, c.ws, nx)
        BY <2>5
      <3>2. Named(Disk, dir, n) # {}
        BY <1>2
      <3>3. QED
        BY <3>1, <3>2, <2>1, <2>2, <2>4, DeletePlan
    <2> HIDE DEF c
    <2>7. QED
      BY <2>3, <2>4, <2>5, <2>6, BeginStep
  <1>3. QED
    BY <1>1, <1>2 DEF imgfs_inject

LEMMA CallsStep ==
  ASSUME Inv, ~scar, NEW dir \in Dirs(Disk), NEW n \in Names, NEW to \in Names, NEW dst \in Dirs(Disk)
  PROVE  /\ imgfs_rm(dir, n) => Inv'
         /\ imgfs_mkdir(dir, n) => Inv'
         /\ imgfs_rename(dir, n, to) => Inv'
         /\ imgfs_move(dir, n, dst) => Inv'
  <1>1. ASSUME NEW c, NEW ts, Begin(c, NoNext, ts), UNCHANGED scar, c.ws \in Seq(Writes),
               Plan(Disk, c.ws, NoNext)
        PROVE  Inv'
    <2>1. scar' \in BOOLEAN /\ NoNext \in Nexts
      BY <1>1 DEF Inv, TypeInv, Nexts
    <2>2. QED
      BY <1>1, <2>1, BeginStep
  <1>2. open_rw => \E D : /\ Tree(Disk, D) /\ dir \in D /\ dst \in D /\ Disk \in ImageTypes
                          /\ dir \in {0} \cup Clusters /\ dst \in {0} \cup Clusters
    <2>1. SUFFICES ASSUME open_rw
                   PROVE  \E D : /\ Tree(Disk, D) /\ dir \in D /\ dst \in D /\ Disk \in ImageTypes
                                 /\ dir \in {0} \cup Clusters /\ dst \in {0} \cup Clusters
      OBVIOUS
    <2>2. PICK D : Tree(Disk, D) /\ Dirs(Disk) \subseteq D /\ D \subseteq {0} \cup Clusters /\ Disk \in ImageTypes
      BY <2>1, RequestTree
    <2>3. dir \in D /\ dst \in D
      BY <2>2
    <2>4. QED
      BY <2>2, <2>3
  <1>3. ASSUME imgfs_rm(dir, n) PROVE Inv'
    <2> DEFINE c == h68k_delete(Disk, dir, n)
    <2>1. Begin(c, NoNext, {<<dir, n>>}) /\ UNCHANGED scar /\ open_rw
      BY <1>3 DEF imgfs_rm, Begin
    <2>2. PICK D : Tree(Disk, D) /\ dir \in D /\ Disk \in ImageTypes /\ dir \in {0} \cup Clusters
      BY <2>1, <1>2
    <2>3. c.ws \in Seq(Writes) /\ Plan(Disk, c.ws, NoNext)
      BY <2>2, DeleteTyped, DeletePlan
    <2> HIDE DEF c
    <2>4. QED
      BY <2>1, <2>3, <1>1
  <1>4. ASSUME imgfs_mkdir(dir, n) PROVE Inv'
    <2> DEFINE c == h68k_mkdir(Disk, dir, n)
    <2>1. Begin(c, NoNext, {<<dir, Shown[n]>>}) /\ UNCHANGED scar /\ open_rw
      BY <1>4 DEF imgfs_mkdir, Begin
    <2>2. PICK D : Tree(Disk, D) /\ dir \in D /\ Disk \in ImageTypes /\ dir \in {0} \cup Clusters
      BY <2>1, <1>2
    <2>3. c.ws \in Seq(Writes) /\ Plan(Disk, c.ws, NoNext)
      BY <2>2, MkdirTyped, MkdirPlan
    <2> HIDE DEF c
    <2>4. QED
      BY <2>1, <2>3, <1>1
  <1>5. ASSUME imgfs_rename(dir, n, to) PROVE Inv'
    <2> DEFINE c == h68k_rename(Disk, dir, n, to)
    <2>1. Begin(c, NoNext, {<<dir, n>>, <<dir, Shown[to]>>}) /\ UNCHANGED scar /\ open_rw
      BY <1>5 DEF imgfs_rename, Begin
    <2>2. PICK D : Tree(Disk, D) /\ dir \in D /\ Disk \in ImageTypes /\ dir \in {0} \cup Clusters
      BY <2>1, <1>2
    <2>3. c.ws \in Seq(Writes) /\ Plan(Disk, c.ws, NoNext)
      BY <2>2, RenameTyped, RenamePlan
    <2> HIDE DEF c
    <2>4. QED
      BY <2>1, <2>3, <1>1
  <1>6. ASSUME imgfs_move(dir, n, dst) PROVE Inv'
    <2> DEFINE c == h68k_move(Disk, dir, n, dst)
    <2>1. Begin(c, NoNext, {<<dir, n>>, <<dst, n>>}) /\ UNCHANGED scar /\ open_rw
      BY <1>6 DEF imgfs_move, Begin
    <2>2. PICK D : /\ Tree(Disk, D) /\ dir \in D /\ dst \in D /\ Disk \in ImageTypes
                   /\ dir \in {0} \cup Clusters /\ dst \in {0} \cup Clusters
      BY <2>1, <1>2
    <2>3. c.ws \in Seq(Writes) /\ Plan(Disk, c.ws, NoNext)
      BY <2>2, MoveTyped, MovePlan
    <2> HIDE DEF c
    <2>4. QED
      BY <2>1, <2>3, <1>1
  <1>7. QED
    BY <1>3, <1>4, <1>5, <1>6

LEMMA GetOpenStep ==
  ASSUME Inv, NEW dir \in Dirs(Disk), NEW n \in Names, imgfs_get_open(dir, n)
  PROVE  Inv'
  <1> DEFINE e == SlotAt(Disk, find_entry(Disk, dir, n))
             ch == Chain(Disk, e.first)
             w == [j \in 1..e.size |-> cont[ch[j]].piece]
             g == [on |-> TRUE, at |-> e.first, left |-> e.size, sent |-> <<>>, want |-> w]
  <1>1. /\ open_rw /\ ~scar /\ Named(Disk, dir, n) # {} /\ get' = g
        /\ Disk' = Disk /\ todo' = todo /\ next' = next /\ reqs' = reqs /\ faults' = faults /\ scar' = scar
    BY DEF imgfs_get_open, disk, Disk
  <1>2. PICK D : Tree(Disk, D) /\ Dirs(Disk) \subseteq D /\ Disk \in ImageTypes
    BY <1>1, RequestTree
  <1>3. e \in RootSlot /\ EntrySound(Disk, D, e)
    <2>1. dir \in D
      BY <1>2
    <2>2. PICK u : e = At(Disk, dir, u) /\ At(Disk, dir, u) \in RootSlot /\ EntrySound(Disk, D, At(Disk, dir, u))
      BY <1>1, <1>2, <2>1, FoundSound
    <2>3. QED
      BY <2>2
  <1> HIDE DEF e
  <1>4. e.first \in {0} \cup Clusters /\ e.size \in 0..MaxSize /\ e.size \in Nat
    BY <1>3, HumanFsAssumption DEF RootSlot, SlotTypes
  <1>5. ch \in Seq(Clusters)
    BY <1>2, <1>4, ImageFacts, ChainIsPath DEF Path
  <1>6. e.size <= Len(ch)
    <2>1. CASE e.dir
      <3>1. e.size = 0 /\ Len(ch) \in Nat
        BY <2>1, <1>3, <1>5 DEF EntrySound
      <3>2. QED
        BY <3>1
    <2>2. CASE ~e.dir
      <3>1. Len(ch) = e.size
        BY <2>2, <1>3 DEF EntrySound, Whole
      <3>2. QED
        BY <3>1, <1>4
    <2>3. QED
      BY <2>1, <2>2
  <1> HIDE DEF ch
  <1>7. Disk.cont = cont /\ \A c \in Clusters : cont[c].piece \in Nat \X Nat
    <2>1. Disk.cont = cont
      BY DEF Disk
    <2>2. \A c \in Clusters : Disk.cont[c].piece \in Nat \X Nat
      BY <1>2, ImageFacts
    <2>3. QED
      BY <2>1, <2>2
  <1>8. w \in Seq(Nat \X Nat) /\ Len(w) = e.size /\ \A j \in 1..e.size : w[j] = cont[ch[j]].piece
    <2>1. \A j \in 1..e.size : ch[j] \in Clusters
      BY <1>4, <1>5, <1>6
    <2>2. \A j \in 1..e.size : cont[ch[j]].piece \in Nat \X Nat
      BY <2>1, <1>7
    <2> DEFINE m == e.size
    <2>3. m \in Nat
      BY <1>4
    <2> HIDE DEF m
    <2>4. [j \in 1..m |-> cont[ch[j]].piece] \in Seq(Nat \X Nat) /\ Len([j \in 1..m |-> cont[ch[j]].piece]) = m
      BY <2>2, <2>3 DEF m
    <2>5. QED
      BY <2>4 DEF m
  <1> HIDE DEF w
  <1>9. g \in Gets
    <2>1. <<>> \in Seq(Nat \X Nat)
      OBVIOUS
    <2>2. QED
      BY <2>1, <1>4, <1>8 DEF Gets
  <1>10. Follows(Disk, g)
    <2>1. g.left = e.size /\ g.sent = <<>> /\ g.want = w /\ g.at = e.first
      OBVIOUS
    <2> HIDE DEF g
    <2>2. Len(g.sent) = 0
      BY <2>1
    <2>3. /\ g.left + Len(g.sent) = Len(g.want) /\ Len(g.want) <= Len(ch)
          /\ \A j \in 1..Len(g.want) : g.want[j] = Disk.cont[ch[j]].piece
          /\ \A j \in 1..Len(g.sent) : g.sent[j] = g.want[j]
      BY <2>1, <2>2, <1>4, <1>6, <1>7, <1>8
    <2>4. QED
      BY <2>1, <2>3, <1>4 DEF Follows, ch
  <1> HIDE DEF g
  <1>11. TypeInv' /\ PlanInv'
    BY <1>1, <1>9 DEF Inv, TypeInv, PlanInv
  <1>12. GetInv'
    BY <1>1, <1>10 DEF GetInv, open_rw
  <1>13. QED
    BY <1>11, <1>12 DEF Inv

LEMMA ReadCounts ==
  ASSUME NEW l \in Nat, NEW k \in Nat, NEW w \in Nat, NEW n \in Nat, NEW M \in Nat,
         l > 0, l + k = w, w <= n, l \in 0..M
  PROVE  k + 1 \in 1..w /\ k + 1 \in 1..n /\ (k # 0 => k \in 1..(n - 1)) /\ l - 1 \in 0..M
         /\ (l - 1) + (k + 1) = w
  OBVIOUS

LEMMA AppendFacts ==
  ASSUME NEW S, NEW s \in Seq(S), NEW v \in S
  PROVE  /\ Append(s, v) \in Seq(S) /\ Len(Append(s, v)) = Len(s) + 1 /\ Append(s, v) # <<>>
         /\ \A j \in 1..(Len(s) + 1) : Append(s, v)[j] = IF j = Len(s) + 1 THEN v ELSE s[j]
  <1>1. Append(s, v) \in Seq(S) /\ Len(Append(s, v)) = Len(s) + 1 /\ Len(s) \in Nat
    OBVIOUS
  <1>2. Append(s, v) # <<>>
    BY <1>1
  <1>3. \A j \in 1..(Len(s) + 1) : Append(s, v)[j] = IF j = Len(s) + 1 THEN v ELSE s[j]
    OBVIOUS
  <1>4. QED
    BY <1>1, <1>2, <1>3

LEMMA GetReadStep ==
  ASSUME Inv, imgfs_get_read
  PROVE  Inv'
  <1> DEFINE c == IF get.sent = <<>> THEN get.at ELSE fat[get.at]
             g == [get EXCEPT !.at = c, !.left = @ - 1, !.sent = Append(@, cont[c].piece)]
  <1>1. /\ get.on /\ get.left > 0 /\ get' = IF InChain(c) THEN g ELSE NoGet
        /\ Disk' = Disk /\ todo' = todo /\ next' = next /\ reqs' = reqs /\ faults' = faults /\ scar' = scar
    BY DEF imgfs_get_read, disk, Disk
  <1>2. /\ Disk \in ImageTypes /\ todo = <<>> /\ next = NoNext /\ get \in Gets
        /\ Disk.fat = fat /\ Disk.cont = cont
    BY <1>1 DEF Inv, TypeInv, GetInv, Disk
  <1>3. PICK c0 \in {0} \cup Clusters :
          LET ch == Chain(Disk, c0)
          IN  /\ get.left + Len(get.sent) = Len(get.want) /\ Len(get.want) <= Len(ch)
              /\ get.at = IF get.sent = <<>> THEN c0 ELSE ch[Len(get.sent)]
              /\ ~GuestDuringGet => /\ \A j \in 1..Len(get.want) : get.want[j] = Disk.cont[ch[j]].piece
                                    /\ \A j \in 1..Len(get.sent) : get.sent[j] = get.want[j]
    BY <1>1 DEF Inv, GetInv, Follows
  <1> DEFINE ch == Chain(Disk, c0)
             k == Len(get.sent)
  <1>4. /\ get.left + k = Len(get.want) /\ Len(get.want) <= Len(ch)
        /\ get.at = IF get.sent = <<>> THEN c0 ELSE ch[k]
        /\ ~GuestDuringGet => /\ \A j \in 1..Len(get.want) : get.want[j] = cont[ch[j]].piece
                              /\ \A j \in 1..k : get.sent[j] = get.want[j]
    BY <1>2, <1>3
  <1>5. /\ ch \in Seq(Clusters) /\ \A i \in 1..(Len(ch) - 1) : ch[i + 1] = fat[ch[i]]
        /\ c0 \in Clusters => ch[1] = c0
        /\ c0 \notin Clusters => ch = <<>>
    <2>1. Disk.fat \in Fat /\ c0 \in Clusters \cup {0, Eoc}
      BY <1>2, ImageFacts
    <2>2. /\ Path(Disk.fat, ch)
          /\ c0 \in Clusters => ch[1] = c0
          /\ c0 \notin Clusters => ch = <<>>
      BY <2>1, ChainIsPath
    <2> HIDE DEF ch, c, g
    <2>3. QED
      BY <1>2, <2>2 DEF Path
  <1> HIDE DEF ch
  <1>6. /\ get.left \in 0..MaxSize /\ get.sent \in Seq(Nat \X Nat) /\ get.want \in Seq(Nat \X Nat)
        /\ get.at \in {0} \cup Clusters
    BY <1>2 DEF Gets
  <1>7. k \in Nat /\ k + 1 \in 1..Len(get.want) /\ k + 1 \in 1..Len(ch) /\ (k # 0 => k \in 1..(Len(ch) - 1))
        /\ (k = 0 <=> get.sent = <<>>) /\ get.left - 1 \in 0..MaxSize /\ get.left \in Nat /\ Len(get.want) \in Nat
        /\ (get.left - 1) + (k + 1) = Len(get.want)
    <2>1. k \in Nat /\ Len(get.want) \in Nat /\ Len(ch) \in Nat /\ get.left \in Nat /\ MaxSize \in Nat
      BY <1>5, <1>6, HumanFsAssumption
    <2>2. k = 0 <=> get.sent = <<>>
      BY <1>6
    <2>3. get.left > 0 /\ get.left + k = Len(get.want) /\ Len(get.want) <= Len(ch) /\ get.left \in 0..MaxSize
      BY <1>1, <1>4, <1>6
    <2>4. k + 1 \in 1..Len(get.want) /\ k + 1 \in 1..Len(ch) /\ (k # 0 => k \in 1..(Len(ch) - 1))
          /\ get.left - 1 \in 0..MaxSize /\ (get.left - 1) + (k + 1) = Len(get.want)
      BY ONLY <2>1, <2>3, ReadCounts
    <2>5. QED
      BY ONLY <2>1, <2>2, <2>4
  <1> HIDE DEF k
  <1>8. c = ch[k + 1] /\ c \in Clusters
    <2>1. ch[k + 1] \in Clusters
      BY <1>5, <1>7
    <2>2. CASE k = 0
      <3>1. c = c0 /\ ch # <<>>
        BY <2>2, <1>4, <1>5, <1>7
      <3>2. QED
        BY <3>1, <2>1, <2>2, <1>5
    <2>3. CASE k # 0
      <3>1. c = fat[ch[k]]
        BY <2>3, <1>4, <1>7
      <3>2. QED
        BY <3>1, <2>1, <2>3, <1>5, <1>7
    <2>4. QED
      BY <2>2, <2>3
  <1> HIDE DEF c
  <1>9. /\ InChain(c) /\ cont[c].piece \in Nat \X Nat
        /\ ~GuestDuringGet => cont[c].piece = get.want[k + 1]
    <2>1. cont[c].piece \in Nat \X Nat
      BY <1>2, <1>8, ImageFacts
    <2>2. ~GuestDuringGet => cont[c].piece = get.want[k + 1]
      BY <1>4, <1>7, <1>8
    <2>3. QED
      BY <2>1, <2>2, <1>8, ClusterFacts
  <1>10. get' = g
    BY <1>1, <1>9
  <1>11. /\ g.on = get.on /\ g.at = c /\ g.left = get.left - 1 /\ g.sent = Append(get.sent, cont[c].piece)
         /\ g.want = get.want
    BY <1>2 DEF Gets
  <1>12. g.sent \in Seq(Nat \X Nat) /\ Len(g.sent) = k + 1 /\ g.sent # <<>>
         /\ \A j \in 1..(k + 1) : g.sent[j] = IF j = k + 1 THEN cont[c].piece ELSE get.sent[j]
    <2> DEFINE s0 == get.sent
               v == cont[c].piece
    <2>1. s0 \in Seq(Nat \X Nat) /\ v \in Nat \X Nat /\ k = Len(s0) /\ g.sent = Append(s0, v)
      BY <1>6, <1>9, <1>11 DEF k
    <2> HIDE DEF s0, v, g
    <2>2. /\ Append(s0, v) \in Seq(Nat \X Nat) /\ Len(Append(s0, v)) = Len(s0) + 1 /\ Append(s0, v) # <<>>
          /\ \A j \in 1..(Len(s0) + 1) : Append(s0, v)[j] = IF j = Len(s0) + 1 THEN v ELSE s0[j]
      BY ONLY <2>1, AppendFacts
    <2>3. /\ g.sent \in Seq(Nat \X Nat) /\ Len(g.sent) = k + 1 /\ g.sent # <<>>
          /\ \A j \in 1..(k + 1) : g.sent[j] = IF j = k + 1 THEN v ELSE s0[j]
      BY ONLY <2>1, <2>2
    <2>4. QED
      BY <2>3 DEF s0, v
  <1>13. g \in Gets
    <2> DEFINE s1 == Append(get.sent, cont[c].piece)
    <2>1. s1 \in Seq(Nat \X Nat) /\ c \in {0} \cup Clusters /\ get.left - 1 \in 0..MaxSize
      BY <1>7, <1>8, <1>11, <1>12
    <2> HIDE DEF s1
    <2>2. [get EXCEPT !.at = c, !.left = get.left - 1, !.sent = s1] \in Gets
      BY <1>2, <2>1 DEF Gets
    <2>3. g = [get EXCEPT !.at = c, !.left = get.left - 1, !.sent = s1]
      BY <1>2 DEF Gets, s1
    <2>4. QED
      BY <2>2, <2>3
  <1> HIDE DEF g
  <1>14. Follows(Disk, g)
    <2>1. g.left + Len(g.sent) = Len(g.want) /\ Len(g.want) <= Len(ch)
      <3>1. g.left = get.left - 1 /\ Len(g.sent) = k + 1 /\ g.want = get.want
        BY <1>11, <1>12
      <3>2. get.left + k = Len(get.want) /\ Len(get.want) <= Len(ch) /\ k \in Nat /\ get.left \in Nat
        BY <1>4, <1>7
      <3>3. (get.left - 1) + (k + 1) = Len(get.want)
        BY <1>7
      <3>4. QED
        BY ONLY <3>1, <3>2, <3>3
    <2>2. g.at = IF g.sent = <<>> THEN c0 ELSE ch[Len(g.sent)]
      BY <1>8, <1>11, <1>12
    <2>3. ~GuestDuringGet => \A j \in 1..Len(g.want) : g.want[j] = Disk.cont[ch[j]].piece
      BY <1>2, <1>4, <1>11
    <2>4. ASSUME ~GuestDuringGet, NEW j \in 1..Len(g.sent) PROVE g.sent[j] = g.want[j]
      <3>1. CASE j = k + 1
        BY <2>4, <3>1, <1>9, <1>11, <1>12
      <3>2. CASE j # k + 1
        <4>1. j \in 1..k /\ j \in 1..(k + 1)
          BY <2>4, <3>2, <1>7, <1>12
        <4>2. QED
          BY <2>4, <4>1, <3>2, <1>4, <1>11, <1>12
      <3>3. QED
        BY <3>1, <3>2
    <2>5. QED
      BY <2>1, <2>2, <2>3, <2>4 DEF Follows, ch
  <1>15. TypeInv' /\ PlanInv'
    BY <1>1, <1>10, <1>13 DEF Inv, TypeInv, PlanInv
  <1>16. GetInv'
    BY <1>1, <1>2, <1>10, <1>14 DEF GetInv
  <1>17. QED
    BY <1>15, <1>16 DEF Inv

\* A guest that rewrites a file changes pieces of that file only: the tree
\* stands, and no chain has moved under a download.
LEMMA GuestStep ==
  ASSUME Inv, ~scar, NEW dir \in Dirs(Disk), NEW n \in Names, GuestRewrites(dir, n)
  PROVE  Inv'
  <1> DEFINE a == SlotAt(Disk, find_entry(Disk, dir, n))
             K == ToSet(Chain(Disk, a.first))
             co == Rewritten(Disk, K, reqs + 1)
             e == [fat |-> fat, root |-> root, cont |-> co]
  <1>1. /\ todo = <<>> /\ next = NoNext /\ (get.on => GuestDuringGet)
        /\ reqs < MaxReqs /\ reqs' = reqs + 1 /\ Named(Disk, dir, n) # {}
        /\ ~a.dir /\ cont' = co /\ fat' = fat /\ root' = root
        /\ todo' = todo /\ next' = next /\ get' = get /\ faults' = faults /\ scar' = scar
    BY DEF GuestRewrites
  <1>2. PICK D : Tree(Disk, D) /\ Dirs(Disk) \subseteq D /\ Disk \in ImageTypes
    <2>1. PICK D : Tree(Disk, D)
      BY <1>1, IdleSound DEF Good
    <2>2. QED
      BY <2>1, DirsInTree, TreeFacts
  <1>3. dir \in D
    BY <1>2
  <1>4. PICK u : u \in ListedIn(Disk, dir) /\ a = At(Disk, dir, u)
    BY <1>1, <1>2, <1>3, FoundSound
  <1> HIDE DEF a
  <1>5. reqs + 1 \in Nat /\ reqs + 1 \in 0..MaxReqs
    BY <1>1, HumanFsAssumption DEF Inv, TypeInv
  <1>6. /\ Disk.fat = fat /\ Disk.root = root /\ Disk.cont = cont
        /\ fat \in [Clusters -> Clusters \cup {0, Eoc}] /\ root \in [1..RootSlots -> RootSlot]
        /\ cont \in [Clusters -> Cluster]
    <2>1. Disk.fat = fat /\ Disk.root = root /\ Disk.cont = cont
      BY DEF Disk
    <2>2. QED
      BY <1>2, <2>1 DEF ImageTypes
  <1> HIDE DEF K
  <1>7. /\ co \in [Clusters -> Cluster]
        /\ \A c \in Clusters : /\ co[c].slots = cont[c].slots
                              /\ co[c].piece = IF c \in K THEN <<reqs + 1, cont[c].piece[2]>> ELSE cont[c].piece
    <2> DEFINE r(c) == [cont[c] EXCEPT !.piece = <<reqs + 1, cont[c].piece[2]>>]
    <2>1. ASSUME NEW c \in Clusters
          PROVE  r(c) \in Cluster /\ r(c).slots = cont[c].slots /\ r(c).piece = <<reqs + 1, cont[c].piece[2]>>
      <3> DEFINE r0 == cont[c]
                 v == <<reqs + 1, r0.piece[2]>>
      <3>1. r0 \in Cluster
        BY <1>6
      <3>2. r0.piece \in Nat \X Nat
        BY <3>1 DEF Cluster
      <3>3. v \in Nat \X Nat
        BY <3>2, <1>5
      <3> HIDE DEF r0, v
      <3>4. [r0 EXCEPT !.piece = v] \in Cluster
        BY <3>1, <3>3 DEF Cluster
      <3>5. [r0 EXCEPT !.piece = v].slots = r0.slots /\ [r0 EXCEPT !.piece = v].piece = v
        BY <3>1 DEF Cluster
      <3>6. QED
        BY <3>4, <3>5 DEF r0, v
    <2>2. co = [c \in Clusters |-> IF c \in K THEN r(c) ELSE cont[c]]
      BY <1>6 DEF Rewritten
    <2> HIDE DEF r, co
    <2>3. QED
      BY <2>1, <2>2, <1>6
  <1> HIDE DEF co
  <1>8. e \in ImageTypes /\ e.fat = Disk.fat /\ e.root = Disk.root /\ e.cont = co
    BY <1>6, <1>7 DEF ImageTypes
  <1>9. Disk' = e
    BY <1>1 DEF Disk
  <1> HIDE DEF e
  <1>10. Tree(e, D)
    BY <1>1, <1>2, <1>3, <1>4, <1>5, <1>6, <1>7, <1>8, RewrittenTree DEF K
  <1>11. TypeInv'
    BY <1>1, <1>5, <1>8, <1>9 DEF Inv, TypeInv
  <1>12. PlanInv'
    <2>1. Good(e, next)
      BY <1>1, <1>10 DEF Good, Ready
    <2>2. QED
      BY <1>1, <1>9, <2>1, PlanNil DEF PlanInv
  <1>13. GetInv'
    <2>1. ASSUME get.on PROVE Follows(e, get)
      <3>1. GuestDuringGet /\ Follows(Disk, get)
        BY <1>1, <2>1 DEF Inv, GetInv
      <3>2. \A c : Chain(e, c) = Chain(Disk, c)
        BY <1>8 DEF Chain
      <3>3. QED
        BY <3>1, <3>2 DEF Follows
    <2>2. QED
      BY <1>1, <1>9, <2>1 DEF GetInv
  <1>14. QED
    BY <1>11, <1>12, <1>13 DEF Inv

LEMMA WriteStep ==
  ASSUME Inv, SdWrite
  PROVE  Inv'
  <1> DEFINE w == Head(todo)
             d == Apply(Disk, w)
  <1>1. /\ todo # <<>> /\ fat' = d.fat /\ root' = d.root /\ cont' = d.cont /\ todo' = Tail(todo)
        /\ next' = next /\ get' = get /\ reqs' = reqs /\ faults' = faults /\ scar' = scar
    BY DEF SdWrite
  <1>2. Disk \in ImageTypes /\ todo \in Seq(Writes)
    BY DEF Inv, TypeInv
  <1>3. w \in Writes /\ Tail(todo) \in Seq(Writes)
    BY <1>1, <1>2
  <1>4. d \in ImageTypes
    BY <1>2, <1>3, ApplyTyped
  <1> HIDE DEF w, d
  <1>5. Disk' = d
    BY <1>1, <1>4, DiskIs DEF Disk
  <1>6. TypeInv'
    BY <1>1, <1>3, <1>4, <1>5 DEF Inv, TypeInv
  <1>7. PlanInv'
    <2>1. SUFFICES ASSUME ~scar PROVE Plan(d, Tail(todo), next)
      BY <1>1, <1>5 DEF PlanInv
    <2>2. Plan(Disk, todo, next)
      BY <2>1 DEF Inv, PlanInv
    <2>3. QED
      BY <2>2, <1>1, <1>2, PlanStep DEF d, w
  <1>8. GetInv'
    BY <1>1 DEF Inv, GetInv
  <1>9. QED
    BY <1>6, <1>7, <1>8 DEF Inv

LEMMA FaultStep ==
  ASSUME Inv, SdRefused \/ PowerLoss
  PROVE  Inv'
  <1>1. /\ Disk \in ImageTypes /\ todo \in Seq(Writes) /\ next \in Nexts /\ get \in Gets
        /\ reqs \in 0..MaxReqs /\ faults \in 0..MaxFaults /\ scar \in BOOLEAN
    BY DEF Inv, TypeInv
  <1>2. ASSUME faults < MaxFaults, faults' = faults + 1 PROVE faults' \in 0..MaxFaults
    BY <1>1, <1>2, HumanFsAssumption
  <1>3. <<>> \in Seq(Writes)
    OBVIOUS
  <1>4. ASSUME ~scar, todo # <<>> PROVE Safe(Disk, Head(todo), next)
    BY <1>1, <1>4, PlanStep DEF Inv, PlanInv
  <1>5. \A nx : Good(Disk, nx) => Good(Disk, NoNext)
    BY DEF Good, Ready
  <1>6. CASE SdRefused
    <2>1. /\ todo # <<>> /\ faults < MaxFaults /\ faults' = faults + 1 /\ todo' = <<>>
          /\ scar' = (scar \/ Head(todo).open \/ (next # NoNext /\ Head(todo).w = "slot"))
          /\ Disk' = Disk /\ next' = next /\ get' = get /\ reqs' = reqs
      BY <1>6 DEF SdRefused, disk, Disk
    <2>2. ~get.on
      BY <2>1 DEF Inv, GetInv
    <2>3. TypeInv'
      <3>1. scar' \in BOOLEAN
        BY <2>1
      <3>2. QED
        BY <2>1, <3>1, <1>1, <1>2, <1>3 DEF TypeInv
    <2>4. PlanInv'
      <3>1. SUFFICES ASSUME ~scar, ~Head(todo).open, next = NoNext \/ Head(todo).w # "slot"
                     PROVE  Good(Disk, next)
        BY <2>1, PlanNil DEF PlanInv
      <3>2. Safe(Disk, Head(todo), next)
        BY <3>1, <2>1, <1>4
      <3>3. QED
        BY <3>1, <3>2 DEF Safe
    <2>5. GetInv'
      BY <2>1, <2>2 DEF GetInv
    <2>6. QED
      BY <2>3, <2>4, <2>5 DEF Inv
  <1>7. CASE PowerLoss
    <2>1. /\ faults < MaxFaults /\ faults' = faults + 1 /\ todo' = <<>> /\ next' = NoNext /\ get' = NoGet
          /\ scar' = (scar \/ (todo # <<>> /\ Head(todo).open))
          /\ Disk' = Disk /\ reqs' = reqs
      BY <1>7 DEF PowerLoss, disk, Disk
    <2>2. TypeInv'
      <3>1. scar' \in BOOLEAN /\ NoNext \in Nexts
        BY <2>1 DEF Nexts
      <3>2. QED
        BY <2>1, <3>1, <1>1, <1>2, <1>3, NoGetTyped DEF TypeInv
    <2>3. PlanInv'
      <3>1. SUFFICES ASSUME ~scar, todo # <<>> => ~Head(todo).open PROVE Good(Disk, NoNext)
        BY <2>1, PlanNil DEF PlanInv
      <3>2. CASE todo = <<>>
        BY <3>1, <3>2, <1>5, IdleSound
      <3>3. CASE todo # <<>>
        BY <3>1, <3>3, <1>4, <1>5 DEF Safe
      <3>4. QED
        BY <3>2, <3>3
    <2>4. GetInv'
      BY <2>1, NoGetTyped DEF GetInv
    <2>5. QED
      BY <2>2, <2>3, <2>4 DEF Inv
  <1>8. QED
    BY <1>6, <1>7

LEMMA InjectNextStep ==
  ASSUME Inv, InjectNext
  PROVE  Inv'
  <1> DEFINE c == h68k_inject_stream_at(Disk, next.dir, next.name, next.size, reqs)
  <1>1. /\ todo = <<>> /\ next # NoNext /\ todo' = c.ws /\ next' = NoNext
        /\ Disk' = Disk /\ get' = get /\ reqs' = reqs /\ faults' = faults /\ scar' = scar
    BY DEF InjectNext, disk, Disk
  <1>2. Disk \in ImageTypes /\ next \in Nexts /\ reqs \in Nat
    BY HumanFsAssumption DEF Inv, TypeInv
  <1>3. next.dir \in {0} \cup Clusters /\ next.name \in Names /\ next.size \in 0..MaxSize
    BY <1>1, <1>2 DEF Nexts
  <1>4. c.ws \in Seq(Writes)
    BY <1>2, <1>3, InjectTyped
  <1>5. ~scar => Plan(Disk, c.ws, NoNext)
    <2>1. SUFFICES ASSUME ~scar PROVE Plan(Disk, c.ws, NoNext)
      OBVIOUS
    <2>2. PICK D : Tree(Disk, D) /\ Ready(Disk, D, next)
      BY <2>1, <1>1, IdleSound DEF Good
    <2>3. next.dir \in D /\ (AsGiven => \A v \in ListedIn(Disk, next.dir) : At(Disk, next.dir, v).name # next.name)
      BY <2>2, <1>1 DEF Ready
    <2>4. Unnamed(Disk, next.dir, Shown[next.name])
      BY <2>3, <1>3 DEF Unnamed, AsGiven
    <2>5. QED
      BY <2>2, <2>3, <2>4, <1>2, <1>3, InjectPlan
  <1> HIDE DEF c
  <1>6. TypeInv'
    <2>1. NoNext \in Nexts
      BY DEF Nexts
    <2>2. QED
      BY <1>1, <1>4, <2>1 DEF Inv, TypeInv
  <1>7. PlanInv'
    BY <1>1, <1>5 DEF PlanInv
  <1>8. GetInv'
    BY <1>1 DEF Inv, GetInv
  <1>9. QED
    BY <1>6, <1>7, <1>8 DEF Inv

LEMMA InvNext ==
  ASSUME Inv, [Next]_vars
  PROVE  Inv'
  <1>1. CASE ~scar /\ Request
    <2>1. PICK dir \in Dirs(Disk), n \in Names :
             \/ \E z \in 0..MaxSize, ow \in BOOLEAN : imgfs_inject(dir, n, z, ow)
             \/ imgfs_rm(dir, n)
             \/ imgfs_mkdir(dir, n)
             \/ \E to \in Names : imgfs_rename(dir, n, to)
             \/ \E to \in Dirs(Disk) : imgfs_move(dir, n, to)
             \/ imgfs_get_open(dir, n)
             \/ GuestRewrites(dir, n)
      BY <1>1 DEF Request
    <2>2. CASE \E z \in 0..MaxSize, ow \in BOOLEAN : imgfs_inject(dir, n, z, ow)
      BY <1>1, <2>2, InjectStep
    <2>3. CASE imgfs_rm(dir, n)
      BY <1>1, <2>3, CallsStep
    <2>4. CASE imgfs_mkdir(dir, n)
      BY <1>1, <2>4, CallsStep
    <2>5. CASE \E to \in Names : imgfs_rename(dir, n, to)
      BY <1>1, <2>5, CallsStep
    <2>6. CASE \E to \in Dirs(Disk) : imgfs_move(dir, n, to)
      BY <1>1, <2>6, CallsStep
    <2>7. CASE imgfs_get_open(dir, n)
      BY <2>7, GetOpenStep
    <2>8. CASE GuestRewrites(dir, n)
      BY <1>1, <2>8, GuestStep
    <2>9. QED
      BY <2>1, <2>2, <2>3, <2>4, <2>5, <2>6, <2>7, <2>8
  <1>2. CASE imgfs_get_close
    <2>1. /\ Disk' = Disk /\ get' = NoGet /\ todo' = todo /\ next' = next
          /\ reqs' = reqs /\ faults' = faults /\ scar' = scar
      BY <1>2 DEF imgfs_get_close, disk, Disk
    <2>2. QED
      BY <2>1, NoGetTyped DEF Inv, TypeInv, PlanInv, GetInv
  <1>3. CASE UNCHANGED vars
    <2>1. /\ Disk' = Disk /\ get' = get /\ todo' = todo /\ next' = next
          /\ reqs' = reqs /\ faults' = faults /\ scar' = scar
      BY <1>3 DEF vars, disk, Disk
    <2>2. QED
      BY <2>1 DEF Inv, TypeInv, PlanInv, GetInv
  <1>4. QED
    BY <1>1, <1>2, <1>3, WriteStep, FaultStep, InjectNextStep, GetReadStep DEF Next

LEMMA InvHolds == Spec => []Inv
  <1>1. Init => Inv
    BY InvInit
  <1>2. Inv /\ [Next]_vars => Inv'
    BY InvNext
  <1>3. QED
    BY <1>1, <1>2, PTL DEF Spec
-----------------------------------------------------------------------------
(***************************************************************************)
(* 13. The theorems.                                                       *)
(***************************************************************************)
LEMMA InvTypes ==
  ASSUME Inv
  PROVE  TypeOK
  <1>1. Disk \in ImageTypes /\ get \in Gets /\ reqs \in 0..MaxReqs /\ faults \in 0..MaxFaults
    BY DEF Inv, TypeInv
  <1>2. Disk.fat = fat /\ Disk.root = root /\ Disk.cont = cont
    BY DEF Disk
  <1>3. /\ fat \in [Clusters -> Clusters \cup {0, Eoc}]
        /\ root \in [1..RootSlots -> RootSlot] /\ cont \in [Clusters -> Cluster]
    BY <1>1, <1>2 DEF ImageTypes
  <1>4. DOMAIN root = 1..RootSlots /\ DOMAIN cont = Clusters
    BY <1>3
  <1>5. ASSUME NEW c \in Clusters PROVE cont[c].slots = <<>> \/ Len(cont[c].slots) = SubSlots
    <2>1. cont[c].slots = <<>> \/ cont[c].slots \in [1..SubSlots -> SubSlot]
      BY <1>3 DEF Cluster
    <2>2. SubSlots \in Nat
      BY HumanFsAssumption
    <2>3. ASSUME NEW s \in [1..SubSlots -> SubSlot] PROVE Len(s) = SubSlots
      BY <2>2
    <2>4. QED
      BY <2>1, <2>3
  <1>6. ASSUME NEW i \in 1..RootSlots PROVE root[i].k \in {"00", "E5", "ent"}
    BY <1>3 DEF RootSlot, SlotTypes
  <1>7. get.left <= MaxSize /\ faults <= MaxFaults /\ reqs <= MaxReqs
    BY <1>1, HumanFsAssumption DEF Gets
  <1>8. QED
    BY <1>3, <1>4, <1>5, <1>6, <1>7 DEF TypeOK

\* TypeOK: a FAT entry is a cluster, free or the end mark, and slots and pieces
\* keep their shape, under every request and every fault.
THEOREM Typed == Spec => []TypeOK
  BY InvHolds, InvTypes, PTL

\* FilesWhole: a file a directory lists has as many clusters as its size asks
\* for, holding the pieces of one injection in order - for every image that is
\* sound at the start, after every single write of every request, and whichever
\* write the card refused or the power cut off (human68k.c writes the entry
\* last and frees it first), but for the windows the code leaves open.
THEOREM FilesStayWhole == Spec => []FilesWhole
  <1>1. ASSUME Inv PROVE FilesWhole
    <2>1. SUFFICES ASSUME ~Exposing, NEW p \in Live(Disk), ~SlotAt(Disk, p).dir
                   PROVE  LET c == Contents(Disk, p)
                          IN  /\ Len(c) = SlotAt(Disk, p).size
                              /\ \A j \in DOMAIN c : c[j] = <<c[1][1], j>>
      BY DEF FilesWhole
    <2>2. PICK D : Tree(Disk, D)
      BY <1>1, <2>1, TreeThere
    <2>3. QED
      BY <2>1, <2>2, SoundFiles
  <1>2. QED
    BY <1>1, InvHolds, PTL

LEMMA InvOwners ==
  ASSUME Inv
  PROVE  OwnedOnce
  <1>1. SUFFICES ASSUME ~Exposing, NEW p \in Live(Disk)
                 PROVE  LET e == SlotAt(Disk, p)
                            ch == Chain(Disk, e.first)
                        IN  /\ ch # <<>> => fat[Last(ch)] = Eoc
                            /\ e.dir => ch # <<>> /\ \A c \in ToSet(ch) : cont[c].slots # <<>>
                            /\ \A q \in Live(Disk) \ {p} : Owned(Disk, q) \cap ToSet(ch) = {}
    BY DEF OwnedOnce
  <1>2. PICK D : Tree(Disk, D)
    BY <1>1, TreeThere
  <1>3. Disk.fat = fat /\ Disk.cont = cont
    BY DEF Disk
  <1> DEFINE e == SlotAt(Disk, p)
             ch == Chain(Disk, e.first)
  <1>4. /\ ch # <<>> => Disk.fat[Last(ch)] = Eoc
        /\ e.dir => ch # <<>> /\ \A c \in ToSet(ch) : Disk.cont[c].slots # <<>>
    BY <1>1, <1>2, SoundChains
  <1>5. ASSUME NEW q \in Live(Disk) \ {p} PROVE Owned(Disk, q) \cap ToSet(ch) = {}
    <2>1. Owned(Disk, q) \cap Owned(Disk, p) = {}
      BY <1>1, <1>2, SoundOwners
    <2>2. Owned(Disk, p) = ToSet(ch)
      BY DEF Owned
    <2>3. QED
      BY <2>1, <2>2
  <1>6. QED
    BY <1>3, <1>4, <1>5

\* OwnedOnce: no cluster belongs to two entries, every chain ends in the end
\* mark and the clusters of a directory hold slots, whatever names are cut to.
THEOREM OwnersApart == Spec => []OwnedOnce
  BY InvHolds, InvOwners, PTL

\* TreeSound: where every name is listed as it is given - no name is cut - the
\* image is a well-formed tree whose directories list no name twice, after
\* every single write, whichever fails.
THEOREM TreeStaysSound ==
  ASSUME AsGiven
  PROVE  Spec => []TreeSound
  <1>1. ASSUME Inv PROVE TreeSound
    <2>1. UniqueNames
      <3>1. SUFFICES ASSUME ~Exposing, NEW dir \in Dirs(Disk), NEW n \in Names
                     PROVE  Cardinality(Named(Disk, dir, n)) <= 1
        BY DEF UniqueNames
      <3>2. PICK D : Tree(Disk, D)
        BY <1>1, <3>1, TreeThere
      <3>3. QED
        BY <3>1, <3>2, SoundNames
    <2>2. QED
      BY <1>1, <2>1, InvTypes, InvOwners DEF TreeSound
  <1>2. QED
    BY <1>1, InvHolds, PTL

LEMMA PrefixBySteps ==
  ASSUME NEW S, NEW s \in Seq(S), NEW w \in Seq(S), NEW l \in Nat, l + Len(s) = Len(w),
         \A j \in 1..Len(s) : s[j] = w[j]
  PROVE  IsPrefix(s, w)
  <1>1. Len(s) <= Len(w)
    OBVIOUS
  <1>2. SubSeq(s, 1, Len(s)) = SubSeq(w, 1, Len(s))
    BY <1>1
  <1>3. QED
    BY <1>1, <1>2 DEF IsPrefix

\* GetWhole: what a download has sent is the beginning of the file as it was
\* when the download was opened, though the sender yields between the pieces
\* and other requests arrive: open_rw turns them away while it lasts.  Nobody
\* turns a guest away, so that its writes have to be excluded.
THEOREM DownloadsAreWhole ==
  ASSUME ~GuestDuringGet
  PROVE  Spec => []GetWhole
  <1>1. ASSUME Inv PROVE GetWhole
    <2>1. SUFFICES ASSUME get.on PROVE IsPrefix(get.sent, get.want)
      BY DEF GetWhole
    <2>2. get.sent \in Seq(Nat \X Nat) /\ get.want \in Seq(Nat \X Nat) /\ get.left \in Nat
      BY <1>1, HumanFsAssumption DEF Inv, TypeInv, Gets
    <2>3. /\ get.left + Len(get.sent) = Len(get.want)
          /\ \A j \in 1..Len(get.sent) : get.sent[j] = get.want[j]
      BY <1>1, <2>1 DEF Inv, GetInv, Follows
    <2>4. QED
      BY ONLY <2>2, <2>3, PrefixBySteps
  <1>2. QED
    BY <1>1, InvHolds, PTL
=============================================================================
