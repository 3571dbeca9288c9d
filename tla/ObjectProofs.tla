------------------------------ MODULE ObjectProofs ------------------------------
(***************************************************************************)
(* What the walks of GitObjects do on any objects and any path, and what   *)
(* TreeViews sees of the trees they make.                                  *)
(*                                                                         *)
(* Induction along a path is Reaches: an initial part of 0..N that is      *)
(* never left is all of it.  It needs no induction theorem about           *)
(* operators; that a set of numbers has a smallest element is taken from   *)
(* the well-founded order of finite sets (Least).                          *)
(***************************************************************************)
EXTENDS TreeViews, FiniteSetTheorems, SequenceTheorems, WellFoundedInduction, TLAPS

LEMMA Least ==
  ASSUME NEW N \in Nat, NEW S, S \subseteq 0..N, S # {}
  PROVE  \E n \in S : \A m \in S : n <= m
<1> DEFINE Below(n) == 1..n
           U        == 1..N
           T        == {Below(n) : n \in S}
<1>1. IsWellFoundedOn(StrictSubsetOrdering(U), SUBSET U)
  <2>1. IsFiniteSet(U)
    BY FS_Interval
  <2>2. FiniteSubsetsOf(U) = SUBSET U
    BY <2>1, FS_FiniteSubsetsOfFinite
  <2> QED
    BY <2>2, FS_StrictSubsetOrderingWellFounded
<1>2. T \subseteq SUBSET U /\ T # {}
  <2>1. T \subseteq SUBSET U
    OBVIOUS
  <2>2. T # {}
    OBVIOUS
  <2> QED
    BY <2>1, <2>2
<1> HIDE DEF T, U
<1>3. PICK x \in T : \A y \in T : <<y, x>> \notin StrictSubsetOrdering(U)
  BY <1>1, <1>2, WFMin
<1> USE DEF T, U
<1>4. PICK n \in S : x = Below(n)
  BY <1>3
<1>5. ASSUME NEW m \in S, m < n
      PROVE  FALSE
  <2>1. Below(m) \in T
    OBVIOUS
  <2>2. n \in Below(n) /\ n \notin Below(m)
    BY <1>5
  <2>3. Below(m) \subseteq Below(n) /\ Below(m) # Below(n)
    BY <1>5, <2>2
  <2>4. <<Below(m), Below(n)>> \in StrictSubsetOrdering(U)
    BY <1>2, <1>3, <1>4, <2>1, <2>3 DEF StrictSubsetOrdering
  <2> QED
    BY <1>3, <1>4, <2>1, <2>4
<1> QED
  BY <1>5

LEMMA Reaches ==
  ASSUME NEW N \in Nat, NEW S, 0 \in S, \A n \in 0..N : n \in S /\ n < N => n + 1 \in S
  PROVE  \A n \in 0..N : n \in S
<1> SUFFICES ASSUME (0..N) \ S # {}
             PROVE  FALSE
  OBVIOUS
<1>1. PICK n \in (0..N) \ S : \A m \in (0..N) \ S : n <= m
  <2>1. (0..N) \ S \subseteq 0..N
    OBVIOUS
  <2> QED
    BY <2>1, Least
<1>2. n # 0
  OBVIOUS
<1>3. n - 1 \in 0..N /\ n - 1 < N /\ ~(n <= n - 1)
  BY <1>2
<1>4. n - 1 \in S
  BY <1>1, <1>3
<1>5. (n - 1) + 1 \in S
  BY <1>3, <1>4
<1> QED
  BY <1>5

\* The same from the last place to the first.
LEMMA ReachesBack ==
  ASSUME NEW N \in Nat, NEW S, N \in S, \A n \in 1..N : n + 1 \in S /\ n < N => n \in S
  PROVE  \A n \in 1..N : n \in S
<1>1. CASE N = 0
  BY <1>1
<1>2. CASE N # 0
  <2> DEFINE M == N - 1
             T == {k \in 0..M : N - k \in S}
  <2>1. M \in Nat /\ 0 \in T
    BY <1>2
  <2>2. ASSUME NEW k \in 0..M, k \in T, k < M
        PROVE  k + 1 \in T
    <3>1. N - (k + 1) \in 1..N /\ (N - (k + 1)) + 1 = N - k /\ N - (k + 1) < N
      BY <2>2
    <3> QED
      BY <2>2, <3>1
  <2> HIDE DEF T
  <2>3. \A k \in 0..M : k \in T
    BY <2>1, <2>2, Reaches
  <2> QED
    <3> SUFFICES ASSUME NEW n \in 1..N
                 PROVE  n \in S
      OBVIOUS
    <3>1. N - n \in 0..M /\ N - (N - n) = n
      OBVIOUS
    <3> QED
      BY <2>3, <3>1 DEF T
<1> QED
  BY <1>1, <1>2

-------------------------------------------------------------------------------
\* The recursion of Walk has a solution, and Walk is one.
LEMMA WalkDef ==
  ASSUME NEW objects, NEW tree, NEW path, Len(path) \in Nat
  PROVE  LET w == Walk(objects, tree, path)
         IN  /\ w[0] = Found("tree", tree)
             /\ \A n \in 1..Len(path) : w[n] = Descend(objects, w[n - 1], path[n])
<1> DEFINE N       == Len(path)
           At(f,n) == IF n = 0 THEN Found("tree", tree) ELSE Descend(objects, f[n - 1], path[n])
           S       == {n \in 0..N : \E f : f = [m \in 0..n |-> At(f, m)]}
<1>1. 0 \in S
  <2> DEFINE f == [m \in 0..0 |-> Found("tree", tree)]
  <2>1. f = [m \in 0..0 |-> At(f, m)]
    OBVIOUS
  <2> HIDE DEF At, f
  <2>2. \E g : g = [m \in 0..0 |-> At(g, m)]
    BY <2>1
  <2> QED
    BY <2>2
<1>2. ASSUME NEW n \in 0..N, n \in S, n < N
      PROVE  n + 1 \in S
  <2>1. PICK f : f = [m \in 0..n |-> At(f, m)]
    BY <1>2
  <2> DEFINE g == [m \in 0..(n + 1) |-> IF m <= n THEN f[m] ELSE At(f, n + 1)]
  <2>2. ASSUME NEW m \in 0..(n + 1)
        PROVE  g[m] = At(g, m)
    <3>1. CASE m = 0
      BY <2>1, <3>1
    <3>2. CASE m # 0
      <4>1. m - 1 \in 0..n /\ m - 1 \in 0..(n + 1) /\ m - 1 <= n
        BY <3>2
      <4>2. g[m - 1] = f[m - 1]
        BY <4>1
      <4>3. At(g, m) = At(f, m)
        BY <4>2, <3>2
      <4>4. CASE m <= n
        <5>1. m \in 0..n
          BY <4>4
        <5>2. f[m] = At(f, m)
          BY <2>1, <5>1
        <5> QED
          BY <4>3, <4>4, <5>2
      <4>5. CASE m = n + 1
        BY <4>3, <4>5
      <4> QED
        BY <4>4, <4>5
    <3> QED
      BY <3>1, <3>2
  <2> HIDE DEF At
  <2>3. g = [m \in 0..(n + 1) |-> At(g, m)]
    BY <2>2
  <2> HIDE DEF g
  <2> QED
    BY <2>3
<1> HIDE DEF S
<1>3. N \in S
  <2>1. \A n \in 0..N : n \in S /\ n < N => n + 1 \in S
    BY <1>2
  <2>2. N \in Nat /\ N \in 0..N
    OBVIOUS
  <2> HIDE DEF N
  <2> QED
    BY <1>1, <2>1, <2>2, Reaches
<1>4. \E f : f = [n \in 0..N |-> At(f, n)]
  BY <1>3 DEF S
<1>5. Walk(objects, tree, path) = CHOOSE f : f = [n \in 0..N |-> At(f, n)]
  BY DEF Walk
<1> DEFINE w == Walk(objects, tree, path)
<1>6. w = [n \in 0..N |-> At(w, n)]
  BY <1>4, <1>5
<1> HIDE DEF w
<1>7. w[0] = Found("tree", tree)
  BY <1>6
<1>8. \A n \in 1..N : w[n] = Descend(objects, w[n - 1], path[n])
  BY <1>6
<1> QED
  BY <1>7, <1>8 DEF w

LEMMA SpineDef ==
  ASSUME NEW tree, NEW path, Len(path) \in Nat
  PROVE  LET s == Spine(tree, path)
         IN  /\ s = [n \in 1..Len(path) |-> s[n]]
             /\ Len(path) # 0 => s[1] = tree
             /\ \A n \in 2..Len(path) : s[n] = Child(s[n - 1], path[n - 1]).oid
<1> DEFINE N       == Len(path)
           At(f,n) == IF n = 1 THEN tree ELSE Child(f[n - 1], path[n - 1]).oid
           Up(n)   == \E f : f = [m \in 1..n |-> At(f, m)]
           S       == {n \in 0..N : Up(n)}
<1>1. 0 \in S
  <2> DEFINE f == [m \in 1..0 |-> tree]
  <2>1. f = [m \in 1..0 |-> At(f, m)]
    OBVIOUS
  <2> HIDE DEF At, f
  <2>2. Up(0)
    BY <2>1
  <2>3. 0 \in 0..N
    OBVIOUS
  <2> QED
    BY <2>2, <2>3
<1>2. ASSUME NEW n \in 0..N, n \in S, n < N
      PROVE  n + 1 \in S
  <2>1. PICK f : f = [m \in 1..n |-> At(f, m)]
    BY <1>2
  <2> DEFINE g == [m \in 1..(n + 1) |-> IF m <= n THEN f[m] ELSE At(f, n + 1)]
  <2>2. ASSUME NEW m \in 1..(n + 1)
        PROVE  g[m] = At(g, m)
    <3>1. At(g, m) = At(f, m)
      <4>1. CASE m = 1
        BY <4>1
      <4>2. CASE m # 1
        <5>1. m - 1 \in 1..n /\ m - 1 \in 1..(n + 1) /\ m - 1 <= n
          BY <4>2
        <5>2. g[m - 1] = f[m - 1]
          BY <5>1
        <5> QED
          BY <5>2, <4>2
      <4> QED
        BY <4>1, <4>2
    <3>2. CASE m <= n
      <4>1. m \in 1..n
        BY <3>2
      <4>2. f[m] = At(f, m)
        BY <2>1, <4>1
      <4> QED
        BY <3>1, <3>2, <4>2
    <3>3. CASE m = n + 1
      BY <3>1, <3>3
    <3> QED
      BY <3>2, <3>3
  <2> HIDE DEF At
  <2>3. g = [m \in 1..(n + 1) |-> At(g, m)]
    BY <2>2
  <2> HIDE DEF g
  <2>4. Up(n + 1)
    BY <2>3
  <2>5. n + 1 \in 0..N
    BY <1>2
  <2> HIDE DEF Up
  <2> QED
    BY <2>4, <2>5
<1> HIDE DEF S
<1>3. N \in S
  <2>1. \A n \in 0..N : n \in S /\ n < N => n + 1 \in S
    BY <1>2
  <2>2. N \in Nat /\ N \in 0..N
    OBVIOUS
  <2> HIDE DEF N
  <2> QED
    BY <1>1, <2>1, <2>2, Reaches
<1>4. \E f : f = [n \in 1..N |-> At(f, n)]
  BY <1>3 DEF S
<1>5. Spine(tree, path) = CHOOSE f : f = [n \in 1..N |-> At(f, n)]
  BY DEF Spine
<1> DEFINE s == Spine(tree, path)
<1>6. s = [n \in 1..N |-> At(s, n)]
  BY <1>4, <1>5
<1> HIDE DEF s
<1>7. N # 0 => s[1] = tree
  BY <1>6
<1>8. \A n \in 2..N : s[n] = Child(s[n - 1], path[n - 1]).oid
  BY <1>6
<1>9. s = [n \in 1..N |-> s[n]]
  <2> HIDE DEF At
  <2>1. DOMAIN s = 1..N
    BY <1>6
  <2>2. \A n \in 1..N : s[n] = At(s, n)
    BY <1>6
  <2> QED
    BY <1>6, <2>1, <2>2
<1> QED
  BY <1>7, <1>8, <1>9 DEF s

\* The tree that replaces that at place n, made with what replaces the next.
NewTree(spine, path, leaf, n, below) ==
  TreeOf((Entries(spine[n]) \ Named(spine[n], path[n])) \cup
         IF n < Len(path)
         THEN {Entry(path[n], Child(spine[n], path[n]).mode, below)}
         ELSE IF leaf = Removal THEN {} ELSE {Entry(path[n], leaf.mode, leaf.oid)})

LEMMA RebuiltDef ==
  ASSUME NEW spine, NEW path, Len(path) \in Nat, NEW leaf, DOMAIN spine = 1..Len(path)
  PROVE  LET new == Rebuilt(spine, path, leaf)
         IN  /\ new = [n \in 1..Len(path) |-> new[n]]
             /\ \A n \in 1..Len(path) : new[n] = NewTree(spine, path, leaf, n, new[n + 1])
<1> DEFINE N       == Len(path)
           At(f,n) == NewTree(spine, path, leaf, n, f[n + 1])
           S       == {n \in 1..(N + 1) : \E f : f = [m \in n..N |-> At(f, m)]}
<1>1. N + 1 \in S
  <2> DEFINE f == [m \in (N + 1)..N |-> EmptyTree]
  <2>1. f = [m \in (N + 1)..N |-> At(f, m)]
    OBVIOUS
  <2> HIDE DEF At, f
  <2>2. \E g : g = [m \in (N + 1)..N |-> At(g, m)]
    BY <2>1
  <2> QED
    BY <2>2
<1>2. ASSUME NEW n \in 1..(N + 1), n + 1 \in S, n < N + 1
      PROVE  n \in S
  <2>1. PICK f : f = [m \in (n + 1)..N |-> At(f, m)]
    BY <1>2
  <2> DEFINE g == [m \in n..N |-> IF m = n THEN At(f, n) ELSE f[m]]
  <2>2. ASSUME NEW m \in n..N
        PROVE  g[m] = At(g, m)
    <3>1. At(g, m) = At(f, m)
      <4>1. CASE m = N
        <5>1. ~(m < Len(path))
          BY <4>1
        <5> QED
          BY <5>1 DEF NewTree
      <4>2. CASE m # N
        <5>1. m + 1 \in n..N /\ m + 1 # n
          BY <4>2
        <5>2. g[m + 1] = f[m + 1]
          BY <5>1
        <5> QED
          BY <5>2
      <4> QED
        BY <4>1, <4>2
    <3>2. CASE m # n
      <4>1. m \in (n + 1)..N
        BY <3>2
      <4>2. f[m] = At(f, m)
        BY <2>1, <4>1
      <4> QED
        BY <3>1, <3>2, <4>2
    <3>3. CASE m = n
      BY <3>1, <3>3
    <3> QED
      BY <3>2, <3>3
  <2> HIDE DEF At
  <2>3. g = [m \in n..N |-> At(g, m)]
    BY <2>2
  <2> HIDE DEF g
  <2> QED
    BY <2>3
<1> HIDE DEF S
<1>3. 1 \in S
  <2>1. \A n \in 1..(N + 1) : n + 1 \in S /\ n < N + 1 => n \in S
    BY <1>2
  <2>2. N + 1 \in Nat /\ 1 \in 1..(N + 1)
    OBVIOUS
  <2> DEFINE M == N + 1
  <2>3. M \in Nat /\ M \in S /\ 1 \in 1..M /\ \A n \in 1..M : n + 1 \in S /\ n < M => n \in S
    BY <1>1, <2>1, <2>2
  <2> HIDE DEF M
  <2> QED
    BY <2>3, ReachesBack
<1>4. \E f : f = [n \in 1..N |-> At(f, n)]
  BY <1>3 DEF S
<1> DEFINE new == Rebuilt(spine, path, leaf)
<1>5. new = CHOOSE f : f = [n \in 1..N |-> At(f, n)]
  BY DEF Rebuilt, NewTree
<1>6. new = [n \in 1..N |-> At(new, n)]
  BY <1>4, <1>5
<1> HIDE DEF new
<1>7. \A n \in 1..N : new[n] = At(new, n)
  BY <1>6
<1>8. new = [n \in 1..N |-> new[n]]
  <2> HIDE DEF At
  <2>1. DOMAIN new = 1..N
    BY <1>6
  <2> QED
    BY <1>6, <1>7, <2>1
<1> QED
  BY <1>7, <1>8 DEF new

-------------------------------------------------------------------------------
LEMMA KindOfTree == \A entries : TreeOf(entries).kind = "tree"
BY DEF TreeOf

LEMMA EntriesOfTree == \A entries : Entries(TreeOf(entries)) = entries
  BY DEF Entries, TreeOf

\* An entry that is picked is one of those with the name.
LEMMA Picked ==
  ASSUME NEW object, NEW name, Named(object, name) # {}
  PROVE  (CHOOSE e \in Named(object, name) : TRUE) \in Named(object, name)
  OBVIOUS

LEMMA Answers ==
  ASSUME NEW mode, NEW oid
  PROVE  /\ Found(mode, oid).answer = "some"
         /\ Found(mode, oid).mode = mode /\ Found(mode, oid).oid = oid
         /\ NotFound.answer = "none" /\ Broken.answer = "err"
         /\ Found(mode, oid) # NotFound /\ Found(mode, oid) # Broken /\ NotFound # Broken
<1>1. /\ Found(mode, oid).answer = "some" /\ NotFound.answer = "none" /\ Broken.answer = "err"
      /\ Found(mode, oid).mode = mode /\ Found(mode, oid).oid = oid
  BY DEF Found, NotFound, Broken
<1> QED
  BY <1>1

\* Every answer of a walk is one of the three.
IsAnswer(a) == a = NotFound \/ a = Broken \/ a = Found(a.mode, a.oid)

LEMMA DescendAnswers ==
  ASSUME NEW objects, NEW at, NEW name, IsAnswer(at)
  PROVE  IsAnswer(Descend(objects, at, name))
  BY Answers DEF Descend, IsAnswer

LEMMA WalkAnswers ==
  ASSUME NEW objects, NEW tree, NEW path, Len(path) \in Nat
  PROVE  \A n \in 0..Len(path) : IsAnswer(Walk(objects, tree, path)[n])
<1> DEFINE N == Len(path)
           w == Walk(objects, tree, path)
           S == {n \in 0..N : IsAnswer(w[n])}
<1>1. w[0] = Found("tree", tree) /\ \A n \in 1..N : w[n] = Descend(objects, w[n - 1], path[n])
  BY WalkDef
<1> HIDE DEF w
<1>2. 0 \in S
  BY <1>1, Answers DEF IsAnswer
<1>3. ASSUME NEW n \in 0..N, n \in S, n < N
      PROVE  n + 1 \in S
  <2>1. n + 1 \in 1..N /\ (n + 1) - 1 = n /\ n + 1 \in 0..N
    BY <1>3
  <2>2. w[n + 1] = Descend(objects, w[n], path[n + 1])
    BY <1>1, <2>1
  <2> QED
    BY <1>3, <2>1, <2>2, DescendAnswers
<1> HIDE DEF S
<1>4. \A n \in 0..N : n \in S
  <2>1. N \in Nat
    OBVIOUS
  <2> HIDE DEF N
  <2> QED
    BY <1>2, <1>3, <2>1, Reaches
<1> QED
  BY <1>4 DEF S, w

\* A walk that does not fail finds the same among more objects.
LEMMA FindAmongMore ==
  ASSUME NEW objects, NEW more, objects \subseteq more, NEW tree, NEW path,
         Len(path) \in Nat, FindTreeEntry(objects, tree, path).answer # "err"
  PROVE  FindTreeEntry(more, tree, path) = FindTreeEntry(objects, tree, path)
<1> DEFINE N == Len(path)
           w == Walk(objects, tree, path)
           v == Walk(more, tree, path)
           S == {n \in 0..N : w[n] # Broken => v[n] = w[n]}
<1>1. /\ w[0] = Found("tree", tree) /\ \A n \in 1..N : w[n] = Descend(objects, w[n - 1], path[n])
      /\ v[0] = Found("tree", tree) /\ \A n \in 1..N : v[n] = Descend(more, v[n - 1], path[n])
  BY WalkDef
<1>2. w[N] # Broken
  BY Answers DEF FindTreeEntry
<1> HIDE DEF w, v
<1>3. 0 \in S
  BY <1>1
<1>4. ASSUME NEW n \in 0..N, n \in S, n < N
      PROVE  n + 1 \in S
  <2>1. n + 1 \in 1..N /\ (n + 1) - 1 = n /\ n + 1 \in 0..N
    BY <1>4
  <2>2. w[n + 1] = Descend(objects, w[n], path[n + 1]) /\ v[n + 1] = Descend(more, v[n], path[n + 1])
    BY <1>1, <2>1
  <2>3. ASSUME w[n + 1] # Broken
        PROVE  v[n + 1] = w[n + 1]
    <3>1. w[n] # Broken
      BY <2>2, <2>3, Answers DEF Descend
    <3>2. v[n] = w[n]
      BY <1>4, <3>1
    <3> QED
      BY <2>2, <2>3, <3>2 DEF Descend
  <2> QED
    BY <2>1, <2>3
<1> HIDE DEF S
<1>5. N \in S
  <2>1. N \in Nat /\ N \in 0..N
    OBVIOUS
  <2> HIDE DEF N
  <2> QED
    BY <1>3, <1>4, <2>1, Reaches
<1> QED
  BY <1>2, <1>5 DEF S, w, v, FindTreeEntry

\* In objects that need no other a walk does not fail, and finds one of them.
LEMMA FindAmongAll ==
  ASSUME NEW objects, Closed(objects), NEW tree \in objects, NEW path, Len(path) \in Nat
  PROVE  LET found == FindTreeEntry(objects, tree, path)
         IN  found.answer # "err" /\ (found.answer = "some" => found.oid \in objects)
<1> DEFINE N == Len(path)
           w == Walk(objects, tree, path)
           S == {n \in 0..N : w[n].answer # "err" /\ (w[n].answer = "some" => w[n].oid \in objects)}
<1>1. w[0] = Found("tree", tree) /\ \A n \in 1..N : w[n] = Descend(objects, w[n - 1], path[n])
  BY WalkDef
<1> HIDE DEF w
<1>2. 0 \in S
  BY <1>1, Answers
<1>3. ASSUME NEW n \in 0..N, n \in S, n < N
      PROVE  n + 1 \in S
  <2>1. n + 1 \in 1..N /\ (n + 1) - 1 = n /\ n + 1 \in 0..N
    BY <1>3
  <2>2. w[n + 1] = Descend(objects, w[n], path[n + 1])
    BY <1>1, <2>1
  <2> DEFINE d == Descend(objects, w[n], path[n + 1])
  <2>3. d.answer # "err" /\ (d.answer = "some" => d.oid \in objects)
    <3>1. CASE w[n].answer # "some"
      BY <1>3, <3>1 DEF Descend
    <3>2. CASE w[n].answer = "some" /\ (w[n].mode # "tree" \/ Named(w[n].oid, path[n + 1]) = {})
      BY <1>3, <3>2, Answers DEF Descend
    <3>3. CASE /\ w[n].answer = "some" /\ w[n].mode = "tree"
               /\ Named(w[n].oid, path[n + 1]) # {}
      <4> DEFINE e == CHOOSE e \in Named(w[n].oid, path[n + 1]) : TRUE
      <4>1. e \in Entries(w[n].oid)
        BY <3>3, Picked DEF Named
      <4>2. e.oid \in objects
        BY <1>3, <3>3, <4>1 DEF Closed
      <4> HIDE DEF e
      <4>3. d = Found(e.mode, e.oid)
        BY <1>3, <3>3 DEF Descend, e
      <4> QED
        BY <4>2, <4>3, Answers
    <3> QED
      BY <3>1, <3>2, <3>3
  <2> QED
    BY <2>1, <2>2, <2>3
<1> HIDE DEF S
<1>4. N \in S
  <2>1. N \in Nat /\ N \in 0..N
    OBVIOUS
  <2> HIDE DEF N
  <2> QED
    BY <1>2, <1>3, <2>1, Reaches
<1> QED
  BY <1>4 DEF S, w, FindTreeEntry

-------------------------------------------------------------------------------
\* What the trees on the way down and those made on the way up are, for a tree
\* and a path; Absent says that a name of the path is new.
NewOf(tree, path, leaf)      == Rebuilt(Spine(tree, path), path, leaf)
NewTrees(tree, path, leaf)   == {NewOf(tree, path, leaf)[n] : n \in 1..Len(path)}
Absent(tree, path, n)        == Named(Spine(tree, path)[n], path[n]) = {}
OnTheWay(objects, tree, path, n) ==
  Spine(tree, path)[n] \in objects \/ (n > 1 /\ Absent(tree, path, n - 1))
IsPath(path)                 == \E names : path \in Seq(names)

\* A result that is a success has these fields and no other.
IsSuccess(r) == r = [ok |-> TRUE, root |-> r.root, pack |-> r.pack, objects |-> r.objects]

LEMMA Modified ==
  ASSUME NEW objects, NEW tree, NEW path, IsPath(path), NEW leaf
  PROVE  LET r == ModifyTreeEntry(objects, tree, path, leaf)
             N == Len(path)
         IN  /\ r.ok \in BOOLEAN
             /\ r.ok <=> /\ N # 0
                         /\ \A n \in 1..N : /\ OnTheWay(objects, tree, path, n)
                                            /\ leaf = Removal => ~Absent(tree, path, n)
             /\ r.ok =>
                  /\ IsSuccess(r)
                  /\ r.root = NewOf(tree, path, leaf)[1]
                  /\ r.pack = NewOf(tree, path, leaf)
                  /\ r.objects = objects \cup {EmptyTree : n \in {n \in 1..N : n < N /\ Absent(tree, path, n)}}
                                         \cup NewTrees(tree, path, leaf)
<1> DEFINE r     == ModifyTreeEntry(objects, tree, path, leaf)
           N     == Len(path)
           spine == Spine(tree, path)
           new   == Rebuilt(spine, path, leaf)
           fails == path = <<>> \/ \E n \in DOMAIN spine :
                      \/ ~(spine[n] \in objects \/ (n > 1 /\ Named(spine[n - 1], path[n - 1]) = {}))
                      \/ (leaf = Removal /\ Named(spine[n], path[n]) = {})
           all   == objects \cup {EmptyTree : n \in {n \in DOMAIN spine : n < N /\ Named(spine[n], path[n]) = {}}}
                            \cup {new[n] : n \in DOMAIN new}
<1>1. N \in Nat /\ (path = <<>> <=> N = 0)
  BY EmptySeq DEF IsPath
<1>2. DOMAIN spine = 1..N
  BY <1>1, SpineDef
<1>3. DOMAIN new = 1..N
  BY <1>1, <1>2, RebuiltDef
<1>4. r = IF fails THEN Failed(objects)
          ELSE [ok |-> TRUE, root |-> new[1], pack |-> new, objects |-> all]
  BY DEF ModifyTreeEntry
<1>5. fails <=> ~(/\ N # 0
                  /\ \A n \in 1..N : /\ OnTheWay(objects, tree, path, n)
                                     /\ leaf = Removal => ~Absent(tree, path, n))
  BY <1>1, <1>2 DEF OnTheWay, Absent
<1>6. all = objects \cup {EmptyTree : n \in {n \in 1..N : n < N /\ Absent(tree, path, n)}}
                    \cup {new[n] : n \in 1..N}
  BY <1>2, <1>3 DEF Absent
<1> HIDE DEF fails, all, new
<1>7. r.ok \in BOOLEAN /\ (r.ok <=> ~fails)
  BY <1>4 DEF Failed
<1>8. r.ok => r.root = new[1] /\ r.pack = new /\ r.objects = all
  BY <1>4, <1>7
<1>9. r.ok => IsSuccess(r)
  BY <1>4, <1>7, <1>8 DEF IsSuccess
<1> QED
  BY <1>5, <1>6, <1>7, <1>8, <1>9 DEF new, NewOf, NewTrees

\* An edit that succeeds does the same among more objects.
LEMMA ModifiedAmongMore ==
  ASSUME NEW objects, NEW more, objects \subseteq more, NEW tree, NEW path, IsPath(path), NEW leaf,
         ModifyTreeEntry(objects, tree, path, leaf).ok
  PROVE  LET r == ModifyTreeEntry(objects, tree, path, leaf)
             m == ModifyTreeEntry(more, tree, path, leaf)
         IN  m.ok /\ m.root = r.root /\ m.pack = r.pack /\ r.objects \subseteq m.objects
<1>1. \A n \in 1..Len(path) : OnTheWay(objects, tree, path, n) => OnTheWay(more, tree, path, n)
  BY DEF OnTheWay
<1> DEFINE r == ModifyTreeEntry(objects, tree, path, leaf)
           m == ModifyTreeEntry(more, tree, path, leaf)
<1>2. m.ok
  <2>1. /\ Len(path) # 0
        /\ \A n \in 1..Len(path) : /\ OnTheWay(objects, tree, path, n)
                                   /\ leaf = Removal => ~Absent(tree, path, n)
    BY Modified
  <2>2. m.ok <=> /\ Len(path) # 0
                 /\ \A n \in 1..Len(path) : /\ OnTheWay(more, tree, path, n)
                                            /\ leaf = Removal => ~Absent(tree, path, n)
    BY Modified
  <2> QED
    BY <1>1, <2>1, <2>2
<1>3. m.root = r.root /\ m.pack = r.pack
  BY <1>2, Modified
<1>4. r.objects \subseteq m.objects
  BY <1>2, Modified
<1> QED
  BY <1>2, <1>3, <1>4

\* Each tree on the way down is one of the tree's, or an empty one.
LEMMA SpineAmongAll ==
  ASSUME NEW objects, Closed(objects), NEW tree \in objects, NEW path, Len(path) \in Nat
  PROVE  \A n \in 1..Len(path) : Spine(tree, path)[n] \in objects \cup {EmptyTree}
<1> DEFINE N == Len(path)
           s == Spine(tree, path)
           S == {n \in 0..N : n = 0 \/ s[n] \in objects \cup {EmptyTree}}
<1>1. (N # 0 => s[1] = tree) /\ \A n \in 2..N : s[n] = Child(s[n - 1], path[n - 1]).oid
  BY SpineDef
<1> HIDE DEF s
<1>2. 0 \in S
  OBVIOUS
<1>3. ASSUME NEW n \in 0..N, n \in S, n < N
      PROVE  n + 1 \in S
  <2>1. n + 1 \in 0..N
    BY <1>3
  <2>2. CASE n = 0
    BY <1>1, <1>3, <2>1, <2>2
  <2>3. CASE n # 0
    <3>1. n + 1 \in 2..N /\ (n + 1) - 1 = n
      BY <1>3, <2>3
    <3>2. s[n + 1] = Child(s[n], path[n]).oid
      BY <1>1, <3>1
    <3>3. Child(s[n], path[n]).oid \in objects \cup {EmptyTree}
      <4>1. CASE Named(s[n], path[n]) = {}
        BY <4>1 DEF Child, Entry
      <4>2. CASE Named(s[n], path[n]) # {}
        <5> DEFINE e == Child(s[n], path[n])
        <5>1. e \in Entries(s[n])
          BY <4>2, Picked DEF Child, Named
        <5>2. s[n] \in objects
          BY <1>3, <2>3, <5>1, EntriesOfTree DEF EmptyTree
        <5> QED
          BY <5>1, <5>2 DEF Closed
      <4> QED
        BY <4>1, <4>2
    <3> QED
      BY <2>1, <3>2, <3>3
  <2> QED
    BY <2>2, <2>3
<1> HIDE DEF S
<1>4. \A n \in 0..N : n \in S
  <2>1. N \in Nat
    OBVIOUS
  <2> HIDE DEF N
  <2> QED
    BY <1>2, <1>3, <2>1, Reaches
<1> QED
  BY <1>4 DEF S, s

\* The new trees need no objects but those the old tree and the leaf need.
LEMMA ModifiedClosed ==
  ASSUME NEW objects, Closed(objects), NEW tree \in objects, NEW path, Len(path) \in Nat,
         NEW leaf, leaf = Removal \/ leaf.oid \in objects
  PROVE  Closed(objects \cup NewTrees(tree, path, leaf))
<1> DEFINE N   == Len(path)
           s   == Spine(tree, path)
           new == NewOf(tree, path, leaf)
           all == objects \cup {new[n] : n \in 1..N}
<1>1. DOMAIN s = 1..N
  BY SpineDef
<1>2. \A n \in 1..N : new[n] = NewTree(s, path, leaf, n, new[n + 1])
  BY <1>1, RebuiltDef DEF NewOf
<1>3. \A n \in 1..N : s[n] \in objects \cup {EmptyTree}
  BY SpineAmongAll
<1> HIDE DEF s, new
<1>4. ASSUME NEW n \in 1..N, NEW e \in Entries(new[n])
      PROVE  e.oid \in all
  <2>1. \/ e \in Entries(s[n])
        \/ n < N /\ e = Entry(path[n], Child(s[n], path[n]).mode, new[n + 1])
        \/ leaf # Removal /\ e = Entry(path[n], leaf.mode, leaf.oid)
    BY <1>2, <1>4, EntriesOfTree DEF NewTree
  <2>2. CASE e \in Entries(s[n])
    <3>1. s[n] \in objects
      BY <1>3, <2>2, EntriesOfTree DEF EmptyTree
    <3> QED
      BY <2>2, <3>1 DEF Closed
  <2>3. CASE n < N /\ e = Entry(path[n], Child(s[n], path[n]).mode, new[n + 1])
    <3>1. n + 1 \in 1..N /\ e.oid = new[n + 1]
      BY <2>3 DEF Entry
    <3> QED
      BY <3>1
  <2>4. CASE leaf # Removal /\ e = Entry(path[n], leaf.mode, leaf.oid)
    BY <2>4 DEF Entry
  <2> QED
    BY <2>1, <2>2, <2>3, <2>4
<1>5. \A x \in objects : \A e \in Entries(x) : e.oid \in all
  BY DEF Closed
<1> QED
  BY <1>4, <1>5 DEF Closed, new, NewTrees

Members(list)   == {list[n] : n \in DOMAIN list}
IsList(list, N) == list = [n \in 1..N |-> list[n]]
PackOf(r)       == Members(r.pack)

\* A tree edit among objects that have the tree whole: those and the pack have
\* the new tree whole, and the map holds them.
LEMMA ModifyKeeps ==
  ASSUME NEW objects, NEW held, held \subseteq objects, Closed(held),
         NEW tree \in held, NEW path, IsPath(path),
         NEW leaf, leaf = Removal \/ leaf.oid \in held,
         ModifyTreeEntry(objects, tree, path, leaf).ok
  PROVE  LET r == ModifyTreeEntry(objects, tree, path, leaf)
         IN  /\ IsSuccess(r) /\ IsList(r.pack, Len(path)) /\ Len(path) # 0
             /\ r.root \in PackOf(r) /\ Closed(held \cup PackOf(r))
             /\ held \cup PackOf(r) \subseteq r.objects
             /\ Closed(objects) => Closed(r.objects)
<1> DEFINE r   == ModifyTreeEntry(objects, tree, path, leaf)
           N   == Len(path)
           new == NewOf(tree, path, leaf)
           made == {EmptyTree : n \in {n \in 1..N : n < N /\ Absent(tree, path, n)}}
<1>1. N \in Nat
  BY DEF IsPath
<1>2. /\ IsSuccess(r) /\ N # 0 /\ r.root = new[1] /\ r.pack = new
      /\ r.objects = objects \cup made \cup NewTrees(tree, path, leaf)
  BY Modified
<1>3. IsList(new, N)
  BY <1>1, SpineDef, RebuiltDef DEF NewOf, IsList
<1>4. PackOf(r) = NewTrees(tree, path, leaf)
  BY <1>2, <1>3 DEF IsList, PackOf, Members, NewTrees
<1>5. new[1] \in NewTrees(tree, path, leaf)
  BY <1>1, <1>2 DEF NewTrees
<1>6. Closed(held \cup PackOf(r))
  <2>1. Closed(held \cup NewTrees(tree, path, leaf))
    BY <1>1, ModifiedClosed
  <2> QED
    BY <1>4, <2>1
<1>7. Closed(objects) => Closed(r.objects)
  <2> HAVE Closed(objects)
  <2>1. Closed(objects \cup NewTrees(tree, path, leaf))
    BY <1>1, ModifiedClosed
  <2>2. r.objects = (objects \cup NewTrees(tree, path, leaf)) \cup made
    BY <1>2
  <2>3. \A x \in made : Entries(x) = {}
    BY EntriesOfTree DEF EmptyTree
  <2> QED
    BY <2>1, <2>2, <2>3 DEF Closed
<1> HIDE DEF r, new
<1> QED
  BY <1>2, <1>3, <1>4, <1>5, <1>6, <1>7 DEF r

-------------------------------------------------------------------------------
\* A path and a longer one that begins with it go the same way.
LEMMA WalkPrefix ==
  ASSUME NEW objects, NEW tree, NEW path, Len(path) \in Nat, NEW short, Len(short) \in Nat,
         Len(short) <= Len(path), \A n \in 1..Len(short) : short[n] = path[n]
  PROVE  \A n \in 0..Len(short) : Walk(objects, tree, short)[n] = Walk(objects, tree, path)[n]
<1> DEFINE N == Len(short)
           v == Walk(objects, tree, short)
           w == Walk(objects, tree, path)
           S == {n \in 0..N : v[n] = w[n]}
<1>1. v[0] = Found("tree", tree) /\ \A n \in 1..N : v[n] = Descend(objects, v[n - 1], short[n])
  BY WalkDef
<1>2. w[0] = Found("tree", tree) /\ \A n \in 1..Len(path) : w[n] = Descend(objects, w[n - 1], path[n])
  BY WalkDef
<1> HIDE DEF v, w
<1>3. 0 \in S
  BY <1>1, <1>2
<1>4. ASSUME NEW n \in 0..N, n \in S, n < N
      PROVE  n + 1 \in S
  <2>1. n + 1 \in 1..N /\ n + 1 \in 1..Len(path) /\ (n + 1) - 1 = n /\ n + 1 \in 0..N
    BY <1>4
  <2>2. v[n + 1] = Descend(objects, v[n], short[n + 1]) /\ w[n + 1] = Descend(objects, w[n], path[n + 1])
    BY <1>1, <1>2, <2>1
  <2> QED
    BY <1>4, <2>1, <2>2
<1>5. N \in Nat
  OBVIOUS
<1> HIDE DEF S, N
<1>6. \A n \in 0..N : n \in S
  BY <1>3, <1>4, <1>5, Reaches
<1> QED
  BY <1>6 DEF S, N, v, w

LEMMA SpinePrefix ==
  ASSUME NEW tree, NEW path, Len(path) \in Nat, NEW short, Len(short) \in Nat,
         Len(short) <= Len(path), \A n \in 1..Len(short) : short[n] = path[n]
  PROVE  \A n \in 1..Len(short) : Spine(tree, short)[n] = Spine(tree, path)[n]
<1> DEFINE N == Len(short)
           v == Spine(tree, short)
           w == Spine(tree, path)
           S == {n \in 0..N : n = 0 \/ v[n] = w[n]}
<1>1. (N # 0 => v[1] = tree) /\ \A n \in 2..N : v[n] = Child(v[n - 1], short[n - 1]).oid
  BY SpineDef
<1>2. /\ Len(path) # 0 => w[1] = tree
      /\ \A n \in 2..Len(path) : w[n] = Child(w[n - 1], path[n - 1]).oid
  BY SpineDef
<1> HIDE DEF v, w
<1>3. 0 \in S
  OBVIOUS
<1>4. ASSUME NEW n \in 0..N, n \in S, n < N
      PROVE  n + 1 \in S
  <2>1. n + 1 \in 0..N
    BY <1>4
  <2>2. CASE n = 0
    BY <1>1, <1>2, <1>4, <2>1, <2>2
  <2>3. CASE n # 0
    <3>1. n \in 1..N /\ n + 1 \in 2..N /\ n + 1 \in 2..Len(path) /\ (n + 1) - 1 = n
      BY <1>4, <2>3
    <3>2. v[n + 1] = Child(v[n], short[n]).oid /\ w[n + 1] = Child(w[n], path[n]).oid
      BY <1>1, <1>2, <3>1
    <3> QED
      BY <1>4, <2>1, <2>3, <3>1, <3>2
  <2> QED
    BY <2>2, <2>3
<1>5. N \in Nat
  OBVIOUS
<1> HIDE DEF S, N
<1>6. \A n \in 0..N : n \in S
  BY <1>3, <1>4, <1>5, Reaches
<1> QED
  BY <1>6 DEF S, N, v, w

IsDir(found) == found.answer = "some" /\ found.mode = "tree"

\* A walk goes through directories only.
LEMMA WalkThroughDirs ==
  ASSUME NEW objects, NEW tree, NEW path, Len(path) \in Nat,
         NEW k \in 0..Len(path), IsDir(Walk(objects, tree, path)[k])
  PROVE  \A n \in 0..k : IsDir(Walk(objects, tree, path)[n])
<1> DEFINE w == Walk(objects, tree, path)
           S == {n \in 0..k : IsDir(w[n])}
<1>1. w[0] = Found("tree", tree) /\ \A n \in 1..Len(path) : w[n] = Descend(objects, w[n - 1], path[n])
  BY WalkDef
<1> HIDE DEF w
<1>2. 0 \in S
  BY <1>1, Answers DEF IsDir
<1>3. k \in S
  BY DEF w
<1>4. ASSUME NEW n \in 1..k, n + 1 \in S, n < k
      PROVE  n \in S
  <2>1. n + 1 \in 1..Len(path) /\ (n + 1) - 1 = n /\ n \in 0..k
    BY <1>4
  <2>2. w[n + 1] = Descend(objects, w[n], path[n + 1])
    BY <1>1, <2>1
  <2>3. IsDir(w[n])
    BY <1>4, <2>2, Answers DEF IsDir, Descend
  <2> QED
    BY <2>1, <2>3
<1>5. k \in Nat
  OBVIOUS
<1> HIDE DEF S
<1>6. \A n \in 1..k : n \in S
  BY <1>3, <1>4, <1>5, ReachesBack
<1>7. \A n \in 0..k : n = 0 \/ n \in 1..k
  BY <1>5
<1>8. \A n \in 0..k : n \in S
  BY <1>2, <1>6, <1>7
<1> QED
  BY <1>8 DEF S, w

\* Among objects that are whole, the directories walked are the spine.
LEMMA WalkAlongSpine ==
  ASSUME NEW objects, Closed(objects), NEW tree \in objects, NEW path, Len(path) \in Nat
  PROVE  \A n \in 1..Len(path) :
           LET at == Walk(objects, tree, path)[n - 1]
           IN  IsDir(at) => at.oid = Spine(tree, path)[n] /\ at.oid \in objects
<1> DEFINE N == Len(path)
           w == Walk(objects, tree, path)
           s == Spine(tree, path)
           S == {n \in 0..N : n < N /\ IsDir(w[n]) => w[n].oid = s[n + 1] /\ w[n].oid \in objects}
<1>1. w[0] = Found("tree", tree) /\ \A n \in 1..N : w[n] = Descend(objects, w[n - 1], path[n])
  BY WalkDef
<1>2. (N # 0 => s[1] = tree) /\ \A n \in 2..N : s[n] = Child(s[n - 1], path[n - 1]).oid
  BY SpineDef
<1> HIDE DEF w, s
<1>3. 0 \in S
  BY <1>1, <1>2, Answers
<1>4. ASSUME NEW n \in 0..N, n \in S, n < N
      PROVE  n + 1 \in S
  <2>1. n + 1 \in 1..N /\ (n + 1) - 1 = n /\ n + 1 \in 0..N
    BY <1>4
  <2>2. w[n + 1] = Descend(objects, w[n], path[n + 1])
    BY <1>1, <2>1
  <2>3. SUFFICES ASSUME n + 1 < N, IsDir(w[n + 1])
                 PROVE  w[n + 1].oid = s[n + 2] /\ w[n + 1].oid \in objects
    BY <2>1
  <2>4. n + 2 \in 2..N /\ (n + 2) - 1 = n + 1
    BY <2>1, <2>3
  <2>5. s[n + 2] = Child(s[n + 1], path[n + 1]).oid
    BY <1>2, <2>4
  <2> DEFINE e == CHOOSE e \in Named(w[n].oid, path[n + 1]) : TRUE
  <2>6. IsDir(w[n]) /\ Named(w[n].oid, path[n + 1]) # {}
    BY <2>2, <2>3, Answers DEF IsDir, Descend
  <2>7. w[n].oid = s[n + 1] /\ w[n].oid \in objects
    BY <1>4, <2>6
  <2>8. e \in Entries(w[n].oid)
    BY <2>6, Picked DEF Named
  <2>9. Child(s[n + 1], path[n + 1]) = e
    BY <2>6, <2>7 DEF Child
  <2> HIDE DEF e
  <2>10. w[n + 1] = Found(e.mode, e.oid)
    BY <2>2, <2>6, <2>7 DEF IsDir, Descend, e
  <2>11. e.oid \in objects
    BY <2>7, <2>8 DEF Closed
  <2> QED
    BY <2>5, <2>9, <2>10, <2>11, Answers
<1>5. N \in Nat
  OBVIOUS
<1> HIDE DEF S
<1>6. \A n \in 0..N : n \in S
  <2> HIDE DEF N
  <2> QED
    BY <1>3, <1>4, <1>5, Reaches
<1> SUFFICES ASSUME NEW n \in 1..N, IsDir(w[n - 1])
             PROVE  w[n - 1].oid = s[n] /\ w[n - 1].oid \in objects
  BY DEF w, s
<1>7. n - 1 \in 0..N /\ n - 1 < N /\ (n - 1) + 1 = n
  OBVIOUS
<1>8. n - 1 \in S
  BY <1>6, <1>7
<1> QED
  BY <1>7, <1>8 DEF S

\* Among objects that are whole and well formed, what is found carries its mode.
LEMMA FoundCarriesMode ==
  ASSUME NEW objects, Closed(objects), WellFormed(objects),
         NEW tree \in objects, tree.kind = "tree", NEW path, Len(path) \in Nat
  PROVE  \A n \in 0..Len(path) :
           LET at == Walk(objects, tree, path)[n]
           IN  at.answer = "some" => at.mode = at.oid.kind
<1> DEFINE w == Walk(objects, tree, path)
<1>1. w[0] = Found("tree", tree) /\ \A n \in 1..Len(path) : w[n] = Descend(objects, w[n - 1], path[n])
  BY WalkDef
<1>2. \A n \in 1..Len(path) : IsDir(w[n - 1]) => w[n - 1].oid \in objects
  BY WalkAlongSpine
<1> HIDE DEF w
<1> SUFFICES ASSUME NEW n \in 0..Len(path), w[n].answer = "some"
             PROVE  w[n].mode = w[n].oid.kind
  BY DEF w
<1>3. CASE n = 0
  BY <1>1, <1>3, Answers
<1>4. CASE n # 0
  <2> DEFINE at == w[n - 1]
             e  == CHOOSE e \in Named(at.oid, path[n]) : TRUE
  <2>1. n \in 1..Len(path)
    BY <1>4
  <2>2. w[n] = Descend(objects, at, path[n])
    BY <1>1, <2>1
  <2>3. IsDir(at) => at.oid \in objects
    BY <1>2, <2>1
  <2> HIDE DEF at
  <2>4. IsDir(at) /\ Named(at.oid, path[n]) # {}
    BY <2>2, Answers DEF IsDir, Descend
  <2>5. e \in Entries(at.oid)
    BY <2>4, Picked DEF Named
  <2> HIDE DEF e
  <2>6. w[n] = Found(e.mode, e.oid)
    BY <2>2, <2>3, <2>4 DEF IsDir, Descend, e
  <2>7. e.mode = e.oid.kind
    BY <2>3, <2>4, <2>5 DEF WellFormed
  <2> QED
    BY <2>6, <2>7, Answers
<1> QED
  BY <1>3, <1>4

OnlyTrees(tree, path) == \A n \in 1..Len(path) : Spine(tree, path)[n].kind = "tree"

\* Below a directory there are only trees on the way down.
LEMMA DirsAreTrees ==
  ASSUME NEW objects, Closed(objects), WellFormed(objects),
         NEW tree \in objects, tree.kind = "tree", NEW path, Len(path) \in Nat, Len(path) # 0,
         IsDir(Walk(objects, tree, path)[Len(path) - 1])
  PROVE  OnlyTrees(tree, path)
<1> DEFINE N == Len(path)
           w == Walk(objects, tree, path)
           s == Spine(tree, path)
<1>1. N - 1 \in 0..N
  OBVIOUS
<1>2. \A n \in 0..(N - 1) : IsDir(w[n])
  BY <1>1, WalkThroughDirs
<1>3. \A n \in 1..N : IsDir(w[n - 1]) => w[n - 1].oid = s[n]
  BY WalkAlongSpine
<1>4. \A n \in 0..N : w[n].answer = "some" => w[n].mode = w[n].oid.kind
  BY FoundCarriesMode
<1> HIDE DEF w, s
<1>5. ASSUME NEW n \in 1..N
      PROVE  s[n].kind = "tree"
  <2>1. n - 1 \in 0..(N - 1) /\ n - 1 \in 0..N
    OBVIOUS
  <2>2. IsDir(w[n - 1]) /\ w[n - 1].oid = s[n]
    BY <1>2, <1>3, <2>1
  <2>3. w[n - 1].mode = w[n - 1].oid.kind
    BY <1>4, <2>1, <2>2 DEF IsDir
  <2> QED
    BY <2>2, <2>3 DEF IsDir
<1> QED
  BY <1>5 DEF OnlyTrees, s

\* Something is removed only where every name of the path is there, so in trees.
LEMMA RemovedFromTrees ==
  ASSUME NEW objects, NEW tree, NEW path, IsPath(path),
         ModifyTreeEntry(objects, tree, path, Removal).ok
  PROVE  OnlyTrees(tree, path)
<1>1. \A n \in 1..Len(path) : ~Absent(tree, path, n)
  BY Modified
<1>2. \A n \in 1..Len(path) : Spine(tree, path)[n].kind = "tree"
  BY <1>1 DEF Absent, Named, Entries
<1> QED
  BY <1>2 DEF OnlyTrees

\* In the new tree the new trees are on the way down.
LEMMA SpineOfNew ==
  ASSUME NEW tree, NEW path, Len(path) \in Nat, Len(path) # 0, NEW leaf
  PROVE  LET new == NewOf(tree, path, leaf)
         IN  \A n \in 1..Len(path) : Spine(new[1], path)[n] = new[n] /\ new[n].kind = "tree"
<1> DEFINE N   == Len(path)
           s   == Spine(tree, path)
           new == NewOf(tree, path, leaf)
           t   == Spine(new[1], path)
           S   == {n \in 0..N : n = 0 \/ t[n] = new[n]}
<1>1. DOMAIN s = 1..N
  BY SpineDef
<1>2. \A n \in 1..N : new[n] = NewTree(s, path, leaf, n, new[n + 1])
  BY <1>1, RebuiltDef DEF NewOf
<1>3. t[1] = new[1] /\ \A n \in 2..N : t[n] = Child(t[n - 1], path[n - 1]).oid
  BY SpineDef
<1> HIDE DEF s, new, t
<1>4. 0 \in S
  OBVIOUS
<1>5. ASSUME NEW n \in 0..N, n \in S, n < N
      PROVE  n + 1 \in S
  <2>1. n + 1 \in 0..N
    BY <1>5
  <2>2. CASE n = 0
    BY <1>3, <2>1, <2>2
  <2>3. CASE n # 0
    <3>1. n \in 1..N /\ n + 1 \in 2..N /\ (n + 1) - 1 = n
      BY <1>5, <2>3
    <3>2. t[n] = new[n] /\ t[n + 1] = Child(new[n], path[n]).oid
      BY <1>3, <1>5, <2>3, <3>1
    <3> DEFINE e == Entry(path[n], Child(s[n], path[n]).mode, new[n + 1])
    <3>3. Entries(new[n]) = (Entries(s[n]) \ Named(s[n], path[n])) \cup {e}
      BY <1>2, <1>5, <3>1, EntriesOfTree DEF NewTree
    <3>4. e.name = path[n] /\ e.oid = new[n + 1]
      BY DEF Entry
    <3> HIDE DEF e
    <3>5. Named(new[n], path[n]) = {e}
      BY <3>3, <3>4 DEF Named
    <3>6. Child(new[n], path[n]) = e
      BY <3>5 DEF Child
    <3> QED
      BY <2>1, <3>2, <3>4, <3>6
  <2> QED
    BY <2>2, <2>3
<1>6. N \in Nat
  OBVIOUS
<1> HIDE DEF S
<1>7. \A n \in 0..N : n \in S
  <2> HIDE DEF N
  <2> QED
    BY <1>4, <1>5, <1>6, Reaches
<1>8. \A n \in 1..N : new[n].kind = "tree"
  BY <1>2, KindOfTree DEF NewTree
<1> SUFFICES ASSUME NEW n \in 1..N
             PROVE  t[n] = new[n] /\ new[n].kind = "tree"
  BY DEF t, new
<1>9. n \in S /\ n # 0
  BY <1>7
<1> QED
  BY <1>8, <1>9 DEF S

\* New trees made where there were trees are as well formed as the old ones.
LEMMA ModifiedWellFormed ==
  ASSUME NEW objects, Closed(objects), WellFormed(objects), NEW tree \in objects,
         NEW path, Len(path) \in Nat, OnlyTrees(tree, path),
         NEW leaf, leaf = Removal \/ leaf.mode = leaf.oid.kind
  PROVE  WellFormed(objects \cup NewTrees(tree, path, leaf))
<1> DEFINE N   == Len(path)
           s   == Spine(tree, path)
           new == NewOf(tree, path, leaf)
<1>1. DOMAIN s = 1..N /\ \A n \in 2..N : s[n] = Child(s[n - 1], path[n - 1]).oid
  BY SpineDef
<1>2. \A n \in 1..N : new[n] = NewTree(s, path, leaf, n, new[n + 1])
  BY <1>1, RebuiltDef DEF NewOf
<1>3. \A n \in 1..N : s[n] \in objects \cup {EmptyTree}
  BY SpineAmongAll
<1>4. \A n \in 1..N : s[n].kind = "tree"
  BY DEF OnlyTrees
<1> HIDE DEF s, new
<1>5. \A n \in 1..N : new[n].kind = "tree"
  BY <1>2, KindOfTree DEF NewTree
<1>6. \A n \in 1..N : \A f \in Entries(s[n]) : f.mode = f.oid.kind /\ Named(s[n], f.name) = {f}
  <2> TAKE n \in 1..N
  <2> TAKE f \in Entries(s[n])
  <2>1. s[n] \in objects
    BY <1>3, EntriesOfTree DEF EmptyTree
  <2> QED
    BY <2>1 DEF WellFormed
<1>7. ASSUME NEW n \in 1..N, n < N
      PROVE  Child(s[n], path[n]).mode = "tree"
  <2>1. CASE Named(s[n], path[n]) = {}
    BY <2>1 DEF Child, Entry
  <2>2. CASE Named(s[n], path[n]) # {}
    <3> DEFINE e == Child(s[n], path[n])
    <3>1. e \in Entries(s[n])
      BY <2>2, Picked DEF Child, Named
    <3>2. n + 1 \in 2..N /\ n + 1 \in 1..N /\ (n + 1) - 1 = n
      BY <1>7
    <3>3. s[n + 1] = e.oid
      BY <1>1, <3>2
    <3> HIDE DEF e
    <3>4. e.mode = e.oid.kind /\ e.oid.kind = "tree"
      BY <1>4, <1>6, <3>1, <3>2, <3>3
    <3> QED
      BY <3>4 DEF e
  <2> QED
    BY <2>1, <2>2
<1>8. ASSUME NEW n \in 1..N, NEW f \in Entries(new[n])
      PROVE  f.mode = f.oid.kind /\ Named(new[n], f.name) = {f}
  <2> DEFINE others == Entries(s[n]) \ Named(s[n], path[n])
             below  == Entry(path[n], Child(s[n], path[n]).mode, new[n + 1])
             last   == Entry(path[n], leaf.mode, leaf.oid)
  <2>1. \A g \in others : g.name # path[n]
    BY DEF Named
  <2>2. /\ below.name = path[n] /\ below.mode = Child(s[n], path[n]).mode /\ below.oid = new[n + 1]
        /\ last.name = path[n] /\ last.mode = leaf.mode /\ last.oid = leaf.oid
    BY DEF Entry
  <2>3. /\ n < N => Entries(new[n]) = others \cup {below}
        /\ ~(n < N) /\ leaf = Removal => Entries(new[n]) = others
        /\ ~(n < N) /\ leaf # Removal => Entries(new[n]) = others \cup {last}
    BY <1>2, EntriesOfTree DEF NewTree
  <2>4. n < N => below.mode = below.oid.kind
    <3> SUFFICES ASSUME n < N
                 PROVE  below.mode = below.oid.kind
      OBVIOUS
    <3>1. n + 1 \in 1..N
      OBVIOUS
    <3> QED
      BY <1>5, <1>7, <2>2, <3>1
  <2> HIDE DEF below, last
  <2>5. \E g : /\ others \subseteq Entries(new[n]) /\ Entries(new[n]) \subseteq others \cup {g}
               /\ g \in Entries(new[n]) => g.name = path[n] /\ g.mode = g.oid.kind
    <3>1. CASE n < N
      BY <2>2, <2>3, <2>4, <3>1
    <3>2. CASE ~(n < N) /\ leaf = Removal
      <4>1. below \notin others
        BY <2>1, <2>2
      <4> QED
        BY <2>3, <3>2, <4>1
    <3>3. CASE ~(n < N) /\ leaf # Removal
      BY <2>2, <2>3, <3>3
    <3> QED
      BY <3>1, <3>2, <3>3
  <2>6. PICK g : /\ others \subseteq Entries(new[n]) /\ Entries(new[n]) \subseteq others \cup {g}
                 /\ g \in Entries(new[n]) => g.name = path[n] /\ g.mode = g.oid.kind
    BY <2>5
  <2>7. CASE f \in others
    <3>1. f.mode = f.oid.kind /\ Named(s[n], f.name) = {f} /\ f.name # path[n]
      BY <1>6, <2>1, <2>7
    <3>2. Named(new[n], f.name) = {f}
      BY <2>1, <2>6, <2>7, <3>1 DEF Named
    <3> QED
      BY <3>1, <3>2
  <2>8. CASE f \notin others
    <3>1. f = g /\ g \in Entries(new[n])
      BY <1>8, <2>6, <2>8
    <3>2. Named(new[n], f.name) = {f}
      BY <2>1, <2>6, <3>1 DEF Named
    <3> QED
      BY <2>6, <3>1, <3>2
  <2> QED
    BY <2>7, <2>8
<1> SUFFICES ASSUME NEW x \in objects \cup {new[n] : n \in 1..N}, NEW f \in Entries(x)
             PROVE  f.mode = f.oid.kind /\ Named(x, f.name) = {f}
  BY DEF WellFormed, NewTrees, new
<1>9. CASE x \in objects
  BY <1>9 DEF WellFormed
<1>10. CASE x \in {new[n] : n \in 1..N}
  BY <1>8, <1>10
<1> QED
  BY <1>9, <1>10

-------------------------------------------------------------------------------
(* What TreeViews sees.                                                     *)

LEMMA ReachedDef ==
  ASSUME NEW tree, NEW path, Len(path) \in Nat
  PROVE  LET r == Reached(tree, path)
         IN  r[0] = {tree} /\ \A n \in 1..Len(path) : r[n] = Led(r[n - 1], path[n])
<1> DEFINE N       == Len(path)
           At(f,n) == IF n = 0 THEN {tree} ELSE Led(f[n - 1], path[n])
           S       == {n \in 0..N : \E f : f = [m \in 0..n |-> At(f, m)]}
<1>1. 0 \in S
  <2> DEFINE f == [m \in 0..0 |-> {tree}]
  <2>1. f = [m \in 0..0 |-> At(f, m)]
    OBVIOUS
  <2> HIDE DEF At, f
  <2>2. \E g : g = [m \in 0..0 |-> At(g, m)]
    BY <2>1
  <2> QED
    BY <2>2
<1>2. ASSUME NEW n \in 0..N, n \in S, n < N
      PROVE  n + 1 \in S
  <2>1. PICK f : f = [m \in 0..n |-> At(f, m)]
    BY <1>2
  <2> DEFINE g == [m \in 0..(n + 1) |-> IF m <= n THEN f[m] ELSE At(f, n + 1)]
  <2>2. ASSUME NEW m \in 0..(n + 1)
        PROVE  g[m] = At(g, m)
    <3>1. CASE m = 0
      BY <2>1, <3>1
    <3>2. CASE m # 0
      <4>1. m - 1 \in 0..n /\ m - 1 \in 0..(n + 1) /\ m - 1 <= n
        BY <3>2
      <4>2. g[m - 1] = f[m - 1]
        BY <4>1
      <4>3. At(g, m) = At(f, m)
        BY <4>2, <3>2
      <4>4. CASE m <= n
        <5>1. m \in 0..n
          BY <4>4
        <5>2. f[m] = At(f, m)
          BY <2>1, <5>1
        <5> QED
          BY <4>3, <4>4, <5>2
      <4>5. CASE m = n + 1
        BY <4>3, <4>5
      <4> QED
        BY <4>4, <4>5
    <3> QED
      BY <3>1, <3>2
  <2> HIDE DEF At
  <2>3. g = [m \in 0..(n + 1) |-> At(g, m)]
    BY <2>2
  <2> HIDE DEF g
  <2> QED
    BY <2>3
<1> HIDE DEF S
<1>3. N \in S
  <2>1. \A n \in 0..N : n \in S /\ n < N => n + 1 \in S
    BY <1>2
  <2>2. N \in Nat /\ N \in 0..N
    OBVIOUS
  <2> HIDE DEF N
  <2> QED
    BY <1>1, <2>1, <2>2, Reaches
<1>4. \E f : f = [n \in 0..N |-> At(f, n)]
  BY <1>3 DEF S
<1>5. Reached(tree, path) = CHOOSE f : f = [n \in 0..N |-> At(f, n)]
  BY DEF Reached
<1> DEFINE r == Reached(tree, path)
<1>6. r = [n \in 0..N |-> At(r, n)]
  BY <1>4, <1>5
<1> HIDE DEF r
<1>7. r[0] = {tree}
  BY <1>6
<1>8. ASSUME NEW n \in 1..N
      PROVE  r[n] = Led(r[n - 1], path[n])
  <2>1. n \in 0..N /\ n # 0
    OBVIOUS
  <2>2. r[n] = At(r, n)
    BY <1>6, <2>1
  <2> QED
    BY <2>1, <2>2
<1> QED
  BY <1>7, <1>8 DEF r

SameNames(p, j, q, k, N) == \A i \in 1..N : p[j + i] = q[k + i]

\* Two paths that go the same way from the same place lead to the same.
LEMMA InStep ==
  ASSUME NEW x, NEW p, Len(p) \in Nat, NEW y, NEW q, Len(q) \in Nat,
         NEW j \in Nat, NEW k \in Nat, NEW N \in Nat, j + N <= Len(p), k + N <= Len(q),
         Reached(x, p)[j] = Reached(y, q)[k], SameNames(p, j, q, k, N)
  PROVE  Reached(x, p)[j + N] = Reached(y, q)[k + N]
<1> DEFINE v == Reached(x, p)
           w == Reached(y, q)
           S == {i \in 0..N : v[j + i] = w[k + i]}
<1>1. /\ \A n \in 1..Len(p) : v[n] = Led(v[n - 1], p[n])
      /\ \A n \in 1..Len(q) : w[n] = Led(w[n - 1], q[n])
  BY ReachedDef
<1>2. 0 \in S
  OBVIOUS
<1> HIDE DEF v, w
<1>3. ASSUME NEW i \in 0..N, i \in S, i < N
      PROVE  i + 1 \in S
  <2>1. /\ i + 1 \in 1..N /\ i + 1 \in 0..N
        /\ j + (i + 1) \in 1..Len(p) /\ (j + (i + 1)) - 1 = j + i
        /\ k + (i + 1) \in 1..Len(q) /\ (k + (i + 1)) - 1 = k + i
    BY <1>3
  <2>2. v[j + (i + 1)] = Led(v[j + i], p[j + (i + 1)]) /\ w[k + (i + 1)] = Led(w[k + i], q[k + (i + 1)])
    BY <1>1, <2>1
  <2>3. p[j + (i + 1)] = q[k + (i + 1)] /\ v[j + i] = w[k + i]
    BY <1>3, <2>1 DEF SameNames
  <2> QED
    BY <2>1, <2>2, <2>3
<1> HIDE DEF S
<1>4. \A i \in 0..N : i \in S
  BY <1>2, <1>3, Reaches
<1>5. N \in 0..N
  OBVIOUS
<1> QED
  BY <1>4, <1>5 DEF S, v, w

LEMMA LedNowhere == \A name : Led({}, name) = {}
  BY DEF Led

\* Nothing is below nothing.
LEMMA Nowhere ==
  ASSUME NEW x, NEW p, Len(p) \in Nat, NEW j \in 0..Len(p), Reached(x, p)[j] = {}
  PROVE  \A n \in j..Len(p) : Reached(x, p)[n] = {}
<1> DEFINE v == Reached(x, p)
           N == Len(p) - j
           S == {i \in 0..N : v[j + i] = {}}
<1>1. \A n \in 1..Len(p) : v[n] = Led(v[n - 1], p[n])
  BY ReachedDef
<1>2. 0 \in S /\ N \in Nat
  OBVIOUS
<1> HIDE DEF v
<1>3. ASSUME NEW i \in 0..N, i \in S, i < N
      PROVE  i + 1 \in S
  <2>1. i + 1 \in 0..N /\ j + (i + 1) \in 1..Len(p) /\ (j + (i + 1)) - 1 = j + i
    BY <1>3
  <2>2. v[j + (i + 1)] = Led(v[j + i], p[j + (i + 1)])
    BY <1>1, <2>1
  <2> QED
    BY <1>3, <2>1, <2>2, LedNowhere
<1> SUFFICES ASSUME NEW n \in j..Len(p)
             PROVE  v[n] = {}
  BY DEF v
<1>4. n - j \in 0..N /\ j + (n - j) = n
  OBVIOUS
<1> HIDE DEF S, N
<1>5. \A i \in 0..N : i \in S
  BY <1>2, <1>3, Reaches
<1> QED
  BY <1>4, <1>5 DEF S

\* One entry leads to one object.
LEMMA LedByOne ==
  ASSUME NEW x, NEW name
  PROVE  /\ Named(x, name) = {} => Led({x}, name) = {}
         /\ \A e : Named(x, name) = {e} => Led({x}, name) = {e.oid}
         /\ \A y : Named(x, name) = Named(y, name) => Led({x}, name) = Led({y}, name)
<1>1. UNION {Named(z, name) : z \in {x}} = Named(x, name)
  OBVIOUS
<1>2. \A y : UNION {Named(z, name) : z \in {y}} = Named(y, name)
  OBVIOUS
<1> QED
  BY <1>1, <1>2 DEF Led

\* Among objects that are whole and well formed, a walk finds what is there.
LEMMA ReachedByWalk ==
  ASSUME NEW objects, Closed(objects), WellFormed(objects),
         NEW tree \in objects, tree.kind = "tree", NEW path, Len(path) \in Nat
  PROVE  \A n \in 0..Len(path) :
           LET at == Walk(objects, tree, path)[n]
           IN  Reached(tree, path)[n] = IF at.answer = "some" THEN {at.oid} ELSE {}
<1> DEFINE N == Len(path)
           w == Walk(objects, tree, path)
           v == Reached(tree, path)
           S == {n \in 0..N : v[n] = IF w[n].answer = "some" THEN {w[n].oid} ELSE {}}
<1>1. w[0] = Found("tree", tree) /\ \A n \in 1..N : w[n] = Descend(objects, w[n - 1], path[n])
  BY WalkDef
<1>2. v[0] = {tree} /\ \A n \in 1..N : v[n] = Led(v[n - 1], path[n])
  BY ReachedDef
<1>3. \A n \in 1..N : IsDir(w[n - 1]) => w[n - 1].oid \in objects
  BY WalkAlongSpine
<1>4. \A n \in 0..N : w[n].answer = "some" => w[n].mode = w[n].oid.kind
  BY FoundCarriesMode
<1> HIDE DEF v, w
<1>5. 0 \in S
  <2>1. w[0].answer = "some" /\ w[0].oid = tree
    BY <1>1, Answers
  <2>2. v[0] = (IF w[0].answer = "some" THEN {w[0].oid} ELSE {}) /\ 0 \in 0..N
    BY <1>2, <2>1
  <2> HIDE DEF N
  <2> QED
    BY <2>2
<1>6. ASSUME NEW n \in 0..N, n \in S, n < N
      PROVE  n + 1 \in S
  <2>1. n + 1 \in 1..N /\ (n + 1) - 1 = n /\ n + 1 \in 0..N
    BY <1>6
  <2> DEFINE at   == w[n]
             name == path[n + 1]
  <2>2. w[n + 1] = Descend(objects, at, name) /\ v[n + 1] = Led(v[n], name)
    BY <1>1, <1>2, <2>1
  <2>3. v[n] = IF at.answer = "some" THEN {at.oid} ELSE {}
    BY <1>6
  <2>4. IsDir(at) => at.oid \in objects
    BY <1>3, <2>1
  <2>5. at.answer = "some" => at.mode = at.oid.kind
    BY <1>4
  <2> HIDE DEF at, name
  <2>6. CASE at.answer # "some"
    BY <2>1, <2>2, <2>3, <2>6, LedNowhere DEF Descend
  <2>7. CASE at.answer = "some" /\ at.mode # "tree"
    <3>1. Named(at.oid, name) = {}
      BY <2>5, <2>7 DEF Named, Entries
    <3>2. v[n + 1] = {}
      BY <2>2, <2>3, <2>7, <3>1, LedByOne
    <3> QED
      BY <2>1, <2>2, <2>7, <3>2, Answers DEF Descend
  <2>8. CASE IsDir(at) /\ Named(at.oid, name) = {}
    <3>1. v[n + 1] = {}
      BY <2>2, <2>3, <2>8, LedByOne DEF IsDir
    <3> QED
      BY <2>1, <2>2, <2>4, <2>8, <3>1, Answers DEF Descend, IsDir
  <2>9. CASE IsDir(at) /\ Named(at.oid, name) # {}
    <3> DEFINE e == CHOOSE e \in Named(at.oid, name) : TRUE
    <3>1. e \in Named(at.oid, name)
      BY <2>9, Picked
    <3>2. w[n + 1] = Found(e.mode, e.oid)
      BY <2>2, <2>4, <2>9 DEF Descend, IsDir
    <3> HIDE DEF e
    <3>3. Named(at.oid, name) = {e}
      <4>1. e \in Entries(at.oid) /\ e.name = name
        BY <3>1 DEF Named
      <4> QED
        BY <2>4, <2>9, <4>1 DEF WellFormed
    <3>4. v[n + 1] = {e.oid}
      BY <2>2, <2>3, <2>9, <3>3, LedByOne DEF IsDir
    <3>5. w[n + 1].answer = "some" /\ w[n + 1].oid = e.oid
      BY <3>2, Answers
    <3> QED
      BY <2>1, <3>4, <3>5
  <2> QED
    BY <2>6, <2>7, <2>8, <2>9 DEF IsDir
<1> HIDE DEF S
<1>7. \A n \in 0..N : n \in S
  <2>1. N \in Nat
    OBVIOUS
  <2> HIDE DEF N
  <2> QED
    BY <1>5, <1>6, <2>1, Reaches
<1> QED
  BY <1>7 DEF S, v, w

LedTo(x, name, there) == Led({x}, name) = there
SameBeside(x, y, name) == \A other : other # name => Named(x, other) = Named(y, other)
IsAt(tree, path, n, x) == Reached(tree, path)[n] = {x}

\* The entries of the new trees: those of the old, but for the names of the path.
LEMMA NamedInNew ==
  ASSUME NEW tree, NEW path, Len(path) \in Nat, NEW leaf
  PROVE  LET new == NewOf(tree, path, leaf)
         IN  /\ \A n \in 1..Len(path) : SameBeside(new[n], Spine(tree, path)[n], path[n])
             /\ \A n \in 1..Len(path) :
                  n < Len(path) => LedTo(new[n], path[n], {new[n + 1]})
             /\ Len(path) # 0 => LedTo(new[Len(path)], path[Len(path)],
                                       IF leaf = Removal THEN {} ELSE {leaf.oid})
<1> DEFINE N   == Len(path)
           s   == Spine(tree, path)
           new == NewOf(tree, path, leaf)
<1>1. DOMAIN s = 1..N
  BY SpineDef
<1>2. \A n \in 1..N : new[n] = NewTree(s, path, leaf, n, new[n + 1])
  BY <1>1, RebuiltDef DEF NewOf
<1> HIDE DEF s, new
<1> SUFFICES ASSUME NEW n \in 1..N
             PROVE  /\ SameBeside(new[n], s[n], path[n])
                    /\ n < N => LedTo(new[n], path[n], {new[n + 1]})
                    /\ n = N => LedTo(new[n], path[n], IF leaf = Removal THEN {} ELSE {leaf.oid})
  <2>1. N # 0 => N \in 1..N
    OBVIOUS
  <2> QED
    BY <2>1 DEF s, new
<1> DEFINE others == Entries(s[n]) \ Named(s[n], path[n])
           below  == Entry(path[n], Child(s[n], path[n]).mode, new[n + 1])
           last   == Entry(path[n], leaf.mode, leaf.oid)
<1>3. \A g \in others : g.name # path[n]
  BY DEF Named
<1>4. below.name = path[n] /\ below.oid = new[n + 1] /\ last.name = path[n] /\ last.oid = leaf.oid
  BY DEF Entry
<1>5. /\ n < N => Entries(new[n]) = others \cup {below}
      /\ ~(n < N) /\ leaf = Removal => Entries(new[n]) = others
      /\ ~(n < N) /\ leaf # Removal => Entries(new[n]) = others \cup {last}
  BY <1>2, EntriesOfTree DEF NewTree
<1> HIDE DEF below, last
<1>6. ASSUME NEW name, name # path[n]
      PROVE  Named(new[n], name) = Named(s[n], name)
  <2>1. \A e : e.name = name => (e \in Entries(new[n]) <=> e \in Entries(s[n]))
    BY <1>3, <1>4, <1>5, <1>6 DEF Named
  <2> QED
    BY <2>1 DEF Named
<1>7. ASSUME n < N
      PROVE  Led({new[n]}, path[n]) = {new[n + 1]}
  <2>1. Named(new[n], path[n]) = {below}
    BY <1>3, <1>4, <1>5, <1>7 DEF Named
  <2> QED
    BY <1>4, <2>1, LedByOne
<1>8. ASSUME n = N
      PROVE  Led({new[n]}, path[n]) = IF leaf = Removal THEN {} ELSE {leaf.oid}
  <2>1. CASE leaf = Removal
    <3>1. Named(new[n], path[n]) = {}
      BY <1>3, <1>5, <1>8, <2>1 DEF Named
    <3> QED
      BY <2>1, <3>1, LedByOne
  <2>2. CASE leaf # Removal
    <3>1. Named(new[n], path[n]) = {last}
      BY <1>3, <1>4, <1>5, <1>8, <2>2 DEF Named
    <3> QED
      BY <1>4, <2>2, <3>1, LedByOne
  <2> QED
    BY <2>1, <2>2
<1> QED
  BY <1>6, <1>7, <1>8 DEF LedTo, SameBeside

\* Two paths have their first K names in common.
Agree(p, q, K) == K <= Len(p) /\ K <= Len(q) /\ \A n \in 1..K : p[n] = q[n]
Along(short, path) == Agree(short, path, Len(short))

\* In the new tree the new trees are at the prefixes of the path.
LEMMA ReachedNew ==
  ASSUME NEW tree, NEW path, Len(path) \in Nat, NEW leaf,
         NEW q, Len(q) \in Nat, NEW K \in Nat, K < Len(path), Agree(path, q, K)
  PROVE  LET new == NewOf(tree, path, leaf)
         IN  \A n \in 0..K : IsAt(new[1], q, n, new[n + 1])
<1> DEFINE N   == Len(path)
           new == NewOf(tree, path, leaf)
           v   == Reached(new[1], q)
           S   == {n \in 0..K : v[n] = {new[n + 1]}}
<1>1. v[0] = {new[1]} /\ \A n \in 1..Len(q) : v[n] = Led(v[n - 1], q[n])
  BY ReachedDef
<1>2. \A n \in 1..N : n < N => LedTo(new[n], path[n], {new[n + 1]})
  BY NamedInNew
<1> HIDE DEF v, new
<1>3. 0 \in S
  BY <1>1
<1>4. ASSUME NEW n \in 0..K, n \in S, n < K
      PROVE  n + 1 \in S
  <2>1. /\ n + 1 \in 1..N /\ n + 1 < N /\ n + 1 \in 1..Len(q) /\ n + 1 \in 1..K
        /\ (n + 1) - 1 = n /\ n + 1 \in 0..K
    BY <1>4 DEF Agree
  <2>2. v[n + 1] = Led({new[n + 1]}, q[n + 1])
    BY <1>1, <1>4, <2>1
  <2>3. q[n + 1] = path[n + 1]
    BY <2>1 DEF Agree
  <2> QED
    BY <1>2, <2>1, <2>2, <2>3 DEF LedTo
<1> HIDE DEF S
<1>5. \A n \in 0..K : n \in S
  BY <1>3, <1>4, Reaches
<1> QED
  BY <1>5 DEF S, v, new, IsAt

\* In the old tree the spine is there, down to where a name is new.
OnSpine(tree, path, q, n) ==
  \/ Reached(tree, q)[n] = {Spine(tree, path)[n + 1]}
  \/ Reached(tree, q)[n] = {} /\ Spine(tree, path)[n + 1] = EmptyTree

LEMMA ReachedSpine ==
  ASSUME NEW objects, Closed(objects), WellFormed(objects), NEW tree \in objects,
         NEW path, Len(path) \in Nat,
         NEW q, Len(q) \in Nat, NEW K \in Nat, K < Len(path), Agree(path, q, K)
  PROVE  \A n \in 0..K : OnSpine(tree, path, q, n)
<1> DEFINE N == Len(path)
           s == Spine(tree, path)
           v == Reached(tree, q)
           S == {n \in 0..K : v[n] = {s[n + 1]} \/ (v[n] = {} /\ s[n + 1] = EmptyTree)}
<1>1. v[0] = {tree} /\ \A n \in 1..Len(q) : v[n] = Led(v[n - 1], q[n])
  BY ReachedDef
<1>2. s[1] = tree /\ \A n \in 2..N : s[n] = Child(s[n - 1], path[n - 1]).oid
  BY SpineDef
<1>3. \A n \in 1..N : s[n] \in objects \cup {EmptyTree}
  BY SpineAmongAll
<1> HIDE DEF v, s
<1>4. 0 \in S
  BY <1>1, <1>2
<1>5. ASSUME NEW n \in 0..K, n \in S, n < K
      PROVE  n + 1 \in S
  <2>1. /\ n + 1 \in 1..N /\ n + 2 \in 2..N /\ n + 1 \in 1..Len(q) /\ n + 1 \in 1..K
        /\ (n + 1) - 1 = n /\ (n + 2) - 1 = n + 1 /\ n + 1 \in 0..K /\ (n + 1) + 1 = n + 2
    BY <1>5 DEF Agree
  <2> DEFINE x    == s[n + 1]
             name == path[n + 1]
  <2>2. v[n + 1] = Led(v[n], name) /\ s[n + 2] = Child(x, name).oid
    <3>1. q[n + 1] = name
      BY <2>1 DEF Agree
    <3> QED
      BY <1>1, <1>2, <2>1, <3>1
  <2>3. x \in objects \cup {EmptyTree} /\ (v[n] = {x} \/ (v[n] = {} /\ x = EmptyTree))
    BY <1>3, <1>5, <2>1
  <2> HIDE DEF x, name
  <2>4. v[n + 1] = {s[n + 2]} \/ (v[n + 1] = {} /\ s[n + 2] = EmptyTree)
    <3>1. CASE Named(x, name) = {}
      <4>1. Child(x, name).oid = EmptyTree
        BY <3>1 DEF Child, Entry
      <4>2. v[n + 1] = {}
        BY <2>2, <2>3, <3>1, LedByOne, LedNowhere
      <4> QED
        BY <2>2, <4>1, <4>2
    <3>2. CASE Named(x, name) # {}
      <4> DEFINE e == Child(x, name)
      <4>1. e \in Named(x, name)
        BY <3>2, Picked DEF Child
      <4> HIDE DEF e
      <4>2. e \in Entries(x) /\ e.name = name
        BY <4>1 DEF Named
      <4>3. x # EmptyTree
        BY <4>2, EntriesOfTree DEF EmptyTree
      <4>4. Named(x, name) = {e}
        BY <2>3, <4>2, <4>3 DEF WellFormed
      <4>5. v[n + 1] = {e.oid}
        BY <2>2, <2>3, <4>3, <4>4, LedByOne
      <4> QED
        BY <2>2, <4>5 DEF e
    <3> QED
      BY <3>1, <3>2
  <2> QED
    BY <2>1, <2>4
<1> HIDE DEF S
<1>6. \A n \in 0..K : n \in S
  BY <1>4, <1>5, Reaches
<1> QED
  BY <1>6 DEF S, v, s, OnSpine

\* One path begins with the other, or there is a first name in which they differ.
LEMMA PathsPart ==
  ASSUME NEW p, Len(p) \in Nat, NEW q, Len(q) \in Nat, ~Along(p, q), ~Along(q, p)
  PROVE  \E k \in Nat : /\ k < Len(p) /\ k < Len(q) /\ Agree(p, q, k)
                        /\ p[k + 1] # q[k + 1]
<1> DEFINE M == IF Len(p) <= Len(q) THEN Len(p) ELSE Len(q)
           D == {n \in 1..M : p[n] # q[n]}
<1>1. M \in Nat /\ M <= Len(p) /\ M <= Len(q) /\ (M = Len(p) \/ M = Len(q))
  OBVIOUS
<1> HIDE DEF M
<1>2. D # {}
  <2> SUFFICES ASSUME \A n \in 1..M : p[n] = q[n]
               PROVE  FALSE
    OBVIOUS
  <2> QED
    BY <1>1 DEF Along, Agree
<1>3. D \subseteq 0..M
  BY <1>1
<1> HIDE DEF D
<1>4. PICK n \in D : \A m \in D : n <= m
  BY <1>1, <1>2, <1>3, Least
<1>5. n \in 1..M /\ p[n] # q[n] /\ \A m \in 1..M : p[m] # q[m] => n <= m
  BY <1>4 DEF D
<1> DEFINE k == n - 1
<1>6. k \in Nat /\ k + 1 = n /\ k < Len(p) /\ k < Len(q) /\ k <= M
  BY <1>1, <1>5
<1>7. Agree(p, q, k)
  <2>1. \A m \in 1..k : m \in 1..M /\ ~(n <= m)
    BY <1>1, <1>5
  <2> QED
    BY <1>5, <1>6, <2>1 DEF Agree
<1> QED
  BY <1>5, <1>6, <1>7

\* A path that leaves the way of the edit sees what it saw before.
LEMMA ReachedAside ==
  ASSUME NEW objects, Closed(objects), WellFormed(objects), NEW tree \in objects,
         NEW path, Len(path) \in Nat, NEW leaf,
         NEW q, Len(q) \in Nat, ~Along(path, q), ~Along(q, path)
  PROVE  Reached(NewOf(tree, path, leaf)[1], q)[Len(q)] = Reached(tree, q)[Len(q)]
<1> DEFINE N   == Len(path)
           s   == Spine(tree, path)
           new == NewOf(tree, path, leaf)
           v   == Reached(new[1], q)
           w   == Reached(tree, q)
<1>1. PICK k \in Nat : k < N /\ k < Len(q) /\ Agree(path, q, k) /\ path[k + 1] # q[k + 1]
  BY PathsPart
<1>2. k + 1 \in 1..N /\ k + 1 \in 1..Len(q) /\ (k + 1) - 1 = k /\ k \in 0..k
  BY <1>1
<1>3. v[k] = {new[k + 1]}
  <2>1. \A n \in 0..k : IsAt(new[1], q, n, new[n + 1])
    BY <1>1, ReachedNew
  <2> QED
    BY <1>2, <2>1 DEF IsAt
<1>4. w[k] = {s[k + 1]} \/ (w[k] = {} /\ s[k + 1] = EmptyTree)
  BY <1>1, <1>2, ReachedSpine DEF OnSpine
<1>5. Named(new[k + 1], q[k + 1]) = Named(s[k + 1], q[k + 1])
  <2>1. \A n \in 1..N : SameBeside(new[n], s[n], path[n])
    BY NamedInNew
  <2> QED
    BY <1>1, <1>2, <2>1 DEF SameBeside
<1>6. v[k + 1] = Led(v[k], q[k + 1]) /\ w[k + 1] = Led(w[k], q[k + 1])
  BY <1>2, ReachedDef
<1> HIDE DEF v, w, new, s
<1>7. v[k + 1] = w[k + 1]
  <2>1. v[k + 1] = Led({s[k + 1]}, q[k + 1])
    <3>1. Led({new[k + 1]}, q[k + 1]) = Led({s[k + 1]}, q[k + 1])
      BY <1>5, LedByOne
    <3> QED
      BY <1>3, <1>6, <3>1
  <2>2. CASE w[k] = {s[k + 1]}
    BY <1>6, <2>1, <2>2
  <2>3. CASE w[k] = {} /\ s[k + 1] = EmptyTree
    <3>1. Named(s[k + 1], q[k + 1]) = {}
      BY <2>3, EntriesOfTree DEF Named, EmptyTree
    <3> QED
      BY <1>6, <2>1, <2>3, <3>1, LedByOne, LedNowhere
  <2> QED
    BY <1>4, <2>2, <2>3
<1> DEFINE L == Len(q) - (k + 1)
           j == k + 1
<1>8. L \in Nat /\ j \in Nat /\ j + L <= Len(q) /\ j + L = Len(q) /\ SameNames(q, j, q, j, L)
  BY <1>1 DEF SameNames
<1>9. Reached(new[1], q)[j] = Reached(tree, q)[j]
  BY <1>7 DEF v, w
<1> HIDE DEF L, j
<1>10. Reached(new[1], q)[j + L] = Reached(tree, q)[j + L]
  BY <1>8, <1>9, InStep
<1> QED
  BY <1>8, <1>10 DEF new

\* A prefix of the path is a directory.
LEMMA SeenAbove ==
  ASSUME NEW tree, NEW path, Len(path) \in Nat, NEW leaf,
         NEW q, Len(q) \in Nat, Along(q, path), Len(q) < Len(path)
  PROVE  Seen(NewOf(tree, path, leaf)[1], q) = {Directory}
<1> DEFINE new == NewOf(tree, path, leaf)
           K   == Len(q)
<1>1. Agree(path, q, K) /\ K \in Nat /\ K \in 0..K /\ K + 1 \in 1..Len(path) /\ Len(path) # 0
  BY DEF Along, Agree
<1>2. Reached(new[1], q)[K] = {new[K + 1]}
  <2>1. \A n \in 0..K : IsAt(new[1], q, n, new[n + 1])
    BY <1>1, ReachedNew
  <2> QED
    BY <1>1, <2>1 DEF IsAt
<1>3. new[K + 1].kind = "tree"
  BY <1>1, SpineOfNew
<1> HIDE DEF new
<1> QED
  BY <1>2, <1>3 DEF Seen, Shown, new

\* It was one before, unless nothing was there.
LEMMA SeenAboveBefore ==
  ASSUME NEW objects, Closed(objects), WellFormed(objects), NEW tree \in objects,
         NEW path, Len(path) \in Nat, NEW q, Len(q) \in Nat, Along(q, path),
         Len(q) < Len(path), Spine(tree, path)[Len(q) + 1].kind = "tree",
         Reached(tree, q)[Len(q)] # {}
  PROVE  Seen(tree, q) = {Directory}
<1> DEFINE K == Len(q)
<1>1. Agree(path, q, K) /\ K \in Nat /\ K \in 0..K
  BY DEF Along, Agree
<1>2. OnSpine(tree, path, q, K)
  BY <1>1, ReachedSpine
<1>3. Reached(tree, q)[K] = {Spine(tree, path)[K + 1]}
  BY <1>2 DEF OnSpine
<1> QED
  BY <1>3 DEF Seen, Shown

\* At the path is what was put there, or nothing.
IsPut(there, leaf) == there = IF leaf = Removal THEN {} ELSE {leaf.oid}

LEMMA ReachedAt ==
  ASSUME NEW tree, NEW path, Len(path) \in Nat, Len(path) # 0, NEW leaf,
         NEW q, Len(q) \in Nat, Along(path, q)
  PROVE  IsPut(Reached(NewOf(tree, path, leaf)[1], q)[Len(path)], leaf)
<1> DEFINE N   == Len(path)
           new == NewOf(tree, path, leaf)
           v   == Reached(new[1], q)
           K   == N - 1
<1>1. /\ K \in Nat /\ K < N /\ Agree(path, q, K) /\ K + 1 = N /\ K \in 0..K
      /\ N \in 1..Len(q) /\ N \in 1..N
  BY DEF Along, Agree
<1>2. v[K] = {new[N]}
  <2>1. \A n \in 0..K : IsAt(new[1], q, n, new[n + 1])
    BY <1>1, ReachedNew
  <2> QED
    BY <1>1, <2>1 DEF IsAt
<1>3. v[N] = Led(v[K], q[N])
  BY <1>1, ReachedDef
<1>4. LedTo(new[N], path[N], IF leaf = Removal THEN {} ELSE {leaf.oid})
  BY NamedInNew
<1>5. q[N] = path[N]
  BY <1>1 DEF Along, Agree
<1> HIDE DEF v, new, K
<1> QED
  BY <1>2, <1>3, <1>4, <1>5 DEF LedTo, IsPut, v, new

LEMMA SeenAtRemoval ==
  ASSUME NEW tree, NEW path, Len(path) \in Nat, Len(path) # 0,
         NEW q, Len(q) \in Nat, Along(path, q)
  PROVE  Seen(NewOf(tree, path, Removal)[1], q) = {}
<1> DEFINE new == NewOf(tree, path, Removal)
<1>1. Reached(new[1], q)[Len(path)] = {}
  BY ReachedAt DEF IsPut
<1>2. Len(path) \in 0..Len(q) /\ Len(q) \in Len(path)..Len(q)
  BY DEF Along, Agree
<1> HIDE DEF new
<1>3. Reached(new[1], q)[Len(q)] = {}
  BY <1>1, <1>2, Nowhere
<1> QED
  BY <1>3 DEF Seen, Shown, new

\* The part of a path that is left after its first N names.
IsRest(rest, q, N) == Len(rest) = Len(q) - N /\ \A i \in 1..Len(rest) : rest[i] = q[N + i]

\* Further on is what is there from the object at the path.
LEMMA SeenFrom ==
  ASSUME NEW x, NEW q, Len(q) \in Nat, NEW N \in 0..Len(q), NEW y, Reached(x, q)[N] = {y},
         NEW rest, IsRest(rest, q, N)
  PROVE  Seen(x, q) = Seen(y, rest)
<1> DEFINE L == Len(rest)
<1>1. L \in Nat /\ N \in Nat /\ N + L = Len(q) /\ N + L <= Len(q) /\ 0 + L = L /\ 0 + L <= L
  BY DEF IsRest
<1>2. SameNames(q, N, rest, 0, L)
  <2>1. ASSUME NEW i \in 1..L
        PROVE  q[N + i] = rest[0 + i]
    <3>1. 0 + i = i
      BY <1>1
    <3> QED
      BY <3>1 DEF IsRest
  <2> QED
    BY <2>1 DEF SameNames
<1>3. Reached(x, q)[N] = Reached(y, rest)[0]
  BY <1>1, ReachedDef
<1>4. Reached(x, q)[N + L] = Reached(y, rest)[0 + L]
  BY <1>1, <1>2, <1>3, InStep
<1>5. Reached(x, q)[Len(q)] = Reached(y, rest)[L]
  BY <1>1, <1>4
<1> QED
  BY <1>5 DEF Seen

-------------------------------------------------------------------------------
(* When an edit succeeds.                                                   *)

\* With the whole tree at hand no tree on the way down is missed.
LEMMA AlwaysOnTheWay ==
  ASSUME NEW objects, NEW held, held \subseteq objects, Closed(held), NEW tree \in held,
         NEW path, Len(path) \in Nat
  PROVE  \A n \in 1..Len(path) : OnTheWay(objects, tree, path, n)
<1> DEFINE N == Len(path)
           s == Spine(tree, path)
<1>1. (N # 0 => s[1] = tree) /\ \A n \in 2..N : s[n] = Child(s[n - 1], path[n - 1]).oid
  BY SpineDef
<1>2. \A n \in 1..N : s[n] \in held \cup {EmptyTree}
  BY SpineAmongAll
<1> HIDE DEF s
<1> SUFFICES ASSUME NEW n \in 1..N
             PROVE  s[n] \in objects \/ (n > 1 /\ Named(s[n - 1], path[n - 1]) = {})
  BY DEF OnTheWay, Absent, s
<1>3. CASE n = 1
  BY <1>1, <1>3
<1>4. CASE n # 1
  <2>1. n \in 2..N /\ n - 1 \in 1..N /\ n > 1
    BY <1>4
  <2> DEFINE e == Child(s[n - 1], path[n - 1])
  <2>2. ASSUME Named(s[n - 1], path[n - 1]) # {}
        PROVE  s[n] \in objects
    <3>1. e \in Entries(s[n - 1])
      BY <2>2, Picked DEF Child, Named
    <3>2. s[n - 1] \in held
      BY <1>2, <2>1, <3>1, EntriesOfTree DEF EmptyTree
    <3>3. s[n] = e.oid
      BY <1>1, <2>1
    <3> HIDE DEF e
    <3> QED
      BY <3>1, <3>2, <3>3 DEF Closed
  <2> QED
    BY <2>1, <2>2
<1> QED
  BY <1>3, <1>4

\* Where something is found every name of the path is there.
LEMMA FoundIsNamed ==
  ASSUME NEW objects, Closed(objects), NEW tree \in objects, NEW path, Len(path) \in Nat,
         FindTreeEntry(objects, tree, path).answer = "some"
  PROVE  \A n \in 1..Len(path) : ~Absent(tree, path, n)
<1> DEFINE N == Len(path)
           w == Walk(objects, tree, path)
<1>1. \A n \in 1..N : w[n] = Descend(objects, w[n - 1], path[n])
  BY WalkDef
<1>2. \A n \in 1..N : IsDir(w[n - 1]) => w[n - 1].oid = Spine(tree, path)[n]
  BY WalkAlongSpine
<1>3. w[N].answer = "some"
  BY DEF FindTreeEntry
<1>4. ASSUME NEW n \in 1..N, w[n].answer = "some"
      PROVE  IsDir(w[n - 1]) /\ Named(w[n - 1].oid, path[n]) # {}
  <2>1. w[n] = Descend(objects, w[n - 1], path[n])
    BY <1>1
  <2> HIDE DEF w
  <2> QED
    BY <1>4, <2>1, Answers DEF Descend, IsDir
<1>5. \A n \in 1..N : w[n].answer = "some"
  <2>1. CASE N = 0
    BY <2>1
  <2>2. CASE N # 0
    <3>1. N \in 1..N /\ N - 1 \in 0..N
      BY <2>2
    <3>2. IsDir(w[N - 1])
      BY <1>3, <1>4, <3>1
    <3>3. \A n \in 0..(N - 1) : IsDir(w[n])
      BY <3>1, <3>2, WalkThroughDirs
    <3> HIDE DEF w
    <3>4. ASSUME NEW n \in 1..N
          PROVE  w[n].answer = "some"
      <4>1. n = N \/ n \in 0..(N - 1)
        OBVIOUS
      <4> QED
        BY <1>3, <3>3, <4>1 DEF IsDir
    <3> QED
      BY <3>4
  <2> QED
    BY <2>1, <2>2
<1> HIDE DEF w
<1>6. ASSUME NEW n \in 1..N
      PROVE  Named(Spine(tree, path)[n], path[n]) # {}
  BY <1>2, <1>4, <1>5
<1> QED
  BY <1>6 DEF Absent
===============================================================================
