---------------------------- MODULE FeatureProofs ----------------------------
(***************************************************************************)
(* Proofs about FeatureSubspace: the disjoint set has the classes the      *)
(* equality clauses connect, the compaction in place leaves the features   *)
(* the subspace is defined by, and an object keeps its subspace however    *)
(* the planner writes its clauses.  And about PlanFeatures: of an ordinary *)
(* statement, what is learned of a node is the subspace the planner        *)
(* estimated it under.                                                     *)
(***************************************************************************)
EXTENDS FeatureSubspace, PlanFeatures, SubspaceProofs

-----------------------------------------------------------------------------
(***************************************************************************)
(* The disjoint set                                                        *)
(***************************************************************************)

\* p is a forest: R has the root of each entry, d a depth that grows away
\* from the root.
Forest(p, R, d) ==
    /\ -1 \notin DOMAIN p
    /\ R \in [DOMAIN p -> DOMAIN p] /\ d \in [DOMAIN p -> Nat]
    /\ \A u \in DOMAIN p :
         /\ p[R[u]] = -1
         /\ p[u] = -1 => R[u] = u
         /\ p[u] # -1 => p[u] \in DOMAIN p /\ R[p[u]] = R[u] /\ d[p[u]] < d[u]
         /\ R[u] # u => d[R[u]] < d[u]

(* An entry at least depth among those that have a property.               *)
LEMMA Shallowest ==
  ASSUME NEW D, NEW d \in [D -> Nat], NEW X \in SUBSET D, X # {}
  PROVE  \E u \in X : \A w \in X : d[u] <= d[w]
<1> DEFINE T == {d[u] : u \in X}
<1>1. T \in SUBSET Nat /\ T # {}
  OBVIOUS
<1>2. \E m \in T : \A n \in T : m <= n
  <2>. HIDE DEF T
  <2>. QED  BY <1>1, LeastNumber
<1>. QED  BY <1>2

(* disjoint_set_get_parent finds the root.                                 *)
LEMMA RootIs ==
  ASSUME NEW p, NEW R, NEW d, Forest(p, R, d), NEW v \in DOMAIN p
  PROVE  Root(p, v) = R[v]
<1> DEFINE D == DOMAIN p
           solves(g) == g = [u \in D |-> IF p[u] = -1 THEN u ELSE g[p[u]]]
           root == CHOOSE g : solves(g)
<1>1. Root(p, v) = root[v]
  BY DEF Root
<1>2. solves(R)
  <2>1. R \in [D -> D] /\ \A u \in D : R[u] = IF p[u] = -1 THEN u ELSE R[p[u]]
    BY DEF Forest
  <2>. HIDE DEF D
  <2>. QED  BY <2>1
<1>3. solves(root)
  <2>. HIDE DEF solves
  <2>. QED  BY <1>2
<1>. HIDE DEF root
<1>4. \A u \in D : root[u] = IF p[u] = -1 THEN u ELSE root[p[u]]
  BY <1>3
<1>5. \A u \in D : root[u] = R[u]
  <2> DEFINE X == {u \in D : root[u] # R[u]}
  <2>. SUFFICES ASSUME X # {} PROVE FALSE
    OBVIOUS
  <2>1. PICK u \in X : \A w \in X : d[u] <= d[w]
    <3>1. d \in [D -> Nat] /\ X \in SUBSET D
      BY DEF Forest
    <3>. HIDE DEF X, D
    <3>. QED  BY <3>1, Shallowest
  <2>2. u \in D /\ root[u] # R[u]
    OBVIOUS
  <2>3. p[u] # -1
    BY <1>4, <2>2 DEF Forest
  <2>4. p[u] \in D /\ R[p[u]] = R[u] /\ d[p[u]] < d[u] /\ d[u] \in Nat /\ d[p[u]] \in Nat
    BY <2>2, <2>3 DEF Forest
  <2>5. p[u] \notin X
    BY <2>1, <2>4
  <2>. QED  BY <1>4, <2>2, <2>3, <2>4, <2>5
<1>. QED  BY <1>1, <1>5

(* The entries it goes through have a parent, and the same root.           *)
LEMMA TrailIs ==
  ASSUME NEW p, NEW R, NEW d, Forest(p, R, d), NEW v \in DOMAIN p
  PROVE  \A w \in Trail(p, v) : w \in DOMAIN p /\ p[w] # -1 /\ R[w] = R[v]
<1> DEFINE D == DOMAIN p
           solves(g) == g = [u \in D |-> IF p[u] = -1 THEN {} ELSE {u} \cup g[p[u]]]
           trail == CHOOSE g : solves(g)
           closed(X) == \A x \in X : p[x] # -1 => p[x] \in X
           above(u) == {w \in D : p[w] # -1 /\ \A X \in SUBSET D : u \in X /\ closed(X) => w \in X}
           up == [u \in D |-> above(u)]
<1>1. Trail(p, v) = trail[v]
  BY DEF Trail
<1>2. ASSUME NEW u \in D, p[u] = -1 PROVE above(u) = {}
  <2>1. {u} \in SUBSET D /\ closed({u})
    BY <1>2
  <2>. QED  BY <1>2, <2>1
<1>3. ASSUME NEW u \in D, p[u] # -1 PROVE above(u) = {u} \cup above(p[u])
  <2>1. p[u] \in D
    BY <1>3 DEF Forest
  <2>2. u \in above(u)
    BY <1>3
  <2>3. ASSUME NEW w \in above(p[u]) PROVE w \in above(u)
    <3>1. ASSUME NEW X \in SUBSET D, u \in X, closed(X) PROVE w \in X
      <4>1. p[u] \in X
        BY <1>3, <3>1
      <4>. QED  BY <3>1, <4>1
    <3>. QED  BY <3>1
  <2>4. ASSUME NEW w \in above(u), w # u PROVE w \in above(p[u])
    <3>1. ASSUME NEW X \in SUBSET D, p[u] \in X, closed(X) PROVE w \in X
      <4>1. X \cup {u} \in SUBSET D /\ closed(X \cup {u})
        BY <3>1
      <4>2. w \in X \cup {u}
        BY <4>1
      <4>. QED  BY <2>4, <4>2
    <3>. QED  BY <3>1
  <2>. HIDE DEF above
  <2>. QED  BY <2>2, <2>3, <2>4
<1>4. solves(up)
  <2>1. ASSUME NEW u \in D PROVE up[u] = IF p[u] = -1 THEN {} ELSE {u} \cup up[p[u]]
    <3>1. p[u] # -1 => p[u] \in D
      BY DEF Forest
    <3>. HIDE DEF above
    <3>. QED  BY <1>2, <1>3, <3>1
  <2>2. up = [u \in D |-> up[u]]
    <3>. HIDE DEF above
    <3>. QED  OBVIOUS
  <2>. HIDE DEF up, D
  <2>. QED  BY <2>1, <2>2
<1>5. solves(trail)
  <2>. HIDE DEF solves, up
  <2>. QED  BY <1>4
<1>. HIDE DEF trail
<1>6. \A u \in D : trail[u] = IF p[u] = -1 THEN {} ELSE {u} \cup trail[p[u]]
  BY <1>5
<1> DEFINE right(u) == \A w \in trail[u] : w \in D /\ p[w] # -1 /\ R[w] = R[u]
<1>7. \A u \in D : right(u)
  <2> DEFINE X == {u \in D : ~right(u)}
  <2>. SUFFICES ASSUME X # {} PROVE FALSE
    OBVIOUS
  <2>1. PICK u \in X : \A w \in X : d[u] <= d[w]
    <3>1. d \in [D -> Nat] /\ X \in SUBSET D
      BY DEF Forest
    <3>. HIDE DEF X, D
    <3>. QED  BY <3>1, Shallowest
  <2>2. u \in D /\ ~right(u)
    OBVIOUS
  <2>3. p[u] # -1
    BY <1>6, <2>2
  <2>4. p[u] \in D /\ R[p[u]] = R[u] /\ d[p[u]] < d[u] /\ d[u] \in Nat /\ d[p[u]] \in Nat
    BY <2>2, <2>3 DEF Forest
  <2>5. right(p[u])
    <3>. HIDE DEF right
    <3>. QED  BY <2>1, <2>4
  <2>6. trail[u] = {u} \cup trail[p[u]]
    BY <1>6, <2>2, <2>3
  <2>. QED  BY <2>2, <2>3, <2>4, <2>5, <2>6
<1>. QED  BY <1>1, <1>7

(* Path compression keeps the forest and its roots.                        *)
LEMMA CompressForest ==
  ASSUME NEW p, NEW R, NEW d, Forest(p, R, d), NEW v \in DOMAIN p
  PROVE  Forest(Compress(p, v), R, d) /\ DOMAIN Compress(p, v) = DOMAIN p
<1> DEFINE q == Compress(p, v)
           D == DOMAIN p
<1>1. \A w \in Trail(p, v) : w \in D /\ p[w] # -1 /\ R[w] = R[v]
  BY TrailIs
<1>2. Root(p, v) = R[v]
  BY RootIs
<1>3. DOMAIN q = D /\ \A u \in D : q[u] = IF u \in Trail(p, v) THEN R[v] ELSE p[u]
  BY <1>2 DEF Compress
<1>. HIDE DEF q
<1>4. ASSUME NEW u \in D
      PROVE  /\ q[R[u]] = -1
             /\ q[u] = -1 => R[u] = u
             /\ q[u] # -1 => q[u] \in D /\ R[q[u]] = R[u] /\ d[q[u]] < d[u]
             /\ R[u] # u => d[R[u]] < d[u]
  <2>1. R[u] \in D /\ p[R[u]] = -1 /\ R[R[u]] = R[u] /\ -1 \notin D
    BY DEF Forest
  <2>2. q[R[u]] = -1
    BY <1>1, <1>3, <2>1
  <2>3. CASE u \in Trail(p, v)
    <3>1. p[u] # -1 /\ R[u] = R[v] /\ q[u] = R[u]
      BY <1>1, <1>3, <2>3
    <3>2. R[u] # u
      BY <2>1, <3>1
    <3>. QED  BY <2>1, <2>2, <3>1, <3>2 DEF Forest
  <2>4. CASE u \notin Trail(p, v)
    BY <1>3, <2>2, <2>4 DEF Forest
  <2>. QED  BY <2>3, <2>4
<1>. QED  BY <1>3, <1>4 DEF Forest, q

IsForest(p, R) == \E d : Forest(p, R, d)

\* The roots once the tree of r1 hangs on r2
Joined(R, r1, r2) == [u \in DOMAIN R |-> IF R[u] = r1 THEN r2 ELSE R[u]]

(* Hanging one root on another gives a forest.                             *)
LEMMA LinkForest ==
  ASSUME NEW p, NEW R, NEW d, Forest(p, R, d),
         NEW r1 \in DOMAIN p, NEW r2 \in DOMAIN p, r1 # r2, p[r1] = -1, p[r2] = -1
  PROVE  /\ DOMAIN [p EXCEPT ![r1] = r2] = DOMAIN p
         /\ IsForest([p EXCEPT ![r1] = r2], Joined(R, r1, r2))
<1> DEFINE D == DOMAIN p
           q == [p EXCEPT ![r1] = r2]
           Q == Joined(R, r1, r2)
           e == [u \in D |-> IF R[u] = r1 THEN d[u] + d[r2] + 1 ELSE d[u]]
<1>1. /\ R \in [D -> D] /\ d \in [D -> Nat] /\ -1 \notin D
      /\ R[r1] = r1 /\ R[r2] = r2
  BY DEF Forest
<1>2. DOMAIN q = D /\ \A u \in D : q[u] = IF u = r1 THEN r2 ELSE p[u]
  OBVIOUS
<1>3. Q \in [D -> D] /\ \A u \in D : Q[u] = IF R[u] = r1 THEN r2 ELSE R[u]
  BY <1>1 DEF Joined
<1>4. e \in [D -> Nat] /\ \A u \in D : e[u] = IF R[u] = r1 THEN d[u] + d[r2] + 1 ELSE d[u]
  BY <1>1
<1>. HIDE DEF q, Q, e
<1>5. ASSUME NEW u \in D
      PROVE  /\ q[Q[u]] = -1
             /\ q[u] = -1 => Q[u] = u
             /\ q[u] # -1 => q[u] \in D /\ Q[q[u]] = Q[u] /\ e[q[u]] < e[u]
             /\ Q[u] # u => e[Q[u]] < e[u]
  <2>1. /\ p[R[u]] = -1 /\ R[u] \in D
        /\ p[u] = -1 => R[u] = u
        /\ p[u] # -1 => p[u] \in D /\ R[p[u]] = R[u] /\ d[p[u]] < d[u]
        /\ R[u] # u => d[R[u]] < d[u]
    BY DEF Forest
  <2>2. R[R[u]] = R[u]
    BY <2>1 DEF Forest
  <2>3. q[Q[u]] = -1
    BY <1>2, <1>3, <2>1
  <2>4. q[u] = -1 => Q[u] = u
    BY <1>1, <1>2, <1>3, <2>1
  <2>5. ASSUME q[u] # -1 PROVE q[u] \in D /\ Q[q[u]] = Q[u] /\ e[q[u]] < e[u]
    <3>1. CASE u = r1
      <4>1. q[u] = r2 /\ Q[r2] = r2 /\ Q[u] = r2
        BY <1>1, <1>2, <1>3, <3>1
      <4>2. e[r2] = d[r2] /\ e[u] = d[u] + d[r2] + 1 /\ d[r2] \in Nat /\ d[u] \in Nat
        BY <1>1, <1>4, <3>1
      <4>. QED  BY <4>1, <4>2
    <3>2. CASE u # r1
      <4>1. q[u] = p[u] /\ p[u] \in D /\ R[p[u]] = R[u] /\ d[p[u]] < d[u]
        BY <1>2, <2>1, <2>5, <3>2
      <4>2. Q[p[u]] = Q[u]
        BY <1>3, <4>1
      <4>3. e[p[u]] < e[u]
        BY <1>1, <1>4, <4>1
      <4>. QED  BY <4>1, <4>2, <4>3
    <3>. QED  BY <3>1, <3>2
  <2>6. ASSUME Q[u] # u PROVE e[Q[u]] < e[u]
    <3>1. CASE R[u] = r1
      <4>1. Q[u] = r2 /\ e[r2] = d[r2] /\ e[u] = d[u] + d[r2] + 1
        BY <1>1, <1>3, <1>4, <3>1
      <4>2. d[r2] \in Nat /\ d[u] \in Nat
        BY <1>1
      <4>. QED  BY <4>1, <4>2
    <3>2. CASE R[u] # r1
      <4>1. Q[u] = R[u] /\ e[u] = d[u] /\ e[R[u]] = d[R[u]]
        BY <1>3, <1>4, <2>1, <2>2, <3>2
      <4>. QED  BY <2>1, <2>6, <4>1
    <3>. QED  BY <3>1, <3>2
  <2>. QED  BY <2>3, <2>4, <2>5, <2>6
<1>6. Forest(q, Q, e)
  BY <1>1, <1>2, <1>3, <1>4, <1>5 DEF Forest
<1>. QED  BY <1>2, <1>6 DEF IsForest, q, Q

\* In Q exactly the trees of v1 and v2 are joined.
Unites(Q, R, D, v1, v2) ==
    \A u, w \in D :
        Q[u] = Q[w] <=> R[u] = R[w] \/ (R[u] \in {R[v1], R[v2]} /\ R[w] \in {R[v1], R[v2]})

(* disjoint_set_merge_eclasses joins the trees of its two entries and no   *)
(* others.                                                                 *)
LEMMA MergeForest ==
  ASSUME NEW p, NEW R, NEW d, Forest(p, R, d), DOMAIN p \in SUBSET Nat,
         NEW v1 \in DOMAIN p, NEW v2 \in DOMAIN p
  PROVE  /\ DOMAIN Merge(p, v1, v2) = DOMAIN p
         /\ \E Q : IsForest(Merge(p, v1, v2), Q) /\ Unites(Q, R, DOMAIN p, v1, v2)
<1> DEFINE D == DOMAIN p
           c == Compress(p, v1)
           q == Compress(c, v2)
           r1 == R[v1]
           r2 == R[v2]
<1>1. Forest(c, R, d) /\ DOMAIN c = D
  BY CompressForest
<1>. HIDE DEF c
<1>2. Forest(q, R, d) /\ DOMAIN q = D
  BY <1>1, CompressForest
<1>. HIDE DEF q
<1>3. Root(q, v1) = r1 /\ Root(q, v2) = r2
  BY <1>2, RootIs
<1>4. /\ r1 \in D /\ r2 \in D /\ q[r1] = -1 /\ q[r2] = -1
      /\ R \in [D -> D]
  BY <1>2 DEF Forest
<1>5. Merge(p, v1, v2) = IF r1 = r2 THEN q
                         ELSE IF (v1 + v2) % 2 = 1 THEN [q EXCEPT ![r1] = r2]
                         ELSE [q EXCEPT ![r2] = r1]
  BY <1>3 DEF Merge, c, q
<1>. HIDE DEF D
<1>6. CASE r1 = r2
  <2>1. Unites(R, R, D, v1, v2)
    BY <1>6 DEF Unites
  <2>2. IsForest(q, R)
    BY <1>2 DEF IsForest
  <2>. QED  BY <1>2, <1>5, <1>6, <2>1, <2>2 DEF D
<1>7. ASSUME NEW a \in {r1, r2}, NEW b \in {r1, r2}, a # b
      PROVE  /\ DOMAIN [q EXCEPT ![a] = b] = D
             /\ IsForest([q EXCEPT ![a] = b], Joined(R, a, b))
             /\ Unites(Joined(R, a, b), R, D, v1, v2)
  <2>. HIDE DEF r1, r2
  <2>1. a \in D /\ b \in D /\ q[a] = -1 /\ q[b] = -1
    BY <1>4
  <2>2. DOMAIN [q EXCEPT ![a] = b] = D /\ IsForest([q EXCEPT ![a] = b], Joined(R, a, b))
    BY <1>2, <1>7, <2>1, LinkForest
  <2>3. \A u \in D : Joined(R, a, b)[u] = IF R[u] = a THEN b ELSE R[u]
    BY <1>4 DEF Joined
  <2>4. {R[v1], R[v2]} = {a, b}
    BY <1>7 DEF r1, r2
  <2>5. Unites(Joined(R, a, b), R, D, v1, v2)
    BY <1>7, <2>3, <2>4 DEF Unites
  <2>. QED  BY <2>2, <2>5
<1>8. CASE r1 # r2
  <2>. HIDE DEF r1, r2
  <2>1. CASE (v1 + v2) % 2 = 1
    <3>1. Merge(p, v1, v2) = [q EXCEPT ![r1] = r2]
      BY <1>5, <1>8, <2>1
    <3>2. r1 \in {r1, r2} /\ r2 \in {r1, r2}
      OBVIOUS
    <3>. QED  BY <1>7, <1>8, <3>1, <3>2 DEF D
  <2>2. CASE ~((v1 + v2) % 2 = 1)
    <3>1. Merge(p, v1, v2) = [q EXCEPT ![r2] = r1]
      BY <1>5, <1>8, <2>2
    <3>2. r1 \in {r1, r2} /\ r2 \in {r1, r2}
      OBVIOUS
    <3>. QED  BY <1>7, <1>8, <3>1, <3>2 DEF D
  <2>. QED  BY <2>1, <2>2
<1>. QED  BY <1>6, <1>8

-----------------------------------------------------------------------------
(***************************************************************************)
(* perform_eclasses_join                                                   *)
(***************************************************************************)

\* How many clauses the disjoint set has taken in
Taken == IF phase = "join" THEN k - 1 ELSE Len(clauses)

\* The roots R tell apart what the clauses taken in do not connect.
Represents(R) ==
    \A a, b \in ArgSet(clauses) :
        R[Position(a)] = R[Position(b)] <=> Linked(clauses, Taken, a, b)

JoinInv ==
    /\ clauses \in Seq(Clauses)
    /\ phase \in {"join", "compact", "done"}
    /\ k \in Nat
    /\ phase = "join" => k \in 1 .. Len(clauses) + 1
    /\ DOMAIN parent = Positions(clauses)
    /\ \E R : IsForest(parent, R) /\ Represents(R)

(* args_hash lists the arguments; each has a position.                     *)
LEMMA ArgSeqLists ==
  ASSUME NEW cl \in Seq(Clauses)
  PROVE  /\ Cardinality(ArgSet(cl)) \in Nat
         /\ Positions(cl) = 1 .. Cardinality(ArgSet(cl))
         /\ \A i \in Positions(cl) : ArgSeq(cl)[i] \in ArgSet(cl)
         /\ \A a \in ArgSet(cl) : \E i \in Positions(cl) : ArgSeq(cl)[i] = a
<1> DEFINE A == ArgSet(cl)
           lt == {p \in A \X A : p[1] < p[2]}
<1>1. A \in SUBSET Int /\ IsFiniteSet(A)
  BY ArgSetType
<1>2. ArgSeq(cl) = SortBy(A, lt)
  BY DEF ArgSeq
<1>. HIDE DEF A
<1>3. StrictOrder(A, lt)
  <2>1. \A i, j \in A : <<i, j>> \in lt <=> i < j
    OBVIOUS
  <2>. HIDE DEF lt
  <2>. QED  BY <1>1, <2>1 DEF StrictOrder
<1>. HIDE DEF lt
<1>4. Sorts(ArgSeq(cl), A, lt)
  BY <1>1, <1>2, <1>3, SortBySorts
<1>5. Cardinality(A) \in Nat
  BY <1>1, FS_CardinalityType
<1>. QED  BY <1>4, <1>5 DEF Sorts, Positions, A

(* Each argument has a position, and positions tell arguments apart.       *)
LEMMA PositionOf ==
  ASSUME clauses \in Seq(Clauses)
  PROVE  \A a \in ArgSet(clauses) :
            Position(a) \in Positions(clauses) /\ ArgSeq(clauses)[Position(a)] = a
<1>1. \A a \in ArgSet(clauses) : \E i \in Positions(clauses) : ArgSeq(clauses)[i] = a
  BY ArgSeqLists
<1>. QED  BY <1>1 DEF Position

(* The classes get_eclasses reads off the disjoint set are what the        *)
(* clauses taken in connect.                                               *)
LEMMA ClassIsLinked ==
  ASSUME JoinInv, NEW a \in ArgSet(clauses)
  PROVE  ClassOf(a) = {b \in ArgSet(clauses) : Linked(clauses, Taken, a, b)}
<1>1. PICK R : IsForest(parent, R) /\ Represents(R)
  BY DEF JoinInv
<1>2. PICK d : Forest(parent, R, d)
  BY <1>1 DEF IsForest
<1>3. \A b \in ArgSet(clauses) : Root(parent, Position(b)) = R[Position(b)]
  <2>. SUFFICES ASSUME NEW b \in ArgSet(clauses) PROVE Root(parent, Position(b)) = R[Position(b)]
    OBVIOUS
  <2>1. Position(b) \in DOMAIN parent
    BY PositionOf DEF JoinInv
  <2>. QED  BY <1>2, <2>1, RootIs
<1>4. \A b \in ArgSet(clauses) : R[Position(b)] = R[Position(a)] <=> Linked(clauses, Taken, a, b)
  BY <1>1 DEF Represents
<1>. QED  BY <1>3, <1>4 DEF ClassOf

\* No clause has been taken in.
Fresh ==
    /\ clauses \in Seq(Clauses)
    /\ phase = "join" /\ k = 1
    /\ parent = [v \in Positions(clauses) |-> -1]

(* A new disjoint set represents a list of clauses none of which has been  *)
(* taken in.                                                               *)
LEMMA FreshRepresents == Fresh => JoinInv
<1>. SUFFICES ASSUME Fresh PROVE JoinInv
  OBVIOUS
<1>. USE DEF Fresh
<1> DEFINE D == Positions(clauses)
           R == [v \in D |-> v]
           d == [v \in D |-> 0]
<1>1. Len(clauses) \in Nat /\ -1 \notin D
  BY ArgSeqLists
<1>. HIDE DEF D
<1>2. Forest(parent, R, d)
  <2>1. DOMAIN parent = D /\ \A v \in D : parent[v] = -1
    BY DEF D
  <2>2. R \in [D -> D] /\ d \in [D -> Nat] /\ \A v \in D : R[v] = v
    OBVIOUS
  <2>. HIDE DEF R, d
  <2>. QED  BY <1>1, <2>1, <2>2 DEF Forest
<1>3. Represents(R)
  <2>. SUFFICES ASSUME NEW a \in ArgSet(clauses), NEW b \in ArgSet(clauses)
               PROVE  R[Position(a)] = R[Position(b)] <=> Linked(clauses, Taken, a, b)
    BY DEF Represents
  <2>1. Position(a) \in D /\ Position(b) \in D /\ (Position(a) = Position(b) => a = b)
    BY PositionOf DEF D
  <2>2. R[Position(a)] = R[Position(b)] <=> a = b
    BY <2>1
  <2>3. Taken = 0
    BY DEF Taken
  <2>. QED  BY <2>2, <2>3, LinkedAtFirst
<1>4. IsForest(parent, R)
  <2>. HIDE DEF R, d
  <2>. QED  BY <1>2 DEF IsForest
<1>. HIDE DEF R
<1>. QED  BY <1>1, <1>3, <1>4 DEF JoinInv, D

(* Taking in a clause.                                                     *)
LEMMA JoinStep ==
  ASSUME JoinInv, JoinClause
  PROVE  JoinInv'
<1> DEFINE A == ArgSet(clauses)
           c == clauses[k]
           D == Positions(clauses)
<1>1. /\ clauses \in Seq(Clauses) /\ phase = "join" /\ phase' = phase
      /\ k \in 1 .. Len(clauses) /\ k' = k + 1 /\ clauses' = clauses
      /\ DOMAIN parent = D /\ Taken = k - 1 /\ Taken' = k
  BY DEF JoinInv, JoinClause, Taken
<1>2. \A a \in A : Position(a)' = Position(a)
  BY <1>1 DEF Position, Positions
<1>3. PICK R : IsForest(parent, R) /\ Represents(R)
  BY DEF JoinInv
<1>4. \A a \in A : Position(a) \in D
  BY <1>1, PositionOf
<1>5. CASE c.eq /\ ~HasConst(c)
  <2> DEFINE x == c.args[1]
             y == c.args[2]
             v1 == Position(y)
             v2 == Position(x)
  <2>1. parent' = Merge(parent, v1, v2)
    BY <1>5 DEF JoinClause
  <2>2. c \in Clauses /\ k \in DOMAIN clauses
    BY <1>1
  <2>3. x \in A /\ y \in A
    BY <1>5, <2>2, SidesAre, SidesWithin
  <2>4. v1 \in D /\ v2 \in D
    BY <1>4, <2>3
  <2>. HIDE DEF v1, v2
  <2>5. DOMAIN parent \in SUBSET Nat
    BY <1>1, ArgSeqLists
  <2>6. PICK d : Forest(parent, R, d)
    BY <1>3 DEF IsForest
  <2>7. /\ DOMAIN Merge(parent, v1, v2) = DOMAIN parent
        /\ \E Q : IsForest(Merge(parent, v1, v2), Q) /\ Unites(Q, R, DOMAIN parent, v1, v2)
    BY <1>1, <2>4, <2>5, <2>6, MergeForest
  <2>8. PICK Q : IsForest(parent', Q) /\ Unites(Q, R, DOMAIN parent, v1, v2)
    BY <2>1, <2>7
  <2> DEFINE K == [a \in A |-> R[Position(a)]]
             L == [a \in A |-> Q[Position(a)]]
  <2>9. Tells(K, clauses, k - 1)
    BY <1>1, <1>3 DEF Represents, Tells
  <2>10. Unifies(L, K, A, x, y)
    <3>. SUFFICES ASSUME NEW a \in A, NEW b \in A
                 PROVE  L[a] = L[b] <=> K[a] = K[b] \/ (K[a] \in {K[x], K[y]} /\ K[b] \in {K[x], K[y]})
      BY DEF Unifies
    <3>1. L[a] = Q[Position(a)] /\ L[b] = Q[Position(b)] /\ K[a] = R[Position(a)] /\ K[b] = R[Position(b)]
      OBVIOUS
    <3>2. K[x] = R[v2] /\ K[y] = R[v1]
      BY <2>3 DEF v1, v2
    <3>. HIDE DEF K, L, x, y
    <3>. QED  BY <1>1, <1>4, <2>8, <3>1, <3>2 DEF Unites
  <2>. HIDE DEF K, L
  <2>11. Tells(L, clauses, k)
    <3>1. clauses[k].eq /\ ~HasConst(clauses[k]) /\ x = clauses[k].args[1] /\ y = clauses[k].args[2]
      BY <1>5
    <3>. HIDE DEF x, y, c
    <3>. QED  BY <1>1, <2>9, <2>10, <3>1, LinkedByEquality, SMTT(40)
  <2>12. Represents(Q)'
    BY <1>1, <1>2, <2>11 DEF Represents, Tells, L
  <2>13. DOMAIN parent' = D
    BY <1>1, <2>1, <2>7
  <2>. QED  BY <1>1, <2>8, <2>12, <2>13 DEF JoinInv, Positions
<1>6. CASE ~(c.eq /\ ~HasConst(c))
  <2>1. parent' = parent
    BY <1>6 DEF JoinClause
  <2>2. \A a, b \in A : Linked(clauses, k, a, b) <=> Linked(clauses, k - 1, a, b)
    BY <1>1, <1>6, LinkedAsBefore
  <2>3. Represents(R)'
    BY <1>1, <1>2, <1>3, <2>2 DEF Represents
  <2>. QED  BY <1>1, <1>3, <2>1, <2>3 DEF JoinInv, Positions
<1>. QED  BY <1>5, <1>6

(* The same of the state after a step.                                     *)
LEMMA FreshRepresentsNext == Fresh' => JoinInv'
BY FreshRepresents, PTL

(* Every way of writing an object is a list of clauses.                    *)
LEMMA RewritesAreClauses ==
  ASSUME clauses \in Seq(Clauses)
  PROVE  /\ \A j \in 1 .. Len(clauses) - 1 :
               [clauses EXCEPT ![j] = clauses[j + 1], ![j + 1] = clauses[j]] \in Seq(Clauses)
         /\ \A j \in DOMAIN clauses : clauses[j].eq =>
               [clauses EXCEPT ![j].args = <<@[2], @[1]>>] \in Seq(Clauses)
<1>1. ASSUME NEW j \in 1 .. Len(clauses) - 1
      PROVE  [clauses EXCEPT ![j] = clauses[j + 1], ![j + 1] = clauses[j]] \in Seq(Clauses)
  <2>1. clauses[j] \in Clauses /\ clauses[j + 1] \in Clauses
    OBVIOUS
  <2>. QED  BY <2>1
<1>2. ASSUME NEW j \in DOMAIN clauses, clauses[j].eq
      PROVE  [clauses EXCEPT ![j].args = <<@[2], @[1]>>] \in Seq(Clauses)
  <2> DEFINE c == clauses[j]
             e == [c EXCEPT !.args = <<@[2], @[1]>>]
  <2>1. c \in Clauses
    OBVIOUS
  <2>. HIDE DEF c
  <2>2. c.args \in Seq(Nat) /\ Len(c.args) = 2
    BY <1>2, <2>1 DEF Clauses, c
  <2>3. c.args[1] \in Nat /\ c.args[2] \in Nat
    BY <2>2
  <2>4. <<c.args[2], c.args[1]>> \in Seq(Nat) /\ Len(<<c.args[2], c.args[1]>>) = 2
        /\ <<c.args[2], c.args[1]>> # <<>>
    BY <2>3
  <2>5. e \in [eq : BOOLEAN, args : Seq(Nat), feature : Int]
        /\ e.args = <<c.args[2], c.args[1]>>
    BY <2>1, <2>4 DEF Clauses
  <2>6. e \in Clauses
    BY <2>4, <2>5 DEF Clauses
  <2>7. [clauses EXCEPT ![j].args = <<@[2], @[1]>>] = [clauses EXCEPT ![j] = e]
    BY DEF c
  <2>. HIDE DEF e
  <2>8. [clauses EXCEPT ![j] = e] \in Seq(Clauses)
    BY <2>6
  <2>. QED  BY <2>7, <2>8, Zenon
<1>. QED  BY <1>1, <1>2

(* JoinInv holds initially and is preserved.                               *)
LEMMA JoinInvHolds == Spec => []JoinInv
<1>1. Init => JoinInv
  <2>. SUFFICES ASSUME Init PROVE Fresh
    BY FreshRepresents
  <2>. QED  BY ClauseListsAssumption DEF Init, Start, Fresh
<1>2. JoinInv /\ [Next]_vars => JoinInv'
  <2>. SUFFICES ASSUME JoinInv, [Next]_vars PROVE JoinInv'
    OBVIOUS
  <2>0. clauses \in Seq(Clauses)
    BY DEF JoinInv
  <2>1. CASE JoinClause
    BY <2>1, JoinStep
  <2>2. ASSUME UNCHANGED <<clauses, parent>>,
               \/ phase = "join" /\ k > Len(clauses) /\ phase' = "compact" /\ k' = 1
               \/ phase = "compact" /\ phase' \in {"compact", "done"} /\ k' \in Nat
               \/ phase' = phase /\ k' = k
        PROVE  JoinInv'
    <3>1. Taken' = Taken
      <4>1. Len(clauses) \in Nat
        BY <2>0
      <4>. QED  BY <2>2, <4>1 DEF Taken, JoinInv
    <3>2. ASSUME NEW R, Represents(R) PROVE Represents(R)'
      <4>1. \A a : Position(a)' = Position(a)
        BY <2>2 DEF Position, Positions
      <4>. QED  BY <2>2, <3>1, <3>2, <4>1 DEF Represents
    <3>. QED  BY <2>2, <3>2 DEF JoinInv, Positions
  <2>3. CASE HashClauses
    BY <2>2, <2>3 DEF HashClauses
  <2>4. CASE CompactGroup
    <3>1. Group \in SUBSET (k .. Len(clauses)) /\ k \in Nat /\ Len(clauses) \in Nat
      BY <2>0 DEF Group, JoinInv
    <3>2. IsFiniteSet(k .. Len(clauses))
      BY <3>1, FS_Interval
    <3>3. Cardinality(Group) \in Nat
      BY <3>1, <3>2, FS_Subset, FS_CardinalityType
    <3>4. k' \in Nat
      BY <2>4, <3>1, <3>3 DEF CompactGroup
    <3>. QED  BY <2>2, <2>4, <3>4 DEF CompactGroup
  <2>5. CASE Finish
    BY <2>2, <2>5 DEF Finish, JoinInv
  <2>6. ASSUME NEW cl \in Seq(Clauses), Rewrite(cl) PROVE JoinInv'
    <3>1. Fresh'
      BY <2>6 DEF Rewrite, Fresh, Positions
    <3>. QED  BY <3>1, FreshRepresentsNext
  <2>7. CASE PlanAgain
    BY <2>0, <2>6, <2>7 DEF PlanAgain
  <2>8. ASSUME NEW j \in 1 .. Len(clauses) - 1, SwapClauses(j) PROVE JoinInv'
    BY <2>0, <2>6, <2>8, RewritesAreClauses DEF SwapClauses
  <2>9. ASSUME NEW j \in DOMAIN clauses, Commute(j) PROVE JoinInv'
    BY <2>0, <2>6, <2>9, RewritesAreClauses DEF Commute
  <2>10. CASE UNCHANGED vars
    BY <2>2, <2>10 DEF vars
  <2>. QED  BY <2>1, <2>3, <2>4, <2>5, <2>7, <2>8, <2>9, <2>10 DEF Next
<1>. QED  BY <1>1, <1>2, PTL DEF Spec

(* After each clause the classes of the disjoint set (disjoint_set_merge_- *)
(* eclasses, get_eclasses) are the arguments that the equality clauses so  *)
(* far connect, for every list of clauses.                                 *)
THEOREM ClassesConnected == Spec => []ClassesAreConnected
<1>1. JoinInv => ClassesAreConnected
  <2>. SUFFICES ASSUME JoinInv, phase = "join", NEW a \in ArgSet(clauses)
               PROVE  ClassOf(a) = IF a \in DOMAIN Classes(SubSeq(clauses, 1, k - 1))
                                   THEN Classes(SubSeq(clauses, 1, k - 1))[a] ELSE {a}
    BY DEF ClassesAreConnected
  <2>1. clauses \in Seq(Clauses) /\ k - 1 \in 0 .. Len(clauses) /\ Taken = k - 1
    BY DEF JoinInv, Taken
  <2>2. ClassOf(a) = {b \in ArgSet(clauses) : Linked(clauses, k - 1, a, b)}
    BY <2>1, ClassIsLinked
  <2>. QED  BY <2>1, <2>2, LinkedIsClass
<1>. QED  BY <1>1, JoinInvHolds, PTL

-----------------------------------------------------------------------------
(***************************************************************************)
(* The features                                                            *)
(***************************************************************************)

(* Once all clauses have been taken in, get_eclasses gives the classes.    *)
LEMMA ClassesFinal ==
  ASSUME JoinInv, Taken = Len(clauses)
  PROVE  \A a \in ArgSet(clauses) : ClassOf(a) = Classes(clauses)[a]
<1>. SUFFICES ASSUME NEW a \in ArgSet(clauses) PROVE ClassOf(a) = Classes(clauses)[a]
  OBVIOUS
<1>1. clauses \in Seq(Clauses)
  BY DEF JoinInv
<1>2. Len(clauses) \in 0 .. Len(clauses) /\ SubSeq(clauses, 1, Len(clauses)) = clauses
  BY <1>1
<1>3. ClassOf(a) = {b \in ArgSet(clauses) : Linked(clauses, Len(clauses), a, b)}
  BY ClassIsLinked
<1>4. ClassOf(a) = IF a \in DOMAIN Classes(clauses) THEN Classes(clauses)[a] ELSE {a}
  BY <1>1, <1>2, <1>3, LinkedIsClass
<1>5. DOMAIN Classes(clauses) = ArgSet(clauses)
  BY <1>1, HashesType
<1>. QED  BY <1>4, <1>5

\* The state of the compaction
InPlace ==
    Compacted(Len(clauses), Hashes(clauses), Values(clauses), Giving(clauses),
              order, k, sh, sorted, features)

(* After argsort nothing has been compacted.                               *)
LEMMA HashStep ==
  ASSUME JoinInv, sh = 0, HashClauses
  PROVE  InPlace'
<1> DEFINE n == Len(clauses)
           H == Hashes(clauses)
           V == Values(clauses)
           class == [a \in ArgSet(clauses) |-> ClassOf(a)]
<1>1. clauses \in Seq(Clauses) /\ n \in Nat /\ DOMAIN clauses = 1 .. n
  BY DEF JoinInv
<1>2. Taken = n
  BY <1>1 DEF JoinInv, HashClauses, Taken
<1>3. class = Classes(clauses)
  <2>1. \A a \in ArgSet(clauses) : ClassOf(a) = Classes(clauses)[a]
    BY <1>2, ClassesFinal
  <2>2. Classes(clauses) \in [ArgSet(clauses) -> SUBSET ArgSet(clauses)]
    BY <1>1, HashesType
  <2>. QED  BY <2>1, <2>2
<1>4. [j \in DOMAIN clauses |-> ClauseHash(clauses[j], class)] = H
  BY <1>3 DEF Hashes
<1>. HIDE DEF class
<1>5. /\ order' = SortBy(DOMAIN clauses, ByKey(DOMAIN clauses, H))
      /\ sorted' = [j \in DOMAIN clauses |-> H[order'[j]]]
      /\ features' = [j \in DOMAIN clauses |-> Clamp(clauses[order'[j]].feature)]
      /\ k' = 1 /\ clauses' = clauses /\ sh' = 0
  BY <1>4 DEF HashClauses, class
<1>6. H \in [1 .. n -> Int] /\ V \in [1 .. n -> Int]
  BY <1>1, HashesType
<1>7. V = [j \in 1 .. n |-> Clamp(clauses[j].feature)]
  BY <1>1 DEF Values
<1>. HIDE DEF n, H, V
<1>8. Argsorted(n, H, order')
  <2>1. 1 .. n \in SUBSET Int /\ \A i \in 1 .. n : H[i] \in Int /\ H[i] \in Int
    BY <1>6
  <2>2. StrictOrder(1 .. n, ByKey(1 .. n, H))
    BY <2>1, OrdersAreStrict
  <2>3. IsFiniteSet(1 .. n)
    BY <1>1, FS_Interval
  <2>4. Sorts(order', 1 .. n, ByKey(1 .. n, H))
    BY <1>1, <1>5, <2>2, <2>3, SortBySorts
  <2>. QED  BY <1>1, <1>6, <2>4, ArgsortGives
<1>9. order' \in [1 .. n -> 1 .. n]
  BY <1>8 DEF Argsorted
<1>10. \A j \in 1 .. n : sorted'[j] = H[order'[j]] /\ features'[j] = V[order'[j]]
  BY <1>1, <1>5, <1>7, <1>9
<1>11. \A j \in 1 .. n : H[order'[j]] \in Int /\ V[order'[j]] \in Int
  BY <1>6, <1>9
<1>12. sorted' \in [1 .. n -> Int] /\ features' \in [1 .. n -> Int]
  BY <1>1, <1>5, <1>10, <1>11
<1>13. Holds(<<>>, 0, {}, H, V, sorted', features')
  <2>1. IsFiniteSet({}) /\ Cardinality({}) = 0
    BY FS_EmptySet
  <2>2. Sorts(<<>>, {}, ByFeature({}, H, V))
    BY <2>1 DEF Sorts
  <2>. QED  BY <2>1, <2>2, SMTT(40) DEF Holds
<1>14. \A give : Before(order', give, 1) = {}
  BY DEF Before, ClausesAt
<1>15. \A give : \E s : Holds(s, 1 - 1 - 0, Before(order', give, 1), H, V, sorted', features')
  <2>. SUFFICES ASSUME NEW give
               PROVE  Holds(<<>>, 1 - 1 - 0, Before(order', give, 1), H, V, sorted', features')
    OBVIOUS
  <2>1. 1 - 1 - 0 = 0 /\ Before(order', give, 1) = {}
    BY <1>14
  <2>. QED  BY <1>13, <2>1
<1>16. \A give : Compacted(n, H, V, give, order', 1, 0, sorted', features')
  BY <1>1, <1>8, <1>10, <1>12, <1>15, SMTT(40) DEF Compacted
<1>. QED  BY <1>5, <1>16 DEF InPlace, n, H, V

(* What stays of a group are the clauses that give a feature: all if just  *)
(* one has no constant, otherwise those with a constant.                   *)
LEMMA StaysGive ==
  ASSUME clauses \in Seq(Clauses), InPlace, k \in 1 .. Len(clauses)
  PROVE  Stays(Group) = {j \in Group : order[j] \in Giving(clauses)}
<1> DEFINE n == Len(clauses)
           H == Hashes(clauses)
           G == Group
           consts == {j \in G : HasConst(clauses[order[j]])}
           others == {j \in G : ~HasConst(clauses[order[j]])}
<1>1. n \in Nat /\ DOMAIN clauses = 1 .. n /\ H \in [1 .. n -> Int]
  BY HashesType
<1>2. /\ Argsorted(n, H, order)
      /\ \A j \in k .. n : sorted[j] = H[order[j]]
      /\ \A i \in 1 .. k - 1 : \A j \in k .. n : H[order[i]] < H[order[j]]
  BY DEF InPlace, Compacted
<1>3. \A j : Gives(clauses, H, j) <=>
               HasConst(clauses[j]) \/ \A q \in DOMAIN clauses \ {j} : H[q] = H[j] => HasConst(clauses[q])
  BY DEF Gives
<1>. HIDE DEF H
<1>4. /\ order \in [1 .. n -> 1 .. n]
      /\ \A i, j \in 1 .. n : i # j => order[i] # order[j]
      /\ \A x \in 1 .. n : \E i \in 1 .. n : order[i] = x
  BY <1>2 DEF Argsorted
<1>5. /\ G \in SUBSET (k .. n) /\ G \in SUBSET (1 .. n)
      /\ \A j \in k .. n : j \in G <=> H[order[j]] = H[order[k]]
  BY <1>1, <1>2 DEF Group
<1>6. \A i \in 1 .. n : \A j \in G : H[order[i]] = H[order[j]] => i \in G
  <2>. SUFFICES ASSUME NEW i \in 1 .. n, NEW j \in G, H[order[i]] = H[order[j]] PROVE i \in G
    OBVIOUS
  <2>1. H[order[i]] \in Int /\ j \in k .. n
    BY <1>1, <1>4, <1>5
  <2>2. ~(i \in 1 .. k - 1)
    BY <1>2, <2>1
  <2>3. i \in k .. n
    BY <1>1, <2>2
  <2>. QED  BY <1>5, <2>1, <2>3
<1>7. IsFiniteSet(G)
  <2>1. IsFiniteSet(1 .. n)
    BY <1>1, FS_Interval
  <2>. QED  BY <1>5, <2>1, FS_Subset
<1>8. Stays(G) = IF Cardinality(consts) + 1 = Cardinality(G) THEN G ELSE consts
  BY DEF Stays
<1>. HIDE DEF G
<1>9. ASSUME NEW j \in G PROVE j \in consts <=> ~(j \in others)
  OBVIOUS
<1>10. consts \in SUBSET G /\ others = G \ consts
  OBVIOUS
<1>. HIDE DEF consts, others
<1>11. /\ IsFiniteSet(consts) /\ IsFiniteSet(others)
       /\ Cardinality(consts) \in Nat /\ Cardinality(G) \in Nat
       /\ Cardinality(others) = Cardinality(G) - Cardinality(consts)
  <2>1. IsFiniteSet(consts)
    BY <1>7, <1>10, FS_Subset
  <2>2. G \cap consts = consts
    BY <1>10
  <2>3. IsFiniteSet(G \ consts) /\ Cardinality(G \ consts) = Cardinality(G) - Cardinality(G \cap consts)
    BY <1>7, <2>1, FS_Difference
  <2>. QED  BY <1>7, <1>10, <2>1, <2>2, <2>3, FS_CardinalityType
<1>12. Cardinality(consts) + 1 = Cardinality(G) <=> \E x : others = {x}
  <2>1. Cardinality(others) = 1 <=> \E x : others = {x}
    BY <1>11, FS_Singleton
  <2>2. Cardinality(consts) + 1 = Cardinality(G) <=> Cardinality(others) = 1
    BY <1>11
  <2>. QED  BY <2>1, <2>2, Zenon
<1>13. ASSUME NEW j \in consts PROVE Gives(clauses, H, order[j])
  BY <1>3 DEF consts
<1>14. CASE \E x : others = {x}
  <2>1. PICK x : others = {x}
    BY <1>14
  <2>2. x \in G /\ x \in 1 .. n
    BY <1>5, <1>10, <2>1
  <2>3. ASSUME NEW q \in DOMAIN clauses \ {order[x]}, H[q] = H[order[x]] PROVE HasConst(clauses[q])
    <3>1. PICK i \in 1 .. n : order[i] = q
      BY <1>1, <1>4
    <3>2. i \in G /\ i # x
      BY <1>6, <2>2, <2>3, <3>1
    <3>3. i \in consts
      BY <1>9, <2>1, <3>2
    <3>. QED  BY <3>1, <3>3 DEF consts
  <2>4. Gives(clauses, H, order[x])
    BY <1>3, <2>3
  <2>5. \A j \in G : Gives(clauses, H, order[j])
    BY <1>9, <1>13, <2>1, <2>4
  <2>6. \A j \in G : order[j] \in Giving(clauses)
    <3>1. \A j \in G : order[j] \in DOMAIN clauses
      BY <1>1, <1>4, <1>5
    <3>. QED  BY <2>5, <3>1 DEF Giving, H
  <2>7. Stays(G) = G
    BY <1>8, <1>12, <1>14
  <2>. QED  BY <2>6, <2>7 DEF G
<1>15. CASE ~ \E x : others = {x}
  <2>1. ASSUME NEW j \in others PROVE ~Gives(clauses, H, order[j])
    <3>1. PICK i \in others : i # j
      BY <1>15, <2>1
    <3>2. i \in G /\ j \in G /\ i \in 1 .. n /\ j \in 1 .. n /\ i \in k .. n /\ j \in k .. n
      BY <1>5, <1>10
    <3>3. order[i] \in DOMAIN clauses \ {order[j]} /\ H[order[i]] = H[order[j]]
      BY <1>1, <1>4, <1>5, <3>1, <3>2
    <3>4. ~HasConst(clauses[order[i]]) /\ ~HasConst(clauses[order[j]])
      BY DEF others
    <3>. QED  BY <1>3, <3>3, <3>4
  <2>2. \A j \in G : order[j] \in Giving(clauses) <=> j \in consts
    <3>1. \A j \in G : order[j] \in DOMAIN clauses
      BY <1>1, <1>4, <1>5
    <3>. QED  BY <1>9, <1>13, <2>1, <3>1 DEF Giving, H
  <2>3. Stays(G) = consts
    BY <1>8, <1>12, <1>15
  <2>. QED  BY <1>10, <2>2, <2>3 DEF G
<1>. QED  BY <1>14, <1>15

(* Compacting a group keeps the state of the compaction.                   *)
LEMMA GroupStep ==
  ASSUME clauses \in Seq(Clauses), InPlace, CompactGroup
  PROVE  InPlace' /\ k' \in 1 .. Len(clauses) + 1
<1> DEFINE n == Len(clauses)
           H == Hashes(clauses)
           V == Values(clauses)
           P == Stays(Group)
           p == SortBy(P, ByKey(P, features))
<1>1. /\ n \in Nat /\ H \in [1 .. n -> Int] /\ V \in [1 .. n -> Int]
  BY HashesType
<1>2. /\ k \in 1 .. n /\ sorted \in [1 .. n -> Int] /\ features \in [1 .. n -> Int]
  BY <1>1, SMTT(40) DEF InPlace, Compacted, CompactGroup
<1>3. Group = GroupAt(n, sorted, k)
  BY DEF Group, GroupAt
<1>4. P = {j \in Group : order[j] \in Giving(clauses)}
  BY <1>2, StaysGive
<1>5. P \in SUBSET (1 .. n) /\ IsFiniteSet(P)
  <2>1. P \in SUBSET (1 .. n)
    BY <1>2, <1>4 DEF Group
  <2>2. IsFiniteSet(1 .. n)
    BY <1>1, FS_Interval
  <2>. QED  BY <2>1, <2>2, FS_Subset
<1>. HIDE DEF P
<1>6. Sorts(p, P, ByKey(P, features))
  <2>1. P \in SUBSET Int /\ \A i \in P : features[i] \in Int /\ features[i] \in Int
    BY <1>2, <1>5
  <2>2. StrictOrder(P, ByKey(P, features))
    BY <2>1, OrdersAreStrict
  <2>. QED  BY <1>5, <2>2, SortBySorts
<1>. HIDE DEF p
<1>7. Len(p) = Cardinality(P)
  <2>1. p \in [1 .. Cardinality(P) -> P] /\ Cardinality(P) \in Nat
    BY <1>5, <1>6, FS_CardinalityType DEF Sorts
  <2>2. p \in Seq(P) /\ DOMAIN p = 1 .. Cardinality(P)
    BY <2>1
  <2>. QED  BY <2>1, <2>2
<1> DEFINE base == k - sh - 1
           slot == base + 1 .. base + Len(p)
<1>8. /\ features' = [j \in DOMAIN features |-> IF j \in slot THEN features[p[j - base]] ELSE features[j]]
      /\ sorted' = [j \in DOMAIN sorted |-> IF j \in slot THEN sorted[k] ELSE sorted[j]]
      /\ sh' = sh + Cardinality(Group) - Len(p)
      /\ k' = k + Cardinality(Group) /\ clauses' = clauses /\ order' = order
  BY DEF CompactGroup, P, p
<1>9. DOMAIN features = 1 .. n /\ DOMAIN sorted = 1 .. n
  BY <1>2
<1>10. Regrouped(n, Giving(clauses), order, k, sh, sorted, features, Group, P, p, sorted', features')
  <2>. HIDE DEF n
  <2>. QED  BY <1>3, <1>4, <1>6, <1>7, <1>8, <1>9 DEF Regrouped
<1>11. Compacted(n, H, V, Giving(clauses), order, k, sh, sorted, features)
  BY DEF InPlace
<1>. HIDE DEF n, H, V
<1>12. Compacted(n, H, V, Giving(clauses), order, k + Cardinality(Group),
                 sh + Cardinality(Group) - Cardinality(P), sorted', features')
  BY <1>1, <1>2, <1>10, <1>11, CompactedNext
<1>13. k + Cardinality(Group) \in 1 .. n + 1
  BY <1>12 DEF Compacted
<1>. QED  BY <1>7, <1>8, <1>12, <1>13 DEF InPlace, n, H, V

(* When every group is compacted, the result is the one defined.           *)
LEMMA ResultIsDefined ==
  ASSUME JoinInv, phase # "join", InPlace, k = Len(clauses) + 1
  PROVE  Result = ByDefinition(clauses)
<1> DEFINE n == Len(clauses)
           H == Hashes(clauses)
           V == Values(clauses)
           D == Giving(clauses)
           o == FeatureOrder(clauses)
           m == Cardinality(D)
<1>0. clauses \in Seq(Clauses)
  BY DEF JoinInv
<1>1. /\ n \in Nat /\ H \in [1 .. n -> Int] /\ V \in [1 .. n -> Int]
      /\ D \in SUBSET (1 .. n) /\ IsFiniteSet(D)
  BY <1>0, HashesType
<1>2. /\ Argsorted(n, H, order) /\ sh \in 0 .. n
      /\ sorted \in [1 .. n -> Int] /\ features \in [1 .. n -> Int]
      /\ \E s : Holds(s, (n + 1) - 1 - sh, Before(order, D, n + 1), H, V, sorted, features)
  BY <1>1, SMTT(40) DEF InPlace, Compacted
<1>3. /\ Sorts(o, D, ByFeature(D, H, V))
      /\ ByDefinition(clauses) = ResultOf(clauses, o, m)
  BY <1>0, DefinitionLists
<1>4. \A a \in ArgSet(clauses) : ClassOf(a) = Classes(clauses)[a]
  <2>1. Taken = Len(clauses)
    BY DEF Taken
  <2>. QED  BY <2>1, ClassesFinal
<1>5. [i \in Positions(clauses) |-> SetHash(ClassOf(ArgSeq(clauses)[i]))]
        = [i \in DOMAIN ArgSeq(clauses) |-> SetHash(Classes(clauses)[ArgSeq(clauses)[i]])]
  <2>1. \A i \in DOMAIN ArgSeq(clauses) : ArgSeq(clauses)[i] \in ArgSet(clauses)
    BY <1>0, ArgSeqLists DEF Positions
  <2>2. \A i \in DOMAIN ArgSeq(clauses) : ClassOf(ArgSeq(clauses)[i]) = Classes(clauses)[ArgSeq(clauses)[i]]
    BY <1>4, <2>1
  <2>. QED  BY <2>2 DEF Positions
<1>6. Size = n - sh
  BY DEF Size
<1>7. ResultOf(clauses, o, m) =
        [hashes  |-> [i \in 1 .. m |-> H[o[i]]],
         classes |-> [i \in DOMAIN ArgSeq(clauses) |-> SetHash(Classes(clauses)[ArgSeq(clauses)[i]])],
         values  |-> [i \in 1 .. m |-> V[o[i]]]]
  BY DEF ResultOf
<1>. HIDE DEF n, H, V, D, o
<1>8. Before(order, D, n + 1) = D
  <2>1. /\ order \in [1 .. n -> 1 .. n]
        /\ \A x \in 1 .. n : \E i \in 1 .. n : order[i] = x
    BY <1>2 DEF Argsorted
  <2>2. (n + 1) - 1 = n
    BY <1>1
  <2>. QED  BY <1>1, <2>1, <2>2 DEF Before, ClausesAt
<1>9. PICK s : Holds(s, Size, D, H, V, sorted, features)
  <2>1. (n + 1) - 1 - sh = Size
    BY <1>1, <1>2, <1>6
  <2>. QED  BY <1>2, <1>8, <2>1
<1>10. /\ Sorts(s, D, ByFeature(D, H, V)) /\ m = Size
       /\ \A i \in 1 .. m : sorted[i] = H[s[i]] /\ features[i] = V[s[i]]
  BY <1>9 DEF Holds
<1>11. \A i \in 1 .. m : H[s[i]] = H[o[i]] /\ V[s[i]] = V[o[i]]
  <2> DEFINE id == [x \in D |-> x]
  <2>1. Keyed(D, H, V)
    BY <1>1 DEF Keyed
  <2>2. Renames(id, D, D, H, V, H, V)
    BY DEF Renames
  <2>. HIDE DEF id
  <2>3. SameKeys(D, D, s, o, H, V, H, V)
    BY <1>3, <1>10, <2>1, <2>2, SortedAgree
  <2>. QED  BY <2>3 DEF SameKeys
<1>12. m \in Nat /\ m <= n
  BY <1>1, <1>2, <1>6, <1>10
<1>13. SubSeq(sorted, 1, m) = [i \in 1 .. m |-> H[o[i]]] /\ SubSeq(features, 1, m) = [i \in 1 .. m |-> V[o[i]]]
  <2>1. \A q \in [1 .. n -> Int] : SubSeq(q, 1, m) = [i \in 1 .. m |-> q[i]]
    BY <1>1, <1>12
  <2>2. \A i \in 1 .. m : sorted[i] = H[o[i]] /\ features[i] = V[o[i]]
    BY <1>10, <1>11
  <2>. QED  BY <1>2, <2>1, <2>2
<1>14. Result = [hashes  |-> SubSeq(sorted, 1, m),
                 values  |-> SubSeq(features, 1, m),
                 classes |-> [i \in Positions(clauses) |-> SetHash(ClassOf(ArgSeq(clauses)[i]))]]
  BY <1>10 DEF Result
<1>. QED  BY <1>3, <1>5, <1>7, <1>13, <1>14

CompactInv ==
    /\ phase = "join" => sh = 0
    /\ phase # "join" => InPlace
    /\ phase = "done" => k = Len(clauses) + 1

(* The state of the compaction holds initially and is preserved.           *)
LEMMA CompactInvHolds == Spec => [](JoinInv /\ CompactInv)
<1>1. Init => CompactInv
  BY DEF Init, Start, CompactInv
<1>2. JoinInv /\ CompactInv /\ [Next]_vars => CompactInv'
  <2>. SUFFICES ASSUME JoinInv, CompactInv, [Next]_vars PROVE CompactInv'
    OBVIOUS
  <2>0. clauses \in Seq(Clauses)
    BY DEF JoinInv
  <2>1. CASE JoinClause
    BY <2>1 DEF JoinClause, CompactInv
  <2>2. CASE HashClauses
    <3>1. sh = 0 /\ phase' = "compact"
      BY <2>2 DEF HashClauses, CompactInv
    <3>. QED  BY <2>2, <3>1, HashStep DEF CompactInv
  <2>3. CASE CompactGroup
    <3>1. InPlace /\ phase' = "compact"
      BY <2>3 DEF CompactGroup, CompactInv
    <3>. QED  BY <2>0, <2>3, <3>1, GroupStep DEF CompactInv
  <2>4. CASE Finish
    <3>1. InPlace /\ phase' = "done" /\ k > Len(clauses)
          /\ UNCHANGED <<clauses, k, order, sorted, features, sh>>
      BY <2>4 DEF Finish, CompactInv
    <3>2. k \in 1 .. Len(clauses) + 1 /\ Len(clauses) \in Nat
      BY <2>0, <3>1, SMTT(40) DEF InPlace, Compacted
    <3>3. k = Len(clauses) + 1
      BY <3>1, <3>2
    <3>. QED  BY <3>1, <3>3 DEF CompactInv, InPlace
  <2>5. ASSUME NEW cl, Rewrite(cl) PROVE CompactInv'
    BY <2>5 DEF Rewrite, CompactInv
  <2>6. CASE UNCHANGED vars
    BY <2>6 DEF vars, CompactInv, InPlace
  <2>. QED  BY <2>1, <2>2, <2>3, <2>4, <2>5, <2>6 DEF Next, PlanAgain, SwapClauses, Commute
<1>. QED  BY <1>1, <1>2, JoinInvHolds, PTL DEF Spec

(* For every list of clauses the compaction in place, with its shift, its  *)
(* groups of equal hashes and the sorting of each, leaves just the         *)
(* features that the subspace is defined by: one for each clause with a    *)
(* constant and for each other clause that is alone in its group.          *)
THEOREM FeaturesExact == Spec => []FeaturesAreExact
<1>1. JoinInv /\ CompactInv => FeaturesAreExact
  <2>. SUFFICES ASSUME JoinInv, CompactInv, phase = "done" PROVE Result = ByDefinition(clauses)
    BY DEF FeaturesAreExact, ByDefinition
  <2>. QED  BY ResultIsDefined DEF CompactInv
<1>. QED  BY <1>1, CompactInvHolds, PTL

-----------------------------------------------------------------------------
(***************************************************************************)
(* Other ways of writing the object, as the planner does                   *)
(***************************************************************************)

(* The planner's other ways of writing an object rearrange its clauses.    *)
LEMMA RewritesRearrange ==
  ASSUME NEW list \in Seq(Clauses)
  PROVE  /\ \A j \in 1 .. Len(list) - 1 :
               \E f : Rearranges([list EXCEPT ![j] = list[j + 1], ![j + 1] = list[j]], list, f)
         /\ \A j \in DOMAIN list : list[j].eq /\ ~HasConst(list[j]) =>
               \E f : Rearranges([list EXCEPT ![j].args = <<@[2], @[1]>>], list, f)
<1> DEFINE D == DOMAIN list
<1>1. D = 1 .. Len(list) /\ Len(list) \in Nat
  OBVIOUS
<1>2. ASSUME NEW j \in 1 .. Len(list) - 1
      PROVE  \E f : Rearranges([list EXCEPT ![j] = list[j + 1], ![j + 1] = list[j]], list, f)
  <2> DEFINE cl == [list EXCEPT ![j] = list[j + 1], ![j + 1] = list[j]]
             f == [i \in D |-> IF i = j THEN j + 1 ELSE IF i = j + 1 THEN j ELSE i]
  <2>1. DOMAIN cl = D /\ j \in D /\ j + 1 \in D /\ j # j + 1
    BY <1>1
  <2>2. f \in [D -> D] /\ \A i \in D : f[f[i]] = i
    BY <1>1, <2>1
  <2>3. \A i \in D : cl[i] = list[f[i]]
    BY <2>1
  <2>. HIDE DEF cl, f, D
  <2>4. /\ \A i, q \in D : f[i] = f[q] => i = q
        /\ \A x \in D : \E i \in D : f[i] = x
    BY <2>2
  <2>5. \A i \in D : Alike(cl[i], list[f[i]])
    BY <2>3 DEF Alike
  <2>6. Rearranges(cl, list, f)
    BY <2>1, <2>2, <2>4, <2>5 DEF Rearranges, D
  <2>. QED  BY <2>6 DEF cl
<1>3. ASSUME NEW j \in D, list[j].eq, ~HasConst(list[j])
      PROVE  \E f : Rearranges([list EXCEPT ![j].args = <<@[2], @[1]>>], list, f)
  <2> DEFINE d == list[j]
             c == [d EXCEPT !.args = <<@[2], @[1]>>]
             cl == [list EXCEPT ![j].args = <<@[2], @[1]>>]
             f == [i \in D |-> i]
  <2>1. cl = [list EXCEPT ![j] = c]
    OBVIOUS
  <2>2. d \in Clauses
    OBVIOUS
  <2>3. Alike(c, d)
    <3>. HIDE DEF d
    <3>1. c.eq = d.eq /\ c.feature = d.feature /\ c.args = <<d.args[2], d.args[1]>>
      BY <2>2 DEF Clauses
    <3>. QED  BY <1>3, <3>1 DEF Alike, d
  <2>. HIDE DEF c
  <2>4. DOMAIN cl = D /\ cl[j] = c /\ \A i \in D : i # j => cl[i] = list[i]
    BY <2>1
  <2>. HIDE DEF cl
  <2>5. \A i \in D : Alike(cl[i], list[i])
    BY <2>3, <2>4 DEF Alike, d
  <2>6. Rearranges(cl, list, f)
    BY <2>4, <2>5 DEF Rearranges
  <2>. QED  BY <2>6 DEF cl
<1>. QED  BY <1>2, <1>3

SameInv == first # None => first = ByDefinition(clauses)

(* For every list of clauses: however often the planner reorders the       *)
(* clauses and exchanges the sides of equalities of expressions, the       *)
(* object stays in its subspace with the same features in the same order.  *)
(* Sides of an equality with a constant are not exchanged: their order is  *)
(* in the hash (ConstOrder.cfg).                                           *)
THEOREM SubspaceIsSame ==
  ASSUME ~CommutesConst
  PROVE  Spec => []SameSubspace
<1>1. Init => SameInv
  BY DEF Init, SameInv
<1>2. JoinInv /\ CompactInv /\ SameInv /\ [Next]_vars => SameInv'
  <2>. SUFFICES ASSUME JoinInv, CompactInv, SameInv, [Next]_vars PROVE SameInv'
    OBVIOUS
  <2>0. clauses \in Seq(Clauses)
    BY DEF JoinInv
  <2>1. CASE Finish
    <3>1. /\ phase # "join" /\ InPlace /\ k > Len(clauses) /\ clauses' = clauses
          /\ first' = IF first = None THEN Result ELSE first
      BY <2>1 DEF Finish, CompactInv
    <3>2. k \in 1 .. Len(clauses) + 1 /\ Len(clauses) \in Nat
      BY <2>0, <3>1, SMTT(40) DEF InPlace, Compacted
    <3>3. k = Len(clauses) + 1
      BY <3>1, <3>2
    <3>4. Result = ByDefinition(clauses)
      BY <3>1, <3>3, ResultIsDefined
    <3>. QED  BY <3>1, <3>4 DEF SameInv
  <2>2. ASSUME NEW cl \in Seq(Clauses), NEW f, Rearranges(cl, clauses, f), Rewrite(cl) PROVE SameInv'
    <3>1. ByDefinition(cl) = ByDefinition(clauses)
      BY <2>0, <2>2, SameByDefinition
    <3>2. clauses' = cl /\ first' = first
      BY <2>2 DEF Rewrite
    <3>. QED  BY <3>1, <3>2 DEF SameInv
  <2>3. CASE PlanAgain
    BY <2>3 DEF PlanAgain, Rewrite, SameInv
  <2>4. ASSUME NEW j \in 1 .. Len(clauses) - 1, SwapClauses(j) PROVE SameInv'
    <3> DEFINE cl == [clauses EXCEPT ![j] = clauses[j + 1], ![j + 1] = clauses[j]]
    <3>1. cl \in Seq(Clauses) /\ \E f : Rearranges(cl, clauses, f)
      BY <2>0, RewritesAreClauses, RewritesRearrange
    <3>2. Rewrite(cl)
      BY <2>4 DEF SwapClauses
    <3>. HIDE DEF cl
    <3>. QED  BY <2>2, <3>1, <3>2
  <2>5. ASSUME NEW j \in DOMAIN clauses, Commute(j) PROVE SameInv'
    <3> DEFINE cl == [clauses EXCEPT ![j].args = <<@[2], @[1]>>]
    <3>1. clauses[j].eq /\ ~HasConst(clauses[j]) /\ Rewrite(cl)
      BY <2>5 DEF Commute
    <3>2. cl \in Seq(Clauses) /\ \E f : Rearranges(cl, clauses, f)
      BY <2>0, <3>1, RewritesAreClauses, RewritesRearrange
    <3>. HIDE DEF cl
    <3>. QED  BY <2>2, <3>1, <3>2
  <2>6. CASE JoinClause \/ HashClauses \/ CompactGroup \/ UNCHANGED vars
    <3>1. clauses' = clauses /\ first' = first
      BY <2>6 DEF JoinClause, HashClauses, CompactGroup, vars
    <3>. QED  BY <3>1 DEF SameInv
  <2>. QED  BY <2>1, <2>3, <2>4, <2>5, <2>6 DEF Next
<1>3. JoinInv /\ CompactInv /\ SameInv => SameSubspace
  <2>. SUFFICES ASSUME JoinInv, CompactInv, SameInv, phase = "done", first # None PROVE Result = first
    BY DEF SameSubspace
  <2>1. Result = ByDefinition(clauses)
    BY ResultIsDefined DEF CompactInv
  <2>. QED  BY <2>1 DEF SameInv
<1>. QED  BY <1>1, <1>2, <1>3, CompactInvHolds, PTL DEF Spec

-----------------------------------------------------------------------------
(***************************************************************************)
(* Executed plans (PlanFeatures)                                           *)
(***************************************************************************)

\* get_path_clauses of a node, from the clauses g of the nodes below it
PathStep(plan, g, m) ==
    IF plan[m].kind = "scan" THEN plan[m].own
    ELSE IF plan[m].kind = "unary" THEN g[plan[m].left]
    ELSE plan[m].own \o g[plan[m].left] \o g[plan[m].right]

\* g has the clauses of the first p nodes.
PathUpTo(plan, p, g) ==
    /\ g \in [1 .. p -> Seq(Clauses)]
    /\ \A m \in 1 .. p : g[m] = PathStep(plan, g, m)

(* The nodes of a plan.                                                    *)
LEMMA PlanNodes ==
  ASSUME NEW plan, IsPlan(plan)
  PROVE  /\ Len(plan) \in Nat \ {0} /\ DOMAIN plan = 1 .. Len(plan)
         /\ \A m \in 1 .. Len(plan) :
              /\ plan[m].kind \in {"scan", "join", "unary"} /\ plan[m].own \in Seq(Clauses)
              /\ plan[m].kind = "scan" => plan[m].left = 0 /\ plan[m].right = 0
              /\ plan[m].kind = "unary" => plan[m].left \in 1 .. m - 1 /\ plan[m].right = 0
              /\ plan[m].kind = "join" => plan[m].left \in 1 .. m - 1 /\ plan[m].right \in 1 .. m - 1
<1>1. plan \in Seq(Nodes) /\ plan # <<>>
  BY DEF IsPlan
<1>2. Len(plan) \in Nat \ {0} /\ DOMAIN plan = 1 .. Len(plan)
  BY <1>1
<1>3. \A m \in 1 .. Len(plan) : plan[m].kind \in {"scan", "join", "unary"} /\ plan[m].own \in Seq(Clauses)
  <2>1. \A m \in 1 .. Len(plan) : plan[m] \in Nodes
    BY <1>1
  <2>2. \A x \in Nodes : x.kind \in {"scan", "join", "unary"} /\ x.own \in Seq(Clauses)
    BY DEF Nodes
  <2>. QED  BY <2>1, <2>2
<1>. QED  BY <1>2, <1>3 DEF IsPlan

(* The clauses of a node depend on the nodes below it.                     *)
LEMMA PathStepDepends ==
  ASSUME NEW plan, IsPlan(plan), NEW m \in 1 .. Len(plan), NEW g, \A i \in 1 .. m - 1 : g[i] \in Seq(Clauses)
  PROVE  /\ PathStep(plan, g, m) \in Seq(Clauses)
         /\ \A h : (\A i \in 1 .. m - 1 : h[i] = g[i]) => PathStep(plan, h, m) = PathStep(plan, g, m)
<1>1. plan[m].kind \in {"scan", "join", "unary"} /\ plan[m].own \in Seq(Clauses)
  BY PlanNodes
<1>2. CASE plan[m].kind = "scan"
  <2>1. \A h : PathStep(plan, h, m) = plan[m].own
    BY <1>2 DEF PathStep
  <2>. QED  BY <1>1, <2>1
<1>3. CASE plan[m].kind = "unary"
  <2>1. \A h : PathStep(plan, h, m) = h[plan[m].left]
    BY <1>3 DEF PathStep
  <2>2. plan[m].left \in 1 .. m - 1
    BY <1>3, PlanNodes
  <2>. QED  BY <2>1, <2>2
<1>4. CASE plan[m].kind = "join"
  <2>1. \A h : PathStep(plan, h, m) = plan[m].own \o h[plan[m].left] \o h[plan[m].right]
    BY <1>4 DEF PathStep
  <2>2. plan[m].left \in 1 .. m - 1 /\ plan[m].right \in 1 .. m - 1
    BY <1>4, PlanNodes
  <2>3. g[plan[m].left] \in Seq(Clauses) /\ g[plan[m].right] \in Seq(Clauses)
    BY <2>2
  <2>4. plan[m].own \o g[plan[m].left] \o g[plan[m].right] \in Seq(Clauses)
    BY <1>1, <2>3
  <2>5. \A h : (\A i \in 1 .. m - 1 : h[i] = g[i]) =>
                  h[plan[m].left] = g[plan[m].left] /\ h[plan[m].right] = g[plan[m].right]
    BY <2>2
  <2>. QED  BY <2>1, <2>4, <2>5
<1>. QED  BY <1>1, <1>2, <1>3, <1>4

(* get_path_clauses is defined on every plan.                              *)
LEMMA PathExists ==
  ASSUME NEW plan, IsPlan(plan)
  PROVE  \E g : PathUpTo(plan, Len(plan), g)
<1> DEFINE N == Len(plan)
           F == {p \in 0 .. N : ~ \E g : PathUpTo(plan, p, g)}
<1>1. N \in Nat
  BY PlanNodes
<1>2. SUFFICES ASSUME F # {} PROVE FALSE
  BY <1>1
<1>3. F \in SUBSET Nat
  BY <1>1
<1>4. PICK q \in F : \A p \in F : q <= p
  BY <1>2, <1>3, LeastNumber
<1>5. q \in 0 .. N /\ ~ \E g : PathUpTo(plan, q, g)
  OBVIOUS
<1>6. q # 0
  <2>1. PathUpTo(plan, 0, <<>>)
    BY DEF PathUpTo
  <2>. QED  BY <1>5, <2>1
<1>7. q \in 1 .. N /\ q - 1 \in 0 .. N /\ q - 1 \notin F
  BY <1>1, <1>4, <1>5, <1>6
<1>8. PICK g : PathUpTo(plan, q - 1, g)
  BY <1>7
<1>. HIDE DEF F
<1>9. g \in [1 .. q - 1 -> Seq(Clauses)] /\ \A m \in 1 .. q - 1 : g[m] = PathStep(plan, g, m)
  BY <1>8 DEF PathUpTo
<1> DEFINE e == [m \in 1 .. q |-> IF m < q THEN g[m] ELSE PathStep(plan, g, q)]
<1>10. (\A i \in 1 .. q - 1 : e[i] = g[i]) /\ e[q] = PathStep(plan, g, q)
  BY <1>7
<1>11. PathStep(plan, g, q) \in Seq(Clauses)
  BY <1>7, <1>9, PathStepDepends
<1>12. e \in [1 .. q -> Seq(Clauses)]
  <2>1. \A m \in 1 .. q : m < q => m \in 1 .. q - 1
    BY <1>7
  <2>. QED  BY <1>9, <1>11, <2>1
<1>. HIDE DEF e
<1>13. ASSUME NEW m \in 1 .. q PROVE e[m] = PathStep(plan, e, m)
  <2>1. m \in 1 .. N /\ \A i \in 1 .. m - 1 : i \in 1 .. q - 1
    BY <1>7
  <2>2. \A i \in 1 .. m - 1 : g[i] \in Seq(Clauses) /\ e[i] = g[i]
    BY <1>9, <1>10, <2>1
  <2>3. PathStep(plan, e, m) = PathStep(plan, g, m)
    BY <2>1, <2>2, PathStepDepends
  <2>4. CASE m = q
    BY <1>10, <2>3, <2>4
  <2>5. CASE m # q
    <3>1. m \in 1 .. q - 1
      BY <1>7, <2>5
    <3>. QED  BY <1>9, <1>10, <2>3, <3>1
  <2>. QED  BY <2>4, <2>5
<1>14. PathUpTo(plan, q, e)
  BY <1>12, <1>13 DEF PathUpTo
<1>. QED  BY <1>5, <1>14

(* What get_path_clauses returns.                                          *)
LEMMA PathIs ==
  ASSUME NEW plan, IsPlan(plan)
  PROVE  \E g : PathUpTo(plan, Len(plan), g) /\ \A m \in 1 .. Len(plan) : PathClauses(plan, m) = g[m]
<1> DEFINE D == DOMAIN plan
           solves(f) == f = [m \in D |-> PathStep(plan, f, m)]
           G == CHOOSE f : solves(f)
<1>1. D = 1 .. Len(plan) /\ Len(plan) \in Nat
  BY PlanNodes
<1>2. ASSUME NEW node PROVE PathClauses(plan, node) = G[node]
  BY DEF PathClauses, PathStep
<1>3. PICK g : PathUpTo(plan, Len(plan), g)
  BY PathExists
<1>4. g \in [D -> Seq(Clauses)] /\ \A m \in D : g[m] = PathStep(plan, g, m)
  BY <1>1, <1>3 DEF PathUpTo
<1>5. solves(g)
  BY <1>4
<1>6. solves(G)
  <2>. HIDE DEF solves
  <2>. QED  BY <1>5
<1>. HIDE DEF G
<1>7. DOMAIN G = D /\ \A m \in D : G[m] = PathStep(plan, G, m)
  BY <1>6
<1> DEFINE F == {m \in D : G[m] # g[m]}
<1>8. CASE F # {}
  <2>1. F \in SUBSET Nat
    BY <1>1
  <2>2. PICK q \in F : \A p \in F : q <= p
    BY <1>8, <2>1, LeastNumber
  <2>3. q \in D /\ G[q] # g[q] /\ q \in 1 .. Len(plan)
    BY <1>1
  <2>4. \A i \in 1 .. q - 1 : i \in D /\ G[i] = g[i]
    BY <1>1, <2>2, <2>3
  <2>5. \A i \in 1 .. q - 1 : g[i] \in Seq(Clauses)
    BY <1>4, <2>4
  <2>. HIDE DEF F, D
  <2>6. PathStep(plan, G, q) = PathStep(plan, g, q)
    BY <2>3, <2>4, <2>5, PathStepDepends
  <2>. QED  BY <1>4, <1>7, <2>3, <2>6
<1>9. CASE F = {}
  BY <1>1, <1>2, <1>3, <1>9
<1>. QED  BY <1>8, <1>9

(* Lists of the same clauses describe the same object.                     *)
LEMMA RearrangedSame ==
  ASSUME NEW a \in Seq(Clauses), NEW b \in Seq(Clauses), Rearranged(a, b)
  PROVE  SameObject(a, b) /\ (Learnable(a) <=> Learnable(b))
<1>1. ByDefinition(a) = ByDefinition(b)
  BY SameByDefinition DEF Rearranged
<1>2. ASSUME NEW cl \in Seq(Clauses)
      PROVE  /\ ByDefinition(cl).hashes = FssHash(cl).clauses
             /\ ByDefinition(cl).classes = FssHash(cl).classes
             /\ FssHash(cl) = [clauses |-> FssHash(cl).clauses, classes |-> FssHash(cl).classes]
             /\ DOMAIN Features(cl) = DOMAIN ByDefinition(cl).hashes
             /\ Features(cl) = [m \in DOMAIN ByDefinition(cl).hashes |->
                                  [hash |-> ByDefinition(cl).hashes[m], value |-> ByDefinition(cl).values[m]]]
  <2> DEFINE f == Features(cl)
             hs == [m \in DOMAIN f |-> f[m].hash]
             vs == [m \in DOMAIN f |-> f[m].value]
  <2>1. FssHash(cl).clauses = hs /\ FssHash(cl) = [clauses |-> FssHash(cl).clauses, classes |-> FssHash(cl).classes]
    BY DEF FssHash
  <2>2. /\ ByDefinition(cl).hashes = FssHash(cl).clauses
        /\ ByDefinition(cl).classes = FssHash(cl).classes
        /\ ByDefinition(cl).values = vs
    BY DEF ByDefinition
  <2>3. f = [m \in DOMAIN f |-> [hash |-> f[m].hash, value |-> f[m].value]]
    <3> DEFINE h == Hashes(cl)
               v == Values(cl)
               o == FeatureOrder(cl)
    <3>1. f = [i \in DOMAIN o |-> [hash |-> h[o[i]], value |-> v[o[i]]]]
      BY DEF Features, FeatureOrder, Giving, Values
    <3>. HIDE DEF f, h, v, o
    <3>. QED  BY <3>1
  <2>. HIDE DEF f
  <2>4. f = [m \in DOMAIN hs |-> [hash |-> hs[m], value |-> vs[m]]]
    BY <2>3
  <2>5. DOMAIN f = DOMAIN hs
    OBVIOUS
  <2>. HIDE DEF hs, vs
  <2>. QED  BY <2>1, <2>2, <2>4, <2>5 DEF f
<1>3. FssHash(a) = FssHash(b)
  <2>1. FssHash(a).clauses = FssHash(b).clauses /\ FssHash(a).classes = FssHash(b).classes
    BY <1>1, <1>2
  <2>2. /\ FssHash(a) = [clauses |-> FssHash(a).clauses, classes |-> FssHash(a).classes]
        /\ FssHash(b) = [clauses |-> FssHash(b).clauses, classes |-> FssHash(b).classes]
    BY <1>2
  <2>. QED  BY <2>1, <2>2
<1>4. Features(a) = Features(b)
  <2>1. /\ Features(a) = [m \in DOMAIN ByDefinition(a).hashes |->
                           [hash |-> ByDefinition(a).hashes[m], value |-> ByDefinition(a).values[m]]]
        /\ Features(b) = [m \in DOMAIN ByDefinition(b).hashes |->
                           [hash |-> ByDefinition(b).hashes[m], value |-> ByDefinition(b).values[m]]]
    BY <1>2
  <2>. QED  BY <1>1, <2>1
<1>. QED  BY <1>3, <1>4 DEF SameObject, Learnable

\* What an ordinary statement says of each of its plans
OrdinaryPlan(plan) ==
    /\ IsPlan(plan)
    /\ \A m \in DOMAIN plan : plan[m].own # <<>> =>
          plan[m].kind # "unary" /\ Learnable(PathClauses(plan, m))

\* The nodes below m have handed on the clauses they are estimated by.
HandedUpTo(plan, m) ==
    /\ carry = <<>>
    /\ handed \in Seq(Seq(Clauses)) /\ Len(handed) = m - 1
    /\ \A i \in 1 .. m - 1 : Rearranged(handed[i], PathClauses(plan, i))

(* get_path_clauses, node by node.                                         *)
LEMMA PathByNode ==
  ASSUME NEW plan, IsPlan(plan), NEW m \in 1 .. Len(plan)
  PROVE  /\ PathClauses(plan, m) \in Seq(Clauses)
         /\ plan[m].kind = "scan" => PathClauses(plan, m) = plan[m].own
         /\ plan[m].kind = "unary" => PathClauses(plan, m) = PathClauses(plan, plan[m].left)
         /\ plan[m].kind = "join" => PathClauses(plan, m) =
              plan[m].own \o PathClauses(plan, plan[m].left) \o PathClauses(plan, plan[m].right)
<1>1. PICK g : PathUpTo(plan, Len(plan), g) /\ \A i \in 1 .. Len(plan) : PathClauses(plan, i) = g[i]
  BY PathIs
<1>2. g[m] \in Seq(Clauses) /\ g[m] = PathStep(plan, g, m)
  BY <1>1 DEF PathUpTo
<1>3. /\ plan[m].kind = "unary" => plan[m].left \in 1 .. Len(plan)
      /\ plan[m].kind = "join" => plan[m].left \in 1 .. Len(plan) /\ plan[m].right \in 1 .. Len(plan)
  <2>1. /\ Len(plan) \in Nat
        /\ plan[m].kind = "unary" => plan[m].left \in 1 .. m - 1
        /\ plan[m].kind = "join" => plan[m].left \in 1 .. m - 1 /\ plan[m].right \in 1 .. m - 1
    BY PlanNodes
  <2>2. \A i \in 1 .. m - 1 : i \in 1 .. Len(plan)
    BY <2>1
  <2>. QED  BY <2>1, <2>2
<1>. QED  BY <1>1, <1>2, <1>3 DEF PathStep

(* Concatenation is associative.                                           *)
LEMMA ConcatRegroup ==
  ASSUME NEW a \in Seq(Clauses), NEW b \in Seq(Clauses), NEW c \in Seq(Clauses)
  PROVE  a \o (b \o c) = (a \o b) \o c
<1> DEFINE S == Clauses
<1>1. a \in Seq(S) /\ b \in Seq(S) /\ c \in Seq(S)
  OBVIOUS
<1>. HIDE DEF S
<1>. QED  BY <1>1

(* At every node the clauses gathered are those it is estimated by, and    *)
(* they are what it hands on.                                              *)
LEMMA Gathers ==
  ASSUME NEW plan, OrdinaryPlan(plan), NEW m \in 1 .. Len(plan), HandedUpTo(plan, m)
  PROVE  /\ plan[m].own \o Given(plan, m) \in Seq(Clauses)
         /\ Rearranged(plan[m].own \o Given(plan, m), PathClauses(plan, m))
         /\ IsObject(plan[m]) <=> plan[m].kind # "unary"
         /\ \A ran \in BOOLEAN : HandedOn(plan[m], Given(plan, m), ran) = plan[m].own \o Given(plan, m)
<1> DEFINE node == plan[m]
           own == node.own
           path(i) == PathClauses(plan, i)
           given == Given(plan, m)
           all == own \o given
<1>0. IsPlan(plan) /\ DOMAIN plan = 1 .. Len(plan)
  BY PlanNodes DEF OrdinaryPlan
<1>1. /\ own \in Seq(Clauses) /\ node.kind \in {"scan", "join", "unary"}
      /\ node.kind = "scan" => node.left = 0 /\ node.right = 0
      /\ node.kind = "unary" => node.left \in 1 .. m - 1 /\ node.right = 0
      /\ node.kind = "join" => node.left \in 1 .. m - 1 /\ node.right \in 1 .. m - 1
  BY <1>0, PlanNodes
<1>2. /\ path(m) \in Seq(Clauses)
      /\ node.kind = "scan" => path(m) = own
      /\ node.kind = "unary" => path(m) = path(node.left)
      /\ node.kind = "join" => path(m) = own \o path(node.left) \o path(node.right)
  BY <1>0, PathByNode
<1>3. own # <<>> => node.kind # "unary" /\ Learnable(path(m))
  BY <1>0 DEF OrdinaryPlan
<1>4. \A i \in 1 .. m - 1 : /\ handed[i] \in Seq(Clauses) /\ path(i) \in Seq(Clauses)
                            /\ Rearranged(handed[i], path(i))
  <2>1. Len(plan) \in Nat /\ \A i \in 1 .. m - 1 : i \in 1 .. Len(plan)
    BY <1>0, PlanNodes
  <2>2. \A i \in 1 .. m - 1 : path(i) \in Seq(Clauses)
    BY <1>0, <2>1, PathByNode
  <2>3. handed \in Seq(Seq(Clauses)) /\ Len(handed) = m - 1
    BY DEF HandedUpTo
  <2>4. \A i \in 1 .. m - 1 : handed[i] \in Seq(Clauses)
    BY <2>3
  <2>. QED  BY <2>2, <2>4 DEF HandedUpTo
<1>5. /\ node.left = 0 => given = <<>>
      /\ node.left # 0 /\ node.right = 0 => given = handed[node.left]
      /\ node.left # 0 /\ node.right # 0 => given = handed[node.right] \o handed[node.left]
  BY DEF Given, HandedUpTo
<1>6. \A ran \in BOOLEAN : HandedOn(node, given, ran) =
        IF IsObject(node) /\ (ran => Learnable(all)) THEN all ELSE given
  BY DEF HandedOn
<1>7. IsObject(node) <=> node.right # 0 \/ node.left = 0 \/ own # <<>>
  BY DEF IsObject
<1>. HIDE DEF node, own, path, given
<1>8. \A i \in 1 .. m - 1 : i # 0
  OBVIOUS
<1>9. IsObject(node) <=> node.kind # "unary"
  BY <1>1, <1>3, <1>7, <1>8
<1>10. all \in Seq(Clauses) /\ given \in Seq(Clauses) /\ Rearranged(all, path(m))
  <2>1. CASE node.kind = "scan"
    <3>1. given = <<>>
      BY <1>1, <1>5, <2>1
    <3>2. all = own
      BY <1>1, <3>1
    <3>3. given \in Seq(Clauses)
      BY <3>1
    <3>. HIDE DEF all
    <3>. QED  BY <1>1, <1>2, <2>1, <3>2, <3>3, RearrangedSelf
  <2>2. CASE node.kind = "unary"
    <3>1. own = <<>> /\ given = handed[node.left] /\ node.left \in 1 .. m - 1
      BY <1>1, <1>3, <1>5, <1>8, <2>2
    <3>2. given \in Seq(Clauses) /\ Rearranged(given, path(node.left))
      BY <1>4, <3>1
    <3>3. all = given
      BY <3>1, <3>2
    <3>. HIDE DEF all
    <3>. QED  BY <1>2, <2>2, <3>2, <3>3
  <2>3. CASE node.kind = "join"
    <3> DEFINE a == handed[node.left]
               b == handed[node.right]
               c == path(node.left)
               d == path(node.right)
    <3>1. given = b \o a /\ node.left \in 1 .. m - 1 /\ node.right \in 1 .. m - 1
      BY <1>1, <1>5, <1>8, <2>3
    <3>2. /\ a \in Seq(Clauses) /\ b \in Seq(Clauses) /\ c \in Seq(Clauses) /\ d \in Seq(Clauses)
          /\ Rearranged(a, c) /\ Rearranged(b, d)
      BY <1>4, <3>1
    <3>3. path(m) = own \o c \o d
      BY <1>2, <2>3
    <3>. HIDE DEF a, b, c, d
    <3>4. Rearranged(b \o a, c \o d)
      BY <3>2, RearrangedConcat
    <3>5. b \o a \in Seq(Clauses) /\ c \o d \in Seq(Clauses)
      BY <3>2
    <3>6. Rearranged(own, own)
      BY <1>1, RearrangedSelf
    <3>7. Rearranged(own \o (b \o a), own \o (c \o d))
      BY <1>1, <3>4, <3>5, <3>6, RearrangedConcat
    <3>8. own \o (c \o d) = (own \o c) \o d
      BY <1>1, <3>2, ConcatRegroup
    <3>9. own \o (b \o a) \in Seq(Clauses)
      BY <1>1, <3>5
    <3>. QED  BY <3>1, <3>3, <3>5, <3>7, <3>8, <3>9
  <2>. QED  BY <1>1, <2>1, <2>2, <2>3
<1>11. own = <<>> => all = given
  BY <1>10
<1>. HIDE DEF all
<1>12. Learnable(all) <=> Learnable(path(m))
  BY <1>2, <1>10, RearrangedSame
<1>13. \A ran \in BOOLEAN : HandedOn(node, given, ran) = all
  BY <1>3, <1>6, <1>7, <1>11, <1>12
<1>. QED  BY <1>9, <1>10, <1>13 DEF node, own, path, given, all

\* What the walk learns of node m of a plan, executed or not
EntryOk(plan, m, ran, entry) ==
    /\ entry # Nothing => SameObject(entry, PathClauses(plan, m))
    /\ Nothing \notin Seq(Clauses) /\ ran /\ plan[m].kind # "unary" /\ Learnable(PathClauses(plan, m))
          => entry # Nothing

\* The entries of plan i
EntriesOk(i) ==
    /\ learned[i] \in Seq(Seq(Clauses) \cup {Nothing}) /\ executed[i] \in Seq(BOOLEAN)
    /\ Len(executed[i]) = Len(learned[i])
    /\ \A m \in 1 .. Len(learned[i]) : EntryOk(plans[i], m, executed[i][m], learned[i][m])

WalkInv ==
    /\ Ordinary(plans)
    /\ cur \in 1 .. Len(plans) /\ pos \in 1 .. Len(plans[cur]) + 1
    /\ HandedUpTo(plans[cur], pos)
    /\ DOMAIN learned = DOMAIN plans /\ DOMAIN executed = DOMAIN plans
    /\ \A i \in DOMAIN plans : EntriesOk(i)
    /\ Len(learned[cur]) = pos - 1
    /\ \A i \in DOMAIN plans : i > cur => learned[i] = <<>>

(* The plans of an ordinary statement.                                     *)
LEMMA OrdinaryPlans ==
  ASSUME NEW statement, Ordinary(statement)
  PROVE  /\ Len(statement) \in Nat \ {0} /\ DOMAIN statement = 1 .. Len(statement)
         /\ \A i \in 1 .. Len(statement) :
              /\ OrdinaryPlan(statement[i])
              /\ Len(statement[i]) \in Nat \ {0} /\ DOMAIN statement[i] = 1 .. Len(statement[i])
              /\ i < Len(statement) => PathClauses(statement[i], Len(statement[i])) = <<>>
<1>1. statement \in Seq(Seq(Nodes)) /\ statement # <<>>
  BY DEF Ordinary
<1>2. Len(statement) \in Nat \ {0} /\ DOMAIN statement = 1 .. Len(statement)
  BY <1>1
<1>3. \A i \in 1 .. Len(statement) :
        /\ OrdinaryPlan(statement[i])
        /\ i < Len(statement) => PathClauses(statement[i], Len(statement[i])) = <<>>
  BY <1>2 DEF Ordinary, OrdinaryPlan
<1>4. \A i \in 1 .. Len(statement) :
        Len(statement[i]) \in Nat \ {0} /\ DOMAIN statement[i] = 1 .. Len(statement[i])
  BY <1>3, PlanNodes DEF OrdinaryPlan
<1>. QED  BY <1>2, <1>3, <1>4

(* An entry more                                                           *)
LEMMA EntryMore ==
  ASSUME NEW plan, NEW l, NEW e, NEW ran \in BOOLEAN, NEW entry \in Seq(Clauses) \cup {Nothing},
         l \in Seq(Seq(Clauses) \cup {Nothing}), e \in Seq(BOOLEAN), Len(e) = Len(l),
         \A m \in 1 .. Len(l) : EntryOk(plan, m, e[m], l[m]),
         EntryOk(plan, Len(l) + 1, ran, entry)
  PROVE  /\ Append(l, entry) \in Seq(Seq(Clauses) \cup {Nothing}) /\ Append(e, ran) \in Seq(BOOLEAN)
         /\ Len(Append(l, entry)) = Len(l) + 1 /\ Len(Append(e, ran)) = Len(l) + 1
         /\ \A m \in 1 .. Len(l) + 1 : EntryOk(plan, m, Append(e, ran)[m], Append(l, entry)[m])
<1> DEFINE S == Seq(Clauses) \cup {Nothing}
           n == Len(l)
<1>1. n \in Nat /\ l \in Seq(S) /\ entry \in S
  OBVIOUS
<1>2. Append(l, entry) \in Seq(S) /\ Len(Append(l, entry)) = n + 1
  <2>. HIDE DEF S
  <2>. QED  BY <1>1
<1>3. Append(e, ran) \in Seq(BOOLEAN) /\ Len(Append(e, ran)) = n + 1
  OBVIOUS
<1>4. \A m \in 1 .. n : Append(l, entry)[m] = l[m] /\ Append(e, ran)[m] = e[m]
  <2>. HIDE DEF S
  <2>. QED  BY <1>1
<1>5. Append(l, entry)[n + 1] = entry /\ Append(e, ran)[n + 1] = ran
  <2>. HIDE DEF S
  <2>. QED  BY <1>1
<1>6. \A m \in 1 .. n + 1 : m \in 1 .. n \/ m = n + 1
  BY <1>1
<1>. HIDE DEF S, n
<1>7. \A m \in 1 .. n + 1 : EntryOk(plan, m, Append(e, ran)[m], Append(l, entry)[m])
  <2>1. \A m \in 1 .. n : EntryOk(plan, m, e[m], l[m])
    BY DEF n
  <2>2. EntryOk(plan, n + 1, ran, entry)
    BY DEF n
  <2>. QED  BY <1>4, <1>5, <1>6, <2>1, <2>2, Zenon
<1>. QED  BY <1>2, <1>3, <1>7 DEF S, n

(* Leaving a node.                                                         *)
LEMMA CollectStep ==
  ASSUME WalkInv, NEW ran \in BOOLEAN, Collect(ran)
  PROVE  WalkInv'
<1> DEFINE plan == plans[cur]
           node == plan[pos]
           given == Given(plan, pos)
           all == node.own \o given
           entry == IF IsObject(node) /\ ran /\ Learnable(all) THEN all ELSE Nothing
           path == PathClauses(plan, pos)
<1>1. /\ pos <= Len(plan)
      /\ handed' = Append(handed, HandedOn(node, given, ran))
      /\ executed' = [executed EXCEPT ![cur] = Append(@, ran)]
      /\ learned' = [learned EXCEPT ![cur] = Append(@, entry)]
      /\ pos' = pos + 1 /\ plans' = plans /\ cur' = cur /\ carry' = carry
  BY DEF Collect
<1>2. /\ Ordinary(plans) /\ cur \in 1 .. Len(plans) /\ pos \in 1 .. Len(plan) + 1
      /\ HandedUpTo(plan, pos)
      /\ DOMAIN learned = DOMAIN plans /\ DOMAIN executed = DOMAIN plans
      /\ \A i \in DOMAIN plans : EntriesOk(i)
      /\ Len(learned[cur]) = pos - 1
      /\ \A i \in DOMAIN plans : i > cur => learned[i] = <<>>
  BY DEF WalkInv
<1>3. DOMAIN plans = 1 .. Len(plans) /\ Len(plans) \in Nat /\ OrdinaryPlan(plan) /\ Len(plan) \in Nat
  BY <1>2, OrdinaryPlans
<1>4. pos \in 1 .. Len(plan)
  BY <1>1, <1>2, <1>3
<1>5. /\ all \in Seq(Clauses) /\ Rearranged(all, path)
      /\ IsObject(node) <=> node.kind # "unary"
      /\ HandedOn(node, given, ran) = all
  BY <1>2, <1>3, <1>4, Gathers
<1>6. path \in Seq(Clauses)
  BY <1>3, <1>4, PathByNode DEF OrdinaryPlan
<1>. HIDE DEF plan, node, given, all, path
<1>7. SameObject(all, path) /\ (Learnable(all) <=> Learnable(path))
  BY <1>5, <1>6, RearrangedSame
<1>8. entry \in Seq(Clauses) \cup {Nothing} /\ EntryOk(plan, pos, ran, entry)
  BY <1>5, <1>7 DEF EntryOk, path, node
<1>. HIDE DEF entry
<1>9. HandedUpTo(plan, pos)'
  <2>1. /\ carry = <<>> /\ handed \in Seq(Seq(Clauses)) /\ Len(handed) = pos - 1
        /\ \A i \in 1 .. pos - 1 : Rearranged(handed[i], PathClauses(plan, i))
    BY <1>2 DEF HandedUpTo
  <2>2. handed' = Append(handed, all)
    BY <1>1, <1>5
  <2>3. handed' \in Seq(Seq(Clauses)) /\ Len(handed') = pos
    BY <1>4, <1>5, <2>1, <2>2
  <2>4. handed'[pos] = all /\ \A i \in 1 .. pos - 1 : handed'[i] = handed[i]
    BY <1>4, <1>5, <2>1, <2>2, SMTT(40)
  <2>5. \A i \in 1 .. pos : i \in 1 .. pos - 1 \/ i = pos
    BY <1>4
  <2>6. \A i \in 1 .. pos : Rearranged(handed'[i], PathClauses(plan, i))
    BY <1>5, <2>1, <2>4, <2>5 DEF path
  <2>7. plan' = plan /\ pos' = pos + 1 /\ (pos + 1) - 1 = pos
    BY <1>1, <1>4 DEF plan
  <2>8. carry' = <<>> /\ Len(handed') = pos' - 1 /\ pos' - 1 = pos
    BY <1>1, <2>1, <2>3, <2>7
  <2>. QED  BY <2>3, <2>6, <2>7, <2>8 DEF HandedUpTo
<1>10. /\ DOMAIN learned' = DOMAIN plans /\ DOMAIN executed' = DOMAIN plans
       /\ learned'[cur] = Append(learned[cur], entry) /\ executed'[cur] = Append(executed[cur], ran)
       /\ \A i \in DOMAIN plans : i # cur => learned'[i] = learned[i] /\ executed'[i] = executed[i]
  BY <1>1, <1>2, <1>3
<1>11. EntriesOk(cur)' /\ Len(learned'[cur]) = pos
  <2> DEFINE l == learned[cur]
             e == executed[cur]
  <2>1. /\ l \in Seq(Seq(Clauses) \cup {Nothing}) /\ e \in Seq(BOOLEAN) /\ Len(e) = Len(l)
        /\ \A m \in 1 .. Len(l) : EntryOk(plan, m, e[m], l[m])
    BY <1>2, <1>3 DEF EntriesOk, plan
  <2>2. Len(l) = pos - 1 /\ Len(l) + 1 = pos
    BY <1>2, <1>4
  <2>3. learned'[cur] = Append(l, entry) /\ executed'[cur] = Append(e, ran)
    BY <1>10
  <2>. HIDE DEF l, e
  <2>4. EntryOk(plan, Len(l) + 1, ran, entry)
    BY <1>8, <2>2
  <2>5. /\ Append(l, entry) \in Seq(Seq(Clauses) \cup {Nothing}) /\ Append(e, ran) \in Seq(BOOLEAN)
        /\ Len(Append(l, entry)) = Len(l) + 1 /\ Len(Append(e, ran)) = Len(l) + 1
        /\ \A m \in 1 .. Len(l) + 1 : EntryOk(plan, m, Append(e, ran)[m], Append(l, entry)[m])
    BY <1>8, <2>1, <2>4, EntryMore
  <2>6. plans'[cur'] = plan /\ cur' = cur
    BY <1>1 DEF plan
  <2>. QED  BY <2>2, <2>3, <2>5, <2>6 DEF EntriesOk
<1>12. ASSUME NEW i \in DOMAIN plans, i # cur PROVE EntriesOk(i)'
  <2>1. EntriesOk(i) /\ learned'[i] = learned[i] /\ executed'[i] = executed[i] /\ plans' = plans
    BY <1>1, <1>2, <1>10, <1>12
  <2>. QED  BY <2>1 DEF EntriesOk
<1>13. \A i \in DOMAIN plans' : EntriesOk(i)'
  <2>1. EntriesOk(cur)'
    BY <1>11
  <2>2. plans' = plans /\ cur' = cur
    BY <1>1
  <2>3. ASSUME NEW i \in DOMAIN plans' PROVE EntriesOk(i)'
    <3>1. CASE i = cur
      BY <1>11, <2>2, <3>1 DEF EntriesOk
    <3>2. CASE i # cur
      BY <1>12, <2>2, <3>2
    <3>. QED  BY <3>1, <3>2
  <2>. QED  BY <2>3
<1>14. pos' \in 1 .. Len(plan) + 1 /\ pos' - 1 = pos
  BY <1>1, <1>3, <1>4
<1>15. \A i \in DOMAIN plans : i > cur => learned'[i] = <<>>
  BY <1>2, <1>3, <1>10
<1>16. plan' = plan /\ plans' = plans /\ cur' = cur
  BY <1>1 DEF plan
<1>. QED  BY <1>2, <1>9, <1>10, <1>11, <1>13, <1>14, <1>15, <1>16 DEF WalkInv, plan

(* Going on to the next plan: the one before has handed on nothing.        *)
LEMMA NextPlanStep ==
  ASSUME WalkInv, NextPlan
  PROVE  WalkInv'
<1> DEFINE plan == plans[cur]
<1>1. /\ pos > Len(plan) /\ cur < Len(plans) /\ cur' = cur + 1 /\ pos' = 1
      /\ carry' = Last(handed) /\ handed' = <<>>
      /\ plans' = plans /\ executed' = executed /\ learned' = learned
  BY DEF NextPlan
<1>2. /\ Ordinary(plans) /\ cur \in 1 .. Len(plans) /\ pos \in 1 .. Len(plan) + 1
      /\ HandedUpTo(plan, pos)
      /\ DOMAIN learned = DOMAIN plans /\ DOMAIN executed = DOMAIN plans
      /\ \A i \in DOMAIN plans : EntriesOk(i)
      /\ \A i \in DOMAIN plans : i > cur => learned[i] = <<>>
  BY DEF WalkInv
<1>3. /\ DOMAIN plans = 1 .. Len(plans) /\ Len(plans) \in Nat
      /\ Len(plan) \in Nat \ {0} /\ PathClauses(plan, Len(plan)) = <<>>
  BY <1>1, <1>2, OrdinaryPlans
<1>4. cur + 1 \in 1 .. Len(plans) /\ cur + 1 > cur
  <2>1. cur \in 1 .. Len(plans) /\ cur < Len(plans) /\ Len(plans) \in Nat
    BY <1>1, <1>2, <1>3, Zenon
  <2>. QED  BY ONLY <2>1
<1>5. Len(plans[cur + 1]) \in Nat
  BY <1>2, <1>4, OrdinaryPlans
<1>. HIDE DEF plan
<1>6. carry' = <<>>
  <2>1. pos - 1 = Len(plan) /\ Len(plan) \in 1 .. pos - 1
    BY <1>1, <1>2, <1>3
  <2>2. /\ handed \in Seq(Seq(Clauses)) /\ Len(handed) = pos - 1
        /\ \A i \in 1 .. pos - 1 : Rearranged(handed[i], PathClauses(plan, i))
    BY <1>2 DEF HandedUpTo
  <2>3. Last(handed) = handed[Len(plan)]
    BY <2>1, <2>2 DEF Last
  <2>4. handed[Len(plan)] \in Seq(Clauses)
    BY <2>1, <2>2
  <2>5. Rearranged(handed[Len(plan)], <<>>)
    BY <1>3, <2>1, <2>2
  <2>. QED  BY <1>1, <2>3, <2>4, <2>5, RearrangedEmpty
<1>7. HandedUpTo(plans[cur], pos)'
  <2>1. <<>> \in Seq(Seq(Clauses)) /\ Len(<<>>) = 1 - 1 /\ 1 .. 1 - 1 = {}
    OBVIOUS
  <2>. QED  BY <1>1, <1>6, <2>1 DEF HandedUpTo
<1>8. pos' \in 1 .. Len(plans[cur + 1]) + 1
  BY <1>1, <1>5
<1>9. Len(learned[cur + 1]) = 1 - 1
  <2>1. learned[cur + 1] = <<>>
    BY <1>2, <1>3, <1>4
  <2>. QED  BY <2>1
<1>10. \A i \in DOMAIN plans : i > cur + 1 => learned[i] = <<>>
  BY <1>2, <1>3
<1>11. \A i \in DOMAIN plans' : EntriesOk(i)'
  BY <1>1, <1>2 DEF EntriesOk
<1>. QED  BY <1>1, <1>2, <1>4, <1>7, <1>8, <1>9, <1>10, <1>11 DEF WalkInv

(* Before the first node.                                                  *)
LEMMA WalkStarts ==
  ASSUME Ordinary(plans), WalkInit
  PROVE  WalkInv
<1>1. /\ cur = 1 /\ pos = 1 /\ carry = <<>> /\ handed = <<>>
      /\ executed = [i \in DOMAIN plans |-> <<>>]
      /\ learned = [i \in DOMAIN plans |-> <<>>]
  BY DEF WalkInit
<1>2. Len(plans) \in Nat \ {0} /\ DOMAIN plans = 1 .. Len(plans) /\ Len(plans[1]) \in Nat
  BY OrdinaryPlans
<1>3. 1 \in 1 .. Len(plans) /\ 1 \in 1 .. Len(plans[1]) + 1
  BY <1>2
<1>4. HandedUpTo(plans[cur], pos)
  <2>1. <<>> \in Seq(Seq(Clauses)) /\ Len(<<>>) = 1 - 1 /\ 1 .. 1 - 1 = {}
    OBVIOUS
  <2>. QED  BY <1>1, <2>1 DEF HandedUpTo
<1>5. \A i \in DOMAIN plans : learned[i] = <<>> /\ executed[i] = <<>>
  BY <1>1
<1>6. \A i \in DOMAIN plans : EntriesOk(i)
  <2>1. /\ <<>> \in Seq(Seq(Clauses) \cup {Nothing}) /\ <<>> \in Seq(BOOLEAN)
        /\ Len(<<>>) = 0 /\ 1 .. 0 = {}
    OBVIOUS
  <2>. QED  BY <1>5, <2>1 DEF EntriesOk
<1>7. DOMAIN learned = DOMAIN plans /\ DOMAIN executed = DOMAIN plans
  BY <1>1
<1>8. Len(learned[cur]) = pos - 1
  BY <1>1, <1>2, <1>3, <1>5
<1>. QED  BY <1>1, <1>3, <1>4, <1>5, <1>6, <1>7, <1>8 DEF WalkInv

(* The walk over an ordinary statement keeps the invariant.                *)
LEMMA WalkInvHolds == Ordinary(plans) /\ WalkSpec => []WalkInv
<1>1. WalkInv /\ [WalkNext]_walkVars => WalkInv'
  <2>. SUFFICES ASSUME WalkInv, [WalkNext]_walkVars PROVE WalkInv'
    OBVIOUS
  <2>1. CASE UNCHANGED walkVars
    BY <2>1 DEF walkVars, WalkInv, HandedUpTo, EntriesOk
  <2>. QED  BY <2>1, NextPlanStep, CollectStep DEF WalkNext
<1>. QED  BY <1>1, WalkStarts, PTL DEF WalkSpec

(* Of an ordinary statement, whatever its plans and whichever of their     *)
(* nodes have been executed: what collect_planstat learns at a node is     *)
(* learned in the subspace, and at the point, where the planner looked an  *)
(* estimate of that node up, though the two gather its clauses in          *)
(* different orders.                                                       *)
THEOREM LearnsAsEstimated == Ordinary(plans) /\ WalkSpec => []LearnedAsEstimated
<1>1. WalkInv => LearnedAsEstimated
  <2>. SUFFICES ASSUME WalkInv, NEW i \in DOMAIN plans, NEW m \in DOMAIN learned[i], learned[i][m] # Nothing
                PROVE  SameObject(learned[i][m], PathClauses(plans[i], m))
    BY DEF LearnedAsEstimated
  <2>1. /\ learned[i] \in Seq(Seq(Clauses) \cup {Nothing})
        /\ \A q \in 1 .. Len(learned[i]) : EntryOk(plans[i], q, executed[i][q], learned[i][q])
    BY DEF WalkInv, EntriesOk
  <2>2. m \in 1 .. Len(learned[i])
    BY <2>1
  <2>. QED  BY <2>1, <2>2 DEF EntryOk
<1>. QED  BY <1>1, WalkInvHolds, PTL

(* Of an ordinary statement: each scan and join that has been executed and *)
(* has features has been learned from; no early return of collect_planstat *)
(* or of the learning loses one.                                           *)
THEOREM ExecutedNodesAreLearned ==
  ASSUME Nothing \notin Seq(Clauses)
  PROVE  Ordinary(plans) /\ WalkSpec => []ExecutedIsLearned
<1>1. WalkInv => ExecutedIsLearned
  <2>. SUFFICES ASSUME WalkInv, NEW i \in DOMAIN plans, NEW m \in DOMAIN learned[i],
                       executed[i][m], plans[i][m].kind # "unary", Learnable(PathClauses(plans[i], m))
                PROVE  learned[i][m] # Nothing
    BY DEF ExecutedIsLearned
  <2>1. /\ learned[i] \in Seq(Seq(Clauses) \cup {Nothing})
        /\ \A q \in 1 .. Len(learned[i]) : EntryOk(plans[i], q, executed[i][q], learned[i][q])
    BY DEF WalkInv, EntriesOk
  <2>2. m \in 1 .. Len(learned[i])
    <3>1. learned[i] \in Seq(Seq(Clauses) \cup {Nothing})
      BY <2>1
    <3>. QED  BY ONLY <3>1, m \in DOMAIN learned[i]
  <2>. QED  BY <2>1, <2>2 DEF EntryOk
<1>. QED  BY <1>1, WalkInvHolds, PTL
=============================================================================
