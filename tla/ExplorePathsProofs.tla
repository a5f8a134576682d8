-------------------------- MODULE ExplorePathsProofs --------------------------
(***************************************************************************)
(* The path tournament of the exploratory planner, for any relations with  *)
(* any paths, any number of them and any predicted best cost.              *)
(***************************************************************************)
EXTENDS ExplorePaths, WellFoundedInduction, TLAPS

-----------------------------------------------------------------------------
(* Inserting into and removing from the path list.                         *)

\* t is s with e at place at, over the elements S.
Inserted(t, S, s, at, e) ==
    /\ t \in Seq(S) /\ Len(t) = Len(s) + 1
    /\ \A j \in 1 .. Len(s) + 1 : t[j] = IF j < at THEN s[j] ELSE IF j = at THEN e ELSE s[j - 1]

\* t is s without its element at place at.
Removed(t, S, s, at) ==
    /\ t \in Seq(S) /\ Len(t) = Len(s) - 1
    /\ \A j \in 1 .. Len(s) - 1 : t[j] = IF j < at THEN s[j] ELSE s[j + 1]

(* What InsertAt puts where.                                               *)
LEMMA InsertPlaces ==
  ASSUME NEW S, NEW s \in Seq(S), NEW at \in 1 .. Len(s) + 1, NEW e \in S
  PROVE  Inserted(InsertAt(s, at, e), S, s, at, e)
<1> DEFINE a == SubSeq(s, 1, at - 1)
           b == SubSeq(s, at, Len(s))
<1>1. /\ a \in Seq(S) /\ Len(a) = at - 1 /\ \A j \in 1 .. at - 1 : a[j] = s[j]
  OBVIOUS
<1>2. /\ b \in Seq(S) /\ Len(b) = Len(s) - at + 1
      /\ \A j \in 1 .. Len(s) - at + 1 : b[j] = s[at + j - 1]
  OBVIOUS
<1>3. InsertAt(s, at, e) = (a \o <<e>>) \o b
  BY DEF InsertAt
<1>. HIDE DEF a, b
<1> DEFINE c == a \o <<e>>
<1>4. /\ c \in Seq(S) /\ Len(c) = at
      /\ \A j \in 1 .. at : c[j] = IF j < at THEN s[j] ELSE e
  BY <1>1
<1>. HIDE DEF c
<1>0. Len(s) \in Nat /\ at \in Nat
  OBVIOUS
<1>5. /\ c \o b \in Seq(S) /\ Len(c \o b) = Len(s) + 1
      /\ \A j \in 1 .. Len(s) + 1 : (c \o b)[j] = IF j <= at THEN c[j] ELSE b[j - at]
  <2>1. /\ c \o b \in Seq(S) /\ Len(c \o b) = Len(c) + Len(b)
        /\ \A j \in 1 .. Len(c) + Len(b) : (c \o b)[j] = IF j <= Len(c) THEN c[j] ELSE b[j - Len(c)]
    <3>1. c \in Seq(S) /\ b \in Seq(S) /\ Len(c) \in Nat /\ Len(b) \in Nat
      BY <1>2, <1>4
    <3>. QED  BY <3>1
  <2>2. Len(c) + Len(b) = Len(s) + 1 /\ Len(c) = at
    BY <1>0, <1>2, <1>4
  <2>. QED  BY <2>1, <2>2
<1>6. \A j \in 1 .. Len(s) + 1 :
        (c \o b)[j] = IF j < at THEN s[j] ELSE IF j = at THEN e ELSE s[j - 1]
  <2>. SUFFICES ASSUME NEW j \in 1 .. Len(s) + 1
                PROVE  (c \o b)[j] = IF j < at THEN s[j] ELSE IF j = at THEN e ELSE s[j - 1]
    OBVIOUS
  <2>1. CASE j <= at
    BY <1>4, <1>5, <2>1
  <2>2. CASE j > at
    <3>1. j - at \in 1 .. Len(s) - at + 1
      BY <2>2
    <3>2. b[j - at] = s[at + (j - at) - 1] /\ at + (j - at) - 1 = j - 1
      BY <1>2, <3>1
    <3>. QED  BY <1>5, <2>2, <3>2
  <2>3. j <= at \/ j > at
    BY <1>0
  <2>. QED  BY <2>1, <2>2, <2>3
<1>. QED  BY <1>3, <1>5, <1>6 DEF c, Inserted

(* What RemoveAt leaves where.                                             *)
LEMMA RemovePlaces ==
  ASSUME NEW S, NEW s \in Seq(S), NEW at \in 1 .. Len(s)
  PROVE  Removed(RemoveAt(s, at), S, s, at)
<1> DEFINE a == SubSeq(s, 1, at - 1)
           b == SubSeq(s, at + 1, Len(s))
<1>1. /\ a \in Seq(S) /\ Len(a) = at - 1 /\ \A j \in 1 .. at - 1 : a[j] = s[j]
  OBVIOUS
<1>2. /\ b \in Seq(S) /\ Len(b) = Len(s) - at
      /\ \A j \in 1 .. Len(s) - at : b[j] = s[at + j]
  OBVIOUS
<1>3. RemoveAt(s, at) = a \o b
  BY DEF RemoveAt
<1>. HIDE DEF a, b
<1>0. Len(s) \in Nat /\ at \in Nat
  OBVIOUS
<1>4. /\ a \o b \in Seq(S) /\ Len(a \o b) = Len(s) - 1
      /\ \A j \in 1 .. Len(s) - 1 : (a \o b)[j] = IF j <= at - 1 THEN a[j] ELSE b[j - (at - 1)]
  <2>1. /\ a \o b \in Seq(S) /\ Len(a \o b) = Len(a) + Len(b)
        /\ \A j \in 1 .. Len(a) + Len(b) : (a \o b)[j] = IF j <= Len(a) THEN a[j] ELSE b[j - Len(a)]
    <3>1. a \in Seq(S) /\ b \in Seq(S) /\ Len(a) \in Nat /\ Len(b) \in Nat
      BY <1>1, <1>2
    <3>. QED  BY <3>1
  <2>2. Len(a) + Len(b) = Len(s) - 1 /\ Len(a) = at - 1
    BY <1>0, <1>1, <1>2
  <2>. QED  BY <2>1, <2>2
<1>5. ASSUME NEW j \in 1 .. Len(s) - 1 PROVE (a \o b)[j] = IF j < at THEN s[j] ELSE s[j + 1]
  <2>1. CASE j < at
    <3>1. j \in 1 .. at - 1 /\ j <= at - 1
      BY <1>0, <2>1
    <3>. QED  BY <1>1, <1>4, <2>1, <3>1
  <2>2. CASE ~(j < at)
    <3>1. j - (at - 1) \in 1 .. Len(s) - at /\ ~(j <= at - 1)
      BY <1>0, <2>2
    <3>2. b[j - (at - 1)] = s[at + (j - (at - 1))] /\ at + (j - (at - 1)) = j + 1
      BY <1>0, <1>2, <3>1
    <3>. QED  BY <1>4, <2>2, <3>1, <3>2
  <2>. QED  BY <2>1, <2>2
<1>. QED  BY <1>3, <1>4, <1>5 DEF Removed

-----------------------------------------------------------------------------
(* The order of the list.                                                  *)

\* The paths of the relation at hand, and how far the scan has come.
TypeInv ==
    /\ rel \in Rels
    /\ pathlist \in Seq(rel.paths)
    /\ new_path \in rel.paths \cup {NoPath}
    /\ pos \in Nat /\ insert_after \in Nat
    /\ new_path # NoPath => pos \in 1 .. Len(pathlist) + 1 /\ insert_after < pos

\* Of the old paths that the scan has kept, those up to insert_after cost no
\* more than the new one, and the others cost more.
PlaceInv ==
    new_path # NoPath =>
      \A j \in 1 .. Len(pathlist) :
        /\ j <= insert_after => pathlist[j].total <= new_path.total
        /\ insert_after < j /\ j < pos => new_path.total < pathlist[j].total

SortInv == TypeInv /\ PlaceInv /\ SortedByTotal

(* The costs of a path are numbers.                                        *)
LEMMA PathFacts ==
  ASSUME NEW r \in Rels, NEW p \in r.paths
  PROVE  /\ p.total \in Nat /\ p.startup \in Nat /\ p.ev \in Nat /\ p.rows \in Nat
         /\ p.itotal \in Nat /\ p.istartup \in Nat /\ p.iev \in Nat /\ p.safe \in {0, 1}
         /\ p.istartup <= p.startup /\ p.itotal <= p.total /\ p.iev <= p.ev
         /\ p.keys \in Seq(ToSet(p.keys)) /\ p # NoPath
BY PathAssumption DEF PathOK

(* An old path goes: the places before the cursor stay as they are.        *)
LEMMA SortRemove ==
  ASSUME SortInv, RemoveOldPath
  PROVE  SortInv'
<1> DEFINE P == rel.paths
           L == Len(pathlist)
           new == RemoveAt(pathlist, pos)
<1>1. /\ new_path # NoPath /\ pathlist' = new /\ rel' = rel /\ new_path' = new_path
      /\ pos' = pos /\ insert_after' = insert_after /\ pos \in DOMAIN pathlist
  BY DEF RemoveOldPath, Scanning
<1>2. /\ rel \in Rels /\ pathlist \in Seq(P) /\ new_path \in P /\ L \in Nat
      /\ pos \in 1 .. L /\ insert_after \in Nat /\ insert_after < pos
  BY <1>1 DEF SortInv, TypeInv
<1>3. /\ new \in Seq(P) /\ Len(new) = L - 1
      /\ \A j \in 1 .. L - 1 : new[j] = IF j < pos THEN pathlist[j] ELSE pathlist[j + 1]
  <2>1. Removed(RemoveAt(pathlist, pos), P, pathlist, pos)
    BY <1>2, RemovePlaces, Zenon
  <2>. QED  BY <2>1 DEF Removed
<1>4. /\ \A i, j \in 1 .. L : i < j => pathlist[i].total <= pathlist[j].total
      /\ \A j \in 1 .. L : /\ j <= insert_after => pathlist[j].total <= new_path.total
                           /\ insert_after < j /\ j < pos => new_path.total < pathlist[j].total
  BY <1>1, <1>2 DEF SortInv, PlaceInv, SortedByTotal
<1>. HIDE DEF new, L
<1>5. TypeInv'
  BY <1>1, <1>2, <1>3 DEF TypeInv
<1>6. PlaceInv'
  <2>. SUFFICES ASSUME NEW j \in 1 .. L - 1
                PROVE  /\ j <= insert_after => new[j].total <= new_path.total
                       /\ insert_after < j /\ j < pos => new_path.total < new[j].total
    BY <1>1, <1>3 DEF PlaceInv
  <2>1. CASE j < pos
    <3>1. new[j] = pathlist[j] /\ j \in 1 .. L
      BY <1>2, <1>3, <2>1
    <3>. QED  BY <1>4, <3>1
  <2>2. CASE ~(j < pos)
    <3>1. ~(j <= insert_after)
      BY <1>2, <2>2
    <3>. QED  BY <2>2, <3>1
  <2>. QED  BY <2>1, <2>2
<1>7. SortedByTotal'
  <2>. SUFFICES ASSUME NEW i \in 1 .. L - 1, NEW j \in 1 .. L - 1, i < j
                PROVE  new[i].total <= new[j].total
    BY <1>1, <1>3 DEF SortedByTotal
  <2> DEFINE a == IF i < pos THEN i ELSE i + 1
             b == IF j < pos THEN j ELSE j + 1
  <2>1. new[i] = pathlist[a] /\ new[j] = pathlist[b]
    BY <1>3
  <2>2. a \in 1 .. L /\ b \in 1 .. L /\ a < b
    BY <1>2
  <2>. HIDE DEF a, b
  <2>. QED  BY <1>4, <2>1, <2>2
<1>. QED  BY <1>5, <1>6, <1>7 DEF SortInv

(* Both paths are kept: the list is sorted, so that if the old one costs   *)
(* no more than the new one, the ones before it do not either.             *)
LEMMA SortKeep ==
  ASSUME SortInv, KeepBothPaths
  PROVE  SortInv'
<1> DEFINE P == rel.paths
           L == Len(pathlist)
<1>1. /\ new_path # NoPath /\ pathlist' = pathlist /\ rel' = rel /\ new_path' = new_path
      /\ pos' = pos + 1 /\ pos \in DOMAIN pathlist
      /\ insert_after' = IF new_path.total >= pathlist[pos].total THEN pos ELSE insert_after
  BY DEF KeepBothPaths, Scanning
<1>2. /\ rel \in Rels /\ pathlist \in Seq(P) /\ new_path \in P /\ L \in Nat
      /\ pos \in 1 .. L /\ insert_after \in Nat /\ insert_after < pos
  BY <1>1 DEF SortInv, TypeInv
<1>3. /\ \A i, j \in 1 .. L : i < j => pathlist[i].total <= pathlist[j].total
      /\ \A j \in 1 .. L : /\ j <= insert_after => pathlist[j].total <= new_path.total
                           /\ insert_after < j /\ j < pos => new_path.total < pathlist[j].total
  BY <1>1, <1>2 DEF SortInv, PlaceInv, SortedByTotal
<1>4. \A j \in 1 .. L : pathlist[j].total \in Nat
  <2>. SUFFICES ASSUME NEW j \in 1 .. L PROVE pathlist[j].total \in Nat
    OBVIOUS
  <2>1. pathlist[j] \in P
    BY <1>2
  <2>. QED  BY <1>2, <2>1, PathFacts
<1>5. new_path.total \in Nat
  BY <1>2, PathFacts
<1>. HIDE DEF L
<1>6. TypeInv'
  <2>1. /\ pos' \in 1 .. L + 1 /\ insert_after' \in Nat /\ insert_after' < pos' /\ pos' \in Nat
    BY <1>1, <1>2
  <2>. QED  BY <1>1, <1>2, <2>1 DEF TypeInv, L
<1>7. PlaceInv'
  <2>. SUFFICES ASSUME NEW j \in 1 .. L
                PROVE  /\ j <= insert_after' => pathlist[j].total <= new_path.total
                       /\ insert_after' < j /\ j < pos' => new_path.total < pathlist[j].total
    BY <1>1 DEF PlaceInv, L
  <2>1. CASE new_path.total >= pathlist[pos].total
    <3>1. insert_after' = pos
      BY <1>1, <2>1
    <3>2. j <= pos => pathlist[j].total <= pathlist[pos].total
      BY <1>2, <1>3, <1>4
    <3>3. pathlist[pos].total \in Nat /\ pathlist[j].total \in Nat
      BY <1>2, <1>4
    <3>4. j <= pos => pathlist[j].total <= new_path.total
      BY <1>5, <2>1, <3>2, <3>3
    <3>. QED  BY <1>1, <1>2, <3>1, <3>4
  <2>2. CASE ~(new_path.total >= pathlist[pos].total)
    <3>1. insert_after' = insert_after
      BY <1>1, <2>2
    <3>2. new_path.total < pathlist[pos].total
      BY <1>2, <1>4, <1>5, <2>2
    <3>3. j < pos' => j < pos \/ j = pos
      BY <1>1, <1>2
    <3>. QED  BY <1>3, <3>1, <3>2, <3>3
  <2>. QED  BY <2>1, <2>2
<1>8. SortedByTotal'
  BY <1>1, <1>2, <1>3 DEF SortedByTotal, L
<1>. QED  BY <1>6, <1>7, <1>8 DEF SortInv

(* The new path goes behind those that cost no more.                       *)
LEMMA SortAccept ==
  ASSUME SortInv, AcceptNewPath
  PROVE  SortInv'
<1> DEFINE P == rel.paths
           L == Len(pathlist)
           at == insert_after + 1
           new == InsertAt(pathlist, at, new_path)
<1>1. /\ new_path # NoPath /\ pos \notin DOMAIN pathlist /\ pathlist' = new
      /\ rel' = rel /\ new_path' = NoPath /\ pos' = 0 /\ insert_after' = 0
  BY DEF AcceptNewPath
<1>2. /\ rel \in Rels /\ pathlist \in Seq(P) /\ new_path \in P /\ L \in Nat
      /\ pos = L + 1 /\ insert_after \in Nat /\ at \in 1 .. L + 1
  BY <1>1 DEF SortInv, TypeInv
<1>3. /\ new \in Seq(P) /\ Len(new) = L + 1
      /\ \A j \in 1 .. L + 1 : new[j] = IF j < at THEN pathlist[j] ELSE IF j = at THEN new_path
                                                                   ELSE pathlist[j - 1]
  <2>1. Inserted(InsertAt(pathlist, at, new_path), P, pathlist, at, new_path)
    <3>. HIDE DEF at
    <3>. QED  BY <1>2, InsertPlaces, Zenon
  <2>. HIDE DEF at
  <2>. QED  BY <2>1 DEF Inserted
<1>4. /\ \A i, j \in 1 .. L : i < j => pathlist[i].total <= pathlist[j].total
      /\ \A j \in 1 .. L : /\ j < at => pathlist[j].total <= new_path.total
                           /\ at <= j => new_path.total <= pathlist[j].total
  <2>1. /\ \A i, j \in 1 .. L : i < j => pathlist[i].total <= pathlist[j].total
        /\ \A j \in 1 .. L : /\ j <= insert_after => pathlist[j].total <= new_path.total
                             /\ insert_after < j /\ j < pos => new_path.total < pathlist[j].total
    BY <1>1, <1>2 DEF SortInv, PlaceInv, SortedByTotal
  <2>2. ASSUME NEW j \in 1 .. L, at <= j PROVE new_path.total <= pathlist[j].total
    <3>1. insert_after < j /\ j < pos /\ pathlist[j] \in P
      BY <1>2, <2>2
    <3>2. new_path.total < pathlist[j].total
      BY <2>1, <3>1
    <3>3. new_path.total \in Nat /\ pathlist[j].total \in Nat
      BY <1>2, <3>1, PathFacts
    <3>. QED  BY <3>2, <3>3
  <2>3. ASSUME NEW j \in 1 .. L, j < at PROVE pathlist[j].total <= new_path.total
    <3>1. j <= insert_after
      BY <1>2, <2>3
    <3>. QED  BY <2>1, <3>1
  <2>. QED  BY <2>1, <2>2, <2>3
<1>. HIDE DEF new, at, L
<1>5. TypeInv'
  BY <1>1, <1>2, <1>3 DEF TypeInv
<1>6. PlaceInv'
  BY <1>1 DEF PlaceInv
<1>7. SortedByTotal'
  <2>. SUFFICES ASSUME NEW i \in 1 .. L + 1, NEW j \in 1 .. L + 1, i < j
                PROVE  new[i].total <= new[j].total
    BY <1>1, <1>3 DEF SortedByTotal
  <2>1. CASE j < at
    <3>1. i \in 1 .. L /\ j \in 1 .. L /\ i < at
      BY <1>2, <2>1
    <3>2. new[i] = pathlist[i] /\ new[j] = pathlist[j]
      BY <1>3, <2>1, <3>1
    <3>. QED  BY <1>4, <3>1, <3>2
  <2>2. CASE j = at
    <3>1. i \in 1 .. L /\ i < at
      BY <1>2, <2>2
    <3>2. new[i] = pathlist[i] /\ new[j] = new_path
      BY <1>2, <1>3, <2>2, <3>1
    <3>. QED  BY <1>4, <3>1, <3>2
  <2>3. CASE j > at /\ i < at
    <3>1. i \in 1 .. L /\ j - 1 \in 1 .. L /\ i < j - 1
      BY <1>2, <2>3
    <3>2. new[i] = pathlist[i] /\ new[j] = pathlist[j - 1]
      BY <1>2, <1>3, <2>3
    <3>. QED  BY <1>4, <3>1, <3>2
  <2>4. CASE j > at /\ i = at
    <3>1. j - 1 \in 1 .. L /\ at <= j - 1
      BY <1>2, <2>4
    <3>2. new[i] = new_path /\ new[j] = pathlist[j - 1]
      BY <1>2, <1>3, <2>4
    <3>. QED  BY <1>4, <3>1, <3>2
  <2>5. CASE j > at /\ i > at
    <3>1. i - 1 \in 1 .. L /\ j - 1 \in 1 .. L /\ i - 1 < j - 1
      BY <1>2, <2>5
    <3>2. new[i] = pathlist[i - 1] /\ new[j] = pathlist[j - 1]
      BY <1>2, <1>3, <2>5
    <3>. QED  BY <1>4, <3>1, <3>2
  <2>. QED  BY <1>2, <2>1, <2>2, <2>3, <2>4, <2>5
<1>. QED  BY <1>5, <1>6, <1>7 DEF SortInv

(* The place where add_path_explore inserts a path fits its cost at every  *)
(* step of the scan.                                                       *)
THEOREM SortInvariant == Spec => []SortInv
<1>1. Init => SortInv
  BY DEF Init, SortInv, TypeInv, PlaceInv, SortedByTotal
<1>2. SortInv /\ [Next]_vars => SortInv'
  <2>. SUFFICES ASSUME SortInv, [Next]_vars PROVE SortInv'
    OBVIOUS
  <2>1. ASSUME NEW p \in rel.paths, SubmitPath(p) PROVE SortInv'
    <3>1. /\ rel' = rel /\ pathlist' = pathlist /\ new_path' = p /\ pos' = 1 /\ insert_after' = 0
      BY <2>1 DEF SubmitPath
    <3>2. /\ rel \in Rels /\ pathlist \in Seq(rel.paths) /\ Len(pathlist) \in Nat /\ SortedByTotal
      BY DEF SortInv, TypeInv
    <3>3. TypeInv'
      BY <3>1, <3>2 DEF TypeInv
    <3>4. PlaceInv'
      BY <3>1, <3>2 DEF PlaceInv
    <3>5. SortedByTotal'
      BY <3>1, <3>2 DEF SortedByTotal
    <3>. QED  BY <3>3, <3>4, <3>5 DEF SortInv
  <2>2. CASE RemoveOldPath
    BY <2>2, SortRemove
  <2>3. CASE RejectNewPath
    BY <2>3 DEF RejectNewPath, SortInv, TypeInv, PlaceInv, SortedByTotal
  <2>4. CASE KeepBothPaths
    BY <2>4, SortKeep
  <2>5. CASE AcceptNewPath
    BY <2>5, SortAccept
  <2>6. CASE SetCheapest
    BY <2>6 DEF SetCheapest, SortInv, TypeInv, PlaceInv, SortedByTotal
  <2>7. ASSUME NEW f \in Fractions, ChoosePath(f) PROVE SortInv'
    BY <2>7 DEF ChoosePath, SortInv, TypeInv, PlaceInv, SortedByTotal
  <2>8. CASE UNCHANGED vars
    BY <2>8 DEF vars, SortInv, TypeInv, PlaceInv, SortedByTotal
  <2>. QED  BY <2>1, <2>2, <2>3, <2>4, <2>5, <2>6, <2>7, <2>8 DEF Next
<1>. QED  BY <1>1, <1>2, PTL DEF Spec

(* add_path_explore keeps the path list sorted by total cost, whatever the *)
(* paths and however it interleaves removals and insertions.               *)
THEOREM ListStaysSorted == Spec => []SortedByTotal
<1>1. SortInv => SortedByTotal
  BY DEF SortInv
<1>. QED  BY <1>1, SortInvariant, PTL

-----------------------------------------------------------------------------
(* Sort orders and parameterizations.                                      *)

(* What it is to be a prefix, element by element.                          *)
LEMMA PrefixIs ==
  ASSUME NEW S, NEW s \in Seq(S), NEW T, NEW t \in Seq(T)
  PROVE  IsPrefix(s, t) <=> Len(s) <= Len(t) /\ \A i \in 1 .. Len(s) : s[i] = t[i]
<1> DEFINE n == Len(s)
           a == SubSeq(s, 1, n)
           b == SubSeq(t, 1, n)
<1>1. n \in Nat /\ Len(t) \in Nat
  OBVIOUS
<1>2. a \in Seq(S) /\ Len(a) = n /\ \A i \in 1 .. n : a[i] = s[i]
  OBVIOUS
<1>3. CASE n <= Len(t)
  <2>1. b \in Seq(T) /\ Len(b) = n /\ \A i \in 1 .. n : b[i] = t[i]
    BY <1>1, <1>3
  <2>. HIDE DEF a, b, n
  <2>2. a = b <=> \A i \in 1 .. n : a[i] = b[i]
    <3>1. a \in [1 .. n -> S] /\ b \in [1 .. n -> T]
      BY <1>1, <1>2, <2>1
    <3>2. a = [i \in 1 .. n |-> a[i]] /\ b = [i \in 1 .. n |-> b[i]]
      BY <3>1
    <3>3. (\A i \in 1 .. n : a[i] = b[i]) => [i \in 1 .. n |-> a[i]] = [i \in 1 .. n |-> b[i]]
      OBVIOUS
    <3>. QED  BY <3>2, <3>3
  <2>3. a = b <=> \A i \in 1 .. n : s[i] = t[i]
    BY <1>2, <2>1, <2>2
  <2>. QED  BY <1>3, <2>3 DEF IsPrefix, a, b, n
<1>4. CASE ~(n <= Len(t))
  BY <1>4 DEF IsPrefix
<1>. QED  BY <1>3, <1>4

\* Path q delivers at least the sort order of p and needs no more outer
\* relations.
Covers(q, p) == IsPrefix(Keys(p), Keys(q)) /\ q.outer \subseteq p.outer

(* The sort order of a path is a sequence.                                 *)
LEMMA KeysType ==
  ASSUME NEW r \in Rels, NEW p \in r.paths
  PROVE  Keys(p) \in Seq(ToSet(p.keys))
<1>1. p.keys \in Seq(ToSet(p.keys))
  BY PathFacts
<1>2. <<>> \in Seq(ToSet(p.keys))
  OBVIOUS
<1>. QED  BY <1>1, <1>2 DEF Keys

(* A path covers itself, and what the paths that it covers cover.          *)
LEMMA CoversOrder ==
  ASSUME NEW r \in Rels, NEW p \in r.paths, NEW q \in r.paths, NEW o \in r.paths
  PROVE  /\ Covers(p, p)
         /\ Covers(o, q) /\ Covers(q, p) => Covers(o, p)
<1> DEFINE a == Keys(p)
           b == Keys(q)
           c == Keys(o)
<1>1. a \in Seq(ToSet(p.keys)) /\ b \in Seq(ToSet(q.keys)) /\ c \in Seq(ToSet(o.keys))
  BY KeysType
<1>2. Len(a) \in Nat /\ Len(b) \in Nat /\ Len(c) \in Nat
  <2>. HIDE DEF a, b, c
  <2>. QED  BY <1>1
<1>3. IsPrefix(a, a)
  <2>. HIDE DEF a
  <2>. QED  BY <1>1, <1>2, PrefixIs
<1>4. ASSUME IsPrefix(a, b), IsPrefix(b, c) PROVE IsPrefix(a, c)
  <2>. HIDE DEF a, b, c
  <2>1. Len(a) <= Len(b) /\ \A i \in 1 .. Len(a) : a[i] = b[i]
    BY <1>1, <1>4, PrefixIs
  <2>2. Len(b) <= Len(c) /\ \A i \in 1 .. Len(b) : b[i] = c[i]
    BY <1>1, <1>4, PrefixIs
  <2>3. Len(a) <= Len(c) /\ \A i \in 1 .. Len(a) : a[i] = c[i]
    BY <1>2, <2>1, <2>2
  <2>. QED  BY <1>1, <2>3, PrefixIs
<1>. HIDE DEF a, b, c
<1>5. p.outer \subseteq p.outer /\ (o.outer \subseteq q.outer /\ q.outer \subseteq p.outer => o.outer \subseteq p.outer)
  OBVIOUS
<1>. QED  BY <1>3, <1>4, <1>5 DEF Covers, a, b, c

(* What compare_pathkeys says of two sort orders.                          *)
LEMMA PathkeysFacts ==
  ASSUME NEW S, NEW k \in Seq(S), NEW T, NEW l \in Seq(T)
  PROVE  /\ ComparePathkeys(k, l) \in {"equal", "better1"} => IsPrefix(l, k)
         /\ ComparePathkeys(k, l) \in {"equal", "better2"} =>
              IsPrefix(k, l) /\ ComparePathkeys(l, k) \in {"equal", "better1"}
<1>1. IsPrefix(k, k) /\ Len(k) \in Nat
  BY PrefixIs
<1>2. CASE k = l
  <2>1. ComparePathkeys(k, l) = "equal" /\ ComparePathkeys(l, k) = "equal"
    BY <1>2 DEF ComparePathkeys
  <2>. QED  BY <1>1, <1>2, <2>1
<1>3. CASE k # l /\ IsPrefix(l, k)
  <2>1. ComparePathkeys(k, l) = "better1"
    BY <1>3 DEF ComparePathkeys
  <2>. QED  BY <1>3, <2>1
<1>4. CASE k # l /\ ~IsPrefix(l, k) /\ IsPrefix(k, l)
  <2>1. ComparePathkeys(k, l) = "better2" /\ ComparePathkeys(l, k) = "better1"
    BY <1>4 DEF ComparePathkeys
  <2>. QED  BY <1>4, <2>1
<1>5. CASE k # l /\ ~IsPrefix(l, k) /\ ~IsPrefix(k, l)
  <2>1. ComparePathkeys(k, l) = "different"
    BY <1>5 DEF ComparePathkeys
  <2>. QED  BY <2>1
<1>. QED  BY <1>2, <1>3, <1>4, <1>5

(* A path that removes or turns away another one covers it.                *)
LEMMA WinnerCovers ==
  ASSUME NEW r \in Rels, NEW p \in r.paths, NEW q \in r.paths
  PROVE  /\ RemoveOld(p, q) => Covers(p, q)
         /\ RejectNew(p, q) => Covers(q, p)
<1>1. Keys(p) \in Seq(ToSet(p.keys)) /\ Keys(q) \in Seq(ToSet(q.keys))
  BY KeysType
<1>2. ASSUME Dominates(p, q) PROVE Covers(p, q)
  <2>1. ComparePathkeys(Keys(p), Keys(q)) \in {"equal", "better1"} /\ p.outer \subseteq q.outer
    BY <1>2 DEF Dominates, NoWorse
  <2>2. IsPrefix(Keys(q), Keys(p))
    BY <1>1, <2>1, PathkeysFacts
  <2>. QED  BY <2>1, <2>2 DEF Covers
<1>3. ASSUME Dominates(q, p) PROVE Covers(q, p)
  <2>1. ComparePathkeys(Keys(q), Keys(p)) \in {"equal", "better1"} /\ q.outer \subseteq p.outer
    BY <1>3 DEF Dominates, NoWorse
  <2>2. IsPrefix(Keys(p), Keys(q))
    BY <1>1, <2>1, PathkeysFacts
  <2>. QED  BY <2>1, <2>2 DEF Covers
<1>4. ASSUME Tied(p, q) PROVE Covers(p, q) /\ Covers(q, p)
  <2>1. ComparePathkeys(Keys(p), Keys(q)) = "equal" /\ p.outer = q.outer
    BY <1>4 DEF Tied
  <2>2. IsPrefix(Keys(p), Keys(q)) /\ IsPrefix(Keys(q), Keys(p))
    BY <1>1, <2>1, PathkeysFacts
  <2>. QED  BY <2>1, <2>2 DEF Covers
<1>. QED  BY <1>2, <1>3, <1>4 DEF RemoveOld, RejectNew

\* While a path is being placed, it stands in for what it has removed.
CoverInv ==
    /\ submitted \subseteq rel.paths
    /\ \A p \in submitted :
         \/ \E i \in 1 .. Len(pathlist) : Covers(pathlist[i], p)
         \/ new_path # NoPath /\ Covers(new_path, p)

(* No order and no parameterization is lost at any step of the scan.       *)
LEMMA CoverStep ==
  ASSUME TypeInv, TypeInv', CoverInv, [Next]_vars
  PROVE  CoverInv'
<1> DEFINE P == rel.paths
           L == Len(pathlist)
<1>1. /\ rel \in Rels /\ pathlist \in Seq(P) /\ L \in Nat /\ DOMAIN pathlist = 1 .. L
      /\ \A i \in 1 .. L : pathlist[i] \in P
      /\ submitted \subseteq P
      /\ \A p \in submitted : \/ \E i \in 1 .. L : Covers(pathlist[i], p)
                              \/ new_path # NoPath /\ Covers(new_path, p)
      /\ new_path # NoPath => new_path \in P
  BY DEF TypeInv, CoverInv
<1>2. ASSUME NEW p \in P, SubmitPath(p) PROVE CoverInv'
  <2>1. /\ new_path = NoPath /\ new_path' = p /\ pathlist' = pathlist /\ rel' = rel
        /\ submitted' = submitted \cup {p}
    BY <1>2 DEF SubmitPath, Idle
  <2>2. Covers(p, p) /\ p # NoPath
    BY <1>1, CoversOrder, PathFacts
  <2>3. \A q \in submitted : \E i \in 1 .. L : Covers(pathlist[i], q)
    BY <1>1, <2>1
  <2>. QED  BY <1>1, <2>1, <2>2, <2>3 DEF CoverInv
<1>3. CASE RemoveOldPath
  <2> DEFINE new == RemoveAt(pathlist, pos)
  <2>1. /\ new_path # NoPath /\ pos \in 1 .. L /\ RemoveOld(new_path, pathlist[pos])
        /\ pathlist' = new /\ new_path' = new_path /\ rel' = rel /\ submitted' = submitted
    BY <1>1, <1>3 DEF RemoveOldPath, Scanning
  <2>2. new_path \in P /\ pathlist[pos] \in P
    BY <1>1, <2>1
  <2>3. Covers(new_path, pathlist[pos])
    BY <1>1, <2>1, <2>2, WinnerCovers
  <2>4. /\ Len(new) = L - 1
        /\ \A j \in 1 .. L - 1 : new[j] = IF j < pos THEN pathlist[j] ELSE pathlist[j + 1]
    <3>1. Removed(RemoveAt(pathlist, pos), P, pathlist, pos)
      BY <1>1, <2>1, RemovePlaces, Zenon
    <3>. QED  BY <3>1 DEF Removed
  <2>. HIDE DEF new, L, P
  <2>5. ASSUME NEW p \in submitted, ~Covers(new_path, p)
        PROVE  \E j \in 1 .. L - 1 : Covers(new[j], p)
    <3>1. PICK i \in 1 .. L : Covers(pathlist[i], p)
      BY <1>1, <2>5
    <3>2. i # pos
      <4>. SUFFICES ASSUME i = pos PROVE FALSE
        OBVIOUS
      <4>1. p \in P
        BY <1>1
      <4>2. Covers(new_path, p)
        BY <1>1, <2>2, <2>3, <3>1, <4>1, CoversOrder DEF P
      <4>. QED  BY <2>5, <4>2
    <3>3. CASE i < pos
      <4>1. i \in 1 .. L - 1 /\ new[i] = pathlist[i]
        BY <1>1, <2>1, <2>4, <3>3
      <4>. QED  BY <3>1, <4>1
    <3>4. CASE i > pos
      <4>1. i - 1 \in 1 .. L - 1 /\ ~(i - 1 < pos) /\ (i - 1) + 1 = i
        BY <1>1, <2>1, <3>4
      <4>2. new[i - 1] = pathlist[i]
        BY <2>4, <4>1
      <4>. QED  BY <3>1, <4>1, <4>2
    <3>. QED  BY <1>1, <2>1, <3>2, <3>3, <3>4
  <2>. QED  BY <1>1, <2>1, <2>4, <2>5 DEF CoverInv, P
<1>4. CASE RejectNewPath
  <2>1. /\ new_path # NoPath /\ pos \in 1 .. L /\ RejectNew(new_path, pathlist[pos])
        /\ pathlist' = pathlist /\ new_path' = NoPath /\ rel' = rel /\ submitted' = submitted
    BY <1>1, <1>4 DEF RejectNewPath, Scanning
  <2>2. new_path \in P /\ pathlist[pos] \in P
    BY <1>1, <2>1
  <2>3. Covers(pathlist[pos], new_path)
    BY <1>1, <2>1, <2>2, WinnerCovers
  <2>4. ASSUME NEW p \in submitted PROVE \E i \in 1 .. L : Covers(pathlist[i], p)
    <3>1. CASE Covers(new_path, p)
      <4>1. p \in P
        BY <1>1
      <4>2. Covers(pathlist[pos], p)
        BY <1>1, <2>2, <2>3, <3>1, <4>1, CoversOrder
      <4>. QED  BY <2>1, <4>2
    <3>2. CASE ~Covers(new_path, p)
      BY <1>1, <3>2
    <3>. QED  BY <3>1, <3>2
  <2>. QED  BY <1>1, <2>1, <2>4 DEF CoverInv
<1>5. CASE KeepBothPaths
  BY <1>5 DEF KeepBothPaths, CoverInv
<1>6. CASE AcceptNewPath
  <2> DEFINE at == insert_after + 1
             new == InsertAt(pathlist, at, new_path)
  <2>1. /\ new_path # NoPath /\ pos \notin 1 .. L /\ pathlist' = new /\ new_path' = NoPath
        /\ rel' = rel /\ submitted' = submitted
    BY <1>1, <1>6 DEF AcceptNewPath
  <2>2. new_path \in P /\ at \in 1 .. L + 1
    BY <1>1, <2>1 DEF TypeInv
  <2>3. /\ Len(new) = L + 1
        /\ \A j \in 1 .. L + 1 : new[j] = IF j < at THEN pathlist[j] ELSE IF j = at THEN new_path
                                                                     ELSE pathlist[j - 1]
    <3>1. pathlist \in Seq(P) /\ at \in 1 .. Len(pathlist) + 1 /\ new_path \in P
      BY <1>1, <2>2
    <3>. HIDE DEF at, P
    <3>2. Inserted(InsertAt(pathlist, at, new_path), P, pathlist, at, new_path)
      BY <3>1, InsertPlaces, Zenon
    <3>. QED  BY <3>2 DEF Inserted
  <2>. HIDE DEF new, at, L, P
  <2>4. new[at] = new_path
    BY <1>1, <2>2, <2>3
  <2>5. ASSUME NEW i \in 1 .. L PROVE \E j \in 1 .. L + 1 : new[j] = pathlist[i]
    <3>1. CASE i < at
      <4>1. i \in 1 .. L + 1 /\ new[i] = pathlist[i]
        BY <1>1, <2>3, <3>1
      <4>. QED  BY <4>1
    <3>2. CASE ~(i < at)
      <4>1. i + 1 \in 1 .. L + 1 /\ ~(i + 1 < at) /\ i + 1 # at /\ (i + 1) - 1 = i
        BY <1>1, <2>2, <3>2
      <4>2. new[i + 1] = pathlist[i]
        BY <2>3, <4>1
      <4>. QED  BY <4>1, <4>2
    <3>. QED  BY <3>1, <3>2
  <2>6. ASSUME NEW p \in submitted PROVE \E j \in 1 .. L + 1 : Covers(new[j], p)
    <3>1. CASE Covers(new_path, p)
      BY <2>2, <2>4, <3>1
    <3>2. CASE ~Covers(new_path, p)
      <4>1. PICK i \in 1 .. L : Covers(pathlist[i], p)
        BY <1>1, <3>2
      <4>. QED  BY <2>5, <4>1
    <3>. QED  BY <3>1, <3>2
  <2>. QED  BY <1>1, <2>1, <2>3, <2>6 DEF CoverInv, P
<1>7. CASE SetCheapest
  BY <1>7 DEF SetCheapest, CoverInv
<1>8. ASSUME NEW f \in Fractions, ChoosePath(f) PROVE CoverInv'
  BY <1>8 DEF ChoosePath, CoverInv
<1>9. CASE UNCHANGED vars
  BY <1>9 DEF vars, CoverInv
<1>. QED  BY <1>2, <1>3, <1>4, <1>5, <1>6, <1>7, <1>8, <1>9 DEF Next

(* Fuzzy comparisons are not transitive and a new path may be turned away  *)
(* after it has removed others, but add_path_explore never loses the last  *)
(* path that delivers a sort order with given outer relations.             *)
THEOREM NothingUncovered == Spec => []CoverKept
<1>1. Init => CoverInv
  BY DEF Init, CoverInv
<1>2. SortInv /\ SortInv' /\ CoverInv /\ [Next]_vars => CoverInv'
  BY CoverStep DEF SortInv
<1>3. SortInv /\ CoverInv => CoverKept
  <2>. SUFFICES ASSUME SortInv, CoverInv, new_path = NoPath, NEW p \in submitted
                PROVE  \E q \in ToSet(pathlist) : IsPrefix(Keys(p), Keys(q)) /\ q.outer \subseteq p.outer
    BY DEF CoverKept
  <2>1. DOMAIN pathlist = 1 .. Len(pathlist)
    BY DEF SortInv, TypeInv
  <2>2. PICK i \in 1 .. Len(pathlist) : Covers(pathlist[i], p)
    BY DEF CoverInv
  <2>3. pathlist[i] \in ToSet(pathlist)
    BY <2>1 DEF ToSet
  <2>. QED  BY <2>2, <2>3 DEF Covers
<1>. QED  BY <1>1, <1>2, <1>3, SortInvariant, PTL DEF Spec

-----------------------------------------------------------------------------
(* The precheck.                                                           *)

(* The old path for which the precheck turns p away makes it superfluous:  *)
(* p costs fuzzily more in total, and no less to start if that counts; it  *)
(* explores no more, is sorted no better and has the same parameterization *)
(* and so the same rows.                                                   *)
LEMMA LoserIsDominated ==
  ASSUME rel \in Rels, rel.join, NEW p \in rel.paths, NEW old \in rel.paths,
         Exceeds(p.itotal, old.total, STD_FUZZ), PrecheckLoses(p, old)
  PROVE  Dominates(old, [p EXCEPT !.ev = p.iev, !.safe = 0])
<1> DEFINE n == [p EXCEPT !.ev = p.iev, !.safe = 0]
<1>1. /\ n.total = p.total /\ n.startup = p.startup /\ n.ev = p.iev /\ n.safe = 0
      /\ n.keys = p.keys /\ n.outer = p.outer /\ n.rows = p.rows
  BY PathAssumption DEF PathOK
<1>. HIDE DEF n
<1>2. /\ p.total \in Nat /\ p.startup \in Nat /\ p.itotal \in Nat /\ p.istartup \in Nat
      /\ p.iev \in Nat /\ p.itotal <= p.total /\ p.istartup <= p.startup
      /\ p.rows \in Nat
  BY PathFacts
<1>3. old.total \in Nat /\ old.startup \in Nat /\ old.ev \in Nat /\ old.safe \in {0, 1}
  BY PathFacts
<1>4. /\ Exceeds(p.istartup, old.startup, STD_FUZZ) \/ ~Considers(p)
      /\ p.iev <= old.ev /\ p.outer = old.outer
      /\ ComparePathkeys(Keys(p), Keys(old)) \in {"equal", "better2"}
  BY DEF PrecheckLoses
<1>5. Keys(n) = Keys(p) /\ Considers(n) = Considers(p)
  BY <1>1 DEF Keys, Considers
<1>6. ComparePathkeys(Keys(old), Keys(n)) \in {"equal", "better1"}
  <2>1. Keys(p) \in Seq(ToSet(p.keys)) /\ Keys(old) \in Seq(ToSet(old.keys))
    BY KeysType
  <2>2. ComparePathkeys(Keys(old), Keys(p)) \in {"equal", "better1"}
    BY <1>4, <2>1, PathkeysFacts
  <2>. QED  BY <1>5, <2>2
<1>7. NoWorse(old, n)
  <2>1. p.rows = old.rows
    BY <1>4, PathAssumption
  <2>. QED  BY <1>1, <1>2, <1>3, <1>4, <2>1 DEF NoWorse
<1>8. Exceeds(n.total, old.total, STD_FUZZ) /\ ~Exceeds(old.total, n.total, STD_FUZZ)
  BY <1>1, <1>2, <1>3 DEF Exceeds, STD_FUZZ
<1>9. ~(Considers(n) /\ Exceeds(old.startup, n.startup, STD_FUZZ))
  <2>1. CASE ~Considers(p)
    BY <1>5, <2>1
  <2>2. CASE Exceeds(p.istartup, old.startup, STD_FUZZ)
    <3>1. ~Exceeds(old.startup, n.startup, STD_FUZZ)
      BY <1>1, <1>2, <1>3, <2>2 DEF Exceeds, STD_FUZZ
    <3>. QED  BY <3>1
  <2>. QED  BY <1>4, <2>1, <2>2
<1>10. CostsFuzzily(old, n, STD_FUZZ) = "better1"
  BY <1>8, <1>9 DEF CostsFuzzily
<1>11. EvFuzzily(old, n, EV_FUZZ) >= 0
  <2>1. ~Exceeds(n.ev, old.ev, EV_FUZZ)
    BY <1>1, <1>2, <1>3, <1>4 DEF Exceeds, EV_FUZZ
  <2>. QED  BY <2>1 DEF EvFuzzily
<1>12. Dominates(old, n)
  BY <1>6, <1>7, <1>10, <1>11 DEF Dominates
<1>. QED  BY <1>12 DEF n

(* What add_path_precheck_explore turns away, add_path_explore would turn  *)
(* away too with the explore value it was given, parallel safety left      *)
(* aside.                                                                  *)
THEOREM PrecheckLosesNothing == Spec => []PrecheckAgreesOnInputs
<1>1. SortInv => PrecheckAgreesOnInputs
  <2>. SUFFICES ASSUME SortInv, rel.join, NEW p \in rel.paths, ~Precheck(p)
                PROVE  \E old \in ToSet(pathlist) : RejectNew([p EXCEPT !.ev = p.iev, !.safe = 0], old)
    BY DEF PrecheckAgreesOnInputs
  <2>1. rel \in Rels /\ pathlist \in Seq(rel.paths) /\ DOMAIN pathlist = 1 .. Len(pathlist)
    BY DEF SortInv, TypeInv
  <2>2. PICK i \in DOMAIN pathlist : /\ \A j \in 1 .. i : Exceeds(p.itotal, pathlist[j].total, STD_FUZZ)
                                     /\ PrecheckLoses(p, pathlist[i])
    BY DEF Precheck
  <2>3. i \in 1 .. i /\ pathlist[i] \in rel.paths /\ pathlist[i] \in ToSet(pathlist)
    BY <2>1 DEF ToSet
  <2>4. Exceeds(p.itotal, pathlist[i].total, STD_FUZZ)
    BY <2>2, <2>3
  <2>5. Dominates(pathlist[i], [p EXCEPT !.ev = p.iev, !.safe = 0])
    BY <2>1, <2>2, <2>3, <2>4, LoserIsDominated
  <2>. QED  BY <2>3, <2>5 DEF RejectNew
<1>. QED  BY <1>1, SortInvariant, PTL

-----------------------------------------------------------------------------
(* A pass over the list from left to right.                                *)

(* A set of numbers has a least one.                                       *)
LEMMA LeastNumber ==
  ASSUME NEW T \in SUBSET Nat, T # {}
  PROVE  \E m \in T : \A n \in T : m <= n
<1> DEFINE R == {ss \in Nat \X Nat : ss[1] < ss[2]}
<1>1. \A m, n \in Nat : <<m, n>> \in R <=> m < n
  OBVIOUS
<1>. IsWellFoundedOn(R, Nat)
  BY NatLessThanWellFounded DEF OpToRel
<1>. HIDE DEF R
<1>2. PICK m \in T : \A n \in T : ~ (<<n, m>> \in R)
  BY WFMin
<1>3. \A n \in T : n \in Nat /\ m \in Nat /\ ~ (n < m)
  BY <1>1, <1>2, Zenon
<1>. QED  BY <1>3

(* A set that contains 0 and is closed under successor up to n contains n. *)
LEMMA Reached ==
  ASSUME NEW n \in Nat, NEW A, 0 \in A, \A k \in 1 .. n : k - 1 \in A => k \in A
  PROVE  \A k \in 0 .. n : k \in A
<1> DEFINE Bad == {k \in 0 .. n : k \notin A}
<1>. SUFFICES ASSUME Bad # {} PROVE FALSE
  OBVIOUS
<1>1. PICK k \in Bad : \A m \in Bad : k <= m
  <2>1. Bad \in SUBSET Nat
    OBVIOUS
  <2>. HIDE DEF Bad
  <2>. QED  BY <2>1, LeastNumber
<1>2. k \in 1 .. n /\ k - 1 \in 0 .. n /\ k - 1 \notin Bad
  BY <1>1
<1>. QED  BY <1>2

(* The greatest number of a set of positions.                              *)
LEMMA MaxIs ==
  ASSUME NEW n \in Nat, NEW s \in SUBSET (1 .. n), s # {}
  PROVE  Max(s) \in s /\ \A y \in s : Max(s) >= y
<1> DEFINE Tops == {k \in Nat : \A y \in s : y <= k}
<1>1. n \in Tops
  OBVIOUS
<1>2. PICK k \in Tops : \A m \in Tops : k <= m
  <2>1. Tops \in SUBSET Nat
    OBVIOUS
  <2>. HIDE DEF Tops
  <2>. QED  BY <1>1, <2>1, LeastNumber
<1>3. k \in Nat /\ \A y \in s : y <= k
  OBVIOUS
<1>4. k \in s
  <2>. SUFFICES ASSUME k \notin s PROVE FALSE
    OBVIOUS
  <2>1. PICK y \in s : TRUE
    OBVIOUS
  <2>2. k - 1 \in Tops
    BY <1>3, <2>1
  <2>. QED  BY <1>2, <1>3, <2>2
<1>5. \A y \in s : k >= y
  BY <1>3
<1>. QED  BY <1>4, <1>5 DEF Max

\* One value of the recursion behind a left fold: T is applied to the value
\* for the smaller positions and to the greatest one.
Recurs(it, b, T, s) == it[s] = IF s = {} THEN b ELSE T[it[s \ {Max(s)}], Max(s)]

(* The recursion behind a left fold over positions 1 .. n exists when the  *)
(* step function T stays within X.                                         *)
LEMMA PassExists ==
  ASSUME NEW X, NEW n \in Nat, NEW b \in X, NEW T \in [X \X (1 .. n) -> X]
  PROVE  \E it \in [SUBSET (1 .. n) -> X] :
           \A s \in SUBSET (1 .. n) : Recurs(it, b, T, s)
<1> DEFINE D == SUBSET (1 .. n)
           Good(it, s) == it[s] = IF s = {} THEN b ELSE T[it[s \ {Max(s)}], Max(s)]
           Upto(k) == \E it \in [D -> X] : \A s \in D : s \subseteq 1 .. k => Good(it, s)
           A == {k \in 0 .. n : Upto(k)}
<1>1. 0 \in A
  <2> DEFINE z == [s \in D |-> b]
  <2>1. z \in [D -> X]
    OBVIOUS
  <2>2. ASSUME NEW s \in D, s \subseteq 1 .. 0 PROVE Good(z, s)
    <3>1. s = {}
      BY <2>2
    <3>2. z[s] = b
      BY Zenon
    <3>. HIDE DEF z
    <3>. QED  BY <3>1, <3>2
  <2>. HIDE DEF z
  <2>3. Upto(0)
    BY <2>1, <2>2
  <2>. HIDE DEF Upto
  <2>. QED  BY <2>3
<1>2. ASSUME NEW k \in 0 .. n - 1, Upto(k) PROVE Upto(k + 1)
  <2>1. PICK it \in [D -> X] : \A s \in D : s \subseteq 1 .. k => Good(it, s)
    BY <1>2
  <2> DEFINE g == [s \in D |-> IF s \subseteq 1 .. k THEN it[s] ELSE T[it[s \ {Max(s)}], Max(s)]]
  <2>2. ASSUME NEW s \in D, s # {}
        PROVE  /\ Max(s) \in 1 .. n /\ s \ {Max(s)} \in D
               /\ s \subseteq 1 .. k + 1 => s \ {Max(s)} \subseteq 1 .. k
    <3>1. Max(s) \in s /\ \A y \in s : Max(s) >= y
      BY <2>2, MaxIs
    <3>2. ASSUME s \subseteq 1 .. k + 1, NEW y \in s, y # Max(s) PROVE y \in 1 .. k
      <4> DEFINE m == Max(s)
      <4>1. m \in 1 .. k + 1 /\ y \in 1 .. k + 1 /\ m >= y /\ y # m
        BY <3>1, <3>2
      <4>. HIDE DEF m
      <4>. QED  BY <4>1
    <3>. QED  BY <3>1, <3>2
  <2>3. g \in [D -> X]
    <3>. SUFFICES ASSUME NEW s \in D PROVE (IF s \subseteq 1 .. k THEN it[s] ELSE T[it[s \ {Max(s)}], Max(s)]) \in X
      BY Zenon
    <3>1. CASE s \subseteq 1 .. k
      BY <3>1
    <3>2. CASE ~(s \subseteq 1 .. k)
      <4>1. s # {}
        BY <3>2
      <4>2. Max(s) \in 1 .. n /\ it[s \ {Max(s)}] \in X
        BY <2>2, <4>1
      <4>. QED  BY <3>2, <4>2
    <3>. QED  BY <3>1, <3>2
  <2>4. ASSUME NEW s \in D, s \subseteq 1 .. k + 1 PROVE Good(g, s)
    <3>1. CASE s = {}
      BY <2>1, <3>1
    <3>2. CASE s # {}
      <4>1. s \ {Max(s)} \in D /\ s \ {Max(s)} \subseteq 1 .. k
        BY <2>2, <2>4, <3>2
      <4>2. g[s \ {Max(s)}] = it[s \ {Max(s)}]
        BY <4>1
      <4>3. g[s] = T[it[s \ {Max(s)}], Max(s)]
        BY <2>1, <3>2
      <4>. QED  BY <3>2, <4>2, <4>3
    <3>. QED  BY <3>1, <3>2
  <2>. QED  BY <2>3, <2>4
<1>3. ASSUME NEW k \in 1 .. n, k - 1 \in A PROVE k \in A
  <2>. HIDE DEF Upto
  <2>1. k - 1 \in 0 .. n - 1 /\ Upto(k - 1) /\ (k - 1) + 1 = k
    BY <1>3
  <2>2. Upto((k - 1) + 1)
    BY <1>2, <2>1
  <2>. QED  BY <2>1, <2>2
<1>4. n \in A
  <2>. HIDE DEF A
  <2>1. \A k \in 0 .. n : k \in A
    BY <1>1, <1>3, Reached
  <2>. QED  BY <2>1
<1>. QED  BY <1>4 DEF Recurs

(* The positions up to i, and the last of them.                            *)
LEMMA Positions ==
  ASSUME NEW n \in Nat, NEW i \in 1 .. n
  PROVE  1 .. i \in SUBSET (1 .. n) /\ 1 .. i # {} /\ Max(1 .. i) = i /\ (1 .. i) \ {i} = 1 .. i - 1
<1>1. 1 .. i \in SUBSET (1 .. n) /\ i \in 1 .. i /\ (1 .. i) \ {i} = 1 .. i - 1
  OBVIOUS
<1> DEFINE m == Max(1 .. i)
<1>2. m \in 1 .. i /\ \A y \in 1 .. i : m >= y
  BY <1>1, MaxIs
<1>. HIDE DEF m
<1>3. m = i
  BY <1>1, <1>2
<1>. QED  BY <1>1, <1>3 DEF m

\* The recursion as far as it is known: where the value for the smaller
\* positions lies in X.
RecursIn(it, b, T, X, n) ==
    /\ it[{}] = b
    /\ \A s \in SUBSET (1 .. n) :
         s # {} /\ it[s \ {Max(s)}] \in X => it[s] = T[it[s \ {Max(s)}], Max(s)]

\* The values a pass takes on its way, r[i] after i paths.
Visits(r, b, T, n) == r[0] = b /\ \A i \in 1 .. n : r[i] = T[r[i - 1], i]
EndsIn(b, T, X, n, v) == \E r \in [0 .. n -> X] : Visits(r, b, T, n) /\ r[n] = v

(* The result of the recursion is the last of the values a pass takes.     *)
LEMMA PassRuns ==
  ASSUME NEW X, NEW n \in Nat, NEW b \in X, NEW T \in [X \X (1 .. n) -> X], NEW it,
         RecursIn(it, b, T, X, n)
  PROVE  EndsIn(b, T, X, n, it[1 .. n])
<1> DEFINE r == [i \in 0 .. n |-> it[1 .. i]]
           A == {i \in 0 .. n : it[1 .. i] \in X}
<1>1. 1 .. 0 = {}
  OBVIOUS
<1>2. ASSUME NEW i \in 1 .. n, it[1 .. i - 1] \in X
      PROVE  it[1 .. i] = T[it[1 .. i - 1], i] /\ it[1 .. i] \in X
  <2>1. 1 .. i \in SUBSET (1 .. n) /\ 1 .. i # {} /\ Max(1 .. i) = i /\ (1 .. i) \ {i} = 1 .. i - 1
    BY Positions
  <2>2. it[1 .. i] = T[it[(1 .. i) \ {Max(1 .. i)}], Max(1 .. i)]
    BY <1>2, <2>1, Zenon DEF RecursIn
  <2>3. it[1 .. i] = T[it[1 .. i - 1], i]
    BY <2>1, <2>2, Zenon
  <2>. QED  BY <1>2, <2>3
<1>0. 0 \in 0 .. n /\ n \in 0 .. n /\ it[1 .. 0] = b
  <2>1. it[{}] = b
    BY Zenon DEF RecursIn
  <2>2. 0 \in 0 .. n /\ n \in 0 .. n
    OBVIOUS
  <2>. QED  BY <1>1, <2>1, <2>2, Zenon
<1>3. 0 \in A /\ \A i \in 1 .. n : i - 1 \in A => i \in A
  <2>1. 0 \in A
    BY <1>0
  <2>2. ASSUME NEW i \in 1 .. n, i - 1 \in A PROVE i \in A
    <3>1. it[1 .. i - 1] \in X /\ i \in 0 .. n
      BY <2>2
    <3>2. it[1 .. i] \in X
      BY <1>2, <3>1, Zenon
    <3>. QED  BY <3>1, <3>2, Zenon
  <2>. QED  BY <2>1, <2>2
<1>4. \A i \in 0 .. n : it[1 .. i] \in X
  <2>1. \A i \in 0 .. n : i \in A
    <3>. HIDE DEF A
    <3>. QED  BY <1>3, Reached
  <2>. QED  BY <2>1
<1>5. r \in [0 .. n -> X]
  BY <1>4
<1>6. r[0] = b /\ r[n] = it[1 .. n]
  BY <1>0
<1>7. ASSUME NEW i \in 1 .. n PROVE r[i] = T[r[i - 1], i]
  <2>1. i - 1 \in 0 .. n /\ i \in 0 .. n
    OBVIOUS
  <2>2. it[1 .. i] = T[it[1 .. i - 1], i]
    BY <1>2, <1>4, <2>1
  <2>. QED  BY <2>1, <2>2
<1>. HIDE DEF r
<1>. QED  BY <1>5, <1>6, <1>7 DEF Visits, EndsIn

-----------------------------------------------------------------------------
(* The cheapest path.                                                      *)

(* The pass of set_cheapest_explore over the list for the cheapest path.   *)
LEMMA TotalPass ==
  ASSUME NEW S, pathlist \in Seq(S)
  PROVE  \E r \in [0 .. Len(pathlist) -> S \cup {NoPath}] :
           /\ r[0] = NoPath /\ r[Len(pathlist)] = CheapestTotal
           /\ \A i \in 1 .. Len(pathlist) : r[i] = KeepCheaper(r[i - 1], pathlist[i])
<1> DEFINE n == Len(pathlist)
           X == S \cup {NoPath}
           T == [x \in X \X (1 .. n) |-> KeepCheaper(x[1], pathlist[x[2]])]
           Step(it, s) == IF s = {} THEN NoPath ELSE KeepCheaper(it[s \ {Max(s)}], pathlist[Max(s)])
           fold == CHOOSE it : it = [s \in SUBSET DOMAIN pathlist |-> Step(it, s)]
<1>1. n \in Nat /\ DOMAIN pathlist = 1 .. n
  OBVIOUS
<1>2. CheapestTotal = fold[DOMAIN pathlist]
  BY DEF CheapestTotal, FoldLeft, MapThenFoldSet
<1>3. \A v \in X, i \in 1 .. n : KeepCheaper(v, pathlist[i]) \in X
  BY DEF KeepCheaper
<1>4. /\ T \in [X \X (1 .. n) -> X]
      /\ \A v \in X, i \in 1 .. n : T[v, i] = KeepCheaper(v, pathlist[i])
  <2>. HIDE DEF n, X
  <2>. QED  BY <1>3
<1>. HIDE DEF T
<1>5. \E it : it = [s \in SUBSET DOMAIN pathlist |-> Step(it, s)]
  <2>1. PICK it \in [SUBSET (1 .. n) -> X] : \A s \in SUBSET (1 .. n) : Recurs(it, NoPath, T, s)
    <3>1. NoPath \in X /\ T \in [X \X (1 .. n) -> X] /\ n \in Nat
      BY <1>1, <1>4
    <3>. HIDE DEF n, X
    <3>. QED  BY <3>1, PassExists
  <2>2. ASSUME NEW s \in SUBSET (1 .. n) PROVE it[s] = Step(it, s)
    <3>1. CASE s = {}
      BY <2>1, <3>1 DEF Recurs
    <3>2. CASE s # {}
      <4>1. Max(s) \in 1 .. n
        BY <1>1, <3>2, MaxIs
      <4>2. it[s \ {Max(s)}] \in X
        OBVIOUS
      <4>. HIDE DEF X, n
      <4>. QED  BY <1>4, <2>1, <3>2, <4>1, <4>2 DEF Recurs
    <3>. QED  BY <3>1, <3>2
  <2>3. it = [s \in SUBSET (1 .. n) |-> Step(it, s)]
    <3>. HIDE DEF Step, X
    <3>. QED  BY <2>2
  <2>. HIDE DEF Step
  <2>. QED  BY <1>1, <2>3
<1>6. fold = [s \in SUBSET DOMAIN pathlist |-> Step(fold, s)]
  <2>. HIDE DEF Step
  <2>. QED  BY <1>5
<1>. HIDE DEF fold
<1>7. \A s \in SUBSET (1 .. n) : fold[s] = Step(fold, s)
  <2>. HIDE DEF Step
  <2>. QED  BY <1>1, <1>6
<1>8. fold[{}] = NoPath
  BY <1>7
<1>9. ASSUME NEW s \in SUBSET (1 .. n), s # {}, fold[s \ {Max(s)}] \in X
      PROVE  fold[s] = T[fold[s \ {Max(s)}], Max(s)]
  <2>1. Max(s) \in 1 .. n
    BY <1>1, <1>9, MaxIs
  <2>. HIDE DEF X, n
  <2>. QED  BY <1>4, <1>7, <1>9, <2>1
<1>10. PICK r \in [0 .. n -> X] : Visits(r, NoPath, T, n) /\ r[n] = fold[1 .. n]
  <2>1. NoPath \in X /\ T \in [X \X (1 .. n) -> X] /\ n \in Nat
    BY <1>1, <1>4
  <2>2. RecursIn(fold, NoPath, T, X, n)
    BY <1>8, <1>9 DEF RecursIn
  <2>. HIDE DEF n, X
  <2>3. EndsIn(NoPath, T, X, n, fold[1 .. n])
    BY <2>1, <2>2, PassRuns
  <2>. QED  BY <2>3 DEF EndsIn
<1>11. ASSUME NEW i \in 1 .. n PROVE r[i] = KeepCheaper(r[i - 1], pathlist[i])
  <2>1. r[i - 1] \in X
    BY <1>1
  <2>. HIDE DEF n, X
  <2>. QED  BY <1>4, <1>10, <2>1 DEF Visits
<1>. QED  BY <1>1, <1>2, <1>10, <1>11 DEF Visits

\* The unparameterized paths among the first i.
Free(i) == {j \in 1 .. i : pathlist[j].outer = {}}

(* The pass ends with an unparameterized path of the list that no other    *)
(* one is cheaper than, if there is one.                                   *)
LEMMA LeastTotal ==
  ASSUME rel \in Rels, pathlist \in Seq(rel.paths)
  PROVE  /\ Free(Len(pathlist)) = {} => CheapestTotal = NoPath
         /\ Free(Len(pathlist)) # {} =>
              \E m \in Free(Len(pathlist)) :
                /\ CheapestTotal = pathlist[m]
                /\ \A j \in Free(Len(pathlist)) : ~Cheaper(pathlist[j], pathlist[m])
<1> DEFINE n == Len(pathlist)
<1>1. n \in Nat
  OBVIOUS
<1>2. \A i \in 1 .. n : /\ pathlist[i] # NoPath
                        /\ pathlist[i].total \in Nat /\ pathlist[i].startup \in Nat
  <2>. SUFFICES ASSUME NEW i \in 1 .. n
                PROVE  /\ pathlist[i] # NoPath
                       /\ pathlist[i].total \in Nat /\ pathlist[i].startup \in Nat
    OBVIOUS
  <2>1. pathlist[i] \in rel.paths
    OBVIOUS
  <2>. QED  BY <2>1, PathFacts
<1>3. PICK r \in [0 .. n -> rel.paths \cup {NoPath}] :
        /\ r[0] = NoPath /\ r[n] = CheapestTotal
        /\ \A i \in 1 .. n : r[i] = KeepCheaper(r[i - 1], pathlist[i])
  BY TotalPass
<1> DEFINE Least(i) == \/ Free(i) = {} /\ r[i] = NoPath
                       \/ \E m \in Free(i) : /\ r[i] = pathlist[m]
                                              /\ \A j \in Free(i) : ~Cheaper(pathlist[j], pathlist[m])
           A == {i \in 0 .. n : Least(i)}
<1>. HIDE DEF n
<1>4. 0 \in A
  <2>1. Free(0) = {}
    BY DEF Free
  <2>2. Least(0)
    BY <1>3, <2>1
  <2>. HIDE DEF Least
  <2>. QED  BY <1>1, <2>2
<1>5. ASSUME NEW i \in 1 .. n, i - 1 \in A PROVE i \in A
  <2>1. r[i] = KeepCheaper(r[i - 1], pathlist[i]) /\ pathlist[i] # NoPath
    BY <1>2, <1>3
  <2>2. /\ i \in 0 .. n /\ Free(i - 1) \subseteq 1 .. n
        /\ Free(i) = IF pathlist[i].outer = {} THEN Free(i - 1) \cup {i} ELSE Free(i - 1)
    BY <1>1 DEF Free
  <2>3. Least(i - 1)
    BY <1>5
  <2>4. CASE pathlist[i].outer # {}
    <3>1. r[i] = r[i - 1] /\ Free(i) = Free(i - 1)
      BY <2>1, <2>2, <2>4 DEF KeepCheaper
    <3>2. Least(i)
      BY <2>3, <3>1
    <3>. QED  BY <2>2, <3>2
  <2>5. CASE pathlist[i].outer = {} /\ Free(i - 1) = {}
    <3>1. r[i - 1] = NoPath
      BY <2>3, <2>5
    <3>2. r[i] = pathlist[i] /\ Free(i) = {i}
      BY <2>1, <2>2, <2>5, <3>1 DEF KeepCheaper
    <3>3. ~Cheaper(pathlist[i], pathlist[i])
      BY <1>2 DEF Cheaper
    <3>4. Least(i)
      BY <3>2, <3>3
    <3>. QED  BY <2>2, <3>4
  <2>6. CASE pathlist[i].outer = {} /\ Free(i - 1) # {}
    <3>1. PICK m \in Free(i - 1) : /\ r[i - 1] = pathlist[m]
                                  /\ \A j \in Free(i - 1) : ~Cheaper(pathlist[j], pathlist[m])
      BY <2>3, <2>6
    <3>2. m \in 1 .. n /\ pathlist[m] # NoPath
      BY <1>2, <2>2
    <3>3. Free(i) = Free(i - 1) \cup {i}
      BY <2>2, <2>6
    <3>4. CASE Cheaper(pathlist[i], pathlist[m]) \/ SameCosts(pathlist[i], pathlist[m])
      <4>1. ASSUME NEW j \in Free(i) PROVE ~Cheaper(pathlist[j], pathlist[i])
        <5>1. CASE j = i
          BY <1>2, <5>1 DEF Cheaper
        <5>2. CASE j \in Free(i - 1)
          <6>1. j \in 1 .. n /\ ~Cheaper(pathlist[j], pathlist[m])
            BY <2>2, <3>1, <5>2
          <6>. QED  BY <1>2, <3>2, <3>4, <6>1, SMTT(40) DEF Cheaper, SameCosts
        <5>. QED  BY <3>3, <5>1, <5>2
      <4>2. \A j \in Free(i - 1) : ~Cheaper(pathlist[j], pathlist[m])
        BY <3>1
      <4>3. ~Cheaper(pathlist[i], pathlist[m]) => \A j \in Free(i) : ~Cheaper(pathlist[j], pathlist[m])
        BY <3>3, <4>2
      <4>4. r[i] = pathlist[i] \/ (r[i] = pathlist[m] /\ ~Cheaper(pathlist[i], pathlist[m]))
        BY <2>1, <2>6, <3>1, <3>2 DEF KeepCheaper
      <4>5. Least(i)
        <5>. HIDE DEF n
        <5>. QED  BY <3>3, <4>1, <4>3, <4>4, Zenon
      <4>. QED  BY <2>2, <4>5
    <3>5. CASE ~(Cheaper(pathlist[i], pathlist[m]) \/ SameCosts(pathlist[i], pathlist[m]))
      <4>1. r[i] = pathlist[m]
        BY <2>1, <3>1, <3>2, <3>5 DEF KeepCheaper
      <4>2. \A j \in Free(i) : ~Cheaper(pathlist[j], pathlist[m])
        BY <3>1, <3>3, <3>5
      <4>3. Least(i)
        BY <3>3, <4>1, <4>2, Zenon
      <4>. QED  BY <2>2, <4>3
    <3>. QED  BY <3>4, <3>5
  <2>. QED  BY <2>4, <2>5, <2>6
<1>6. n \in A
  <2>. HIDE DEF A
  <2>1. \A i \in 0 .. n : i \in A
    BY <1>1, <1>4, <1>5, Reached
  <2>. QED  BY <1>1, <2>1
<1>7. Least(n)
  BY <1>6
<1>. QED  BY <1>3, <1>7 DEF n

(* When no path is parameterized, this is a path of the list of the least  *)
(* total cost.                                                             *)
LEMMA LeastOfAll ==
  ASSUME rel \in Rels, pathlist \in Seq(rel.paths), pathlist # <<>>,
         \A p \in ToSet(pathlist) : p.outer = {}
  PROVE  /\ CheapestTotal \in ToSet(pathlist)
         /\ \A q \in ToSet(pathlist) : CheapestTotal.total <= q.total
<1> DEFINE n == Len(pathlist)
<1>1. n \in Nat /\ 1 \in 1 .. n /\ DOMAIN pathlist = 1 .. n
  OBVIOUS
<1>2. ToSet(pathlist) = {pathlist[i] : i \in 1 .. n} /\ \A i \in 1 .. n : pathlist[i] \in rel.paths
  BY <1>1 DEF ToSet
<1>3. Free(n) = 1 .. n
  BY <1>2 DEF Free
<1>. HIDE DEF n
<1>4. PICK m \in 1 .. n : /\ CheapestTotal = pathlist[m]
                          /\ \A j \in 1 .. n : ~Cheaper(pathlist[j], pathlist[m])
  BY <1>1, <1>3, LeastTotal DEF n
<1>5. ASSUME NEW j \in 1 .. n PROVE pathlist[m].total <= pathlist[j].total
  <2>1. pathlist[m].total \in Nat /\ pathlist[j].total \in Nat
    BY <1>2, PathFacts
  <2>. QED  BY <1>4, <2>1 DEF Cheaper
<1>. QED  BY <1>2, <1>4, <1>5

-----------------------------------------------------------------------------
(* The path for a fraction of the tuples.                                  *)

\* The results of the two passes of get_cheapest_explore_fractional_path.
BestPassEnd(c, f)      == FoldLeft(LAMBDA best, p : KeepBest(best, p, f), c, pathlist)
PreferredPassEnd(c, f) == FoldLeft(LAMBDA q, p : KeepPreferred(c, q, p, f), c, pathlist)

(* The first pass of get_cheapest_explore_fractional_path.                 *)
LEMMA BestPass ==
  ASSUME NEW S, pathlist \in Seq(S), NEW c \in S, NEW f
  PROVE  \E r \in [0 .. Len(pathlist) -> S] :
           /\ r[0] = c
           /\ r[Len(pathlist)] = BestPassEnd(c, f)
           /\ \A i \in 1 .. Len(pathlist) : r[i] = KeepBest(r[i - 1], pathlist[i], f)
<1> DEFINE n == Len(pathlist)
           X == S
           T == [x \in X \X (1 .. n) |-> KeepBest(x[1], pathlist[x[2]], f)]
           Step(it, s) == IF s = {} THEN c ELSE KeepBest(it[s \ {Max(s)}], pathlist[Max(s)], f)
           fold == CHOOSE it : it = [s \in SUBSET DOMAIN pathlist |-> Step(it, s)]
<1>1. n \in Nat /\ DOMAIN pathlist = 1 .. n
  OBVIOUS
<1>2. BestPassEnd(c, f) = fold[DOMAIN pathlist]
  BY DEF BestPassEnd, FoldLeft, MapThenFoldSet
<1>3. \A v \in X, i \in 1 .. n : KeepBest(v, pathlist[i], f) \in X
  BY DEF KeepBest
<1>4. /\ T \in [X \X (1 .. n) -> X]
      /\ \A v \in X, i \in 1 .. n : T[v, i] = KeepBest(v, pathlist[i], f)
  <2>. HIDE DEF n, X
  <2>. QED  BY <1>3
<1>. HIDE DEF T
<1>5. \E it : it = [s \in SUBSET DOMAIN pathlist |-> Step(it, s)]
  <2>1. PICK it \in [SUBSET (1 .. n) -> X] : \A s \in SUBSET (1 .. n) : Recurs(it, c, T, s)
    <3>1. c \in X /\ T \in [X \X (1 .. n) -> X] /\ n \in Nat
      BY <1>1, <1>4
    <3>. HIDE DEF n, X
    <3>. QED  BY <3>1, PassExists
  <2>2. ASSUME NEW s \in SUBSET (1 .. n) PROVE it[s] = Step(it, s)
    <3>1. CASE s = {}
      BY <2>1, <3>1 DEF Recurs
    <3>2. CASE s # {}
      <4>1. Max(s) \in 1 .. n
        BY <1>1, <3>2, MaxIs
      <4>2. it[s \ {Max(s)}] \in X
        OBVIOUS
      <4>. HIDE DEF X, n
      <4>. QED  BY <1>4, <2>1, <3>2, <4>1, <4>2 DEF Recurs
    <3>. QED  BY <3>1, <3>2
  <2>3. it = [s \in SUBSET (1 .. n) |-> Step(it, s)]
    <3>. HIDE DEF Step, X
    <3>. QED  BY <2>2
  <2>. HIDE DEF Step
  <2>. QED  BY <1>1, <2>3
<1>6. fold = [s \in SUBSET DOMAIN pathlist |-> Step(fold, s)]
  <2>. HIDE DEF Step
  <2>. QED  BY <1>5
<1>. HIDE DEF fold
<1>7. \A s \in SUBSET (1 .. n) : fold[s] = Step(fold, s)
  <2>. HIDE DEF Step
  <2>. QED  BY <1>1, <1>6
<1>8. fold[{}] = c
  BY <1>7
<1>9. ASSUME NEW s \in SUBSET (1 .. n), s # {}, fold[s \ {Max(s)}] \in X
      PROVE  fold[s] = T[fold[s \ {Max(s)}], Max(s)]
  <2>1. Max(s) \in 1 .. n
    BY <1>1, <1>9, MaxIs
  <2>. HIDE DEF X, n
  <2>. QED  BY <1>4, <1>7, <1>9, <2>1
<1>10. PICK r \in [0 .. n -> X] : Visits(r, c, T, n) /\ r[n] = fold[1 .. n]
  <2>1. c \in X /\ T \in [X \X (1 .. n) -> X] /\ n \in Nat
    BY <1>1, <1>4
  <2>2. RecursIn(fold, c, T, X, n)
    BY <1>8, <1>9 DEF RecursIn
  <2>. HIDE DEF n, X
  <2>3. EndsIn(c, T, X, n, fold[1 .. n])
    BY <2>1, <2>2, PassRuns
  <2>. QED  BY <2>3 DEF EndsIn
<1>11. ASSUME NEW i \in 1 .. n PROVE r[i] = KeepBest(r[i - 1], pathlist[i], f)
  <2>1. r[i - 1] \in X
    BY <1>1
  <2>. HIDE DEF n, X
  <2>. QED  BY <1>4, <1>10, <2>1 DEF Visits
<1>. QED  BY <1>1, <1>2, <1>10, <1>11 DEF Visits

(* Its second pass, with c the path the first one found.                   *)
LEMMA PreferredPass ==
  ASSUME NEW S, pathlist \in Seq(S), NEW c \in S, NEW f
  PROVE  \E r \in [0 .. Len(pathlist) -> S] :
           /\ r[0] = c
           /\ r[Len(pathlist)] = PreferredPassEnd(c, f)
           /\ \A i \in 1 .. Len(pathlist) : r[i] = KeepPreferred(c, r[i - 1], pathlist[i], f)
<1> DEFINE n == Len(pathlist)
           X == S
           T == [x \in X \X (1 .. n) |-> KeepPreferred(c, x[1], pathlist[x[2]], f)]
           Step(it, s) == IF s = {} THEN c ELSE KeepPreferred(c, it[s \ {Max(s)}], pathlist[Max(s)], f)
           fold == CHOOSE it : it = [s \in SUBSET DOMAIN pathlist |-> Step(it, s)]
<1>1. n \in Nat /\ DOMAIN pathlist = 1 .. n
  OBVIOUS
<1>2. PreferredPassEnd(c, f) = fold[DOMAIN pathlist]
  BY DEF PreferredPassEnd, FoldLeft, MapThenFoldSet
<1>3. \A v \in X, i \in 1 .. n : KeepPreferred(c, v, pathlist[i], f) \in X
  BY DEF KeepPreferred
<1>4. /\ T \in [X \X (1 .. n) -> X]
      /\ \A v \in X, i \in 1 .. n : T[v, i] = KeepPreferred(c, v, pathlist[i], f)
  <2>. HIDE DEF n, X
  <2>. QED  BY <1>3
<1>. HIDE DEF T
<1>5. \E it : it = [s \in SUBSET DOMAIN pathlist |-> Step(it, s)]
  <2>1. PICK it \in [SUBSET (1 .. n) -> X] : \A s \in SUBSET (1 .. n) : Recurs(it, c, T, s)
    <3>1. c \in X /\ T \in [X \X (1 .. n) -> X] /\ n \in Nat
      BY <1>1, <1>4
    <3>. HIDE DEF n, X
    <3>. QED  BY <3>1, PassExists
  <2>2. ASSUME NEW s \in SUBSET (1 .. n) PROVE it[s] = Step(it, s)
    <3>1. CASE s = {}
      BY <2>1, <3>1 DEF Recurs
    <3>2. CASE s # {}
      <4>1. Max(s) \in 1 .. n
        BY <1>1, <3>2, MaxIs
      <4>2. it[s \ {Max(s)}] \in X
        OBVIOUS
      <4>. HIDE DEF X, n
      <4>. QED  BY <1>4, <2>1, <3>2, <4>1, <4>2 DEF Recurs
    <3>. QED  BY <3>1, <3>2
  <2>3. it = [s \in SUBSET (1 .. n) |-> Step(it, s)]
    <3>. HIDE DEF Step, X
    <3>. QED  BY <2>2
  <2>. HIDE DEF Step
  <2>. QED  BY <1>1, <2>3
<1>6. fold = [s \in SUBSET DOMAIN pathlist |-> Step(fold, s)]
  <2>. HIDE DEF Step
  <2>. QED  BY <1>5
<1>. HIDE DEF fold
<1>7. \A s \in SUBSET (1 .. n) : fold[s] = Step(fold, s)
  <2>. HIDE DEF Step
  <2>. QED  BY <1>1, <1>6
<1>8. fold[{}] = c
  BY <1>7
<1>9. ASSUME NEW s \in SUBSET (1 .. n), s # {}, fold[s \ {Max(s)}] \in X
      PROVE  fold[s] = T[fold[s \ {Max(s)}], Max(s)]
  <2>1. Max(s) \in 1 .. n
    BY <1>1, <1>9, MaxIs
  <2>. HIDE DEF X, n
  <2>. QED  BY <1>4, <1>7, <1>9, <2>1
<1>10. PICK r \in [0 .. n -> X] : Visits(r, c, T, n) /\ r[n] = fold[1 .. n]
  <2>1. c \in X /\ T \in [X \X (1 .. n) -> X] /\ n \in Nat
    BY <1>1, <1>4
  <2>2. RecursIn(fold, c, T, X, n)
    BY <1>8, <1>9 DEF RecursIn
  <2>. HIDE DEF n, X
  <2>3. EndsIn(c, T, X, n, fold[1 .. n])
    BY <2>1, <2>2, PassRuns
  <2>. QED  BY <2>3 DEF EndsIn
<1>11. ASSUME NEW i \in 1 .. n PROVE r[i] = KeepPreferred(c, r[i - 1], pathlist[i], f)
  <2>1. r[i - 1] \in X
    BY <1>1
  <2>. HIDE DEF n, X
  <2>. QED  BY <1>4, <1>10, <2>1 DEF Visits
<1>. QED  BY <1>1, <1>2, <1>10, <1>11 DEF Visits

(* The cost of a fraction of the tuples is a number, and that of all       *)
(* tuples is ordered like the total cost.                                  *)
LEMMA CostFacts ==
  ASSUME NEW r \in Rels, NEW f \in Fractions
  PROVE  /\ \A p \in r.paths : Cost(p, f) \in Nat
         /\ f.num = 0 => \A p, q \in r.paths : p.total <= q.total => Cost(p, f) <= Cost(q, f)
<1>1. f.num \in Nat /\ f.den \in Nat /\ f.num < f.den
  BY PathAssumption
<1>2. \A a, b \in Nat : a * b \in Nat
  OBVIOUS
<1>3. \A u, t, a, b \in Nat : a < b => u * b + a * (t - u) \in Nat
  <2>. SUFFICES ASSUME NEW u \in Nat, NEW t \in Nat, NEW a \in Nat, NEW b \in Nat, a < b
                PROVE  u * b + a * (t - u) \in Nat
    OBVIOUS
  <2>1. b - a \in Nat
    OBVIOUS
  <2>2. u * b + a * (t - u) = u * (b - a) + a * t
    OBVIOUS
  <2>3. u * (b - a) \in Nat /\ a * t \in Nat
    BY <1>2, <2>1
  <2>. QED  BY <2>2, <2>3
<1>4. \A a, b, d \in Nat : a <= b => a * d <= b * d
  <2>. SUFFICES ASSUME NEW a \in Nat, NEW b \in Nat, NEW d \in Nat, a <= b PROVE a * d <= b * d
    OBVIOUS
  <2>1. b - a \in Nat /\ (b - a) * d \in Nat
    BY <1>2
  <2>2. b * d = a * d + (b - a) * d
    OBVIOUS
  <2>. QED  BY <1>2, <2>1, <2>2
<1>5. ASSUME NEW p \in r.paths PROVE Cost(p, f) \in Nat
  <2>1. p.startup \in Nat /\ p.total \in Nat
    BY PathFacts
  <2>2. p.total * f.den \in Nat /\ p.startup * f.den + f.num * (p.total - p.startup) \in Nat
    BY <1>1, <1>2, <1>3, <2>1
  <2>. QED  BY <2>2 DEF Cost
<1>6. ASSUME f.num = 0, NEW p \in r.paths, NEW q \in r.paths, p.total <= q.total
      PROVE  Cost(p, f) <= Cost(q, f)
  <2>1. p.total \in Nat /\ q.total \in Nat
    BY PathFacts
  <2>2. p.total * f.den <= q.total * f.den
    BY <1>1, <1>4, <1>6, <2>1
  <2>. QED  BY <1>6, <2>2 DEF Cost
<1>. QED  BY <1>5, <1>6

\* Of the unparameterized paths, what set_cheapest_explore saved is the
\* cheapest.
CheapestHeld ==
    /\ cheapest.total \in ToSet(pathlist)
    /\ \A q \in ToSet(pathlist) : cheapest.total.total <= q.total

(* The first pass finds a path of the least cost for the fraction.         *)
LEMMA BestIsLeast ==
  ASSUME rel \in Rels, pathlist \in Seq(rel.paths), CheapestHeld, NEW f \in Fractions
  PROVE  /\ BestFor(f) \in ToSet(pathlist)
         /\ \A q \in ToSet(pathlist) : Cost(BestFor(f), f) <= Cost(q, f)
<1> DEFINE n == Len(pathlist)
           P == ToSet(pathlist)
           c == cheapest.total
<1>1. n \in Nat /\ DOMAIN pathlist = 1 .. n /\ pathlist \in Seq(P)
  BY DEF ToSet
<1>2. P = {pathlist[i] : i \in 1 .. n} /\ P \subseteq rel.paths
  BY <1>1 DEF ToSet
<1>3. c \in P /\ \A q \in P : c.total <= q.total
  BY DEF CheapestHeld
<1>4. \A p \in P : Cost(p, f) \in Nat
  BY <1>2, CostFacts
<1>5. CASE f.num = 0
  <2>1. \A q \in P : Cost(c, f) <= Cost(q, f)
    BY <1>2, <1>3, <1>5, CostFacts
  <2>. QED  BY <1>3, <1>5, <2>1 DEF BestFor
<1>6. CASE f.num # 0
  <2>1. PICK r \in [0 .. n -> P] :
          /\ r[0] = c
          /\ r[n] = BestPassEnd(c, f)
          /\ \A i \in 1 .. n : r[i] = KeepBest(r[i - 1], pathlist[i], f)
    <3>1. pathlist \in Seq(P) /\ c \in P
      BY <1>1, <1>3
    <3>. HIDE DEF P, c
    <3>. QED  BY <3>1, BestPass
  <2>2. BestFor(f) = r[n]
    BY <1>6, <2>1 DEF BestFor, BestPassEnd
  <2>. HIDE DEF n, P
  <2> DEFINE Least(i) == /\ Cost(r[i], f) <= Cost(c, f)
                         /\ \A j \in 1 .. i : Cost(r[i], f) <= Cost(pathlist[j], f)
             A == {i \in 0 .. n : Least(i)}
  <2>3. 0 \in A
    <3>1. Cost(c, f) \in Nat
      BY <1>3, <1>4
    <3>2. Cost(r[0], f) <= Cost(c, f)
      BY <2>1, <3>1
    <3>3. Least(0)
      BY <3>2
    <3>. QED  BY <1>1, <3>3
  <2>4. ASSUME NEW i \in 1 .. n, i - 1 \in A PROVE i \in A
    <3>1. /\ Cost(r[i - 1], f) <= Cost(c, f)
          /\ \A j \in 1 .. i - 1 : Cost(r[i - 1], f) <= Cost(pathlist[j], f)
      BY <2>4
    <3>2. i - 1 \in 0 .. n /\ i \in 0 .. n /\ (\A j \in 1 .. i : j = i \/ j \in 1 .. i - 1)
          /\ \A j \in 1 .. i : j \in 1 .. n
      BY <1>1
    <3>3. /\ Cost(r[i - 1], f) \in Nat /\ Cost(c, f) \in Nat
          /\ \A j \in 1 .. n : Cost(pathlist[j], f) \in Nat
      BY <1>2, <1>3, <1>4, <3>2
    <3>4. r[i] = KeepBest(r[i - 1], pathlist[i], f)
      BY <2>1
    <3>. HIDE DEF c
    <3>5. CASE pathlist[i] # c /\ Cost(pathlist[i], f) < Cost(r[i - 1], f)
      <4>1. r[i] = pathlist[i]
        BY <3>4, <3>5 DEF KeepBest, c
      <4>2. Least(i)
        BY <3>1, <3>2, <3>3, <3>5, <4>1
      <4>. QED  BY <3>2, <4>2
    <3>6. CASE ~(pathlist[i] # c /\ Cost(pathlist[i], f) < Cost(r[i - 1], f))
      <4>1. r[i] = r[i - 1]
        BY <3>4, <3>6 DEF KeepBest, c
      <4>2. Cost(r[i - 1], f) <= Cost(pathlist[i], f)
        BY <3>1, <3>2, <3>3, <3>6
      <4>3. Least(i)
        BY <3>1, <3>2, <4>1, <4>2
      <4>. QED  BY <3>2, <4>3
    <3>. QED  BY <3>5, <3>6
  <2>5. Least(n)
    <3>1. \A i \in 0 .. n : i \in A
      <4>. HIDE DEF A
      <4>. QED  BY <1>1, <2>3, <2>4, Reached
    <3>2. n \in A
      BY <1>1, <3>1
    <3>. QED  BY <3>2
  <2>6. r[n] \in P
    BY <1>1
  <2>7. \A q \in P : Cost(r[n], f) <= Cost(q, f)
    BY <1>2, <2>5
  <2>. QED  BY <2>2, <2>6, <2>7 DEF P
<1>. QED  BY <1>5, <1>6

\* p is at least as good as q for the planner: it explores more, or as much
\* at no more cost.
AsGood(p, q, f) == q.ev < p.ev \/ (q.ev = p.ev /\ Cost(p, f) <= Cost(q, f))

(* The second pass ends with a path that is eligible and as good as every  *)
(* eligible one.                                                           *)
LEMMA PreferredIsBest ==
  ASSUME rel \in Rels, pathlist \in Seq(rel.paths), NEW f \in Fractions,
         NEW c \in ToSet(pathlist)
  PROVE  /\ PreferredPassEnd(c, f) \in ToSet(pathlist)
         /\ Eligible(PreferredPassEnd(c, f), c, f)
         /\ \A q \in ToSet(pathlist) : Eligible(q, c, f) => AsGood(PreferredPassEnd(c, f), q, f)
<1> DEFINE n == Len(pathlist)
           P == ToSet(pathlist)
<1>1. n \in Nat /\ DOMAIN pathlist = 1 .. n /\ pathlist \in Seq(P)
  BY DEF ToSet
<1>2. P = {pathlist[i] : i \in 1 .. n} /\ P \subseteq rel.paths
  BY <1>1 DEF ToSet
<1>3. \A p \in P : Cost(p, f) \in Nat /\ p.ev \in Nat
  BY <1>2, CostFacts, PathFacts
<1>4. PICK r \in [0 .. n -> P] :
        /\ r[0] = c /\ r[n] = PreferredPassEnd(c, f)
        /\ \A i \in 1 .. n : r[i] = KeepPreferred(c, r[i - 1], pathlist[i], f)
  <2>1. pathlist \in Seq(P) /\ c \in P
    BY <1>1
  <2>. HIDE DEF P
  <2>. QED  BY <2>1, PreferredPass
<1>. HIDE DEF n, P
<1> DEFINE Best(i) == /\ Eligible(r[i], c, f)
                      /\ \A j \in 1 .. i : Eligible(pathlist[j], c, f) => AsGood(r[i], pathlist[j], f)
           A == {i \in 0 .. n : Best(i)}
<1>5. 0 \in A
  <2>1. Cost(c, f) \in Nat /\ c.ev \in Nat
    BY <1>3 DEF P
  <2>2. Eligible(c, c, f)
    BY <2>1 DEF Eligible, Exceeds, GEN_RATE
  <2>3. Eligible(r[0], c, f)
    BY <1>4, <2>2
  <2>4. Best(0)
    BY <2>3
  <2>. QED  BY <1>1, <2>4
<1>6. ASSUME NEW i \in 1 .. n, i - 1 \in A PROVE i \in A
  <2>1. /\ Eligible(r[i - 1], c, f)
        /\ \A j \in 1 .. i - 1 : Eligible(pathlist[j], c, f) => AsGood(r[i - 1], pathlist[j], f)
    BY <1>6
  <2>2. /\ i - 1 \in 0 .. n /\ i \in 0 .. n
        /\ \A j \in 1 .. i : j \in 1 .. n /\ (j = i \/ j \in 1 .. i - 1)
    BY <1>1
  <2>3. Cost(r[i - 1], f) \in Nat /\ r[i - 1].ev \in Nat
    BY <1>3, <2>2
  <2>4. \A j \in 1 .. n : Cost(pathlist[j], f) \in Nat /\ pathlist[j].ev \in Nat
    BY <1>2, <1>3
  <2>5. r[i] = KeepPreferred(c, r[i - 1], pathlist[i], f)
    BY <1>4
  <2>6. CASE Eligible(pathlist[i], c, f) /\ Preferred(pathlist[i], r[i - 1], f)
    <3>1. r[i] = pathlist[i]
      BY <2>5, <2>6 DEF KeepPreferred
    <3>2. AsGood(pathlist[i], r[i - 1], f)
      BY <2>3, <2>4, <2>6 DEF Preferred, AsGood
    <3>3. ASSUME NEW j \in 1 .. i, Eligible(pathlist[j], c, f)
          PROVE  AsGood(pathlist[i], pathlist[j], f)
      <4>1. CASE j = i
        BY <2>4, <4>1 DEF AsGood
      <4>2. CASE j \in 1 .. i - 1
        <5>1. AsGood(r[i - 1], pathlist[j], f)
          BY <2>1, <3>3, <4>2
        <5>2. Cost(pathlist[j], f) \in Nat /\ pathlist[j].ev \in Nat
          BY <2>2, <2>4
        <5>. QED  BY <2>3, <2>4, <3>2, <5>1, <5>2 DEF AsGood
      <4>. QED  BY <2>2, <4>1, <4>2
    <3>4. Best(i)
      BY <2>6, <3>1, <3>3
    <3>. QED  BY <2>2, <3>4
  <2>7. CASE ~(Eligible(pathlist[i], c, f) /\ Preferred(pathlist[i], r[i - 1], f))
    <3>1. r[i] = r[i - 1]
      BY <2>5, <2>7 DEF KeepPreferred
    <3>2. Eligible(pathlist[i], c, f) => AsGood(r[i - 1], pathlist[i], f)
      BY <2>3, <2>4, <2>7 DEF Preferred, AsGood
    <3>3. ASSUME NEW j \in 1 .. i, Eligible(pathlist[j], c, f) PROVE AsGood(r[i - 1], pathlist[j], f)
      <4>1. CASE j = i
        BY <3>2, <3>3, <4>1
      <4>2. CASE j \in 1 .. i - 1
        BY <2>1, <3>3, <4>2
      <4>. QED  BY <2>2, <4>1, <4>2
    <3>4. Best(i)
      BY <2>1, <3>1, <3>3
    <3>. QED  BY <2>2, <3>4
  <2>. QED  BY <2>6, <2>7
<1>7. Best(n)
  <2>1. \A i \in 0 .. n : i \in A
    <3>. HIDE DEF A
    <3>. QED  BY <1>1, <1>5, <1>6, Reached
  <2>2. n \in A
    BY <1>1, <2>1
  <2>. QED  BY <2>2
<1>8. r[n] \in P
  BY <1>1
<1>9. \A q \in P : Eligible(q, c, f) => AsGood(r[n], q, f)
  BY <1>2, <1>7
<1>. QED  BY <1>4, <1>7, <1>8, <1>9 DEF P

(* What the two passes choose is within the rate of every path, and as     *)
(* good as every path that is.                                             *)
LEMMA ChoiceIsBest ==
  ASSUME rel \in Rels, pathlist \in Seq(rel.paths), CheapestHeld, NEW f \in Fractions
  PROVE  LET within == {q \in ToSet(pathlist) :
                          \A r \in ToSet(pathlist) : ~Exceeds(Cost(q, f), Cost(r, f), GEN_RATE)}
         IN /\ PathFor(f) \in within
            /\ \A q \in within : AsGood(PathFor(f), q, f)
<1> DEFINE P == ToSet(pathlist)
           b == BestFor(f)
           p == PathFor(f)
           within == {q \in P : \A r \in P : ~Exceeds(Cost(q, f), Cost(r, f), GEN_RATE)}
<1>1. P \subseteq rel.paths
  BY DEF ToSet
<1>2. \A q \in P : Cost(q, f) \in Nat /\ q.ev \in Nat
  BY <1>1, CostFacts, PathFacts
<1>3. b \in P /\ \A q \in P : Cost(b, f) <= Cost(q, f)
  BY BestIsLeast
<1>4. p = PreferredPassEnd(b, f)
  BY DEF PathFor, PreferredPassEnd
<1>5. p \in P /\ Eligible(p, b, f) /\ \A q \in P : Eligible(q, b, f) => AsGood(p, q, f)
  <2>. HIDE DEF b, p
  <2>. QED  BY <1>3, <1>4, PreferredIsBest
<1>. HIDE DEF P, b, p
<1>6. ASSUME NEW r \in P PROVE ~Exceeds(Cost(p, f), Cost(r, f), GEN_RATE)
  <2>1. Cost(b, f) \in Nat /\ Cost(p, f) \in Nat /\ Cost(r, f) \in Nat /\ Cost(b, f) <= Cost(r, f)
    BY <1>2, <1>3, <1>5
  <2>2. ~Exceeds(Cost(p, f), Cost(b, f), GEN_RATE)
    BY <1>5 DEF Eligible
  <2>. QED  BY <2>1, <2>2 DEF Exceeds, GEN_RATE
<1>7. ASSUME NEW q \in within PROVE AsGood(p, q, f)
  <2>1. q \in P /\ ~Exceeds(Cost(q, f), Cost(b, f), GEN_RATE)
    BY <1>3
  <2>2. q.ev \in Nat /\ b.ev \in Nat /\ p.ev \in Nat /\ p.ev >= b.ev
    BY <1>2, <1>3, <1>5, <2>1 DEF Eligible
  <2>3. CASE q.ev >= b.ev
    BY <1>5, <2>1, <2>3 DEF Eligible
  <2>4. CASE q.ev < b.ev
    BY <2>2, <2>4 DEF AsGood
  <2>. QED  BY <2>2, <2>3, <2>4
<1>. QED  BY <1>5, <1>6, <1>7 DEF P, p

\* From set_cheapest_explore on the list is fixed.
ChoiceInv ==
    /\ cheapest # NoPath => /\ new_path = NoPath
                            /\ (\A p \in ToSet(pathlist) : p.outer = {}) => CheapestHeld
    /\ chosen # NoPath => cheapest # NoPath
    /\ ChosenIsBest

(* Every step keeps the choice.                                            *)
LEMMA ChoiceStep ==
  ASSUME TypeInv, ChoiceInv, [Next]_vars
  PROVE  ChoiceInv'
<1>1. rel \in Rels /\ pathlist \in Seq(rel.paths)
  BY DEF TypeInv
<1>2. ASSUME cheapest = NoPath, cheapest' = NoPath, chosen' = chosen PROVE ChoiceInv'
  BY <1>2 DEF ChoiceInv, ChosenIsBest
<1>3. ASSUME NEW p \in rel.paths, SubmitPath(p) PROVE ChoiceInv'
  BY <1>2, <1>3 DEF SubmitPath, Idle
<1>4. ASSUME new_path # NoPath, cheapest' = cheapest, chosen' = chosen PROVE ChoiceInv'
  <2>1. cheapest = NoPath
    BY <1>4 DEF ChoiceInv
  <2>. QED  BY <1>2, <1>4, <2>1
<1>5. CASE RemoveOldPath \/ RejectNewPath \/ KeepBothPaths \/ AcceptNewPath
  BY <1>4, <1>5 DEF RemoveOldPath, RejectNewPath, KeepBothPaths, AcceptNewPath, Scanning
<1>6. CASE SetCheapest
  <2>1. /\ new_path' = NoPath /\ pathlist' = pathlist /\ chosen' = chosen /\ chosen = NoPath
        /\ pathlist # <<>>
    BY <1>6 DEF SetCheapest, Idle, ChoiceInv
  <2>2. (IF CheapestTotal = NoPath THEN BestParam ELSE CheapestTotal) = cheapest'.total
    BY <1>6 DEF SetCheapest
  <2>3. ASSUME \A p \in ToSet(pathlist) : p.outer = {} PROVE CheapestHeld'
    <3>1. /\ CheapestTotal \in ToSet(pathlist)
          /\ \A q \in ToSet(pathlist) : CheapestTotal.total <= q.total
      BY <1>1, <2>1, <2>3, LeastOfAll
    <3>2. CheapestTotal # NoPath
      <4>1. CheapestTotal \in rel.paths
        BY <1>1, <3>1 DEF ToSet
      <4>. QED  BY <1>1, <4>1, PathFacts
    <3>3. cheapest'.total = CheapestTotal
      BY <2>2, <3>2
    <3>. QED  BY <2>1, <3>1, <3>3 DEF CheapestHeld
  <2>4. cheapest' # NoPath \/ chosen' = NoPath
    BY <2>1
  <2>. QED  BY <2>1, <2>3, <2>4 DEF ChoiceInv, ChosenIsBest
<1>7. ASSUME NEW f \in Fractions, ChoosePath(f) PROVE ChoiceInv'
  <2>1. /\ cheapest # NoPath /\ cheapest' = cheapest /\ pathlist' = pathlist /\ new_path' = new_path
        /\ \A p \in ToSet(pathlist) : p.outer = {}
        /\ chosen' = [path |-> PathFor(f), fraction |-> f]
    BY <1>7 DEF ChoosePath
  <2>2. CheapestHeld /\ new_path = NoPath
    BY <2>1 DEF ChoiceInv
  <2>3. chosen'.path = PathFor(f) /\ chosen'.fraction = f
    BY <2>1
  <2>4. LET within == {q \in ToSet(pathlist) :
                         \A r \in ToSet(pathlist) : ~Exceeds(Cost(q, f), Cost(r, f), GEN_RATE)}
        IN /\ PathFor(f) \in within
           /\ \A q \in within : AsGood(PathFor(f), q, f)
    BY <1>1, <2>2, ChoiceIsBest
  <2>5. ChosenIsBest'
    BY <2>1, <2>3, <2>4 DEF ChosenIsBest, AsGood
  <2>6. CheapestHeld'
    BY <2>1, <2>2 DEF CheapestHeld
  <2>. QED  BY <2>1, <2>2, <2>5, <2>6 DEF ChoiceInv
<1>8. CASE UNCHANGED vars
  BY <1>8 DEF vars, ChoiceInv, ChosenIsBest, CheapestHeld
<1>. QED  BY <1>3, <1>5, <1>6, <1>7, <1>8 DEF Next

(* The plan is within the rate of the cheapest for the fraction of tuples  *)
(* asked for, and nothing within the rate explores more, or as much at     *)
(* less cost: set_cheapest_explore and the two passes of                   *)
(* get_cheapest_explore_fractional_path agree, whatever the paths.         *)
THEOREM BestIsChosen == Spec => []ChosenIsBest
<1>1. Init => ChoiceInv
  BY DEF Init, ChoiceInv, ChosenIsBest
<1>2. SortInv /\ ChoiceInv /\ [Next]_vars => ChoiceInv'
  BY ChoiceStep DEF SortInv
<1>3. ChoiceInv => ChosenIsBest
  BY DEF ChoiceInv
<1>. QED  BY <1>1, <1>2, <1>3, SortInvariant, PTL DEF Spec

-----------------------------------------------------------------------------
(***************************************************************************)
(* The list that set_cheapest_explore builds in one pass, for any paths of *)
(* a relation: exactly the unparameterized paths that no other one         *)
(* outshines on cost and explore value.                                    *)
(***************************************************************************)

(* The cheapest path to start.                                             *)

(* The pass of set_cheapest_explore for the cheapest one to start.         *)
LEMMA StartupPass ==
  ASSUME NEW S, pathlist \in Seq(S)
  PROVE  \E r \in [0 .. Len(pathlist) -> S \cup {NoPath}] :
           /\ r[0] = NoPath /\ r[Len(pathlist)] = CheapestStartup
           /\ \A i \in 1 .. Len(pathlist) : r[i] = KeepSooner(r[i - 1], pathlist[i])
<1> DEFINE n == Len(pathlist)
           X == S \cup {NoPath}
           T == [x \in X \X (1 .. n) |-> KeepSooner(x[1], pathlist[x[2]])]
           Step(it, s) == IF s = {} THEN NoPath ELSE KeepSooner(it[s \ {Max(s)}], pathlist[Max(s)])
           fold == CHOOSE it : it = [s \in SUBSET DOMAIN pathlist |-> Step(it, s)]
<1>1. n \in Nat /\ DOMAIN pathlist = 1 .. n
  OBVIOUS
<1>2. CheapestStartup = fold[DOMAIN pathlist]
  BY DEF CheapestStartup, FoldLeft, MapThenFoldSet
<1>3. \A v \in X, i \in 1 .. n : KeepSooner(v, pathlist[i]) \in X
  BY SMTT(40) DEF KeepSooner
<1>4. /\ T \in [X \X (1 .. n) -> X]
      /\ \A v \in X, i \in 1 .. n : T[v, i] = KeepSooner(v, pathlist[i])
  <2>. HIDE DEF n, X
  <2>. QED  BY <1>3
<1>. HIDE DEF T
<1>5. \E it : it = [s \in SUBSET DOMAIN pathlist |-> Step(it, s)]
  <2>1. PICK it \in [SUBSET (1 .. n) -> X] : \A s \in SUBSET (1 .. n) : Recurs(it, NoPath, T, s)
    <3>1. NoPath \in X /\ T \in [X \X (1 .. n) -> X] /\ n \in Nat
      BY <1>1, <1>4
    <3>. HIDE DEF n, X
    <3>. QED  BY <3>1, PassExists
  <2>2. ASSUME NEW s \in SUBSET (1 .. n) PROVE it[s] = Step(it, s)
    <3>1. CASE s = {}
      BY <2>1, <3>1 DEF Recurs
    <3>2. CASE s # {}
      <4>1. Max(s) \in 1 .. n
        BY <1>1, <3>2, MaxIs
      <4>2. it[s \ {Max(s)}] \in X
        OBVIOUS
      <4>. HIDE DEF X, n
      <4>. QED  BY <1>4, <2>1, <3>2, <4>1, <4>2 DEF Recurs
    <3>. QED  BY <3>1, <3>2
  <2>3. it = [s \in SUBSET (1 .. n) |-> Step(it, s)]
    <3>. HIDE DEF Step, X
    <3>. QED  BY <2>2
  <2>. HIDE DEF Step
  <2>. QED  BY <1>1, <2>3
<1>6. fold = [s \in SUBSET DOMAIN pathlist |-> Step(fold, s)]
  <2>. HIDE DEF Step
  <2>. QED  BY <1>5
<1>. HIDE DEF fold
<1>7. \A s \in SUBSET (1 .. n) : fold[s] = Step(fold, s)
  <2>. HIDE DEF Step
  <2>. QED  BY <1>1, <1>6
<1>8. fold[{}] = NoPath
  BY <1>7
<1>9. ASSUME NEW s \in SUBSET (1 .. n), s # {}, fold[s \ {Max(s)}] \in X
      PROVE  fold[s] = T[fold[s \ {Max(s)}], Max(s)]
  <2>1. Max(s) \in 1 .. n
    BY <1>1, <1>9, MaxIs
  <2>. HIDE DEF X, n
  <2>. QED  BY <1>4, <1>7, <1>9, <2>1
<1>10. PICK r \in [0 .. n -> X] : Visits(r, NoPath, T, n) /\ r[n] = fold[1 .. n]
  <2>1. NoPath \in X /\ T \in [X \X (1 .. n) -> X] /\ n \in Nat
    BY <1>1, <1>4
  <2>2. RecursIn(fold, NoPath, T, X, n)
    BY <1>8, <1>9 DEF RecursIn
  <2>. HIDE DEF n, X
  <2>3. EndsIn(NoPath, T, X, n, fold[1 .. n])
    BY <2>1, <2>2, PassRuns
  <2>. QED  BY <2>3 DEF EndsIn
<1>11. ASSUME NEW i \in 1 .. n PROVE r[i] = KeepSooner(r[i - 1], pathlist[i])
  <2>1. r[i - 1] \in X
    BY <1>1
  <2>. HIDE DEF n, X
  <2>. QED  BY <1>4, <1>10, <2>1 DEF Visits
<1>. QED  BY <1>1, <1>2, <1>10, <1>11 DEF Visits

(* When no path is unparameterized the pass for the startup cost finds     *)
(* none.                                                                   *)
LEMMA NoStartup ==
  ASSUME NEW S, pathlist \in Seq(S), \A i \in 1 .. Len(pathlist) : pathlist[i].outer # {}
  PROVE  CheapestStartup = NoPath
<1> DEFINE n == Len(pathlist)
<1>1. n \in Nat
  OBVIOUS
<1>2. PICK r \in [0 .. n -> S \cup {NoPath}] :
        /\ r[0] = NoPath /\ r[n] = CheapestStartup
        /\ \A i \in 1 .. n : r[i] = KeepSooner(r[i - 1], pathlist[i])
  BY StartupPass
<1> DEFINE A == {i \in 0 .. n : r[i] = NoPath}
<1>3. \A i \in 1 .. n : r[i] = r[i - 1] /\ i \in 0 .. n
  BY <1>1, <1>2 DEF KeepSooner
<1>. HIDE DEF n
<1>4. 0 \in A /\ \A i \in 1 .. n : i - 1 \in A => i \in A
  BY <1>1, <1>2, <1>3
<1>5. \A i \in 0 .. n : i \in A
  <2>. HIDE DEF A
  <2>. QED  BY <1>1, <1>4, Reached
<1>. QED  BY <1>1, <1>2, <1>5

-----------------------------------------------------------------------------
(* The list that balances cost and explore value.                          *)

(* Nothing is selected from no positions.                                  *)
LEMMA SelectsNone ==
  ASSUME NEW s
  PROVE  Selects(<<>>, s, {})
<1> DEFINE e == [i \in {} |-> i]
<1>1. DOMAIN <<>> = {}
  OBVIOUS
<1>2. e \in [{} -> DOMAIN s]
  OBVIOUS
<1>. QED  BY <1>1, <1>2 DEF Selects

(* A later element can be appended to a selection.                         *)
LEMMA SelectsAppend ==
  ASSUME NEW S, NEW r \in Seq(S), NEW s \in Seq(S), NEW I, Selects(r, s, I),
         NEW k \in 1 .. Len(s), \A i \in I : i < k
  PROVE  Append(r, s[k]) \in Seq(S) /\ Selects(Append(r, s[k]), s, I \cup {k})
<1> DEFINE n == Len(r)
           a == Append(r, s[k])
<1>1. n \in Nat /\ DOMAIN r = 1 .. n /\ DOMAIN s = 1 .. Len(s) /\ Len(s) \in Nat
  OBVIOUS
<1>2. /\ a \in Seq(S) /\ DOMAIN a = 1 .. n + 1 /\ a[n + 1] = s[k]
      /\ \A i \in 1 .. n : a[i] = r[i]
  OBVIOUS
<1>3. PICK e \in [1 .. n -> 1 .. Len(s)] :
        /\ \A i, j \in 1 .. n : i < j => e[i] < e[j]
        /\ {e[i] : i \in 1 .. n} = I
        /\ \A i \in 1 .. n : r[i] = s[e[i]]
  BY <1>1 DEF Selects
<1> DEFINE g == [i \in 1 .. n + 1 |-> IF i = n + 1 THEN k ELSE e[i]]
<1>. HIDE DEF n, a
<1>4. \A i \in 1 .. n + 1 : i = n + 1 \/ (i # n + 1 /\ i \in 1 .. n)
  BY <1>1
<1>5. /\ g \in [1 .. n + 1 -> 1 .. Len(s)] /\ g[n + 1] = k
      /\ \A i \in 1 .. n : g[i] = e[i] /\ i \in 1 .. n + 1
  BY <1>1, <1>4
<1>. HIDE DEF g
<1>6. \A i \in 1 .. n : e[i] \in I
  BY <1>3
<1>7. ASSUME NEW i \in 1 .. n + 1, NEW j \in 1 .. n + 1, i < j PROVE g[i] < g[j]
  <2>1. i \in 1 .. n /\ e[i] < k
    BY <1>1, <1>6, <1>7
  <2>2. CASE j = n + 1
    BY <1>5, <2>1, <2>2
  <2>3. CASE j \in 1 .. n
    BY <1>3, <1>5, <1>7, <2>1, <2>3
  <2>. QED  BY <1>4, <2>2, <2>3
<1>8. {g[i] : i \in 1 .. n + 1} = I \cup {k}
  <2>1. ASSUME NEW x \in I \cup {k} PROVE \E i \in 1 .. n + 1 : x = g[i]
    <3>1. CASE x = k
      BY <1>1, <1>5, <3>1
    <3>2. CASE x \in I
      <4>1. PICK i \in 1 .. n : x = e[i]
        BY <1>3, <3>2
      <4>. QED  BY <1>5, <4>1
    <3>. QED  BY <3>1, <3>2
  <2>2. ASSUME NEW i \in 1 .. n + 1 PROVE g[i] \in I \cup {k}
    BY <1>4, <1>5, <1>6
  <2>. QED  BY <2>1, <2>2
<1>9. \A i \in 1 .. n + 1 : a[i] = s[g[i]]
  BY <1>2, <1>3, <1>4, <1>5
<1>10. Selects(a, s, I \cup {k})
  BY <1>1, <1>2, <1>5, <1>7, <1>8, <1>9, ZenonT(40) DEF Selects
<1>. QED  BY <1>2, <1>10 DEF a

\* The positions among I of elements of s in V.
Among(I, s, V) == {i \in I : s[i] \in V}

(* What is selected by its value from a selection is selected by its value *)
(* from the whole.                                                         *)
LEMMA SelectsFilter ==
  ASSUME NEW S, NEW r \in Seq(S), NEW s \in Seq(S), NEW t \in Seq(S), NEW I, NEW V,
         Selects(r, s, I), Selects(t, r, Among(1 .. Len(r), r, V))
  PROVE  Selects(t, s, Among(I, s, V))
<1> DEFINE n == Len(r)
           m == Len(t)
           J == {j \in 1 .. n : r[j] \in V}
<1>1. /\ n \in Nat /\ DOMAIN r = 1 .. n /\ DOMAIN s = 1 .. Len(s) /\ Len(s) \in Nat
      /\ m \in Nat /\ DOMAIN t = 1 .. m
  OBVIOUS
<1>2. PICK e \in [1 .. n -> 1 .. Len(s)] :
        /\ \A i, j \in 1 .. n : i < j => e[i] < e[j]
        /\ {e[i] : i \in 1 .. n} = I
        /\ \A i \in 1 .. n : r[i] = s[e[i]]
  BY <1>1 DEF Selects
<1>3. PICK d \in [1 .. m -> 1 .. n] :
        /\ \A i, j \in 1 .. m : i < j => d[i] < d[j]
        /\ {d[i] : i \in 1 .. m} = J
        /\ \A i \in 1 .. m : t[i] = r[d[i]]
  BY <1>1 DEF Selects, Among
<1> DEFINE g == [i \in 1 .. m |-> e[d[i]]]
<1>. HIDE DEF n, m
<1>4. g \in [1 .. m -> 1 .. Len(s)] /\ \A i \in 1 .. m : g[i] = e[d[i]]
  BY <1>2, <1>3
<1>. HIDE DEF g
<1>5. ASSUME NEW i \in 1 .. m, NEW j \in 1 .. m, i < j PROVE g[i] < g[j]
  <2>1. d[i] \in 1 .. n /\ d[j] \in 1 .. n /\ d[i] < d[j]
    BY <1>3, <1>5
  <2>2. e[d[i]] < e[d[j]]
    BY <1>2, <2>1
  <2>. QED  BY <1>4, <2>2
<1>6. ASSUME NEW i \in 1 .. m PROVE t[i] = s[g[i]] /\ g[i] \in I /\ s[g[i]] \in V
  <2>1. d[i] \in 1 .. n /\ d[i] \in J
    BY <1>3
  <2>2. r[d[i]] = s[e[d[i]]] /\ e[d[i]] \in I /\ r[d[i]] \in V
    BY <1>2, <2>1
  <2>. QED  BY <1>3, <1>4, <2>2
<1>7. ASSUME NEW x \in I, s[x] \in V PROVE \E i \in 1 .. m : x = g[i]
  <2>1. PICK j \in 1 .. n : x = e[j]
    BY <1>2
  <2>2. j \in J
    BY <1>2, <1>7, <2>1
  <2>3. PICK i \in 1 .. m : j = d[i]
    BY <1>3, <2>2
  <2>. QED  BY <1>4, <2>1, <2>3
<1>8. {g[i] : i \in 1 .. m} = {i \in I : s[i] \in V}
  BY <1>6, <1>7
<1>. QED  BY <1>1, <1>4, <1>5, <1>6, <1>8, ZenonT(40) DEF Selects, Among

(* To outshine is a strict order on the paths.                             *)
LEMMA OutshinesOrder ==
  ASSUME rel \in Rels, NEW p \in rel.paths, NEW q \in rel.paths, NEW o \in rel.paths
  PROVE  ~Outshines(p, p) /\ (Outshines(p, q) /\ Outshines(q, o) => Outshines(p, o))
<1>1. \A x \in {p, q, o} : x.total \in Nat /\ x.startup \in Nat /\ x.ev \in Nat
  BY PathFacts
<1>. QED  BY <1>1 DEF Outshines, Cheaper, SameCosts

\* The scan of the list for one more path.
Scans(S)         == [kept : Seq(S), addnew : BOOLEAN]
ScanStart        == [kept |-> <<>>, addnew |-> TRUE]
ScanEnd(list, p) == FoldLeft(LAMBDA s, q : ScanListed(s, q, p), ScanStart, list)
ScanRuns(S, list, p) ==
    \E r \in [0 .. Len(list) -> Scans(S)] :
      /\ r[0] = ScanStart /\ r[Len(list)] = ScanEnd(list, p)
      /\ \A i \in 1 .. Len(list) : r[i] = ScanListed(r[i - 1], list[i], p)

(* The scan, listed path by listed path.                                   *)
LEMMA ScanPass ==
  ASSUME NEW S, NEW list \in Seq(S), NEW p
  PROVE  ScanRuns(S, list, p)
<1> DEFINE n == Len(list)
           X == Scans(S)
           T == [x \in X \X (1 .. n) |-> ScanListed(x[1], list[x[2]], p)]
           Step(it, s) == IF s = {} THEN ScanStart ELSE ScanListed(it[s \ {Max(s)}], list[Max(s)], p)
           fold == CHOOSE it : it = [s \in SUBSET DOMAIN list |-> Step(it, s)]
<1>1. n \in Nat /\ DOMAIN list = 1 .. n /\ ScanStart \in X
  BY DEF ScanStart, Scans
<1>2. ScanEnd(list, p) = fold[DOMAIN list]
  BY DEF ScanEnd, FoldLeft, MapThenFoldSet
<1>3. \A v \in X, i \in 1 .. n : ScanListed(v, list[i], p) \in X
  BY DEF ScanListed, Scans
<1>4. /\ T \in [X \X (1 .. n) -> X]
      /\ \A v \in X, i \in 1 .. n : T[v, i] = ScanListed(v, list[i], p)
  <2>. HIDE DEF n, X
  <2>. QED  BY <1>3
<1>. HIDE DEF T
<1>5. \E it : it = [s \in SUBSET DOMAIN list |-> Step(it, s)]
  <2>1. PICK it \in [SUBSET (1 .. n) -> X] : \A s \in SUBSET (1 .. n) : Recurs(it, ScanStart, T, s)
    <3>1. ScanStart \in X /\ T \in [X \X (1 .. n) -> X] /\ n \in Nat
      BY <1>1, <1>4
    <3>. HIDE DEF n, X
    <3>. QED  BY <3>1, PassExists
  <2>2. ASSUME NEW s \in SUBSET (1 .. n) PROVE it[s] = Step(it, s)
    <3>1. CASE s = {}
      BY <2>1, <3>1 DEF Recurs
    <3>2. CASE s # {}
      <4>1. Max(s) \in 1 .. n
        BY <1>1, <3>2, MaxIs
      <4>2. it[s \ {Max(s)}] \in X
        OBVIOUS
      <4>. HIDE DEF X, n
      <4>. QED  BY <1>4, <2>1, <3>2, <4>1, <4>2 DEF Recurs
    <3>. QED  BY <3>1, <3>2
  <2>3. it = [s \in SUBSET (1 .. n) |-> Step(it, s)]
    <3>. HIDE DEF Step, X
    <3>. QED  BY <2>2
  <2>. HIDE DEF Step
  <2>. QED  BY <1>1, <2>3
<1>6. fold = [s \in SUBSET DOMAIN list |-> Step(fold, s)]
  <2>. HIDE DEF Step
  <2>. QED  BY <1>5
<1>. HIDE DEF fold
<1>7. \A s \in SUBSET (1 .. n) : fold[s] = Step(fold, s)
  <2>. HIDE DEF Step
  <2>. QED  BY <1>1, <1>6
<1>8. fold[{}] = ScanStart
  BY <1>7
<1>9. ASSUME NEW s \in SUBSET (1 .. n), s # {}, fold[s \ {Max(s)}] \in X
      PROVE  fold[s] = T[fold[s \ {Max(s)}], Max(s)]
  <2>1. Max(s) \in 1 .. n
    BY <1>1, <1>9, MaxIs
  <2>. HIDE DEF X, n
  <2>. QED  BY <1>4, <1>7, <1>9, <2>1
<1>10. PICK r \in [0 .. n -> X] : Visits(r, ScanStart, T, n) /\ r[n] = fold[1 .. n]
  <2>1. ScanStart \in X /\ T \in [X \X (1 .. n) -> X] /\ n \in Nat
    BY <1>1, <1>4
  <2>2. RecursIn(fold, ScanStart, T, X, n)
    BY <1>8, <1>9 DEF RecursIn
  <2>. HIDE DEF n, X
  <2>3. EndsIn(ScanStart, T, X, n, fold[1 .. n])
    BY <2>1, <2>2, PassRuns
  <2>. QED  BY <2>3 DEF EndsIn
<1>11. ASSUME NEW i \in 1 .. n PROVE r[i] = ScanListed(r[i - 1], list[i], p)
  <2>1. r[i - 1] \in X
    BY <1>1
  <2>. HIDE DEF n, X
  <2>. QED  BY <1>4, <1>10, <2>1 DEF Visits
<1>. QED  BY <1>1, <1>2, <1>10, <1>11 DEF Visits, ScanRuns

\* What the scan for p makes of the list.
Separates(list, p) ==
    \A i, j \in 1 .. Len(list) : Outshines(list[i], p) => ~Outshines(p, list[j])
ScanIsRight(S, list, p) ==
    /\ ScanEnd(list, p) \in Scans(S)
    /\ ScanEnd(list, p).addnew <=> \A j \in 1 .. Len(list) : ~Outshines(list[j], p)
    /\ Selects(ScanEnd(list, p).kept, list, {j \in 1 .. Len(list) : ~Outshines(p, list[j])})

(* If no listed path that outshines p is listed with one that p outshines, *)
(* the scan keeps those that p does not outshine, and p is to be added if  *)
(* none outshines it.                                                      *)
LEMMA ScanSelects ==
  ASSUME NEW S, NEW list \in Seq(S), NEW p, Separates(list, p)
  PROVE  ScanIsRight(S, list, p)
<1> DEFINE n == Len(list)
           Kept(i) == {j \in 1 .. i : ~Outshines(p, list[j])}
<1>1. n \in Nat
  OBVIOUS
<1>2. PICK r \in [0 .. n -> Scans(S)] :
        /\ r[0] = ScanStart /\ r[n] = ScanEnd(list, p)
        /\ \A i \in 1 .. n : r[i] = ScanListed(r[i - 1], list[i], p)
  <2>1. ScanRuns(S, list, p)
    BY ScanPass
  <2>. QED  BY <2>1 DEF ScanRuns
<1> DEFINE Good(i) == /\ r[i].addnew <=> \A j \in 1 .. i : ~Outshines(list[j], p)
                      /\ Selects(r[i].kept, list, Kept(i))
           A == {i \in 0 .. n : Good(i)}
<1>. HIDE DEF n
<1>3. 0 \in A
  <2>1. r[0].addnew = TRUE /\ r[0].kept = <<>>
    BY <1>2 DEF ScanStart
  <2>2. Kept(0) = {} /\ 1 .. 0 = {}
    OBVIOUS
  <2>3. Selects(r[0].kept, list, Kept(0))
    BY <2>1, <2>2, SelectsNone
  <2>4. Good(0)
    BY <2>1, <2>2, <2>3
  <2>. HIDE DEF Good
  <2>. QED  BY <1>1, <2>4
<1>4. ASSUME NEW i \in 1 .. n, i - 1 \in A PROVE i \in A
  <2>1. Good(i - 1)
    BY <1>4
  <2>2. /\ r[i - 1] \in Scans(S) /\ i \in 0 .. n /\ 1 .. i = (1 .. i - 1) \cup {i} /\ 1 .. i \subseteq 1 .. n
        /\ \A j \in 1 .. i - 1 : j < i
    BY <1>1
  <2>3. /\ r[i].kept = IF r[i - 1].addnew /\ Outshines(p, list[i]) THEN r[i - 1].kept
                                                      ELSE Append(r[i - 1].kept, list[i])
        /\ r[i].addnew = (r[i - 1].addnew /\ ~Outshines(list[i], p))
    <3>1. r[i] = ScanListed(r[i - 1], list[i], p)
      BY <1>2
    <3> DEFINE s == r[i - 1]
               q == list[i]
    <3>2. /\ ScanListed(s, q, p).kept = IF s.addnew /\ Outshines(p, q) THEN s.kept ELSE Append(s.kept, q)
          /\ ScanListed(s, q, p).addnew = (s.addnew /\ ~Outshines(q, p))
      <4>. HIDE DEF s, q
      <4>. QED  BY DEF ScanListed
    <3>. QED  BY <3>1, <3>2
  <2>4. r[i].addnew <=> \A j \in 1 .. i : ~Outshines(list[j], p)
    BY <2>1, <2>2, <2>3
  <2>5. CASE Outshines(p, list[i])
    <3>1. Kept(i) = Kept(i - 1)
      BY <2>2, <2>5
    <3>2. \A j \in 1 .. i - 1 : ~Outshines(list[j], p)
      BY <2>2, <2>5 DEF n, Separates
    <3>3. r[i].kept = r[i - 1].kept
      BY <2>1, <2>3, <2>5, <3>2
    <3>4. Selects(r[i].kept, list, Kept(i))
      BY <2>1, <3>1, <3>3
    <3>. QED  BY <2>2, <2>4, <3>4
  <2>6. CASE ~Outshines(p, list[i])
    <3>1. Kept(i) = Kept(i - 1) \cup {i}
      BY <2>2, <2>6
    <3>2. r[i].kept = Append(r[i - 1].kept, list[i])
      BY <2>3, <2>6
    <3>3. /\ r[i - 1].kept \in Seq(S) /\ Selects(r[i - 1].kept, list, Kept(i - 1)) /\ i \in 1 .. Len(list)
          /\ \A j \in Kept(i - 1) : j < i
      BY <2>1, <2>2 DEF Scans, n
    <3>4. Selects(r[i].kept, list, Kept(i))
      <4> DEFINE k == r[i - 1].kept
                 I == Kept(i - 1)
      <4>. HIDE DEF k, I
      <4>1. k \in Seq(S) /\ Selects(k, list, I) /\ i \in 1 .. Len(list) /\ \A j \in I : j < i
        BY <3>3 DEF k, I
      <4>2. Selects(Append(k, list[i]), list, I \cup {i})
        BY <4>1, SelectsAppend
      <4>. QED  BY <3>1, <3>2, <4>2 DEF k, I
    <3>. QED  BY <2>2, <2>4, <3>4
  <2>. QED  BY <2>5, <2>6
<1>5. n \in A
  <2>. HIDE DEF A
  <2>1. \A i \in 0 .. n : i \in A
    BY <1>1, <1>3, <1>4, Reached
  <2>. QED  BY <1>1, <2>1
<1>6. Good(n) /\ r[n] \in Scans(S)
  BY <1>1, <1>5
<1>. QED  BY <1>2, <1>6 DEF n, ScanIsRight

(* One more path leaves a list of paths.                                   *)
LEMMA AddBalancedType ==
  ASSUME NEW S, NEW list \in Seq(S), NEW p \in S
  PROVE  AddBalanced(list, p) \in Seq(S)
<1>1. ScanEnd(list, p) \in Scans(S)
  <2>1. PICK r \in [0 .. Len(list) -> Scans(S)] : r[Len(list)] = ScanEnd(list, p)
    <3>1. ScanRuns(S, list, p)
      BY ScanPass
    <3>. QED  BY <3>1 DEF ScanRuns
  <2>2. Len(list) \in 0 .. Len(list)
    OBVIOUS
  <2>. QED  BY <2>1, <2>2
<1>2. AddBalanced(list, p) = IF p.outer # {} THEN list
                             ELSE IF ScanEnd(list, p).addnew THEN Append(ScanEnd(list, p).kept, p)
                             ELSE ScanEnd(list, p).kept
  BY DEF AddBalanced, ScanEnd, ScanStart
<1>3. ScanEnd(list, p).kept \in Seq(S)
  BY <1>1 DEF Scans
<1>. HIDE DEF ScanEnd
<1>. QED  BY <1>2, <1>3

(* The pass of set_cheapest_explore that builds the list.                  *)
LEMMA BalancedPass ==
  ASSUME NEW S, pathlist \in Seq(S)
  PROVE  \E r \in [0 .. Len(pathlist) -> Seq(S)] :
           /\ r[0] = <<>> /\ r[Len(pathlist)] = Balanced
           /\ \A i \in 1 .. Len(pathlist) : r[i] = AddBalanced(r[i - 1], pathlist[i])
<1> DEFINE n == Len(pathlist)
           X == Seq(S)
           T == [x \in X \X (1 .. n) |-> AddBalanced(x[1], pathlist[x[2]])]
           Step(it, s) == IF s = {} THEN <<>> ELSE AddBalanced(it[s \ {Max(s)}], pathlist[Max(s)])
           fold == CHOOSE it : it = [s \in SUBSET DOMAIN pathlist |-> Step(it, s)]
<1>1. n \in Nat /\ DOMAIN pathlist = 1 .. n /\ <<>> \in X
  OBVIOUS
<1>2. Balanced = fold[DOMAIN pathlist]
  BY DEF Balanced, FoldLeft, MapThenFoldSet
<1>3. \A v \in X, i \in 1 .. n : AddBalanced(v, pathlist[i]) \in X
  BY AddBalancedType
<1>4. /\ T \in [X \X (1 .. n) -> X]
      /\ \A v \in X, i \in 1 .. n : T[v, i] = AddBalanced(v, pathlist[i])
  <2>. HIDE DEF n, X
  <2>. QED  BY <1>3
<1>. HIDE DEF T
<1>5. \E it : it = [s \in SUBSET DOMAIN pathlist |-> Step(it, s)]
  <2>1. PICK it \in [SUBSET (1 .. n) -> X] : \A s \in SUBSET (1 .. n) : Recurs(it, <<>>, T, s)
    <3>1. <<>> \in X /\ T \in [X \X (1 .. n) -> X] /\ n \in Nat
      <4>. HIDE DEF n, X
      <4>. QED  BY <1>1, <1>4
    <3>. HIDE DEF n, X
    <3>. QED  BY <3>1, PassExists
  <2>2. ASSUME NEW s \in SUBSET (1 .. n) PROVE it[s] = Step(it, s)
    <3>1. CASE s = {}
      BY <2>1, <3>1 DEF Recurs
    <3>2. CASE s # {}
      <4>1. Max(s) \in 1 .. n
        BY <1>1, <3>2, MaxIs
      <4>2. it[s \ {Max(s)}] \in X
        OBVIOUS
      <4>. HIDE DEF X, n
      <4>. QED  BY <1>4, <2>1, <3>2, <4>1, <4>2 DEF Recurs
    <3>. QED  BY <3>1, <3>2
  <2>3. it = [s \in SUBSET (1 .. n) |-> Step(it, s)]
    <3>. HIDE DEF Step, X
    <3>. QED  BY <2>2
  <2>. HIDE DEF Step
  <2>. QED  BY <1>1, <2>3
<1>6. fold = [s \in SUBSET DOMAIN pathlist |-> Step(fold, s)]
  <2>. HIDE DEF Step
  <2>. QED  BY <1>5
<1>. HIDE DEF fold
<1>7. \A s \in SUBSET (1 .. n) : fold[s] = Step(fold, s)
  <2>. HIDE DEF Step
  <2>. QED  BY <1>1, <1>6
<1>8. fold[{}] = <<>>
  BY <1>7
<1>9. ASSUME NEW s \in SUBSET (1 .. n), s # {}, fold[s \ {Max(s)}] \in X
      PROVE  fold[s] = T[fold[s \ {Max(s)}], Max(s)]
  <2>1. Max(s) \in 1 .. n
    BY <1>1, <1>9, MaxIs
  <2>. HIDE DEF X, n
  <2>. QED  BY <1>4, <1>7, <1>9, <2>1
<1>10. PICK r \in [0 .. n -> X] : Visits(r, <<>>, T, n) /\ r[n] = fold[1 .. n]
  <2>1. <<>> \in X /\ T \in [X \X (1 .. n) -> X] /\ n \in Nat
    <3>. HIDE DEF n, X
    <3>. QED  BY <1>1, <1>4
  <2>2. RecursIn(fold, <<>>, T, X, n)
    BY <1>8, <1>9 DEF RecursIn
  <2>. HIDE DEF n, X
  <2>3. EndsIn(<<>>, T, X, n, fold[1 .. n])
    BY <2>1, <2>2, PassRuns
  <2>. QED  BY <2>3 DEF EndsIn
<1>11. ASSUME NEW i \in 1 .. n PROVE r[i] = AddBalanced(r[i - 1], pathlist[i])
  <2>1. r[i - 1] \in X
    BY <1>1
  <2>. HIDE DEF n, X
  <2>. QED  BY <1>4, <1>10, <2>1 DEF Visits
<1>. QED  BY <1>1, <1>2, <1>10, <1>11 DEF Visits

\* The unparameterized paths among the first i that none of them outshines,
\* and that they account for the others.
Pareto(i)     == {k \in Free(i) : ~\E j \in Free(i) : Outshines(pathlist[j], pathlist[k])}
Outshone(i)   == \A k \in Free(i) : k \in Pareto(i) \/ \E j \in Pareto(i) : Outshines(pathlist[j], pathlist[k])

(* How the next path changes the set.                                      *)
LEMMA ParetoStep ==
  ASSUME rel \in Rels, pathlist \in Seq(rel.paths), NEW i \in 1 .. Len(pathlist), Outshone(i - 1)
  PROVE  /\ Pareto(i - 1) \subseteq 1 .. i - 1
         /\ pathlist[i].outer # {} => Pareto(i) = Pareto(i - 1) /\ Outshone(i)
         /\ pathlist[i].outer = {} =>
              LET beaten == {k \in Pareto(i - 1) : Outshines(pathlist[i], pathlist[k])}
              IN IF \E k \in Pareto(i - 1) : Outshines(pathlist[k], pathlist[i])
                 THEN beaten = {} /\ Pareto(i) = Pareto(i - 1) /\ Outshone(i)
                 ELSE Pareto(i) = (Pareto(i - 1) \ beaten) \cup {i} /\ Outshone(i)
<1> DEFINE n == Len(pathlist)
           O(j, k) == Outshines(pathlist[j], pathlist[k])
           F == Free(i - 1)
           G == Free(i)
           P == Pareto(i - 1)
           Q == Pareto(i)
<1>1. n \in Nat /\ F \subseteq 1 .. i - 1 /\ G \subseteq 1 .. n /\ F \subseteq 1 .. n
  BY DEF Free
<1>2. \A j, k, l \in 1 .. n : ~O(j, j) /\ (O(j, k) /\ O(k, l) => O(j, l))
  <2>. SUFFICES ASSUME NEW j \in 1 .. n, NEW k \in 1 .. n, NEW l \in 1 .. n
                PROVE  ~O(j, j) /\ (O(j, k) /\ O(k, l) => O(j, l))
    OBVIOUS
  <2>1. pathlist[j] \in rel.paths /\ pathlist[k] \in rel.paths /\ pathlist[l] \in rel.paths
    OBVIOUS
  <2>. QED  BY <2>1, OutshinesOrder
<1>3. /\ P = {k \in F : ~\E j \in F : O(j, k)} /\ Q = {k \in G : ~\E j \in G : O(j, k)}
      /\ P \subseteq F
  BY DEF Pareto
<1>4. \A k \in F : k \in P \/ \E j \in P : O(j, k)
  BY DEF Outshone
<1>5. Outshone(i) <=> \A k \in G : k \in Q \/ \E j \in Q : O(j, k)
  BY DEF Outshone
<1>6. i \in 1 .. n /\ G = IF pathlist[i].outer = {} THEN F \cup {i} ELSE F
  BY <1>1 DEF Free
<1>. HIDE DEF n, O, F, G, P, Q
<1>7. CASE pathlist[i].outer # {}
  <2>1. G = F
    BY <1>6, <1>7
  <2>2. Q = P
    BY <1>3, <2>1
  <2>. QED  BY <1>1, <1>3, <1>4, <1>5, <1>7, <2>1, <2>2 DEF P, Q
<1>8. CASE pathlist[i].outer = {} /\ \E k \in P : O(k, i)
  <2>1. G = F \cup {i}
    BY <1>6, <1>8
  <2>2. PICK m \in P : O(m, i)
    BY <1>8
  <2>3. ASSUME NEW k \in P PROVE ~O(i, k)
    <3>1. m \in F /\ k \in F /\ m \in 1 .. n /\ k \in 1 .. n /\ ~O(m, k)
      BY <1>1, <1>3
    <3>. QED  BY <1>2, <1>6, <2>2, <3>1
  <2>4. Q = P
    <3>1. ASSUME NEW k \in P PROVE k \in Q
      BY <1>3, <2>1, <2>3
    <3>2. ASSUME NEW k \in Q PROVE k \in P
      BY <1>3, <2>1, <2>2
    <3>. QED  BY <3>1, <3>2
  <2>5. Outshone(i)
    BY <1>4, <1>5, <2>1, <2>2, <2>4
  <2>6. {k \in P : O(i, k)} = {}
    BY <2>3
  <2>. QED  BY <1>1, <1>3, <1>8, <2>4, <2>5, <2>6 DEF P, Q, O
<1>9. CASE pathlist[i].outer = {} /\ ~\E k \in P : O(k, i)
  <2>1. G = F \cup {i}
    BY <1>6, <1>9
  <2>2. ASSUME NEW j \in F PROVE ~O(j, i)
    <3>1. CASE j \in P
      BY <1>9, <3>1
    <3>2. CASE j \notin P
      <4>1. PICK k \in P : O(k, j)
        BY <1>4, <3>2
      <4>2. k \in 1 .. n /\ j \in 1 .. n /\ ~O(k, i)
        BY <1>1, <1>3, <1>9
      <4>. QED  BY <1>2, <1>6, <4>1, <4>2
    <3>. QED  BY <3>1, <3>2
  <2>3. i \in Q
    BY <1>2, <1>3, <1>6, <2>1, <2>2
  <2>4. \A k \in P : ~O(i, k) => k \in Q
    BY <1>3, <2>1
  <2>5. \A k \in Q : k = i \/ (k \in P /\ ~O(i, k))
    BY <1>3, <2>1
  <2>6. Q = (P \ {k \in P : O(i, k)}) \cup {i}
    BY <2>3, <2>4, <2>5
  <2>7. ASSUME NEW k \in G PROVE k \in Q \/ \E j \in Q : O(j, k)
    <3>1. CASE k = i
      BY <2>3, <3>1
    <3>2. CASE k \in P
      BY <2>3, <2>4, <3>2
    <3>3. CASE k \in F /\ k \notin P
      <4>1. PICK j \in P : O(j, k)
        BY <1>4, <3>3
      <4>2. j \in 1 .. n /\ k \in 1 .. n
        BY <1>1, <1>3, <3>3
      <4>3. O(i, j) => O(i, k)
        BY <1>2, <1>6, <4>1, <4>2
      <4>. QED  BY <2>3, <2>4, <4>1, <4>3
    <3>. QED  BY <2>1, <3>1, <3>2, <3>3
  <2>8. Outshone(i)
    BY <1>5, <2>7
  <2>. QED  BY <1>1, <1>3, <1>9, <2>6, <2>8 DEF P, Q, O
<1>. QED  BY <1>7, <1>8, <1>9 DEF P, O

(* One more path, when the list is right for the paths before it.          *)
LEMMA BalancedStep ==
  ASSUME rel \in Rels, pathlist \in Seq(rel.paths), NEW i \in 1 .. Len(pathlist), Outshone(i - 1),
         NEW list \in Seq(rel.paths), Selects(list, pathlist, Pareto(i - 1))
  PROVE  Selects(AddBalanced(list, pathlist[i]), pathlist, Pareto(i)) /\ Outshone(i)
<1> DEFINE p == pathlist[i]
           P == Pareto(i - 1)
           S == rel.paths
           V == {q \in S : ~Outshines(p, q)}
           n == Len(list)
           scan == ScanEnd(list, p)
<1>1. p \in S /\ n \in Nat /\ DOMAIN list = 1 .. n /\ DOMAIN pathlist = 1 .. Len(pathlist)
  OBVIOUS
<1>2. PICK e \in [1 .. n -> 1 .. Len(pathlist)] :
        {e[j] : j \in 1 .. n} = P /\ \A j \in 1 .. n : list[j] = pathlist[e[j]]
  BY <1>1 DEF Selects
<1>3. \A j \in 1 .. n : e[j] \in P /\ list[j] = pathlist[e[j]] /\ list[j] \in S
  BY <1>1, <1>2
<1>4. \A k \in P : \E j \in 1 .. n : list[j] = pathlist[k]
  BY <1>2
<1>5. ASSUME NEW j \in 1 .. n, NEW m \in 1 .. n, Outshines(list[j], p), Outshines(p, list[m])
      PROVE  FALSE
  <2>1. Outshines(list[j], list[m])
    BY <1>1, <1>3, <1>5, OutshinesOrder
  <2>2. ~Outshines(pathlist[e[j]], pathlist[e[m]])
    BY <1>3 DEF Pareto
  <2>. QED  BY <1>3, <2>1, <2>2
<1>6. /\ scan \in Scans(S)
      /\ scan.addnew <=> \A j \in 1 .. n : ~Outshines(list[j], p)
      /\ Selects(scan.kept, list, {j \in 1 .. n : ~Outshines(p, list[j])})
  <2>1. Separates(list, p)
    BY <1>5 DEF Separates
  <2>2. ScanIsRight(S, list, p)
    <3>. HIDE DEF p, S
    <3>. QED  BY <2>1, ScanSelects DEF S
  <2>. QED  BY <2>2 DEF ScanIsRight
<1>7. AddBalanced(list, p) = IF p.outer # {} THEN list
                             ELSE IF scan.addnew THEN Append(scan.kept, p) ELSE scan.kept
  BY DEF AddBalanced, ScanEnd, ScanStart
<1>8. {j \in 1 .. n : ~Outshines(p, list[j])} = {j \in 1 .. n : list[j] \in V}
  BY <1>3
<1>. HIDE DEF scan
<1>9. scan.kept \in Seq(S)
  BY <1>6 DEF Scans
<1>10. Selects(scan.kept, pathlist, {k \in P : pathlist[k] \in V})
  <2> DEFINE t == scan.kept
  <2>1. t \in Seq(S) /\ Selects(t, list, Among(1 .. Len(list), list, V))
    BY <1>6, <1>8, <1>9 DEF Among
  <2>2. pathlist \in Seq(S) /\ list \in Seq(S) /\ Selects(list, pathlist, P)
    OBVIOUS
  <2>. HIDE DEF t, S, V, P
  <2>3. Selects(t, pathlist, Among(P, pathlist, V))
    BY <2>1, <2>2, SelectsFilter
  <2>. QED  BY <2>3 DEF t, Among
<1>11. /\ P \subseteq 1 .. i - 1
       /\ p.outer # {} => Pareto(i) = P /\ Outshone(i)
       /\ p.outer = {} => IF \E k \in P : Outshines(pathlist[k], p)
                          THEN /\ {k \in P : Outshines(p, pathlist[k])} = {}
                               /\ Pareto(i) = P /\ Outshone(i)
                          ELSE /\ Pareto(i) = (P \ {k \in P : Outshines(p, pathlist[k])}) \cup {i}
                               /\ Outshone(i)
  BY ParetoStep
<1>12. /\ \A k \in P : k \in 1 .. Len(pathlist) /\ k < i
       /\ \A k \in P : pathlist[k] \in S
  BY <1>11, SMTT(40)
<1>13. {k \in P : pathlist[k] \in V} = P \ {k \in P : Outshines(p, pathlist[k])}
  BY <1>12
<1>14. scan.addnew <=> ~\E k \in P : Outshines(pathlist[k], p)
  BY <1>3, <1>4, <1>6
<1>15. CASE p.outer # {}
  BY <1>7, <1>11, <1>15
<1>16. CASE p.outer = {} /\ ~scan.addnew
  <2>1. Pareto(i) = P /\ Outshone(i) /\ {k \in P : pathlist[k] \in V} = P
    BY <1>11, <1>13, <1>14, <1>16
  <2>2. AddBalanced(list, p) = scan.kept
    BY <1>7, <1>16
  <2>. HIDE DEF P, V, p
  <2>3. Selects(AddBalanced(list, p), pathlist, Pareto(i))
    BY <1>10, <2>1, <2>2
  <2>. QED  BY <2>1, <2>3 DEF p
<1>17. CASE p.outer = {} /\ scan.addnew
  <2> DEFINE t == scan.kept
             I == P \ {k \in P : Outshines(p, pathlist[k])}
  <2>1. Pareto(i) = I \cup {i} /\ Outshone(i)
    BY <1>11, <1>14, <1>17
  <2>2. AddBalanced(list, p) = Append(t, p)
    BY <1>7, <1>17
  <2>3. t \in Seq(S) /\ Selects(t, pathlist, I) /\ \A k \in I : k < i
    BY <1>9, <1>10, <1>12, <1>13
  <2>. HIDE DEF t, I, S
  <2>4. Selects(Append(t, pathlist[i]), pathlist, I \cup {i})
    BY <2>3, SelectsAppend DEF S
  <2>. QED  BY <2>1, <2>2, <2>4
<1>. QED  BY <1>15, <1>16, <1>17

(* The pass ends with the paths that no other one outshines.               *)
LEMMA BalancedSelects ==
  ASSUME rel \in Rels, pathlist \in Seq(rel.paths)
  PROVE  /\ Balanced \in Seq(rel.paths) /\ Selects(Balanced, pathlist, Pareto(Len(pathlist)))
         /\ Outshone(Len(pathlist))
<1> DEFINE n == Len(pathlist)
<1>1. n \in Nat
  OBVIOUS
<1>2. PICK r \in [0 .. n -> Seq(rel.paths)] :
        /\ r[0] = <<>> /\ r[n] = Balanced
        /\ \A i \in 1 .. n : r[i] = AddBalanced(r[i - 1], pathlist[i])
  BY BalancedPass
<1> DEFINE Good(i) == Selects(r[i], pathlist, Pareto(i)) /\ Outshone(i)
           A == {i \in 0 .. n : Good(i)}
<1>3. 0 \in A
  <2>1. Free(0) = {}
    BY DEF Free
  <2>2. Pareto(0) = {} /\ Outshone(0)
    BY <2>1 DEF Pareto, Outshone
  <2>3. Selects(<<>>, pathlist, {})
    BY SelectsNone
  <2>4. Good(0)
    BY <1>2, <2>2, <2>3
  <2>. HIDE DEF Good
  <2>. QED  BY <1>1, <2>4
<1>4. ASSUME NEW i \in 1 .. n, i - 1 \in A PROVE i \in A
  <2> DEFINE list == r[i - 1]
  <2>1. /\ list \in Seq(rel.paths) /\ Selects(list, pathlist, Pareto(i - 1)) /\ Outshone(i - 1)
        /\ i \in 0 .. n /\ i \in 1 .. Len(pathlist) /\ r[i] = AddBalanced(list, pathlist[i])
    BY <1>1, <1>2, <1>4
  <2>. HIDE DEF list, n
  <2>2. Selects(AddBalanced(list, pathlist[i]), pathlist, Pareto(i)) /\ Outshone(i)
    BY <2>1, BalancedStep
  <2>. QED  BY <2>1, <2>2
<1>5. n \in A
  <2>. HIDE DEF A, n
  <2>1. \A i \in 0 .. n : i \in A
    BY <1>1, <1>3, <1>4, Reached
  <2>. QED  BY <1>1, <2>1
<1>6. Good(n) /\ r[n] \in Seq(rel.paths)
  BY <1>1, <1>5
<1>. QED  BY <1>2, <1>6

\* What set_cheapest_explore saved, for the list as it is since.
ParetoInv ==
    /\ cheapest # NoPath => new_path = NoPath
    /\ chosen # NoPath => cheapest # NoPath
    /\ BalancedIsPareto

(* What set_cheapest_explore saves is right for the list it passes over.   *)
LEMMA ParetoSaved ==
  ASSUME TypeInv, SetCheapest
  PROVE  BalancedIsPareto'
<1> DEFINE n == Len(pathlist)
           total == CheapestTotal
           bal == Balanced
           param == BestParam
           c == cheapest'
<1>1. rel \in Rels /\ pathlist \in Seq(rel.paths)
  BY DEF TypeInv
<1>2. /\ pathlist' = pathlist
      /\ c.startup = CheapestStartup
      /\ c.total = IF total = NoPath THEN param ELSE total
      /\ c.explore = IF bal = <<>> THEN <<param>> ELSE bal
  <2>. HIDE DEF total, bal, param
  <2>. QED  BY DEF SetCheapest, total, bal, param
<1>3. /\ bal \in Seq(rel.paths) /\ Selects(bal, pathlist, Pareto(n)) /\ Outshone(n)
  BY <1>1, BalancedSelects
<1>4. /\ Free(n) = {} => total = NoPath
      /\ Free(n) # {} => \E m \in Free(n) : /\ total = pathlist[m]
                                            /\ \A j \in Free(n) : ~Cheaper(pathlist[j], pathlist[m])
  BY <1>1, LeastTotal
<1>5. n \in Nat /\ DOMAIN pathlist = 1 .. n /\ DOMAIN bal = 1 .. Len(bal) /\ Len(bal) \in Nat
  BY <1>1, <1>3
<1>6. bal = <<>> <=> Pareto(n) = {}
  <2>. HIDE DEF bal, n
  <2>1. PICK e \in [1 .. Len(bal) -> 1 .. n] : {e[i] : i \in 1 .. Len(bal)} = Pareto(n)
    BY <1>3, <1>5 DEF Selects
  <2>2. bal = <<>> <=> 1 .. Len(bal) = {}
    BY <1>3, <1>5
  <2>. QED  BY <2>1, <2>2
<1>7. Pareto(n) \subseteq Free(n)
  BY DEF Pareto
<1>8. CASE Free(n) = {}
  <2>1. total = NoPath /\ bal = <<>>
    BY <1>4, <1>6, <1>7, <1>8
  <2>2. CheapestStartup = NoPath
    <3>1. \A i \in 1 .. n : pathlist[i].outer # {}
      BY <1>8 DEF Free
    <3>. QED  BY <1>1, <3>1, NoStartup
  <2>3. c.startup = NoPath /\ c.explore = <<c.total>>
    <3>. HIDE DEF total, bal, param, c
    <3>. QED  BY <1>2, <2>1, <2>2
  <2>4. {i \in DOMAIN pathlist' : (pathlist')[i].outer = {}} = {}
    BY <1>2, <1>5, <1>8 DEF Free
  <2>. HIDE DEF total, bal, param
  <2>. QED  BY <2>3, <2>4 DEF BalancedIsPareto
<1>9. CASE Free(n) # {}
  <2>1. PICK m \in Free(n) : total = pathlist[m] /\ \A j \in Free(n) : ~Cheaper(pathlist[j], pathlist[m])
    BY <1>4, <1>9
  <2>2. total # NoPath
    <3>1. m \in 1 .. n /\ pathlist[m] \in rel.paths
      BY <1>1 DEF Free
    <3>. HIDE DEF total
    <3>. QED  BY <1>1, <2>1, <3>1, PathFacts
  <2>3. Pareto(n) # {}
    BY <1>3, <1>9 DEF Outshone
  <2>4. c.explore = bal /\ c.total = pathlist[m]
    <3>. HIDE DEF total, bal, param, c
    <3>. QED  BY <1>2, <1>6, <2>1, <2>2, <2>3
  <2>5. \E i \in Pareto(n) : SameCosts(pathlist[i], pathlist[m])
    <3>1. CASE m \in Pareto(n)
      BY <3>1 DEF SameCosts
    <3>2. CASE m \notin Pareto(n)
      <4>1. PICK i \in Pareto(n) : Outshines(pathlist[i], pathlist[m])
        BY <1>3, <2>1, <3>2 DEF Outshone
      <4>. QED  BY <1>7, <2>1, <4>1 DEF Outshines
    <3>. QED  BY <3>1, <3>2
  <2>6. /\ Free(n) = {i \in DOMAIN pathlist : pathlist[i].outer = {}}
        /\ Pareto(n) = {i \in Free(n) : ~\E j \in Free(n) : Outshines(pathlist[j], pathlist[i])}
    BY <1>5 DEF Free, Pareto
  <2>7. Selects(c.explore, pathlist, Pareto(n)) /\ \E i \in Pareto(n) : SameCosts(pathlist[i], c.total)
    <3>. HIDE DEF total, bal, param, c, n
    <3>. QED  BY <1>3, <2>4, <2>5
  <2>. HIDE DEF total, bal, param, n
  <2> DEFINE l == pathlist'
             free == {i \in DOMAIN l : l[i].outer = {}}
             best == {i \in free : ~\E j \in free : Outshines(l[j], l[i])}
  <2>8. l = pathlist /\ free = Free(n) /\ best = Pareto(n)
    BY <1>2, <2>6
  <2>9. Selects(c.explore, l, best) /\ (\E i \in best : SameCosts(l[i], c.total)) /\ free # {}
    <3>. HIDE DEF l, free, best
    <3>. QED  BY <1>9, <2>7, <2>8
  <2>. QED  BY <2>9 DEF BalancedIsPareto
<1>. QED  BY <1>8, <1>9

(* Every step keeps it.                                                    *)
LEMMA ParetoKept ==
  ASSUME TypeInv, ParetoInv, [Next]_vars
  PROVE  ParetoInv'
<1>1. ASSUME cheapest = NoPath, cheapest' = NoPath, chosen' = chosen PROVE ParetoInv'
  BY <1>1 DEF ParetoInv, BalancedIsPareto
<1>2. ASSUME NEW p \in rel.paths, SubmitPath(p) PROVE ParetoInv'
  BY <1>1, <1>2 DEF SubmitPath, Idle
<1>3. ASSUME new_path # NoPath, cheapest' = cheapest, chosen' = chosen PROVE ParetoInv'
  <2>1. cheapest = NoPath
    BY <1>3 DEF ParetoInv
  <2>. QED  BY <1>1, <1>3, <2>1
<1>4. CASE RemoveOldPath \/ RejectNewPath \/ KeepBothPaths \/ AcceptNewPath
  BY <1>3, <1>4 DEF RemoveOldPath, RejectNewPath, KeepBothPaths, AcceptNewPath, Scanning
<1>5. CASE SetCheapest
  <2>1. new_path' = NoPath /\ chosen' = NoPath
    BY <1>5 DEF SetCheapest, Idle, ParetoInv
  <2>2. BalancedIsPareto'
    BY <1>5, ParetoSaved
  <2>. HIDE DEF BalancedIsPareto
  <2>. QED  BY <2>1, <2>2 DEF ParetoInv
<1>6. ASSUME NEW f \in Fractions, ChoosePath(f) PROVE ParetoInv'
  <2>1. /\ cheapest # NoPath /\ cheapest' = cheapest /\ pathlist' = pathlist /\ new_path' = new_path
    BY <1>6 DEF ChoosePath
  <2>2. BalancedIsPareto'
    BY <2>1 DEF ParetoInv, BalancedIsPareto
  <2>. QED  BY <2>1, <2>2 DEF ParetoInv
<1>7. CASE UNCHANGED vars
  <2>1. /\ cheapest' = cheapest /\ pathlist' = pathlist /\ new_path' = new_path /\ chosen' = chosen
    BY <1>7 DEF vars
  <2>2. BalancedIsPareto'
    BY <2>1 DEF ParetoInv, BalancedIsPareto
  <2>. QED  BY <2>1, <2>2 DEF ParetoInv
<1>. QED  BY <1>2, <1>4, <1>5, <1>6, <1>7 DEF Next

(* The list that set_cheapest_explore builds in one pass consists of the   *)
(* unparameterized paths that no other one outshines, in their order, and  *)
(* one of them costs what cheapest_total_path costs, whatever the paths.   *)
THEOREM BalancedListIsPareto == Spec => []BalancedIsPareto
<1>1. Init => ParetoInv
  BY DEF Init, ParetoInv, BalancedIsPareto
<1>2. SortInv /\ ParetoInv /\ [Next]_vars => ParetoInv'
  BY ParetoKept DEF SortInv
<1>3. ParetoInv => BalancedIsPareto
  BY DEF ParetoInv
<1>. QED  BY <1>1, <1>2, <1>3, SortInvariant, PTL DEF Spec
=============================================================================
