---------------------------- MODULE BackendProofs ----------------------------
(***************************************************************************)
(* Proofs about what a backend holds in memory: the model of a subspace    *)
(* (ReceptiveFields) and the static context (QueryContext).                *)
(***************************************************************************)
EXTENDS ReceptiveFields, QueryContext, WellFoundedInduction, TLAPS

-----------------------------------------------------------------------------
(***************************************************************************)
(* The receptive fields of a model and their data houses, for any points,  *)
(* widths, number of features and kernel.                                  *)
(***************************************************************************)

Fields == [c : Points, d : Widths, nreg : Nat, n : Nat, trust : BOOLEAN,
           errs : Seq(Errors), copied : BOOLEAN, inherits : BOOLEAN]

\* The house of a field that found none has grown no faster than the field
\* was updated; each update of an untrusted field adds at most a row, and no
\* other field writes to its house.
HouseFollows(f, h) == f.inherits = FALSE /\ f.n < 2 * NIn => h[f.c] <= f.n + 1

FieldsOK(s, h) ==
    /\ s \in Seq(Fields)
    /\ h \in [Points -> Nat]
    /\ \A i, j \in DOMAIN s : s[i].c = s[j].c => i = j
    /\ \A i \in DOMAIN s : ~s[i].trust => h[s[i].c] > 0
    /\ \A i \in DOMAIN s : HouseFollows(s[i], h)

IndInv == FieldsOK(fields, houses) /\ NeverNearest

-----------------------------------------------------------------------------
(* Weights.                                                                *)

(* The thresholds are in this order.                                       *)
LEMMA Thresholds ==
  /\ FULL_W \in Nat /\ W_GEN \in Nat /\ W_GEN < FULL_W
  /\ USE_AQO_THRESHOLD \in Nat
BY SMT DEF FULL_W, W_GEN, USE_AQO_THRESHOLD

(* What FieldAssumption says of the constants other than the kernel.       *)
LEMMA ConstantFacts ==
  /\ NIn \in Nat \ {0}
  /\ Points \subseteq Int
  /\ Widths \subseteq Nat \ {0}
  /\ InitWidth \in Widths
  /\ ErrorWindow \in Nat \ {0}
BY FieldAssumption, Zenon

(* A weight lies between 0 and one million, it is not exactly the          *)
(* threshold 1e-5, and it is full at the centre of the field.              *)
LEMMA WeightFacts ==
  ASSUME NEW f \in Fields, NEW x \in Points
  PROVE  /\ Weight(f, x) \in 0 .. FULL_W
         /\ Weight(f, x) # USE_AQO_THRESHOLD
         /\ f.c = x => Weight(f, x) = FULL_W
<1>1. f.c \in Points /\ f.d \in Widths
  BY DEF Fields
<1>2. Abs(x - f.c) * f.d \in Distances
  BY <1>1 DEF Distances
<1>3. f.c = x => Abs(x - f.c) * f.d = 0
  <2>1. /\ f.c \in Int
        /\ f.d \in Nat
    BY <1>1, ConstantFacts, Zenon
  <2>2. f.c = x => x - f.c = 0
    BY <2>1
  <2>3. f.c = x => Abs(x - f.c) = 0
    BY <2>2 DEF Abs
  <2>. QED  BY <2>1, <2>3
<1>. QED  BY <1>2, <1>3, FieldAssumption DEF Weight

(* A set of numbers has a least one: what follows argues from the least    *)
(* counterexample.                                                         *)
LEMMA LeastNumber ==
  ASSUME NEW T \in SUBSET Nat, T # {}
  PROVE  \E m \in T : \A n \in T : m <= n
<1> DEFINE R == {ss \in Nat \X Nat : ss[1] < ss[2]}
<1>1. \A m, n \in Nat : <<m, n>> \in R <=> m < n
  OBVIOUS
<1>. IsWellFoundedOn(R, Nat)
  BY NatLessThanWellFounded DEF OpToRel
<1>. HIDE DEF R
<1>2. PICK m \in T : \A n \in T : ~ (<<n, m>> \in R)
  BY WFMin
<1>3. \A n \in T : n \in Nat /\ m \in Nat /\ ~ (n < m)
  BY <1>1, <1>2, Zenon
<1>. QED  BY <1>3

(* The loop of lwpr_aux_update_one_T that looks for the heaviest field     *)
(* finds one.                                                              *)
LEMMA HeaviestExists ==
  ASSUME fields \in Seq(Fields), NEW x \in Points, NEW S \in SUBSET DOMAIN fields, S # {}
  PROVE  /\ Heaviest(x, S) \in S
         /\ \A j \in S : Weight(fields[j], x) <= Weight(fields[Heaviest(x, S)], x)
<1> DEFINE lack(i) == FULL_W - Weight(fields[i], x)
<1>1. \A i \in S : i \in Nat /\ fields[i] \in Fields
  OBVIOUS
<1>2. \A i \in S : Weight(fields[i], x) \in 0 .. FULL_W /\ lack(i) \in Nat
  BY <1>1, WeightFacts, Thresholds
<1>4. \A T \in SUBSET Nat : T # {} => \E m \in T : \A n \in T : m <= n
  BY LeastNumber
<1>5. PICK i \in S : \A j \in S : lack(i) <= lack(j)
  <2>1. {lack(j) : j \in S} \in SUBSET Nat /\ {lack(j) : j \in S} # {}
    BY <1>2
  <2>2. PICK m \in {lack(j) : j \in S} : \A n \in {lack(j) : j \in S} : m <= n
    BY <1>4, <2>1
  <2>. QED  BY <2>2
<1>6. PICK k \in {j \in S : lack(j) = lack(i)} : \A j \in {j \in S : lack(j) = lack(i)} : k <= j
  <2>1. {j \in S : lack(j) = lack(i)} \in SUBSET Nat /\ {j \in S : lack(j) = lack(i)} # {}
    BY <1>1
  <2>. QED  BY <1>4, <2>1
<1>7. \A j \in S : \/ Weight(fields[k], x) > Weight(fields[j], x)
                   \/ Weight(fields[k], x) = Weight(fields[j], x) /\ k <= j
  <2>. SUFFICES ASSUME NEW j \in S
               PROVE  \/ Weight(fields[k], x) > Weight(fields[j], x)
                      \/ Weight(fields[k], x) = Weight(fields[j], x) /\ k <= j
    OBVIOUS
  <2>1. k \in S /\ lack(k) = lack(i) /\ lack(i) <= lack(j)
    BY <1>5, <1>6
  <2>2. lack(j) = lack(i) => k <= j
    BY <1>6
  <2>3. Weight(fields[k], x) \in Int /\ Weight(fields[j], x) \in Int
    BY <1>2, <2>1, Thresholds
  <2>. QED  BY <2>1, <2>2, <2>3, Thresholds
<1> DEFINE H == Heaviest(x, S)
<1>8. /\ H \in S
      /\ \A j \in S : \/ Weight(fields[H], x) > Weight(fields[j], x)
                      \/ Weight(fields[H], x) = Weight(fields[j], x) /\ H <= j
  BY <1>6, <1>7 DEF Heaviest
<1>9. \A j \in S : Weight(fields[j], x) \in Int /\ Weight(fields[H], x) \in Int
  BY <1>2, <1>8, Thresholds
<1>. HIDE DEF H
<1>10. \A j \in S : Weight(fields[j], x) <= Weight(fields[H], x)
  BY <1>8, <1>9
<1>. QED  BY <1>8, <1>10 DEF H

(* The sum of the recorded errors is a number: the function that adds them *)
(* up exists, by the least place that it could not be continued to, and    *)
(* has no least place where its value is not a number.                     *)
LEMMA TotalType ==
  ASSUME NEW s \in Seq(Nat)
  PROVE  Total(s) \in Nat
<1> DEFINE L == Len(s)
           step(f, i) == IF i = 0 THEN 0 ELSE f[i - 1] + s[i]
           sum == CHOOSE f : f = [i \in 0 .. L |-> step(f, i)]
           Upto(n) == \E f \in [0 .. n -> Nat] : \A i \in 0 .. n : f[i] = step(f, i)
           Bad == {n \in 0 .. L : ~Upto(n)}
<1>1. L \in Nat /\ \A i \in 1 .. L : s[i] \in Nat
  OBVIOUS
<1>. HIDE DEF L
<1>2. Bad = {}
  <2>. SUFFICES ASSUME Bad # {} PROVE FALSE
    OBVIOUS
  <2>1. PICK n \in Bad : \A m \in Bad : n <= m
    <3>1. Bad \in SUBSET Nat
      BY <1>1
    <3>. HIDE DEF Bad
    <3>. QED  BY <3>1, LeastNumber
  <2>2. n \in 0 .. L /\ ~Upto(n)
    BY <2>1
  <2>3. n # 0
    <3>1. Upto(0)
      <4>1. [i \in 0 .. 0 |-> 0] \in [0 .. 0 -> Nat]
        OBVIOUS
      <4>2. \A i \in 0 .. 0 : [j \in 0 .. 0 |-> 0][i] = step([j \in 0 .. 0 |-> 0], i)
        OBVIOUS
      <4>. QED  BY <4>1, <4>2
    <3>. HIDE DEF Upto
    <3>. QED  BY <2>2, <3>1
  <2>4. n - 1 \in 0 .. L /\ n - 1 \notin Bad
    <3>1. n - 1 \in 0 .. L /\ n - 1 < n
      BY <1>1, <2>2, <2>3
    <3>. HIDE DEF Bad
    <3>. QED  BY <1>1, <2>1, <2>2, <3>1
  <2>5. PICK f \in [0 .. n - 1 -> Nat] : \A i \in 0 .. n - 1 : f[i] = step(f, i)
    BY <2>4
  <2> DEFINE g == [i \in 0 .. n |-> IF i = n THEN f[n - 1] + s[n] ELSE f[i]]
  <2>6. f[n - 1] \in Nat /\ s[n] \in Nat
    BY <1>1, <2>2, <2>3
  <2>7. g \in [0 .. n -> Nat]
    BY <1>1, <2>2, <2>6
  <2>8. ASSUME NEW i \in 0 .. n PROVE g[i] = step(g, i)
    <3>1. CASE i = n
      BY <1>1, <2>2, <2>3, <3>1
    <3>2. CASE i # n
      <4>1. i \in 0 .. n - 1 /\ g[i] = f[i] /\ (i # 0 => g[i - 1] = f[i - 1])
        BY <1>1, <2>2, <3>2
      <4>. HIDE DEF g
      <4>. QED  BY <2>5, <4>1
    <3>. QED  BY <3>1, <3>2
  <2>9. Upto(n)
    <3>. HIDE DEF g, step
    <3>. QED  BY <2>7, <2>8
  <2>. QED  BY <2>2, <2>9
<1>3. PICK f \in [0 .. L -> Nat] : \A i \in 0 .. L : f[i] = step(f, i)
  <2>1. L \in 0 .. L
    BY <1>1
  <2>2. L \notin Bad
    <3>. HIDE DEF Bad
    <3>. QED  BY <1>2
  <2>. QED  BY <2>1, <2>2
<1>4. f = [i \in 0 .. L |-> step(f, i)]
  <2>. HIDE DEF step
  <2>. QED  BY <1>3
<1>5. sum = [i \in 0 .. L |-> step(sum, i)]
  <2>. HIDE DEF step
  <2>. QED  BY <1>4
<1>6. Total(s) = sum[L]
  BY DEF Total, L
<1> DEFINE Odd == {n \in 0 .. L : sum[n] \notin Nat}
<1>7. Odd = {}
  <2>. SUFFICES ASSUME Odd # {} PROVE FALSE
    OBVIOUS
  <2>. HIDE DEF sum
  <2>1. PICK n \in Odd : \A m \in Odd : n <= m
    <3>1. Odd \in SUBSET Nat
      BY <1>1
    <3>. HIDE DEF Odd
    <3>. QED  BY <3>1, LeastNumber
  <2>2. n \in 0 .. L /\ sum[n] \notin Nat
    BY <2>1
  <2>3. sum[n] = step(sum, n)
    <3>. HIDE DEF step
    <3>. QED  BY <1>5, <2>2
  <2>4. n # 0
    BY <2>2, <2>3
  <2>5. n - 1 \in 0 .. L /\ n - 1 \notin Odd
    BY <1>1, <2>1, <2>2, <2>4
  <2>6. sum[n - 1] \in Nat /\ s[n] \in Nat
    BY <1>1, <2>2, <2>4, <2>5
  <2>. QED  BY <2>2, <2>3, <2>4, <2>6
<1>8. L \in 0 .. L
  BY <1>1
<1>9. L \notin Odd
  <2>. HIDE DEF Odd
  <2>. QED  BY <1>7
<1>. HIDE DEF sum
<1>. QED  BY <1>6, <1>8, <1>9

-----------------------------------------------------------------------------
(* One update of lwpr_aux_update_one_T.                                    *)

(* The error history of a field stays a sequence of errors.                *)
LEMMA WindowType ==
  ASSUME NEW E, NEW s \in Seq(E), NEW e \in E, NEW size \in Nat \ {0}
  PROVE  Window(s, e, size) \in Seq(E)
<1>1. CASE Len(s) < size
  BY <1>1 DEF Window
<1>2. CASE ~ (Len(s) < size)
  <2>1. Len(s) \in Nat /\ Len(s) # 0
    BY <1>2
  <2>2. s # <<>>
    BY <2>1
  <2>3. Tail(s) \in Seq(E)
    BY <2>2
  <2>. QED  BY <1>2, <2>3 DEF Window
<1>. QED  BY <1>1, <1>2

(* An update keeps the centre of a field and never lowers its count or     *)
(* takes its trust away.                                                   *)
LEMMA UpdatedFacts ==
  ASSUME NEW f \in Fields, NEW e \in Errors, NEW d \in Widths, NEW grow
  PROVE  /\ Updated(f, e, d, grow) \in Fields
         /\ Updated(f, e, d, grow).c = f.c
         /\ Updated(f, e, d, grow).inherits = f.inherits
         /\ f.trust => Updated(f, e, d, grow).trust
         /\ Updated(f, e, d, grow).n =
               IF f.n < 2 * NIn + 1 THEN f.n + 1 ELSE f.n
<1>1. /\ f.c \in Points /\ f.nreg \in Nat /\ f.n \in Nat
      /\ f.trust \in BOOLEAN /\ f.errs \in Seq(Errors)
      /\ f.copied \in BOOLEAN /\ f.inherits \in BOOLEAN
  BY DEF Fields
<1>2. Window(f.errs, e, ErrorWindow) \in Seq(Errors)
  BY <1>1, WindowType, ConstantFacts
<1> DEFINE g == Updated(f, e, d, grow)
           n1 == IF f.n < 2 * NIn + 1 THEN f.n + 1 ELSE f.n
           r1 == IF grow THEN f.nreg + 1 ELSE f.nreg
           t1 == f.trust \/ Trusting(f)
           e1 == Window(f.errs, e, ErrorWindow)
<1>3. n1 \in Nat /\ r1 \in Nat
  BY <1>1
<1>4. t1 \in BOOLEAN /\ (f.trust => t1)
  BY <1>1
<1>5. g = [c |-> f.c, d |-> d, nreg |-> r1, n |-> n1, trust |-> t1, errs |-> e1,
           copied |-> f.copied, inherits |-> f.inherits]
  <2>. HIDE DEF n1, r1, t1, e1
  <2>1. g = [f EXCEPT !.trust = t1, !.errs = e1, !.d = d, !.nreg = r1, !.n = n1]
    BY Zenon DEF Updated, n1, r1, t1, e1
  <2>. HIDE DEF g
  <2>. QED  BY <2>1 DEF Fields
<1>. HIDE DEF n1, r1, t1, e1, g
<1>6. g \in Fields
  BY <1>1, <1>2, <1>3, <1>4, <1>5 DEF Fields, e1
<1>7. g.c = f.c /\ g.inherits = f.inherits /\ g.n = n1 /\ (f.trust => g.trust)
  BY <1>4, <1>5
<1>. QED  BY <1>6, <1>7 DEF g, n1

(* The update loop keeps the centres, and counts the point in every field  *)
(* within reach.                                                           *)
LEMMA UpdatedFieldsFacts ==
  ASSUME fields \in Seq(Fields), NEW x \in Points, NEW upd \in UpdatedFields(x)
  PROVE  /\ upd \in Seq(Fields)
         /\ DOMAIN upd = DOMAIN fields
         /\ \A i \in DOMAIN fields :
              /\ upd[i].c = fields[i].c
              /\ upd[i].inherits = fields[i].inherits
              /\ fields[i].trust => upd[i].trust
              /\ upd[i].n = IF i \in Near(x, UPDATE_W) /\ fields[i].n < 2 * NIn + 1
                            THEN fields[i].n + 1 ELSE fields[i].n
<1> DEFINE near == Near(x, UPDATE_W)
<1>1. PICK err \in [near -> Errors], width \in [near -> Widths],
           grown \in SUBSET {i \in near : fields[i].nreg < NIn} :
        upd = UpdateLoop(x, err, width, grown)
  BY DEF UpdatedFields
<1>1a. upd = [i \in DOMAIN fields |->
               IF i \in near THEN Updated(fields[i], err[i], width[i], i \in grown)
                             ELSE fields[i]]
  BY <1>1, Zenon DEF UpdateLoop
<1>. HIDE DEF near
<1>2. \A i \in DOMAIN fields : fields[i] \in Fields
  OBVIOUS
<1>3. DOMAIN upd = DOMAIN fields
  BY <1>1a
<1>4. ASSUME NEW i \in DOMAIN fields
      PROVE  /\ upd[i] \in Fields
             /\ upd[i].c = fields[i].c
             /\ upd[i].inherits = fields[i].inherits
             /\ fields[i].trust => upd[i].trust
             /\ upd[i].n = IF i \in near /\ fields[i].n < 2 * NIn + 1
                           THEN fields[i].n + 1 ELSE fields[i].n
  <2>1. CASE i \in near
    <3>1. upd[i] = Updated(fields[i], err[i], width[i], i \in grown)
      BY <1>1a, <2>1
    <3>2. err[i] \in Errors /\ width[i] \in Widths
      BY <2>1
    <3>. QED  BY <1>2, <2>1, <3>1, <3>2, UpdatedFacts
  <2>2. CASE i \notin near
    <3>1. upd[i] = fields[i]
      BY <1>1a, <2>2
    <3>. QED  BY <1>2, <2>2, <3>1
  <2>. QED  BY <2>1, <2>2
<1>5. upd \in Seq(Fields)
  <2>1. Len(fields) \in Nat /\ DOMAIN fields = 1 .. Len(fields)
    OBVIOUS
  <2>2. upd \in [1 .. Len(fields) -> Fields]
    BY <1>1a, <1>3, <1>4, <2>1
  <2>. QED  BY <2>1, <2>2
<1>. QED  BY <1>3, <1>4, <1>5 DEF near

(* Learning into the houses of C adds at most a row to each of them and    *)
(* leaves none of them empty.                                              *)
LEMMA LearnedHousesFacts ==
  ASSUME houses \in [Points -> Nat], NEW C \in SUBSET Points,
         NEW h \in LearnedHouses(C)
  PROVE  /\ h \in [Points -> Nat]
         /\ \A c \in Points : /\ h[c] >= houses[c]
                              /\ h[c] <= houses[c] + 1
                              /\ c \notin C => h[c] = houses[c]
                              /\ c \in C => h[c] > 0
<1>1. PICK grown \in {g \in SUBSET {c \in C : houses[c] < HouseRows} :
                        \A c \in C : houses[c] = 0 => c \in g} :
        h = [c \in Points |-> IF c \in grown THEN houses[c] + 1 ELSE houses[c]]
  BY Zenon DEF LearnedHouses
<1>2. \A c \in Points : houses[c] \in Nat
  OBVIOUS
<1>3. /\ \A c \in grown : c \in C
      /\ \A c \in C : houses[c] = 0 => c \in grown
  BY <1>1
<1>. QED  BY <1>1, <1>2, <1>3

(* The fields the loop updates and the houses it writes fit together: the  *)
(* houses of C are those of fields that count the point.                   *)
LEMMA UpdateKeeps ==
  ASSUME FieldsOK(fields, houses), NEW x \in Points, NEW upd \in UpdatedFields(x),
         NEW C \in SUBSET Points,
         \A i \in DOMAIN fields : fields[i].c \in C => fields[i].c \in Learners(x),
         NEW h \in LearnedHouses(C)
  PROVE  FieldsOK(upd, h)
<1>1. /\ fields \in Seq(Fields)
      /\ houses \in [Points -> Nat]
      /\ \A i, j \in DOMAIN fields : fields[i].c = fields[j].c => i = j
      /\ \A i \in DOMAIN fields : ~fields[i].trust => houses[fields[i].c] > 0
      /\ \A i \in DOMAIN fields : HouseFollows(fields[i], houses)
  BY DEF FieldsOK
<1>2. /\ upd \in Seq(Fields)
      /\ DOMAIN upd = DOMAIN fields
      /\ \A i \in DOMAIN fields :
           /\ upd[i].c = fields[i].c
           /\ upd[i].inherits = fields[i].inherits
           /\ fields[i].trust => upd[i].trust
           /\ upd[i].n = IF i \in Near(x, UPDATE_W) /\ fields[i].n < 2 * NIn + 1
                         THEN fields[i].n + 1 ELSE fields[i].n
  BY <1>1, UpdatedFieldsFacts
<1>3. /\ h \in [Points -> Nat]
      /\ \A c \in Points : /\ h[c] >= houses[c]
                           /\ h[c] <= houses[c] + 1
                           /\ c \notin C => h[c] = houses[c]
                           /\ c \in C => h[c] > 0
  BY <1>1, LearnedHousesFacts
<1>4. \A i \in DOMAIN fields : /\ fields[i].c \in Points /\ fields[i].n \in Nat
                              /\ houses[fields[i].c] \in Nat
                              /\ h[fields[i].c] \in Nat
  <2>1. \A i \in DOMAIN fields : fields[i] \in Fields
    BY <1>1
  <2>2. \A i \in DOMAIN fields : fields[i].c \in Points /\ fields[i].n \in Nat
    BY <2>1 DEF Fields
  <2>. QED  BY <1>1, <1>3, <2>2
<1>5. \A i, j \in DOMAIN upd : upd[i].c = upd[j].c => i = j
  BY <1>1, <1>2, Zenon
<1>6. ASSUME NEW i \in DOMAIN upd, ~upd[i].trust
      PROVE  h[upd[i].c] > 0
  <2>1. houses[fields[i].c] > 0 /\ upd[i].c = fields[i].c
    BY <1>1, <1>2, <1>6, Zenon
  <2>2. h[fields[i].c] >= houses[fields[i].c]
    BY <1>2, <1>3, <1>4, Zenon
  <2>. QED  BY <1>2, <1>4, <2>1, <2>2, SMTT(40)
<1>7. ASSUME NEW i \in DOMAIN upd
      PROVE  HouseFollows(upd[i], h)
  <2>. SUFFICES ASSUME upd[i].inherits = FALSE, upd[i].n < 2 * NIn
                PROVE  h[upd[i].c] <= upd[i].n + 1
    BY DEF HouseFollows
  <2> DEFINE c == fields[i].c
  <2>1. i \in DOMAIN fields /\ upd[i].c = c /\ fields[i].inherits = FALSE /\ c \in Points
    BY <1>2, <1>4, Zenon
  <2>2. NIn \in Nat
    BY ConstantFacts
  <2>3. fields[i].n \in Nat /\ upd[i].n >= fields[i].n /\ fields[i].n < 2 * NIn
    BY <1>2, <1>4, <2>1, <2>2, SMTT(40)
  <2>4. houses[c] <= fields[i].n + 1
    BY <1>1, <2>1, <2>3 DEF HouseFollows
  <2>5. CASE c \in C
    <3>1. PICK j \in Near(x, UPDATE_W) : fields[j].c = c
      BY <2>1, <2>5, Zenon DEF Learners
    <3>2. j \in DOMAIN fields
      BY DEF Near
    <3>3. i \in Near(x, UPDATE_W)
      BY <1>1, <2>1, <3>1, <3>2, Zenon
    <3>4. upd[i].n = fields[i].n + 1
      BY <1>2, <2>1, <2>2, <2>3, <3>3
    <3>5. h[c] <= houses[c] + 1 /\ h[c] \in Nat /\ houses[c] \in Nat
      BY <1>3, <1>4, <2>1, Zenon
    <3>. HIDE DEF c
    <3>. QED  BY <2>1, <2>3, <2>4, <3>4, <3>5, SMTT(40)
  <2>6. CASE c \notin C
    <3>1. h[c] = houses[c] /\ houses[c] \in Nat /\ upd[i].n \in Nat
      BY <1>2, <1>3, <1>4, <2>1, <2>6, SMTT(40)
    <3>. HIDE DEF c
    <3>. QED  BY <2>1, <2>3, <2>4, <3>1
  <2>. QED  BY <2>5, <2>6
<1>. QED  BY <1>2, <1>3, <1>5, <1>6, <1>7 DEF FieldsOK

(* Moving the last field into a gap and dropping the last place keeps the  *)
(* remaining fields as they are, each in one place, whatever the gap.      *)
LEMMA FillGapKeeps ==
  ASSUME NEW s, NEW h, FieldsOK(s, h), s # <<>>, NEW i
  PROVE  FieldsOK(FillGap(s, i), h)
<1>1. /\ s \in Seq(Fields)
      /\ h \in [Points -> Nat]
      /\ \A k, j \in DOMAIN s : s[k].c = s[j].c => k = j
      /\ \A k \in DOMAIN s : ~s[k].trust => h[s[k].c] > 0
      /\ \A k \in DOMAIN s : HouseFollows(s[k], h)
  BY DEF FieldsOK
<1> DEFINE t == [s EXCEPT ![i] = s[Len(s)]]
           r == FillGap(s, i)
           from(k) == IF k = i THEN Len(s) ELSE k
<1>2. Len(s) \in Nat /\ Len(s) >= 1 /\ DOMAIN s = 1 .. Len(s)
  BY <1>1
<1>3. t \in Seq(Fields) /\ Len(t) = Len(s)
  <2>1. s[Len(s)] \in Fields
    BY <1>1, <1>2
  <2>2. s \in [1 .. Len(s) -> Fields]
    BY <1>1
  <2>3. t \in [1 .. Len(s) -> Fields]
    BY <2>1, <2>2, Zenon
  <2>. HIDE DEF t
  <2>. QED  BY <1>2, <2>3
<1>4. /\ r \in Seq(Fields)
      /\ DOMAIN r = 1 .. Len(s) - 1
      /\ \A k \in 1 .. Len(s) - 1 : r[k] = t[k]
  <2>1. r = SubSeq(t, 1, Len(s) - 1)
    BY DEF FillGap
  <2>. HIDE DEF t, r
  <2>. QED  BY <1>2, <1>3, <2>1
<1>5. \A k \in DOMAIN r : from(k) \in DOMAIN s /\ r[k] = s[from(k)]
  BY <1>2, <1>4
<1>6. \A k, j \in DOMAIN r : from(k) = from(j) => k = j
  BY <1>2, <1>4
<1>. HIDE DEF from, r, t
<1>7. \A k, j \in DOMAIN r : r[k].c = r[j].c => k = j
  BY <1>1, <1>5, <1>6, ZenonT(40)
<1>8. \A k \in DOMAIN r : (~r[k].trust => h[r[k].c] > 0) /\ HouseFollows(r[k], h)
  BY <1>1, <1>5, Zenon
<1>9. FieldsOK(r, h)
  BY <1>1, <1>4, <1>7, <1>8 DEF FieldsOK
<1>. QED  BY <1>9 DEF r

(* A field with a centre of its own and a house with its first row joins.  *)
LEMMA AppendKeeps ==
  ASSUME NEW s, NEW h, FieldsOK(s, h), NEW f \in Fields,
         \A k \in DOMAIN s : s[k].c # f.c,
         h[f.c] > 0, HouseFollows(f, h)
  PROVE  FieldsOK(Append(s, f), h)
<1>1. /\ s \in Seq(Fields)
      /\ h \in [Points -> Nat]
      /\ \A k, j \in DOMAIN s : s[k].c = s[j].c => k = j
      /\ \A k \in DOMAIN s : ~s[k].trust => h[s[k].c] > 0
      /\ \A k \in DOMAIN s : HouseFollows(s[k], h)
  BY DEF FieldsOK
<1> DEFINE r == Append(s, f)
           l == Len(s) + 1
<1>2. /\ r \in Seq(Fields)
      /\ \A k \in DOMAIN r : k = l \/ (k \in DOMAIN s /\ r[k] = s[k])
      /\ r[l] = f
  BY <1>1
<1>. HIDE DEF r, l
<1>3. \A k, j \in DOMAIN r : r[k].c = r[j].c => k = j
  BY <1>1, <1>2, Zenon
<1>4. \A k \in DOMAIN r : (~r[k].trust => h[r[k].c] > 0) /\ HouseFollows(r[k], h)
  BY <1>1, <1>2, Zenon
<1>5. FieldsOK(r, h)
  BY <1>1, <1>2, <1>3, <1>4 DEF FieldsOK
<1>. QED  BY <1>5 DEF r

-----------------------------------------------------------------------------
(* The three ways lwpr_aux_update_one_add_prune ends.                      *)

(* A field of the sequence belongs to a point of the model.                *)
LEMMA LearnersArePoints ==
  ASSUME fields \in Seq(Fields), NEW x
  PROVE  Learners(x) \in SUBSET Points
<1>1. \A i \in DOMAIN fields : fields[i].c \in Points
  <2>1. \A i \in DOMAIN fields : fields[i] \in Fields
    OBVIOUS
  <2>. QED  BY <2>1 DEF Fields
<1>2. \A w : Near(x, w) \subseteq DOMAIN fields
  BY DEF Near
<1>. QED  BY <1>1, <1>2 DEF Learners

(* No field has its centre at a point where none has weight above w_gen.   *)
LEMMA NoFieldThere ==
  ASSUME fields \in Seq(Fields), NEW x \in Points, Near(x, W_GEN) = {}
  PROVE  \A i \in DOMAIN fields : fields[i].c # x
<1>. SUFFICES ASSUME NEW i \in DOMAIN fields, fields[i].c = x
              PROVE  FALSE
  OBVIOUS
<1>1. fields[i] \in Fields
  OBVIOUS
<1>2. Weight(fields[i], x) = FULL_W
  BY <1>1, WeightFacts
<1>3. Weight(fields[i], x) > W_GEN
  BY <1>2, Thresholds
<1>. QED  BY <1>3 DEF Near

(* A new field, and the first row of its house.                            *)
LEMMA AddFieldStep ==
  ASSUME FieldsOK(fields, houses), NEW x \in Points, AddField(x)
  PROVE  FieldsOK(fields, houses)'
<1>1. fields \in Seq(Fields) /\ houses \in [Points -> Nat]
  BY DEF FieldsOK
<1>2. PICK upd \in UpdatedFields(x) :
        LET m == Heaviest(x, DOMAIN fields)
        IN fields' = Append(upd,
               IF Near(x, W_COPY) # {} /\ upd[m].trust
               THEN NewField(x, upd[m].d, upd[m].nreg, TRUE)
               ELSE NewField(x, InitWidth, IF NIn > 1 THEN 2 ELSE 1, FALSE))
  BY DEF AddField
<1> DEFINE m == Heaviest(x, DOMAIN fields)
           f == IF Near(x, W_COPY) # {} /\ upd[m].trust
                THEN NewField(x, upd[m].d, upd[m].nreg, TRUE)
                ELSE NewField(x, InitWidth, IF NIn > 1 THEN 2 ELSE 1, FALSE)
           C == Learners(x) \cup {x}
<1>3. fields' = Append(upd, f)
  BY <1>2
<1>4. \A i \in DOMAIN fields : fields[i].c # x
  BY <1>1, NoFieldThere DEF AddField
<1>5. C \in SUBSET Points /\ houses' \in LearnedHouses(C)
  BY <1>1, LearnersArePoints DEF AddField
<1>6. /\ upd \in Seq(Fields)
      /\ DOMAIN upd = DOMAIN fields
      /\ \A i \in DOMAIN fields : upd[i].c = fields[i].c
  BY <1>1, UpdatedFieldsFacts
<1>7. FieldsOK(upd, houses')
  <2>1. \A i \in DOMAIN fields : fields[i].c \in C => fields[i].c \in Learners(x)
    BY <1>4
  <2>. HIDE DEF C
  <2>. QED  BY <1>5, <2>1, UpdateKeeps
<1>8. /\ houses'[x] > 0
      /\ houses[x] = 0 => houses'[x] <= 1
      /\ houses[x] \in Nat
  <2>1. x \in C
    OBVIOUS
  <2>. HIDE DEF C
  <2>. QED  BY <1>1, <1>5, <2>1, LearnedHousesFacts
<1>9. f \in Fields /\ f.c = x /\ f.n = 0 /\ f.inherits = (houses[x] > 0)
  <2>1. CASE Near(x, W_COPY) # {} /\ upd[m].trust
    <3>1. DOMAIN fields # {}
      BY <2>1 DEF Near
    <3>2. m \in DOMAIN fields
      BY <1>1, <3>1, HeaviestExists
    <3>. HIDE DEF m
    <3>3. upd[m] \in Fields
      BY <1>6, <3>2
    <3>4. upd[m].d \in Widths /\ upd[m].nreg \in Nat
      BY <3>3 DEF Fields
    <3>5. f = NewField(x, upd[m].d, upd[m].nreg, TRUE)
      BY <2>1
    <3>. HIDE DEF f
    <3>. QED  BY <3>4, <3>5, SMTT(40) DEF NewField, Fields
  <2>2. CASE ~ (Near(x, W_COPY) # {} /\ upd[m].trust)
    <3>1. f = NewField(x, InitWidth, IF NIn > 1 THEN 2 ELSE 1, FALSE)
      BY <2>2
    <3>2. InitWidth \in Widths
      BY ConstantFacts
    <3>. HIDE DEF f
    <3>. QED  BY <3>1, <3>2, SMTT(40) DEF NewField, Fields
  <2>. QED  BY <2>1, <2>2
<1>10. HouseFollows(f, houses')
  <2>. HIDE DEF f
  <2>1. f.inherits = FALSE => ~ (houses[x] > 0)
    BY <1>9, Zenon
  <2>2. f.inherits = FALSE => houses'[f.c] <= f.n + 1
    BY <1>8, <1>9, <2>1
  <2>. QED  BY <2>2, Zenon DEF HouseFollows
<1>11. \A i \in DOMAIN upd : upd[i].c # f.c
  <2>. HIDE DEF f
  <2>. QED  BY <1>4, <1>6, <1>9, Zenon
<1>12. houses'[f.c] > 0
  <2>. HIDE DEF f
  <2>. QED  BY <1>8, <1>9
<1>13. FieldsOK(Append(upd, f), houses')
  <2>. HIDE DEF f
  <2>. QED  BY <1>7, <1>9, <1>10, <1>11, <1>12, AppendKeeps
<1>14. FieldsOK(fields', houses')
  BY <1>3, <1>13
<1>. QED  BY <1>14 DEF FieldsOK, HouseFollows

(* A field is removed, or none is.                                         *)
LEMMA PruneOrKeepStep ==
  ASSUME FieldsOK(fields, houses), NEW x \in Points, PruneField(x) \/ KeepFields(x)
  PROVE  FieldsOK(fields, houses)'
<1>1. fields \in Seq(Fields)
  BY DEF FieldsOK
<1>2. Learners(x) \in SUBSET Points /\ houses' \in LearnedHouses(Learners(x))
  BY <1>1, LearnersArePoints DEF PruneField, KeepFields
<1>3. \A upd \in UpdatedFields(x) : FieldsOK(upd, houses')
  BY <1>2, UpdateKeeps
<1>4. FieldsOK(fields', houses')
  <2>1. CASE PruneField(x)
    <3>1. PICK upd \in UpdatedFields(x) : fields' = FillGap(upd, Pruned(x, upd))
      BY <2>1, Zenon DEF PruneField
    <3>2. upd # <<>>
      <4>1. PICK i \in DOMAIN fields : TRUE
        BY <2>1 DEF PruneField, Near
      <4>2. DOMAIN upd # {}
        BY <1>1, <4>1, UpdatedFieldsFacts
      <4>. QED  BY <4>2
    <3>3. FieldsOK(FillGap(upd, Pruned(x, upd)), houses')
      BY <1>3, <3>2, FillGapKeeps
    <3>. QED  BY <3>1, <3>3
  <2>2. CASE KeepFields(x)
    BY <1>3, <2>2 DEF KeepFields
  <2>. QED  BY <2>1, <2>2
<1>. QED  BY <1>4 DEF FieldsOK, HouseFollows

-----------------------------------------------------------------------------
(* lwpr_aux_predict_conf_one_T.                                            *)

(* A point that is not declined has a field with small errors within       *)
(* reach, and this field answers.                                          *)
LEMMA NotNearest ==
  ASSUME fields \in Seq(Fields), NEW x \in Points
  PROVE  Kind(x) # "nearest"
<1>. SUFFICES ASSUME Exact(x) = {}, Usable(x) = {}, ~Declines(x)
              PROVE  FALSE
  BY Zenon DEF Kind
<1>1. PICK i \in Near(x, USE_AQO_THRESHOLD - 1) : TRUE
  BY DEF Declines
<1>2. i \in DOMAIN fields /\ Weight(fields[i], x) > USE_AQO_THRESHOLD - 1
  BY DEF Near
<1>3. fields[i] \in Fields
  BY <1>2
<1>4. /\ Weight(fields[i], x) \in Nat
      /\ Weight(fields[i], x) # USE_AQO_THRESHOLD
  BY <1>3, WeightFacts, Thresholds
<1>5. Weight(fields[i], x) > USE_AQO_THRESHOLD
  BY <1>2, <1>4, Thresholds
<1>6. Near(x, USE_AQO_THRESHOLD) # {}
  BY <1>2, <1>5 DEF Near
<1>7. SomeErrorSmall(x)
  BY <1>6 DEF Declines
<1>8. PICK j \in Near(x, CUTOFF) : ~AverageAbove(fields[j])
  BY <1>7 DEF SomeErrorSmall
<1>9. j \in Usable(x)
  BY <1>8, Zenon DEF Usable
<1>. QED  BY <1>9

-----------------------------------------------------------------------------
(* The inductive invariant and its consequences.                           *)

(* A model starts without fields (lwpr_init_model), and every call of      *)
(* lwpr_update and of lwpr_predict_explore keeps IndInv.                   *)
THEOREM FieldsInvariant == Spec => []IndInv
<1>1. Init => IndInv
  <2>. SUFFICES ASSUME Init
                PROVE  IndInv
    OBVIOUS
  <2>1. fields = <<>> /\ houses \in [Points -> Nat] /\ answer.kind = "none"
    BY DEF Init, NoAnswer
  <2>2. fields \in Seq(Fields) /\ DOMAIN fields = {}
    BY <2>1
  <2>. QED  BY <2>1, <2>2 DEF IndInv, FieldsOK, NeverNearest
<1>2. IndInv /\ [Next]_vars => IndInv'
  <2>. SUFFICES ASSUME IndInv, [Next]_vars
                PROVE  IndInv'
    OBVIOUS
  <2>0. FieldsOK(fields, houses) /\ fields \in Seq(Fields)
    BY DEF IndInv, FieldsOK
  <2>1. ASSUME NEW x \in Points, Learn(x)
        PROVE  IndInv'
    <3>1. FieldsOK(fields, houses)'
      BY <2>0, <2>1, AddFieldStep, PruneOrKeepStep DEF Learn
    <3>2. NeverNearest'
      BY <2>1 DEF Learn, NoAnswer, NeverNearest
    <3>. QED  BY <3>1, <3>2 DEF IndInv
  <2>2. ASSUME NEW x \in Points, NEW q \in Patterns \cup {NoPattern}, Predict(x, q)
        PROVE  IndInv'
    <3>1. fields' = fields /\ houses' = houses
      BY <2>2 DEF Predict
    <3>2. answer'.kind = Kind(x)
      BY <2>2 DEF Predict
    <3>3. NeverNearest'
      BY <2>0, <3>2, NotNearest DEF NeverNearest
    <3>. QED  BY <2>0, <3>1, <3>3 DEF IndInv, FieldsOK, HouseFollows
  <2>3. CASE UNCHANGED vars
    BY <2>3 DEF IndInv, FieldsOK, HouseFollows, NeverNearest, vars
  <2>. QED  BY <2>1, <2>2, <2>3 DEF Next
<1>. QED  BY <1>1, <1>2, PTL DEF Spec

(* Two receptive fields of a model never share a centre, so that the hash  *)
(* of a centre names the house of one field.                               *)
THEOREM CentresStayDistinct == Spec => []CentresDistinct
<1>1. IndInv => CentresDistinct
  BY DEF IndInv, FieldsOK, CentresDistinct
<1>. QED  BY <1>1, FieldsInvariant, PTL

(* Every untrusted field has a house with a row in it when                 *)
(* lwpr_aux_predict_conf_one_T asks it.                                    *)
THEOREM UntrustedIsHoused == Spec => []UntrustedHasHouse
<1>1. IndInv => UntrustedHasHouse
  BY DEF IndInv, FieldsOK, UntrustedHasHouse
<1>. QED  BY <1>1, FieldsInvariant, PTL

(* OkNNr_learn never meets a full house of a field that made its own: the  *)
(* field is trusted before the house is full.                              *)
THEOREM HousesHaveRoom == Spec => []HouseHasRoom
<1>1. IndInv => HouseHasRoom
  <2>. SUFFICES ASSUME IndInv, NEW i \in DOMAIN fields,
                       ~fields[i].inherits, ~Trusting(fields[i])
                PROVE  houses[fields[i].c] < HouseRows
    BY DEF HouseHasRoom
  <2>1. /\ fields[i] \in Fields /\ houses \in [Points -> Nat]
        /\ HouseFollows(fields[i], houses)
    BY DEF IndInv, FieldsOK
  <2>2. /\ fields[i].n \in Nat /\ fields[i].c \in Points
        /\ fields[i].inherits \in BOOLEAN
    BY <2>1 DEF Fields
  <2>3. fields[i].inherits = FALSE
    BY <2>2, Zenon
  <2>4. NIn \in Nat /\ fields[i].n < 2 * NIn
    BY <2>2, ConstantFacts DEF Trusting
  <2>5. houses[fields[i].c] <= fields[i].n + 1
    BY <2>1, <2>3, <2>4, Zenon DEF HouseFollows
  <2>6. houses[fields[i].c] \in Nat
    BY <2>1, <2>2
  <2>. QED  BY <2>2, <2>4, <2>5, <2>6 DEF HouseRows
<1>. QED  BY <1>1, FieldsInvariant, PTL

(* The branch of lwpr_aux_predict_conf_one_T that evaluates the nearest    *)
(* field on the leftover difference vector is never taken.                 *)
THEOREM NearestIsNotReached == Spec => []NeverNearest
<1>1. IndInv => NeverNearest
  BY DEF IndInv
<1>. QED  BY <1>1, FieldsInvariant, PTL

-----------------------------------------------------------------------------
(* The counts of a field: trust is earned, and no count outgrows its array. *)

(* The projections of a field fit in its arrays of nIn columns, its count   *)
(* stops at 2 nIn + 1, and it is trusted only after more than 2 nIn updates.*)
GoodField(f) ==
    /\ f.nreg \in 1 .. NIn
    /\ f.n <= HouseRows
    /\ f.trust => f.n > 2 * NIn

BoundsInv ==
    /\ \A i \in DOMAIN fields : GoodField(fields[i])
    /\ houses \in [Points -> 0 .. HouseRows]
    /\ history \in [Patterns -> 0 .. HistoryWindow]
    /\ answer.kind \in {"none", "exact", "weighted", "decline", "nearest"}
    /\ OutlierCountsItself
    /\ AnswerBacked

(* An update earns trust with the count it had before.                     *)
LEMMA UpdatedGood ==
  ASSUME NEW f \in Fields, GoodField(f), NEW e \in Errors, NEW d \in Widths,
         NEW grow, grow => f.nreg < NIn
  PROVE  GoodField(Updated(f, e, d, grow))
<1>1. NIn \in Nat \ {0} /\ f.nreg \in 1 .. NIn /\ f.n \in Nat /\ f.trust \in BOOLEAN
  BY ConstantFacts DEF GoodField, Fields
<1> DEFINE g == Updated(f, e, d, grow)
           t1 == f.trust \/ Trusting(f)
<1>2. /\ g.n = IF f.n < 2 * NIn + 1 THEN f.n + 1 ELSE f.n
      /\ g.nreg = IF grow THEN f.nreg + 1 ELSE f.nreg
      /\ g.trust = t1
  <2>1. g.n = IF f.n < 2 * NIn + 1 THEN f.n + 1 ELSE f.n
    BY UpdatedFacts
  <2>2. g.nreg = IF grow THEN f.nreg + 1 ELSE f.nreg
    BY DEF Updated, Fields
  <2>3. g.trust = t1
    BY DEF Updated, Fields
  <2>. QED  BY <2>1, <2>2, <2>3
<1>. HIDE DEF g
<1>3. g.nreg \in 1 .. NIn
  BY <1>1, <1>2
<1>4. g.n <= HouseRows
  BY <1>1, <1>2 DEF GoodField, HouseRows
<1>5. g.trust => g.n > 2 * NIn
  <2>1. t1 => f.n >= 2 * NIn
    BY <1>1 DEF Trusting, GoodField
  <2>. QED  BY <1>1, <1>2, <2>1
<1>. QED  BY <1>3, <1>4, <1>5 DEF GoodField, g

(* So does the loop over the fields within reach.                          *)
LEMMA LoopGood ==
  ASSUME fields \in Seq(Fields), \A i \in DOMAIN fields : GoodField(fields[i]),
         NEW x \in Points, NEW upd \in UpdatedFields(x), NEW i \in DOMAIN fields
  PROVE  GoodField(upd[i])
<1> DEFINE near == Near(x, UPDATE_W)
<1>1. PICK err \in [near -> Errors], width \in [near -> Widths],
           grown \in SUBSET {j \in near : fields[j].nreg < NIn} :
        upd = UpdateLoop(x, err, width, grown)
  BY DEF UpdatedFields
<1>2. upd[i] = IF i \in near THEN Updated(fields[i], err[i], width[i], i \in grown)
                             ELSE fields[i]
  BY <1>1, Zenon DEF UpdateLoop
<1>. HIDE DEF near
<1>3. fields[i] \in Fields /\ (i \in grown => fields[i].nreg < NIn)
  OBVIOUS
<1>4. CASE i \in near
  <2>1. err[i] \in Errors /\ width[i] \in Widths
    BY <1>4
  <2>. QED  BY <1>2, <1>3, <1>4, <2>1, UpdatedGood
<1>5. CASE i \notin near
  BY <1>2, <1>5
<1>. QED  BY <1>4, <1>5

(* Filling the gap keeps every field but the removed one, and adds none.   *)
LEMMA FillGapMembers ==
  ASSUME NEW s \in Seq(Fields), s # <<>>, NEW i \in DOMAIN s
  PROVE  /\ \A k \in DOMAIN FillGap(s, i) : \E j \in DOMAIN s : FillGap(s, i)[k] = s[j]
         /\ \A j \in DOMAIN s \ {i} : \E k \in DOMAIN FillGap(s, i) : FillGap(s, i)[k] = s[j]
<1> DEFINE t == [s EXCEPT ![i] = s[Len(s)]]
           r == FillGap(s, i)
<1>1. Len(s) \in Nat /\ Len(s) >= 1 /\ DOMAIN s = 1 .. Len(s)
  OBVIOUS
<1>2. t \in Seq(Fields) /\ Len(t) = Len(s)
  <2>1. s[Len(s)] \in Fields
    BY <1>1
  <2>2. s \in [1 .. Len(s) -> Fields]
    OBVIOUS
  <2>3. t \in [1 .. Len(s) -> Fields]
    BY <2>1, <2>2, Zenon
  <2>. HIDE DEF t
  <2>. QED  BY <1>1, <2>3
<1>3. \A k \in DOMAIN s : t[k] = IF k = i THEN s[Len(s)] ELSE s[k]
  BY Zenon
<1>4. /\ DOMAIN r = 1 .. Len(s) - 1
      /\ \A k \in 1 .. Len(s) - 1 : r[k] = t[k]
  <2>1. r = SubSeq(t, 1, Len(s) - 1)
    BY DEF FillGap
  <2>. HIDE DEF t, r
  <2>. QED  BY <1>1, <1>2, <2>1
<1>. HIDE DEF t, r
<1>5. ASSUME NEW k \in DOMAIN r PROVE \E j \in DOMAIN s : r[k] = s[j]
  <2>1. k \in DOMAIN s /\ Len(s) \in DOMAIN s
    BY <1>1, <1>4
  <2>2. r[k] = IF k = i THEN s[Len(s)] ELSE s[k]
    BY <1>3, <1>4, <2>1
  <2>. QED  BY <2>1, <2>2
<1>6. ASSUME NEW j \in DOMAIN s, j # i PROVE \E k \in DOMAIN r : r[k] = s[j]
  <2>1. CASE j # Len(s)
    <3>1. j \in DOMAIN r /\ r[j] = s[j]
      BY <1>1, <1>3, <1>4, <1>6, <2>1
    <3>. QED  BY <3>1
  <2>2. CASE j = Len(s)
    <3>1. i \in DOMAIN r
      BY <1>1, <1>4, <1>6, <2>2
    <3>2. r[i] = s[j]
      BY <1>3, <1>4, <2>2, <3>1
    <3>. QED  BY <3>1, <3>2
  <2>. QED  BY <2>1, <2>2
<1>7. /\ \A k \in DOMAIN r : \E j \in DOMAIN s : r[k] = s[j]
      /\ \A j \in DOMAIN s \ {i} : \E k \in DOMAIN r : r[k] = s[j]
  BY <1>5, <1>6
<1>. QED  BY <1>7, Zenon DEF r

(* The empty set has no element, a singleton has one.                      *)
LEMMA SmallCardinality ==
  ASSUME NEW a
  PROVE  Cardinality({}) = 0 /\ Cardinality({a}) = 1
<1> DEFINE Counts(f, S) == f = [T \in SUBSET S |-> IF T = {} THEN 0 ELSE 1 + f[T \ {CHOOSE x : x \in T}]]
           g(S) == [T \in SUBSET S |-> IF T = {} THEN 0 ELSE 1]
<1>1. ASSUME NEW S, S \in {{}, {a}} PROVE Counts(g(S), S)
  <2>1. ASSUME NEW T \in SUBSET S, T # {} PROVE T \ {CHOOSE x : x \in T} = {}
    <3>1. T = {a} /\ (CHOOSE x : x \in T) = a
      BY <1>1, <2>1
    <3>. QED  BY <3>1
  <2>2. ASSUME NEW T \in SUBSET S
        PROVE  g(S)[T] = IF T = {} THEN 0 ELSE 1 + g(S)[T \ {CHOOSE x : x \in T}]
    <3>1. {} \in SUBSET S /\ g(S)[{}] = 0
      OBVIOUS
    <3>. QED  BY <2>1, <3>1
  <2>. QED  BY <2>2
<1>2. ASSUME NEW S, S \in {{}, {a}} PROVE Cardinality(S) = IF S = {} THEN 0 ELSE 1
  <2> DEFINE h == CHOOSE f : Counts(f, S)
  <2>1. Counts(h, S)
    BY <1>1, <1>2
  <2>2. Cardinality(S) = h[S]
    BY DEF Cardinality
  <2>. HIDE DEF h
  <2>3. \A T \in SUBSET S : h[T] = IF T = {} THEN 0 ELSE 1 + h[T \ {CHOOSE x : x \in T}]
    BY <2>1
  <2>4. h[{}] = 0
    BY <2>3
  <2>5. S # {} => S \ {CHOOSE x : x \in S} = {}
    BY <1>2
  <2>6. S # {} => h[S] = 1 + h[S \ {CHOOSE x : x \in S}]
    BY <2>3
  <2>. QED  BY <2>2, <2>4, <2>5, <2>6
<1>. QED  BY <1>2

(* Where two fields overlap, the two heaviest ones do, and one of these is  *)
(* removed.                                                                 *)
LEMMA PrunedOverlaps ==
  ASSUME fields \in Seq(Fields), NEW x \in Points, Cardinality(Near(x, W_PRUNE)) > 1,
         NEW upd
  PROVE  /\ Pruned(x, upd) \in DOMAIN fields
         /\ Weight(fields[Pruned(x, upd)], x) > W_PRUNE
         /\ \E j \in DOMAIN fields \ {Pruned(x, upd)} : Weight(fields[j], x) > W_PRUNE
<1> DEFINE D == DOMAIN fields
           m == Heaviest(x, D)
           s == Heaviest(x, D \ {m})
<1>1. PICK a \in Near(x, W_PRUNE), b \in Near(x, W_PRUNE) : a # b
  <2> DEFINE N == Near(x, W_PRUNE)
  <2>1. Cardinality({}) = 0 /\ \A a : Cardinality({a}) = 1
    BY SmallCardinality, Zenon
  <2>2. Cardinality(N) # 0 /\ Cardinality(N) # 1
    OBVIOUS
  <2>. HIDE DEF N
  <2>3. N # {} /\ \A a : N # {a}
    BY <2>1, <2>2, Zenon
  <2>4. PICK a \in N : TRUE
    BY <2>3
  <2>5. PICK b \in N : a # b
    <3>1. a \in N /\ N # {a}
      BY <2>3, <2>4, Zenon
    <3>. QED  BY <3>1
  <2>. QED  BY <2>4, <2>5 DEF N
<1>2. a \in D /\ b \in D /\ Weight(fields[a], x) > W_PRUNE /\ Weight(fields[b], x) > W_PRUNE
  BY DEF Near
<1>3. \A j \in D : Weight(fields[j], x) \in Int
  <2>1. \A j \in D : fields[j] \in Fields
    OBVIOUS
  <2>. QED  BY <2>1, WeightFacts, Thresholds
<1>4. m \in D /\ \A j \in D : Weight(fields[j], x) <= Weight(fields[m], x)
  BY <1>2, HeaviestExists
<1>5. s \in D \ {m} /\ \A j \in D \ {m} : Weight(fields[j], x) <= Weight(fields[s], x)
  <2> DEFINE E == D \ {m}
  <2>1. E \in SUBSET DOMAIN fields /\ E # {}
    BY <1>1, <1>2
  <2>. HIDE DEF E
  <2>2. /\ Heaviest(x, E) \in E
        /\ \A j \in E : Weight(fields[j], x) <= Weight(fields[Heaviest(x, E)], x)
    BY <2>1, HeaviestExists
  <2>. QED  BY <2>2, Zenon DEF E
<1>6. Pruned(x, upd) \in {m, s}
  BY DEF Pruned
<1>. HIDE DEF m, s, D
<1>7. W_PRUNE \in Int
  BY DEF W_PRUNE
<1>8. Weight(fields[m], x) > W_PRUNE
  BY <1>2, <1>3, <1>4, <1>7
<1>9. Weight(fields[s], x) > W_PRUNE
  <2>1. PICK c \in {a, b} : c # m
    BY <1>1
  <2>2. c \in D \ {m} /\ Weight(fields[c], x) > W_PRUNE
    BY <1>2, <2>1
  <2>. QED  BY <1>3, <1>5, <1>7, <2>2
<1>10. /\ Pruned(x, upd) \in D /\ Weight(fields[Pruned(x, upd)], x) > W_PRUNE
       /\ \E j \in D \ {Pruned(x, upd)} : Weight(fields[j], x) > W_PRUNE
  BY <1>4, <1>5, <1>6, <1>8, <1>9
<1>. QED  BY <1>10 DEF D

\* What a step of lwpr_update makes of a field that it keeps.
Successor(f, g) == g.c = f.c /\ g.n >= f.n /\ (f.trust => g.trust)

(* The loop of lwpr_update over the fields gives each one a successor.     *)
LEMMA LoopSuccessor ==
  ASSUME fields \in Seq(Fields), NEW x \in Points, NEW upd \in UpdatedFields(x),
         NEW i \in DOMAIN fields
  PROVE  Successor(fields[i], upd[i])
<1>1. /\ upd[i].c = fields[i].c
      /\ fields[i].trust => upd[i].trust
      /\ upd[i].n = IF i \in Near(x, UPDATE_W) /\ fields[i].n < 2 * NIn + 1
                    THEN fields[i].n + 1 ELSE fields[i].n
  BY UpdatedFieldsFacts
<1>2. fields[i].n \in Nat
  <2>1. fields[i] \in Fields
    OBVIOUS
  <2>. QED  BY <2>1 DEF Fields
<1>3. upd[i].n >= fields[i].n
  BY <1>1, <1>2
<1>. QED  BY <1>1, <1>3 DEF Successor

\* A field has a successor, or it overlaps with one that has.
Kept(f) == \E g \in Range(fields') : Successor(f, g)

Overlapped(f) ==
    \E g \in Range(fields), x \in Points :
       /\ g.c # f.c
       /\ g.c \in {h.c : h \in Range(fields')}
       /\ Weight(f, x) > W_PRUNE
       /\ Weight(g, x) > W_PRUNE

(* Every field has a successor, but the one of two that overlap at x which *)
(* is removed.                                                             *)
LEMMA LearnKeeps ==
  ASSUME FieldsOK(fields, houses), NEW x \in Points, Learn(x), NEW i \in DOMAIN fields
  PROVE  Kept(fields[i]) \/ Overlapped(fields[i])
<1>1. fields \in Seq(Fields) /\ \A k, j \in DOMAIN fields : fields[k].c = fields[j].c => k = j
  BY DEF FieldsOK
<1>2. CASE AddField(x)
  <2>1. PICK upd \in UpdatedFields(x) : \E f : fields' = Append(upd, f)
    BY <1>2, Zenon DEF AddField
  <2>2. upd \in Seq(Fields) /\ DOMAIN upd = DOMAIN fields
    BY <1>1, UpdatedFieldsFacts
  <2>3. i \in DOMAIN fields' /\ fields'[i] = upd[i]
    BY <2>1, <2>2
  <2>4. Successor(fields[i], upd[i])
    BY <1>1, LoopSuccessor
  <2>. QED  BY <2>3, <2>4 DEF Kept, Range
<1>3. CASE KeepFields(x)
  <2>1. fields' \in UpdatedFields(x)
    BY <1>3 DEF KeepFields
  <2>2. DOMAIN fields' = DOMAIN fields
    BY <1>1, <2>1, UpdatedFieldsFacts
  <2>3. Successor(fields[i], fields'[i])
    BY <1>1, <2>1, LoopSuccessor
  <2>. QED  BY <2>2, <2>3 DEF Kept, Range
<1>4. CASE PruneField(x)
  <2>1. PICK upd \in UpdatedFields(x) : fields' = FillGap(upd, Pruned(x, upd))
    BY <1>4, Zenon DEF PruneField
  <2> DEFINE p == Pruned(x, upd)
  <2>2. upd \in Seq(Fields) /\ DOMAIN upd = DOMAIN fields /\ upd # <<>>
    <3>1. upd \in Seq(Fields) /\ DOMAIN upd = DOMAIN fields
      BY <1>1, UpdatedFieldsFacts
    <3>. QED  BY <3>1
  <2>3. /\ p \in DOMAIN fields
        /\ Weight(fields[p], x) > W_PRUNE
        /\ \E j \in DOMAIN fields \ {p} : Weight(fields[j], x) > W_PRUNE
    BY <1>1, <1>4, PrunedOverlaps DEF PruneField
  <2>. HIDE DEF p
  <2>4. \A j \in DOMAIN fields \ {p} : \E g \in Range(fields') : g = upd[j]
    <3>1. \A j \in DOMAIN upd \ {p} : \E k \in DOMAIN fields' : fields'[k] = upd[j]
      BY <2>1, <2>2, <2>3, FillGapMembers DEF p
    <3>. QED  BY <2>2, <3>1 DEF Range
  <2>5. \A j \in DOMAIN fields : Successor(fields[j], upd[j])
    BY <1>1, LoopSuccessor
  <2>6. CASE i # p
    BY <2>4, <2>5, <2>6 DEF Kept
  <2>7. CASE i = p
    <3>1. PICK j \in DOMAIN fields \ {p} : Weight(fields[j], x) > W_PRUNE
      BY <2>3
    <3>2. fields[j].c # fields[i].c /\ fields[j] \in Range(fields)
      BY <1>1, <2>7 DEF Range
    <3>3. fields[j].c \in {h.c : h \in Range(fields')}
      BY <2>4, <2>5 DEF Successor
    <3>. QED  BY <2>3, <2>7, <3>1, <3>2, <3>3 DEF Overlapped
  <2>. QED  BY <2>6, <2>7
<1>. QED  BY <1>2, <1>3, <1>4 DEF Learn

(* lwpr_update forgets a field only where another one, which stays,        *)
(* overlaps with it.                                                       *)
THEOREM OnlyOverlappedForgotten == Spec => ForgetsOnlyOverlapped
<1> DEFINE A == \A f \in Range(fields) : Kept(f) \/ Overlapped(f)
<1>1. IndInv /\ [Next]_vars => A \/ UNCHANGED vars
  <2>. SUFFICES ASSUME IndInv, [Next]_vars, NEW i \in DOMAIN fields, ~UNCHANGED vars
                PROVE  Kept(fields[i]) \/ Overlapped(fields[i])
    BY DEF Range
  <2>0. FieldsOK(fields, houses) /\ fields \in Seq(Fields)
    BY DEF IndInv, FieldsOK
  <2>1. ASSUME NEW x \in Points, Learn(x) PROVE Kept(fields[i]) \/ Overlapped(fields[i])
    BY <2>0, <2>1, LearnKeeps
  <2>2. ASSUME NEW x \in Points, NEW q \in Patterns \cup {NoPattern}, Predict(x, q)
        PROVE  Kept(fields[i])
    <3>1. fields' = fields /\ fields[i] \in Fields
      BY <2>0, <2>2 DEF Predict
    <3>2. fields[i].n \in Nat
      BY <3>1 DEF Fields
    <3>. QED  BY <3>1, <3>2 DEF Kept, Successor, Range
  <2>. QED  BY <2>1, <2>2 DEF Next
<1>2. IndInv /\ [Next]_vars =>
        [\A f \in Range(fields) :
          \/ \E g \in Range(fields') : /\ g.c = f.c
                                       /\ g.n >= f.n
                                       /\ f.trust => g.trust
          \/ \E g \in Range(fields), x \in Points :
                /\ g.c # f.c
                /\ g.c \in {h.c : h \in Range(fields')}
                /\ Weight(f, x) > W_PRUNE
                /\ Weight(g, x) > W_PRUNE]_vars
  BY <1>1, Zenon DEF Kept, Overlapped, Successor
<1>. QED  BY <1>2, FieldsInvariant, PTL DEF Spec, ForgetsOnlyOverlapped

(* The fields after lwpr_update are good: updated, left over by the gap,   *)
(* or new, with the projections of a good one.                             *)
LEMMA LearnGood ==
  ASSUME FieldsOK(fields, houses), \A i \in DOMAIN fields : GoodField(fields[i]),
         NEW x \in Points, Learn(x)
  PROVE  \A i \in DOMAIN fields' : GoodField(fields'[i])
<1>1. fields \in Seq(Fields)
  BY DEF FieldsOK
<1>2. \A upd \in UpdatedFields(x) :
        /\ upd \in Seq(Fields) /\ DOMAIN upd = DOMAIN fields
        /\ \A i \in DOMAIN upd : GoodField(upd[i])
  BY <1>1, UpdatedFieldsFacts, LoopGood
<1>3. CASE AddField(x)
  <2>1. PICK upd \in UpdatedFields(x) :
          LET m == Heaviest(x, DOMAIN fields)
          IN fields' = Append(upd,
                 IF Near(x, W_COPY) # {} /\ upd[m].trust
                 THEN NewField(x, upd[m].d, upd[m].nreg, TRUE)
                 ELSE NewField(x, InitWidth, IF NIn > 1 THEN 2 ELSE 1, FALSE))
    BY <1>3 DEF AddField
  <2> DEFINE m == Heaviest(x, DOMAIN fields)
             f == IF Near(x, W_COPY) # {} /\ upd[m].trust
                  THEN NewField(x, upd[m].d, upd[m].nreg, TRUE)
                  ELSE NewField(x, InitWidth, IF NIn > 1 THEN 2 ELSE 1, FALSE)
  <2>2. fields' = Append(upd, f)
    BY <2>1
  <2>3. NIn \in Nat \ {0} /\ 0 <= HouseRows
    BY ConstantFacts DEF HouseRows
  <2>4. \A d, r, c : r \in 1 .. NIn => GoodField(NewField(x, d, r, c))
    BY <2>3 DEF GoodField, NewField
  <2>5. GoodField(f)
    <3>1. CASE Near(x, W_COPY) # {} /\ upd[m].trust
      <4>1. m \in DOMAIN fields
        <5>1. DOMAIN fields # {}
          BY <3>1 DEF Near
        <5>. QED  BY <1>1, <5>1, HeaviestExists
      <4>. HIDE DEF m
      <4>2. upd[m].nreg \in 1 .. NIn
        BY <1>2, <4>1 DEF GoodField
      <4>3. f = NewField(x, upd[m].d, upd[m].nreg, TRUE)
        BY <3>1
      <4>. HIDE DEF f
      <4>. QED  BY <2>4, <4>2, <4>3
    <3>2. CASE ~(Near(x, W_COPY) # {} /\ upd[m].trust)
      <4>1. f = NewField(x, InitWidth, IF NIn > 1 THEN 2 ELSE 1, FALSE)
        BY <3>2
      <4>2. (IF NIn > 1 THEN 2 ELSE 1) \in 1 .. NIn
        BY <2>3
      <4>. HIDE DEF f
      <4>. QED  BY <2>4, <4>1, <4>2
    <3>. QED  BY <3>1, <3>2
  <2>. HIDE DEF f
  <2>6. upd \in Seq(Fields) /\ \A i \in DOMAIN upd : GoodField(upd[i])
    BY <1>2
  <2>7. \A i \in DOMAIN fields' : fields'[i] = f \/ (i \in DOMAIN upd /\ fields'[i] = upd[i])
    BY <2>2, <2>6
  <2>. QED  BY <2>5, <2>6, <2>7, Zenon
<1>4. CASE KeepFields(x)
  BY <1>2, <1>4 DEF KeepFields
<1>5. CASE PruneField(x)
  <2>1. PICK upd \in UpdatedFields(x) : fields' = FillGap(upd, Pruned(x, upd))
    BY <1>5, Zenon DEF PruneField
  <2>2. Pruned(x, upd) \in DOMAIN fields
    BY <1>1, <1>5, PrunedOverlaps DEF PruneField
  <2>3. upd \in Seq(Fields) /\ Pruned(x, upd) \in DOMAIN upd /\ upd # <<>>
    BY <1>2, <2>2
  <2>4. \A k \in DOMAIN fields' : \E j \in DOMAIN upd : fields'[k] = upd[j]
    BY <2>1, <2>3, FillGapMembers
  <2>. QED  BY <1>2, <2>4, Zenon
<1>. QED  BY <1>3, <1>4, <1>5 DEF Learn

(* OkNNr_learn appends no row to a full house.                             *)
LEMMA HousesBounded ==
  ASSUME houses \in [Points -> 0 .. HouseRows], NEW C \in SUBSET Points,
         NEW h \in LearnedHouses(C)
  PROVE  h \in [Points -> 0 .. HouseRows]
<1>1. PICK grown \in {g \in SUBSET {c \in C : houses[c] < HouseRows} :
                        \A c \in C : houses[c] = 0 => c \in g} :
        h = [c \in Points |-> IF c \in grown THEN houses[c] + 1 ELSE houses[c]]
  BY Zenon DEF LearnedHouses
<1>2. HouseRows \in Nat
  BY ConstantFacts DEF HouseRows
<1>3. \A c \in grown : houses[c] < HouseRows
  OBVIOUS
<1>. QED  BY <1>1, <1>2, <1>3

(* num_history_data stops at the size of the window, and after a point of  *)
(* pattern q it is not 0 for q.                                            *)
LEMMA RememberFacts ==
  ASSUME history \in [Patterns -> 0 .. HistoryWindow], NEW q
  PROVE  /\ Remember(q) \in [Patterns -> 0 .. HistoryWindow]
         /\ q \in Patterns => Remember(q)[q] > 0
<1>1. HistoryWindow \in Nat \ {0}
  BY FieldAssumption, Zenon
<1>. QED  BY <1>1 DEF Remember

(* Of several fields one is the last.                                      *)
LEMMA LastOfFields ==
  ASSUME fields \in Seq(Fields), NEW S \in SUBSET DOMAIN fields, S # {}
  PROVE  \E i \in S : \A j \in S : j <= i
<1> DEFINE rest(i) == Len(fields) - i
           T == {rest(i) : i \in S}
<1>1. \A i \in S : i \in Nat /\ Len(fields) \in Nat /\ rest(i) \in Nat
  OBVIOUS
<1>2. T \in SUBSET Nat /\ T # {}
  BY <1>1
<1>3. PICK m \in T : \A n \in T : m <= n
  <2>. HIDE DEF T
  <2>. QED  BY <1>2, LeastNumber
<1>4. PICK i \in S : \A j \in S : rest(i) <= rest(j)
  BY <1>3
<1>5. ASSUME NEW j \in S PROVE j <= i
  <2>1. Len(fields) - i <= Len(fields) - j
    BY <1>4
  <2>2. Len(fields) \in Nat /\ i \in Nat /\ j \in Nat
    BY <1>1
  <2>. QED  BY <2>1, <2>2
<1>. QED  BY <1>5

(* The fields a prediction is made of.                                     *)
LEMMA ContributorsBacked ==
  ASSUME FieldsOK(fields, houses), \A i \in DOMAIN fields : GoodField(fields[i]),
         NEW x \in Points, NEW i \in Contributors(x)
  PROVE  IF fields[i].trust THEN fields[i].n > 2 * NIn /\ ~AverageAbove(fields[i])
         ELSE houses[fields[i].c] > 0
<1>1. fields \in Seq(Fields) /\ \A j \in DOMAIN fields : ~fields[j].trust => houses[fields[j].c] > 0
  BY DEF FieldsOK
<1>2. Kind(x) # "nearest"
  BY <1>1, NotNearest
<1>3. Kind(x) \in {"exact", "weighted", "decline"}
  BY <1>2, Zenon DEF Kind
<1>4. i \in Near(x, CUTOFF) /\ ~(fields[i].trust /\ AverageAbove(fields[i]))
  <2>1. CASE Kind(x) = "exact"
    <3>1. Exact(x) # {}
      BY <2>1 DEF Kind
    <3>2. Exact(x) \in SUBSET DOMAIN fields
      BY DEF Exact, Near
    <3>3. \E j \in Exact(x) : \A k \in Exact(x) : k <= j
      BY <1>1, <3>1, <3>2, LastOfFields
    <3>4. i = CHOOSE j \in Exact(x) : \A k \in Exact(x) : k <= j
      BY <2>1 DEF Contributors
    <3>5. i \in Exact(x)
      BY <3>3, <3>4, Zenon
    <3>6. i \in Near(x, CUTOFF) /\ AverageBelow(fields[i]) /\ i \in DOMAIN fields
      BY <3>2, <3>5 DEF Exact
    <3>7. ~AverageAbove(fields[i])
      <4>1. fields[i].errs \in Seq(Nat)
        <5>1. fields[i] \in Fields
          BY <1>1, <3>6
        <5>2. fields[i].errs \in Seq(Errors)
          BY <5>1 DEF Fields
        <5>3. Errors \subseteq Nat
          BY FieldAssumption, Zenon
        <5> DEFINE w == fields[i].errs
        <5>4. Len(w) \in Nat /\ w \in [1 .. Len(w) -> Errors]
          BY <5>2
        <5>5. w \in [1 .. Len(w) -> Nat]
          BY <5>3, <5>4, Zenon
        <5>. HIDE DEF w
        <5>6. w \in Seq(Nat)
          BY <5>4, <5>5
        <5>. QED  BY <5>6 DEF w
      <4>2. Total(fields[i].errs) \in Nat /\ Len(fields[i].errs) \in Nat
        BY <4>1, TotalType
      <4>. QED  BY <3>6, <4>2 DEF AverageBelow, AverageAbove, ERROR_THRESHOLD
    <3>. QED  BY <3>6, <3>7
  <2>2. CASE Kind(x) = "weighted"
    BY <2>2, Zenon DEF Contributors, Usable
  <2>3. CASE Kind(x) = "decline"
    BY <2>3, Zenon DEF Contributors
  <2>. QED  BY <1>3, <2>1, <2>2, <2>3
<1>5. i \in DOMAIN fields
  BY <1>4 DEF Near
<1>. QED  BY <1>1, <1>4, <1>5, Zenon DEF GoodField

(* Every call of lwpr_update and of lwpr_predict_explore keeps the bounds. *)
THEOREM BoundsInvariant == Spec => []BoundsInv
<1>1. Init => BoundsInv
  <2>. SUFFICES ASSUME Init PROVE BoundsInv
    OBVIOUS
  <2>1. fields = <<>> /\ answer = NoAnswer
    BY DEF Init
  <2>2. HouseRows \in Nat /\ HistoryWindow \in Nat
    BY ConstantFacts, FieldAssumption DEF HouseRows
  <2>3. houses \in [Points -> 0 .. HouseRows] /\ history \in [Patterns -> 0 .. HistoryWindow]
    BY <2>2 DEF Init
  <2>. QED  BY <2>1, <2>3 DEF BoundsInv, NoAnswer, OutlierCountsItself, AnswerBacked
<1>2. IndInv /\ BoundsInv /\ [Next]_vars => BoundsInv'
  <2>. SUFFICES ASSUME IndInv, BoundsInv, [Next]_vars PROVE BoundsInv'
    OBVIOUS
  <2>0. FieldsOK(fields, houses) /\ fields \in Seq(Fields)
    BY DEF IndInv, FieldsOK
  <2>1. ASSUME NEW x \in Points, Learn(x) PROVE BoundsInv'
    <3>1. \A i \in DOMAIN fields' : GoodField(fields'[i])
      BY <2>0, <2>1, LearnGood DEF BoundsInv
    <3>2. PICK C \in SUBSET Points : houses' \in LearnedHouses(C)
      <4>1. Learners(x) \in SUBSET Points /\ Learners(x) \cup {x} \in SUBSET Points
        BY <2>0, LearnersArePoints
      <4>. QED  BY <2>1, <4>1 DEF Learn, AddField, PruneField, KeepFields
    <3>3. houses' \in [Points -> 0 .. HouseRows]
      BY <3>2, HousesBounded DEF BoundsInv
    <3>4. history' = history \/ \E q : history' = Remember(q)
      BY <2>1, Zenon DEF Learn
    <3>5. history' \in [Patterns -> 0 .. HistoryWindow]
      BY <3>4, RememberFacts DEF BoundsInv
    <3>6. answer' = NoAnswer
      BY <2>1 DEF Learn
    <3>7. (OutlierCountsItself /\ AnswerBacked)'
      BY <3>6 DEF NoAnswer, OutlierCountsItself, AnswerBacked
    <3>8. (\A i \in DOMAIN fields : GoodField(fields[i]))'
      BY <3>1 DEF GoodField
    <3>. QED  BY <3>3, <3>5, <3>6, <3>7, <3>8 DEF BoundsInv, NoAnswer
  <2>2. ASSUME NEW x \in Points, NEW q \in Patterns \cup {NoPattern}, Predict(x, q)
        PROVE  BoundsInv'
    <3>1. /\ fields' = fields /\ houses' = houses /\ history' = Remember(q)
          /\ answer'.kind = Kind(x) /\ answer'.asked = q
          /\ answer'.of = {fields[i] : i \in Contributors(x)}
          /\ answer'.future = IF Exact(x) \cup Usable(x) = {}
                              THEN {p \in Patterns : history'[p] > 0} ELSE {}
      BY <2>2 DEF Predict
    <3>2. (\A i \in DOMAIN fields : GoodField(fields[i]))'
      BY <3>1 DEF BoundsInv, GoodField
    <3>3. /\ history' \in [Patterns -> 0 .. HistoryWindow]
          /\ q \in Patterns => history'[q] > 0
      BY <3>1, RememberFacts DEF BoundsInv
    <3>4. Kind(x) \in {"none", "exact", "weighted", "decline", "nearest"}
      BY Zenon DEF Kind
    <3>5. OutlierCountsItself'
      <4>. SUFFICES ASSUME Kind(x) = "decline", q # NoPattern PROVE q \in answer'.future
        BY <3>1 DEF OutlierCountsItself
      <4>1. Exact(x) = {} /\ Usable(x) = {}
        BY DEF Kind
      <4>. QED  BY <3>1, <3>3, <4>1
    <3>6. AnswerBacked'
      <4>1. ASSUME NEW f \in answer'.of
            PROVE  IF f.trust THEN f.n > 2 * NIn /\ ~AverageAbove(f) ELSE houses[f.c] > 0
        <5>1. PICK i \in Contributors(x) : f = fields[i]
          BY <3>1
        <5>. QED  BY <2>0, <5>1, ContributorsBacked DEF BoundsInv
      <4>. QED  BY <3>1, <4>1 DEF AnswerBacked
    <3>. QED  BY <3>1, <3>2, <3>3, <3>4, <3>5, <3>6 DEF BoundsInv
  <2>3. CASE UNCHANGED vars
    BY <2>3 DEF BoundsInv, GoodField, OutlierCountsItself, AnswerBacked, AverageAbove, vars
  <2>. QED  BY <2>1, <2>2, <2>3 DEF Next
<1>. QED  BY <1>1, <1>2, FieldsInvariant, PTL DEF Spec

(* The types of the model: no count outgrows the array that holds it.      *)
THEOREM FieldTypes == Spec => []TypeOK
<1>1. IndInv /\ BoundsInv => TypeOK
  <2>. SUFFICES ASSUME IndInv, BoundsInv, NEW i \in DOMAIN fields
                PROVE  fields[i] \in [c : Points, d : Widths, nreg : 1..NIn, n : 0..HouseRows,
                                      trust : BOOLEAN, errs : Seq(Errors), copied : BOOLEAN,
                                      inherits : BOOLEAN]
    BY DEF BoundsInv, TypeOK
  <2>1. fields[i] \in Fields /\ GoodField(fields[i])
    BY DEF IndInv, FieldsOK, BoundsInv
  <2>2. fields[i].n \in 0 .. HouseRows /\ fields[i].nreg \in 1 .. NIn
    BY <2>1, ConstantFacts DEF Fields, GoodField, HouseRows
  <2>. QED  BY <2>1, <2>2 DEF Fields
<1>. QED  BY <1>1, FieldsInvariant, BoundsInvariant, PTL

(* A prediction is made of fields that were updated more than 2 nIn times  *)
(* and err little, or have a house to ask.                                 *)
THEOREM AnswersAreBacked == Spec => []AnswerBacked
<1>1. BoundsInv => AnswerBacked
  BY DEF BoundsInv
<1>. QED  BY <1>1, BoundsInvariant, PTL

(* An outlier's own pattern counts in its explore value.                   *)
THEOREM OutliersCount == Spec => []OutlierCountsItself
<1>1. BoundsInv => OutlierCountsItself
  BY DEF BoundsInv
<1>. QED  BY <1>1, BoundsInvariant, PTL

-----------------------------------------------------------------------------
(***************************************************************************)
(* The context of a statement, for any number of statements, any settings  *)
(* and any depth of nesting.  A statement holds the static context while   *)
(* it is being planned and until it is started, and a saved one while it   *)
(* is open; ContextInv says what that context is as long as the statement  *)
(* has not lost it.                                                        *)
(***************************************************************************)

Rows == [learn : BOOLEAN, use : BOOLEAN, auto : BOOLEAN, nf : Nat]

Plans == [clean : BOOLEAN, standby : BOOLEAN,
          hooks : SUBSET {"default", "asked", "nowhere"}, cached : BOOLEAN,
          bound : Statements \cup {None},
          counting : BOOLEAN, depth : Nat]

Types ==
    /\ mode \in Modes
    /\ row # None => row \in Rows
    /\ ctx \in Contexts
    /\ status \in [Statements -> {"none", "planning", "planned", "open"}]
    /\ plan \in [Statements -> Plans]
    /\ env \in [Statements -> Contexts \cup {None}]
    /\ stack \in Seq(Statements)

\* The stack holds statements that are being planned, each of them once.
StackOK ==
    /\ \A i \in 1 .. Len(stack) : status[stack[i]] = "planning"
    /\ \A i, j \in 1 .. Len(stack) : stack[i] = stack[j] => i = j

\* Context c is the one that statement q, with plan p, was planned under.
Held(c, p, q) ==
    /\ c.flags_of = q
    /\ c.learn = TRUE \/ c.collect = TRUE => c.stmt_of = q
    /\ c.explain = c.use
    /\ p.hooks # {} => ("default" \in p.hooks <=> c.use = FALSE)
    /\ p.standby = TRUE => c.learn = FALSE /\ c.collect = FALSE

Planned ==
    \A q \in Statements : plan[q].clean = TRUE =>
        /\ status[q] \in {"planning", "planned"} => Held(ctx, plan[q], q)
        /\ status[q] = "planned" => ctx.est_of = q

Open ==
    \A q \in Statements : status[q] = "open" =>
        /\ env[q] \in Contexts
        /\ env[q].learn = TRUE /\ env[q].only = FALSE => plan[q].counting = TRUE
        /\ plan[q].clean = TRUE => Held(env[q], plan[q], q) /\ env[q].est_of = q

EndOK ==
    last.stmt # None =>
        /\ last.stmt \in Statements
        /\ last.plan \in Plans /\ last.ctx \in Contexts
        /\ last.ctx.learn = TRUE => last.plan.counting = TRUE
        /\ last.plan.clean = TRUE =>
              Held(last.ctx, last.plan, last.stmt) /\ last.ctx.est_of = last.stmt

ContextInv == Types /\ StackOK /\ Planned /\ Open /\ EndOK

\* The plan record of a statement whose planning has just begun
Fresh == [NoPlan EXCEPT !.clean = TRUE, !.standby = Standby]

-----------------------------------------------------------------------------
(* The contexts that aqo_planner computes.                                 *)

(* What the assignments to the three flags leave of a context.             *)
LEMMA FlagsFacts ==
  ASSUME NEW c \in Contexts, NEW q \in Statements,
         NEW learn \in BOOLEAN, NEW use \in BOOLEAN, NEW collect \in BOOLEAN
  PROVE  /\ Flags(c, q, learn, use, collect) \in Contexts
         /\ Flags(c, q, learn, use, collect).learn = learn
         /\ Flags(c, q, learn, use, collect).use = use
         /\ Flags(c, q, learn, use, collect).collect = collect
         /\ Flags(c, q, learn, use, collect).flags_of = q
         /\ Flags(c, q, learn, use, collect).stmt_of = c.stmt_of
         /\ Flags(c, q, learn, use, collect).explain = c.explain
BY ZenonT(60) DEF Flags, Contexts

(* aqo_planner starts from a context without explain_aqo, and notes which  *)
(* statement it is about.                                                  *)
LEMMA BeginFacts ==
  ASSUME NEW c \in Contexts, NEW q \in Statements
  PROVE  /\ ClearExplain(c) \in Contexts
         /\ ClearExplain(c).explain = FALSE
         /\ Begin(c, q) \in Contexts
         /\ Begin(c, q).explain = c.explain
         /\ Begin(c, q).stmt_of = q
BY DEF ClearExplain, Begin, Contexts

(* Without a row the mode decides on the flags.                            *)
LEMMA ByModeFacts ==
  ASSUME NEW c \in Contexts, NEW q \in Statements, mode \in Modes, mode # "disabled"
  PROVE  /\ ByMode(c, q) \in Contexts
         /\ ByMode(c, q).flags_of = q
         /\ ByMode(c, q).stmt_of = c.stmt_of
         /\ ByMode(c, q).explain = c.explain
<1>1. mode \in {"controlled", "intelligent", "forced", "learn"}
  BY StatementAssumption
<1>2. CASE mode = "intelligent"
  BY <1>2, FlagsFacts, ZenonT(60) DEF ByMode
<1>3. CASE mode = "forced"
  BY <1>3, FlagsFacts, ZenonT(60) DEF ByMode
<1>4. CASE mode = "controlled"
  BY <1>4, FlagsFacts, ZenonT(60) DEF ByMode
<1>5. CASE mode = "learn"
  BY <1>5, FlagsFacts, ZenonT(60) DEF ByMode
<1>. QED  BY <1>1, <1>2, <1>3, <1>4, <1>5

(* With a row its settings do.                                             *)
LEMMA FromRowFacts ==
  ASSUME NEW c \in Contexts, NEW q \in Statements, row \in Rows
  PROVE  /\ FromRow(c, q) \in Contexts
         /\ FromRow(c, q).flags_of = q
         /\ FromRow(c, q).stmt_of = c.stmt_of
<1>1. row.learn \in BOOLEAN /\ row.use \in BOOLEAN /\ row.auto \in BOOLEAN
  BY DEF Rows
<1>. QED  BY <1>1, FlagsFacts DEF FromRow

(* With aqo disabled for it, a statement neither learns nor is estimated   *)
(* by models.                                                              *)
LEMMA DisableFacts ==
  ASSUME NEW c \in Contexts, NEW q \in Statements, c.explain = FALSE
  PROVE  Disable(c, q) \in Contexts /\ Held(Disable(c, q), Fresh, q)
<1>1. /\ Disable(c, q) \in Contexts
      /\ Disable(c, q).learn = FALSE /\ Disable(c, q).use = FALSE
      /\ Disable(c, q).collect = FALSE /\ Disable(c, q).flags_of = q
      /\ Disable(c, q).explain = FALSE
  BY FlagsFacts, ZenonT(60) DEF Disable
<1>2. Fresh.hooks = {}
  BY DEF Fresh, NoPlan
<1>. QED  BY <1>1, <1>2 DEF Held

(* On a standby nothing is learned.                                        *)
LEMMA StandbyFacts ==
  ASSUME NEW c \in Contexts, NEW q \in Statements
  PROVE  /\ OnStandby(c, q) \in Contexts
         /\ OnStandby(c, q).flags_of = q
         /\ OnStandby(c, q).stmt_of = c.stmt_of
         /\ OnStandby(c, q).learn = FALSE /\ OnStandby(c, q).collect = FALSE
<1>1. c.use \in BOOLEAN
  BY DEF Contexts
<1>2. PICK use \in BOOLEAN : OnStandby(c, q) = Flags(c, q, FALSE, use, FALSE)
  BY <1>1 DEF OnStandby, Disable
<1>3. /\ Flags(c, q, FALSE, use, FALSE) \in Contexts
      /\ Flags(c, q, FALSE, use, FALSE).flags_of = q
      /\ Flags(c, q, FALSE, use, FALSE).stmt_of = c.stmt_of
      /\ Flags(c, q, FALSE, use, FALSE).learn = FALSE
      /\ Flags(c, q, FALSE, use, FALSE).collect = FALSE
  BY DEF Flags, Contexts
<1>. QED  BY <1>2, <1>3

(* The context that aqo_planner leaves is of the statement it is called    *)
(* for, whatever it was before.                                            *)
LEMMA PlannerContextFacts ==
  ASSUME NEW q \in Statements, Types
  PROVE  PlannerContext(q) \in Contexts /\ Held(PlannerContext(q), Fresh, q)
<1> DEFINE c0 == ClearExplain(ctx)
           c1 == Begin(c0, q)
           c2 == IF row = None THEN ByMode(c1, q)
                 ELSE [FromRow(c1, q) EXCEPT !.nf = row.nf, !.bound_of = q]
           c3 == IF Standby THEN OnStandby(c2, q) ELSE c2
<1>1. /\ c0 \in Contexts /\ c0.explain = FALSE
      /\ c1 \in Contexts /\ c1.explain = FALSE /\ c1.stmt_of = q
  <2>1. ctx \in Contexts
    BY DEF Types
  <2>2. c0 \in Contexts /\ c0.explain = FALSE
    BY <2>1, BeginFacts
  <2>. QED  BY <2>2, BeginFacts
<1>2. /\ Disable(c0, q) \in Contexts /\ Held(Disable(c0, q), Fresh, q)
      /\ Disable(c1, q) \in Contexts /\ Held(Disable(c1, q), Fresh, q)
  BY <1>1, DisableFacts
<1>3. ASSUME mode # "disabled"
      PROVE  /\ c3 \in Contexts /\ c3.flags_of = q /\ c3.stmt_of = q
             /\ Standby => c3.learn = FALSE /\ c3.collect = FALSE
  <2>1. c2 \in Contexts /\ c2.flags_of = q /\ c2.stmt_of = q
    <3>1. CASE row = None
      BY <1>1, <1>3, <3>1, ByModeFacts DEF Types
    <3>2. CASE row # None
      <4>1. row \in Rows
        BY <3>2 DEF Types
      <4>2. FromRow(c1, q) \in Contexts /\ FromRow(c1, q).flags_of = q
            /\ FromRow(c1, q).stmt_of = q
        BY <1>1, <4>1, FromRowFacts
      <4>. QED  BY <3>2, <4>1, <4>2 DEF Rows, Contexts
    <3>. QED  BY <3>1, <3>2
  <2>2. CASE Standby
    BY <2>1, <2>2, StandbyFacts
  <2>. QED  BY <2>1, <2>2
<1>4. ASSUME mode # "disabled"
      PROVE  LET c == [c3 EXCEPT !.explain = c3.use]
             IN c \in Contexts /\ Held(c, Fresh, q)
  <2>1. Fresh.hooks = {} /\ (Fresh.standby = TRUE => Standby)
    BY DEF Fresh, NoPlan
  <2>. QED  BY <1>3, <1>4, <2>1, ZenonT(60) DEF Held, Contexts
<1>. QED  BY <1>2, <1>4 DEF PlannerContext

-----------------------------------------------------------------------------
(* The planning stack and the plan records.                                *)

(* The innermost statement is on the stack once.                           *)
LEMMA PopFacts ==
  ASSUME Types, StackOK, stack # <<>>
  PROVE  /\ Last(stack) \in Statements
         /\ status[Last(stack)] = "planning"
         /\ Front(stack) \in Seq(Statements)
         /\ Len(Front(stack)) = Len(stack) - 1
         /\ \A i \in 1 .. Len(Front(stack)) :
               Front(stack)[i] = stack[i] /\ stack[i] # Last(stack)
<1>1. stack \in Seq(Statements) /\ Len(stack) \in Nat /\ Len(stack) > 0
  BY DEF Types
<1>2. \A i \in 1 .. Len(stack) : stack[i] \in Statements
  BY <1>1
<1>3. /\ Front(stack) \in Seq(Statements)
      /\ Len(Front(stack)) = Len(stack) - 1
      /\ \A i \in 1 .. Len(stack) - 1 : Front(stack)[i] = stack[i]
  <2>1. \A i \in 1 .. Len(stack) - 1 : stack[i] \in Statements
    BY <1>1, <1>2
  <2>2. 1 \in Int /\ Len(stack) - 1 \in Int
    BY <1>1
  <2>3. /\ SubSeq(stack, 1, Len(stack) - 1) \in Seq(Statements)
        /\ Len(SubSeq(stack, 1, Len(stack) - 1)) =
              IF 1 <= Len(stack) - 1 THEN Len(stack) - 1 - 1 + 1 ELSE 0
        /\ \A i \in 1 .. Len(stack) - 1 - 1 + 1 :
              SubSeq(stack, 1, Len(stack) - 1)[i] = stack[1 + i - 1]
    BY <2>1, <2>2
  <2>4. Len(stack) - 1 - 1 + 1 = Len(stack) - 1 /\ \A i \in Int : 1 + i - 1 = i
    BY <1>1
  <2>5. Len(SubSeq(stack, 1, Len(stack) - 1)) = Len(stack) - 1
    BY <1>1, <2>3, <2>4
  <2>6. \A i \in 1 .. Len(stack) - 1 : SubSeq(stack, 1, Len(stack) - 1)[i] = stack[i]
    BY <1>1, <2>3, <2>4
  <2>. QED  BY <2>3, <2>5, <2>6 DEF Front
<1>4. Len(stack) \in 1 .. Len(stack)
  BY <1>1
<1>5. \A i \in 1 .. Len(stack) - 1 : stack[i] # stack[Len(stack)]
  BY <1>1, <1>4 DEF StackOK
<1>. QED  BY <1>2, <1>3, <1>4, <1>5 DEF StackOK, Last

(* A stack whose innermost statement is no longer planned is popped.       *)
LEMMA PopStack ==
  ASSUME Types, StackOK, stack # <<>>, NEW s,
         stack' = Front(stack), status' = [status EXCEPT ![Last(stack)] = s]
  PROVE  stack' \in Seq(Statements) /\ StackOK'
<1>1. Len(stack) \in Nat
  BY DEF Types
<1>2. \A i \in 1 .. Len(stack') : i \in 1 .. Len(stack) /\ stack'[i] = stack[i]
                               /\ stack[i] # Last(stack)
  BY <1>1, PopFacts
<1>3. \A i \in 1 .. Len(stack') : status'[stack'[i]] = "planning"
  <2>. SUFFICES ASSUME NEW i \in 1 .. Len(stack')
               PROVE  status'[stack'[i]] = "planning"
    OBVIOUS
  <2>1. stack[i] \in Statements
    BY <1>2 DEF Types
  <2>. QED  BY <1>2, <2>1 DEF StackOK, Types
<1>4. \A i, j \in 1 .. Len(stack') : stack'[i] = stack'[j] => i = j
  BY <1>2 DEF StackOK
<1>. QED  BY <1>3, <1>4, PopFacts DEF StackOK

(* A stack none of whose statements changes is kept.                       *)
LEMMA KeepStack ==
  ASSUME Types, StackOK, NEW q \in Statements, status[q] # "planning",
         NEW s, stack' = stack, status' = [status EXCEPT ![q] = s]
  PROVE  stack' \in Seq(Statements) /\ StackOK'
<1>1. \A i \in 1 .. Len(stack) : stack[i] \in Statements /\ stack[i] # q
  BY DEF Types, StackOK
<1>. QED  BY <1>1 DEF Types, StackOK

(* NoPlan, and what replacing the context does to the plan records.        *)
LEMMA DisturbFacts ==
  ASSUME Types
  PROVE  /\ NoPlan \in Plans /\ NoPlan.clean = FALSE /\ NoPlan.hooks = {}
         /\ Disturb \in [Statements -> Plans]
         /\ \A p \in Statements :
               /\ status[p] \in {"planning", "planned"} => Disturb[p].clean = FALSE
               /\ status[p] \notin {"planning", "planned"} => Disturb[p] = plan[p]
<1>1. NoPlan \in Plans /\ NoPlan.clean = FALSE /\ NoPlan.hooks = {}
  BY DEF NoPlan, Plans
<1>. QED  BY <1>1 DEF Disturb, Types

-----------------------------------------------------------------------------
(* Three ways in which a step changes who holds which context.             *)

(* The static context is replaced, for statement q with plan r; every      *)
(* other statement that held it loses it.                                  *)
LEMMA ReplaceContext ==
  ASSUME ContextInv, NEW q \in Statements, NEW r \in Plans,
         NEW s \in {"none", "planning", "planned"},
         ctx' \in Contexts,
         plan' = [Disturb EXCEPT ![q] = r],
         status' = [status EXCEPT ![q] = s],
         env' = env \/ env' = [env EXCEPT ![q] = None],
         r.clean = TRUE /\ s # "none" => Held(ctx', r, q),
         r.clean = TRUE /\ s = "planned" => ctx'.est_of = q
  PROVE  /\ plan' \in [Statements -> Plans]
         /\ status' \in [Statements -> {"none", "planning", "planned", "open"}]
         /\ env' \in [Statements -> Contexts \cup {None}]
         /\ Planned' /\ Open'
<1>1. /\ plan' \in [Statements -> Plans]
      /\ status' \in [Statements -> {"none", "planning", "planned", "open"}]
      /\ env' \in [Statements -> Contexts \cup {None}]
  BY DisturbFacts DEF ContextInv, Types
<1>2. /\ plan'[q] = r /\ status'[q] = s
      /\ \A p \in Statements \ {q} :
            plan'[p] = Disturb[p] /\ status'[p] = status[p] /\ env'[p] = env[p]
  BY DisturbFacts DEF ContextInv, Types
<1>3. Planned'
  <2>. SUFFICES ASSUME NEW p \in Statements, plan'[p].clean = TRUE
               PROVE  /\ status'[p] \in {"planning", "planned"} => Held(ctx', plan'[p], p)
                      /\ status'[p] = "planned" => ctx'.est_of = p
    BY DEF Planned, Held
  <2>1. CASE p = q
    BY <1>2, <2>1
  <2>2. CASE p # q
    <3>1. plan'[p] = Disturb[p] /\ status'[p] = status[p]
      BY <1>2, <2>2
    <3>2. status[p] \notin {"planning", "planned"}
      BY <3>1, DisturbFacts DEF ContextInv
    <3>. QED  BY <3>1, <3>2
  <2>. QED  BY <2>1, <2>2
<1>4. Open'
  <2>. SUFFICES ASSUME NEW p \in Statements, status'[p] = "open"
               PROVE  /\ env'[p] \in Contexts
                      /\ env'[p].learn = TRUE /\ env'[p].only = FALSE => plan'[p].counting = TRUE
                      /\ plan'[p].clean = TRUE =>
                            Held(env'[p], plan'[p], p) /\ env'[p].est_of = p
    BY DEF Open, Held
  <2>1. p # q
    BY <1>2
  <2>2. plan'[p] = plan[p] /\ env'[p] = env[p] /\ status[p] = "open"
    BY <1>2, <2>1, DisturbFacts DEF ContextInv
  <2>. QED  BY <2>2 DEF ContextInv, Open
<1>. QED  BY <1>1, <1>3, <1>4

(* Statement q is given up, and the context stays as it is.                *)
LEMMA DropStatement ==
  ASSUME ContextInv, NEW q \in Statements, ctx' = ctx,
         plan' = [plan EXCEPT ![q] = NoPlan],
         status' = [status EXCEPT ![q] = "none"],
         env' = env \/ env' = [env EXCEPT ![q] = None]
  PROVE  /\ plan' \in [Statements -> Plans]
         /\ status' \in [Statements -> {"none", "planning", "planned", "open"}]
         /\ env' \in [Statements -> Contexts \cup {None}]
         /\ Planned' /\ Open'
<1>1. NoPlan \in Plans
  BY DisturbFacts DEF ContextInv
<1>2. /\ plan' \in [Statements -> Plans]
      /\ status' \in [Statements -> {"none", "planning", "planned", "open"}]
      /\ env' \in [Statements -> Contexts \cup {None}]
  BY <1>1 DEF ContextInv, Types
<1>3. /\ status'[q] = "none"
      /\ \A p \in Statements \ {q} :
            plan'[p] = plan[p] /\ status'[p] = status[p] /\ env'[p] = env[p]
  BY DEF ContextInv, Types
<1>4. Planned'
  <2>. SUFFICES ASSUME NEW p \in Statements, plan'[p].clean = TRUE
               PROVE  /\ status'[p] \in {"planning", "planned"} => Held(ctx, plan'[p], p)
                      /\ status'[p] = "planned" => ctx.est_of = p
    BY DEF Planned, Held
  <2>1. CASE p = q
    BY <1>3, <2>1
  <2>2. CASE p # q
    BY <1>3, <2>2 DEF ContextInv, Planned
  <2>. QED  BY <2>1, <2>2
<1>5. Open'
  <2>. SUFFICES ASSUME NEW p \in Statements, status'[p] = "open"
               PROVE  /\ env'[p] \in Contexts
                      /\ env'[p].learn = TRUE /\ env'[p].only = FALSE => plan'[p].counting = TRUE
                      /\ plan'[p].clean = TRUE =>
                            Held(env'[p], plan'[p], p) /\ env'[p].est_of = p
    BY DEF Open, Held
  <2>1. p # q
    BY <1>3
  <2>. QED  BY <1>3, <2>1 DEF ContextInv, Open
<1>. QED  BY <1>2, <1>4, <1>5

-----------------------------------------------------------------------------
(* Each action keeps ContextInv.                                               *)

(* A step after which no end is on record.                                 *)
LEMMA NoEndOK ==
  ASSUME last' = NoEnd
  PROVE  EndOK'
BY DEF EndOK, NoEnd

(* aqo_planner: the statement gets the context, all others lose it.        *)
LEMMA BeginPlanStep ==
  ASSUME ContextInv, NEW q \in Statements, BeginPlan(q)
  PROVE  ContextInv'
<1>1. Fresh \in Plans
  <2>1. Standby \in BOOLEAN
    BY DEF Standby
  <2>. QED  BY <2>1 DEF Fresh, NoPlan, Plans
<1>2. ctx' \in Contexts /\ Held(ctx', Fresh, q)
  <2>1. PlannerContext(q) \in Contexts /\ Held(PlannerContext(q), Fresh, q)
    BY PlannerContextFacts DEF ContextInv
  <2>. QED  BY <2>1 DEF BeginPlan
<1>3. /\ plan' \in [Statements -> Plans]
      /\ status' \in [Statements -> {"none", "planning", "planned", "open"}]
      /\ env' \in [Statements -> Contexts \cup {None}]
      /\ Planned' /\ Open'
  <2>1. /\ plan' = [Disturb EXCEPT ![q] = Fresh]
        /\ status' = [status EXCEPT ![q] = "planning"]
        /\ env' = env
    BY DEF BeginPlan, Fresh
  <2>. QED  BY <1>1, <1>2, <2>1, ReplaceContext
<1>4. row' # None => row' \in Rows
  <2>1. ctx'.learn \in BOOLEAN /\ ctx'.use \in BOOLEAN
    BY <1>2 DEF Contexts
  <2>2. CASE row' = row
    BY <2>2 DEF ContextInv, Types
  <2>3. CASE row' = [learn |-> ctx'.learn, use |-> ctx'.use, auto |-> TRUE, nf |-> 0]
    BY <2>1, <2>3 DEF Rows
  <2>. QED  BY <2>2, <2>3 DEF BeginPlan
<1>5. stack' \in Seq(Statements) /\ StackOK'
  <2>1. stack \in Seq(Statements) /\ status \in [Statements -> {"none", "planning", "planned", "open"}]
    BY DEF ContextInv, Types
  <2>2. /\ stack' \in Seq(Statements) /\ Len(stack') = Len(stack) + 1
        /\ \A i \in 1 .. Len(stack) : stack'[i] = stack[i]
        /\ stack'[Len(stack) + 1] = q
    BY <2>1 DEF BeginPlan
  <2>3. \A i \in 1 .. Len(stack) :
          stack[i] \in Statements /\ stack[i] # q /\ status[stack[i]] = "planning"
    BY <2>1 DEF ContextInv, StackOK, BeginPlan, MayPlan
  <2>4. Len(stack) \in Nat
    BY <2>1
  <2>5. \A i \in 1 .. Len(stack') : i \in 1 .. Len(stack) \/ i = Len(stack) + 1
    BY <2>2, <2>4
  <2>6. \A i \in 1 .. Len(stack') : status'[stack'[i]] = "planning"
    BY <2>1, <2>2, <2>3, <2>5 DEF BeginPlan
  <2>7. \A i, j \in 1 .. Len(stack') : stack'[i] = stack'[j] => i = j
    BY <2>2, <2>3, <2>5 DEF ContextInv, StackOK
  <2>. QED  BY <2>2, <2>6, <2>7 DEF StackOK
<1>6. mode' \in Modes /\ EndOK'
  BY NoEndOK DEF BeginPlan, ContextInv, Types
<1>. QED  BY <1>2, <1>3, <1>4, <1>5, <1>6 DEF ContextInv, Types

(* aqo_planner on a standby: the context is replaced for no statement.     *)
LEMMA RefusePlanStep ==
  ASSUME ContextInv, NEW q \in Statements, RefusePlan(q)
  PROVE  ContextInv'
<1>1. ctx' \in Contexts
  <2>1. ctx \in Contexts /\ row \in Rows
    BY DEF ContextInv, Types, RefusePlan
  <2>2. ClearExplain(ctx) \in Contexts
    BY <2>1, BeginFacts
  <2>3. Begin(ClearExplain(ctx), q) \in Contexts
    BY <2>2, BeginFacts
  <2>. QED  BY <2>1, <2>3, FromRowFacts DEF RefusePlan
<1>2. NoPlan \in Plans /\ NoPlan.clean = FALSE
  BY DisturbFacts DEF ContextInv
<1>3. /\ plan' \in [Statements -> Plans]
      /\ status' \in [Statements -> {"none", "planning", "planned", "open"}]
      /\ env' \in [Statements -> Contexts \cup {None}]
      /\ Planned' /\ Open'
  BY <1>1, <1>2, ReplaceContext DEF RefusePlan
<1>4. stack' \in Seq(Statements) /\ StackOK'
  BY KeepStack DEF ContextInv, RefusePlan, MayPlan
<1>5. mode' \in Modes /\ (row' # None => row' \in Rows) /\ EndOK'
  BY NoEndOK DEF RefusePlan, ContextInv, Types
<1>. QED  BY <1>1, <1>3, <1>4, <1>5 DEF ContextInv, Types

(* The end of planning: a statement that was interrupted by others has     *)
(* lost the context before, the innermost one keeps it.                    *)
LEMMA FinishPlanStep ==
  ASSUME ContextInv, FinishPlan
  PROVE  ContextInv'
<1> DEFINE q == Last(stack)
<1>1. q \in Statements /\ status[q] = "planning" /\ plan[q] \in Plans
  BY PopFacts DEF ContextInv, FinishPlan, Types
<1>2. ctx' \in Contexts /\ ctx'.est_of = q
  BY <1>1 DEF ContextInv, Types, FinishPlan, Contexts
<1>3. plan[q].clean = TRUE => Held(ctx', plan[q], q)
  <2>1. /\ ctx'.learn = ctx.learn /\ ctx'.use = ctx.use /\ ctx'.collect = ctx.collect
        /\ ctx'.explain = ctx.explain /\ ctx'.flags_of = ctx.flags_of
        /\ ctx'.stmt_of = ctx.stmt_of
    BY DEF ContextInv, Types, FinishPlan, Contexts
  <2>2. plan[q].clean = TRUE => Held(ctx, plan[q], q)
    BY <1>1 DEF ContextInv, Planned
  <2>. QED  BY <2>1, <2>2 DEF Held
<1>4. /\ plan' \in [Statements -> Plans]
      /\ status' \in [Statements -> {"none", "planning", "planned", "open"}]
      /\ env' \in [Statements -> Contexts \cup {None}]
      /\ Planned' /\ Open'
  <2>1. /\ plan' = [Disturb EXCEPT ![q] = plan[q]]
        /\ status' = [status EXCEPT ![q] = "planned"]
        /\ env' = env
    BY DEF FinishPlan
  <2>. QED  BY <1>1, <1>2, <1>3, <2>1, ReplaceContext
<1>5. stack' \in Seq(Statements) /\ StackOK'
  BY PopStack DEF ContextInv, FinishPlan
<1>6. mode' \in Modes /\ (row' # None => row' \in Rows) /\ EndOK'
  BY NoEndOK DEF FinishPlan, ContextInv, Types
<1>. QED  BY <1>2, <1>4, <1>5, <1>6 DEF ContextInv, Types

(* A step of the innermost statement that changes its plan record only.    *)
LEMMA PlanningStep ==
  ASSUME ContextInv, stack # <<>>, NEW r \in Plans,
         plan' = [plan EXCEPT ![Last(stack)] = r],
         r.clean = TRUE => plan[Last(stack)].clean = TRUE /\ Held(ctx, r, Last(stack)),
         last' = NoEnd, UNCHANGED <<mode, row, ctx, status, env, stack>>
  PROVE  ContextInv'
<1> DEFINE q == Last(stack)
<1>1. q \in Statements /\ status[q] = "planning"
  BY PopFacts DEF ContextInv
<1>2. plan' \in [Statements -> Plans] /\ plan'[q] = r
      /\ \A p \in Statements \ {q} : plan'[p] = plan[p]
  BY <1>1 DEF ContextInv, Types
<1>3. Types' /\ StackOK'
  BY <1>2 DEF ContextInv, Types, StackOK
<1>4. Planned'
  <2>. SUFFICES ASSUME NEW p \in Statements, plan'[p].clean = TRUE
               PROVE  /\ status[p] \in {"planning", "planned"} => Held(ctx, plan'[p], p)
                      /\ status[p] = "planned" => ctx.est_of = p
    BY DEF Planned, Held
  <2>1. CASE p = q
    BY <1>1, <1>2, <2>1
  <2>2. CASE p # q
    BY <1>2, <2>2 DEF ContextInv, Planned
  <2>. QED  BY <2>1, <2>2
<1>5. Open'
  <2>. SUFFICES ASSUME NEW p \in Statements, status[p] = "open"
               PROVE  /\ env[p] \in Contexts
                      /\ env[p].learn = TRUE /\ env[p].only = FALSE => plan'[p].counting = TRUE
                      /\ plan'[p].clean = TRUE => Held(env[p], plan'[p], p) /\ env[p].est_of = p
    BY DEF Open, Held
  <2>1. p # q
    BY <1>1
  <2>. QED  BY <1>2, <2>1 DEF ContextInv, Open
<1>. QED  BY <1>3, <1>4, <1>5, NoEndOK DEF ContextInv

(* The size hooks: use_aqo decides whether the models are asked, and it is *)
(* the flag explain_aqo was set from.                                      *)
LEMMA EstimateStep ==
  ASSUME ContextInv, NEW parameterized \in BOOLEAN, Estimate(parameterized)
  PROVE  ContextInv'
<1> DEFINE q == Last(stack)
           caches == parameterized /\ (ctx.use \/ ctx.learn)
<1>1. stack # <<>> /\ last' = NoEnd /\ UNCHANGED <<mode, row, ctx, status, env, stack>>
  BY DEF Estimate
<1>2. q \in Statements /\ status[q] = "planning" /\ plan[q] \in Plans
  BY <1>1, PopFacts DEF ContextInv, Types
<1>3. CASE plan[q].clean = FALSE
  <2>1. plan' = plan
    BY <1>3 DEF Estimate
  <2>2. plan' = [plan EXCEPT ![q] = plan[q]]
    BY <1>2, <2>1 DEF ContextInv, Types
  <2>. QED  BY <1>1, <1>2, <1>3, <2>2, PlanningStep
<1>4. CASE plan[q].clean = TRUE
  <2> DEFINE r == [plan[q] EXCEPT !.hooks = @ \cup {Source}, !.cached = @ \/ caches]
  <2>1. Source \in {"default", "asked", "nowhere"} /\ (Source = "default" <=> ctx.use = FALSE)
    <3>1. ctx.use \in BOOLEAN
      BY DEF ContextInv, Types, Contexts
    <3>. QED  BY <3>1 DEF Source
  <2>2. plan' = [plan EXCEPT ![q] = r]
    <3>1. plan' = [plan EXCEPT ![q].hooks = @ \cup {Source}, ![q].cached = @ \/ caches]
      BY <1>4 DEF Estimate
    <3>. QED  BY <1>2, <3>1 DEF ContextInv, Types, Plans
  <2>3. /\ r \in Plans /\ r.hooks = plan[q].hooks \cup {Source}
        /\ r.standby = plan[q].standby
    <3>1. (plan[q].cached \/ caches) \in BOOLEAN
      OBVIOUS
    <3>. HIDE DEF caches
    <3>. QED  BY <1>2, <2>1, <3>1 DEF Plans
  <2>4. Held(ctx, plan[q], q)
    BY <1>2, <1>4 DEF ContextInv, Planned
  <2>5. Held(ctx, r, q)
    <3>. HIDE DEF r
    <3>1. "default" \in r.hooks <=> ctx.use = FALSE
      BY <2>1, <2>3, <2>4 DEF Held
    <3>. QED  BY <2>3, <2>4, <3>1 DEF Held
  <2>. HIDE DEF r
  <2>. QED  BY <1>1, <1>4, <2>2, <2>3, <2>5, PlanningStep
<1>5. plan[q].clean \in BOOLEAN
  BY <1>2 DEF Plans
<1>. QED  BY <1>3, <1>4, <1>5

(* aqo_join_search reads the bound.                                        *)
LEMMA JoinSearchStep ==
  ASSUME ContextInv, JoinSearch
  PROVE  ContextInv'
<1> DEFINE q == Last(stack)
           r == [plan[q] EXCEPT !.bound = ctx.bound_of]
<1>1. stack # <<>> /\ last' = NoEnd /\ UNCHANGED <<mode, row, ctx, status, env, stack>>
  BY DEF JoinSearch
<1>2. q \in Statements /\ status[q] = "planning" /\ plan[q] \in Plans /\ ctx \in Contexts
  BY <1>1, PopFacts DEF ContextInv, Types
<1>3. plan' = [plan EXCEPT ![q] = r]
  BY <1>2 DEF JoinSearch, ContextInv, Types
<1>4. /\ r \in Plans /\ r.hooks = plan[q].hooks /\ r.clean = plan[q].clean
      /\ r.standby = plan[q].standby
  BY <1>2 DEF Plans, Contexts
<1>5. r.clean = TRUE => plan[q].clean = TRUE /\ Held(ctx, r, q)
  <2>. HIDE DEF r
  <2>. QED  BY <1>2, <1>4 DEF ContextInv, Planned, Held
<1>. HIDE DEF r
<1>. QED  BY <1>1, <1>3, <1>4, <1>5, PlanningStep

(* aqo_ExecutorStart: the saved context is the static one, and the counters*)
(* are switched on if it learns.                                           *)
LEMMA ExecutorStartStep ==
  ASSUME ContextInv, NEW q \in Statements, NEW only \in BOOLEAN, ExecutorStart(q, only)
  PROVE  ContextInv'
<1> DEFINE r == [plan[q] EXCEPT !.counting = ctx.learn /\ ~only, !.depth = Len(stack)]
<1>1. /\ status[q] = "planned" /\ plan[q] \in Plans /\ ctx \in Contexts
      /\ Len(stack) \in Nat /\ ctx.learn \in BOOLEAN
  BY DEF ExecutorStart, ContextInv, Types, Contexts
<1>2. /\ ctx' \in Contexts /\ ctx'.only = only /\ ctx'.est_of = ctx.est_of
      /\ ctx'.learn = ctx.learn /\ ctx'.use = ctx.use /\ ctx'.collect = ctx.collect
      /\ ctx'.explain = ctx.explain /\ ctx'.flags_of = ctx.flags_of
      /\ ctx'.stmt_of = ctx.stmt_of
  BY <1>1 DEF ExecutorStart, Contexts
<1>3. \A p \in Plans, u \in Statements : Held(ctx', p, u) <=> Held(ctx, p, u)
  BY <1>2 DEF Held
<1>4. /\ r \in Plans /\ r.hooks = plan[q].hooks /\ r.clean = plan[q].clean
      /\ r.standby = plan[q].standby /\ r.counting = (ctx.learn /\ ~only)
  BY <1>1 DEF Plans
<1>5. /\ plan' = [plan EXCEPT ![q] = r]
      /\ status' = [status EXCEPT ![q] = "open"]
      /\ env' = [env EXCEPT ![q] = ctx']
      /\ stack' = stack /\ mode' = mode /\ row' = row /\ last' = NoEnd
  BY <1>1 DEF ExecutorStart, ContextInv, Types
<1>. HIDE DEF r
<1>6. Types'
  BY <1>2, <1>4, <1>5 DEF ContextInv, Types
<1>7. StackOK'
  BY <1>1, <1>5, KeepStack DEF ContextInv
<1>8. /\ plan'[q] = r /\ status'[q] = "open" /\ env'[q] = ctx'
      /\ \A p \in Statements \ {q} :
            plan'[p] = plan[p] /\ status'[p] = status[p] /\ env'[p] = env[p]
  BY <1>5 DEF ContextInv, Types
<1>9. Planned'
  <2>. SUFFICES ASSUME NEW p \in Statements, plan'[p].clean = TRUE
               PROVE  /\ status'[p] \in {"planning", "planned"} => Held(ctx', plan'[p], p)
                      /\ status'[p] = "planned" => ctx'.est_of = p
    BY DEF Planned, Held
  <2>1. CASE p = q
    BY <1>8, <2>1
  <2>2. CASE p # q
    <3>1. plan[p] \in Plans
      BY DEF ContextInv, Types
    <3>. QED  BY <1>2, <1>3, <1>8, <2>2, <3>1 DEF ContextInv, Planned
  <2>. QED  BY <2>1, <2>2
<1>10. Open'
  <2>. SUFFICES ASSUME NEW p \in Statements, status'[p] = "open"
               PROVE  /\ env'[p] \in Contexts
                      /\ env'[p].learn = TRUE /\ env'[p].only = FALSE => plan'[p].counting = TRUE
                      /\ plan'[p].clean = TRUE =>
                            Held(env'[p], plan'[p], p) /\ env'[p].est_of = p
    BY DEF Open, Held
  <2>1. CASE p = q
    <3>1. env'[p] = ctx' /\ plan'[p] = r
      BY <1>8, <2>1
    <3>2. ctx.learn = TRUE /\ only = FALSE => r.counting = TRUE
      BY <1>4
    <3>3. r.clean = TRUE => Held(ctx, plan[q], q) /\ ctx.est_of = q
      BY <1>1, <1>4 DEF ContextInv, Planned
    <3>4. r.clean = TRUE => Held(ctx', r, q)
      BY <1>2, <1>4, <3>3 DEF Held
    <3>. QED  BY <1>2, <2>1, <3>1, <3>2, <3>3, <3>4
  <2>2. CASE p # q
    BY <1>8, <2>2 DEF ContextInv, Open
  <2>. QED  BY <2>1, <2>2
<1>. QED  BY <1>5, <1>6, <1>7, <1>9, <1>10, NoEndOK DEF ContextInv

(* learn_query_stat works with the context that was saved.                 *)
LEMMA EndingFacts ==
  ASSUME ContextInv, NEW q \in Statements, status[q] = "open"
  PROVE  /\ Ending(q) \in Contexts /\ plan[q] \in Plans
         /\ Ending(q).learn = TRUE => plan[q].counting = TRUE
         /\ plan[q].clean = TRUE => Held(Ending(q), plan[q], q) /\ Ending(q).est_of = q
<1>1. env[q] \in Contexts /\ plan[q] \in Plans
  BY DEF ContextInv, Open, Types
<1>2. CASE env[q].only = TRUE
  <2>1. Ending(q) = [env[q] EXCEPT !.learn = FALSE, !.collect = FALSE]
    BY <1>2 DEF Ending, Restored
  <2>2. /\ Ending(q) \in Contexts /\ Ending(q).est_of = env[q].est_of
        /\ Ending(q).learn = FALSE /\ Ending(q).collect = FALSE
        /\ Ending(q).use = env[q].use /\ Ending(q).explain = env[q].explain
        /\ Ending(q).flags_of = env[q].flags_of /\ Ending(q).stmt_of = env[q].stmt_of
    BY <1>1, <2>1 DEF Contexts
  <2>3. plan[q].clean = TRUE => Held(env[q], plan[q], q) /\ env[q].est_of = q
    BY DEF ContextInv, Open
  <2>4. plan[q].clean = TRUE => Held(Ending(q), plan[q], q)
    BY <2>2, <2>3 DEF Held
  <2>. QED  BY <1>1, <2>2, <2>3, <2>4
<1>3. CASE env[q].only = FALSE
  <2>1. Ending(q) = env[q]
    BY <1>3 DEF Ending, Restored
  <2>. QED  BY <1>1, <1>3, <2>1 DEF ContextInv, Open
<1>4. env[q].only \in BOOLEAN
  BY <1>1 DEF Contexts
<1>. QED  BY <1>2, <1>3, <1>4

(* So what is on record of the end is of the statement that ended.         *)
LEMMA EndedOK ==
  ASSUME ContextInv, NEW q \in Statements, status[q] = "open", last' = Ended(q)
  PROVE  EndOK'
<1>1. last'.stmt = q /\ last'.plan = plan[q] /\ last'.ctx = Ending(q)
  BY DEF Ended
<1>2. /\ last'.stmt \in Statements /\ last'.plan \in Plans /\ last'.ctx \in Contexts
      /\ last'.ctx.learn = TRUE => last'.plan.counting = TRUE
      /\ last'.plan.clean = TRUE =>
            Held(last'.ctx, last'.plan, last'.stmt) /\ last'.ctx.est_of = last'.stmt
  BY <1>1, EndingFacts
<1>. QED  BY <1>2 DEF EndOK, Held

(* ExecutorEnd gives the context back, and the statement no longer holds   *)
(* it; no other statement does.                                            *)
LEMMA ExecutorEndStep ==
  ASSUME ContextInv, NEW q \in Statements, NEW explained \in BOOLEAN, ExecutorEnd(q, explained)
  PROVE  ContextInv'
<1>1. status[q] = "open" /\ last' = Ended(q)
  BY DEF ExecutorEnd, MayEnd
<1>2. ctx' \in Contexts
  <2>1. Ending(q) \in Contexts
    BY <1>1, EndingFacts
  <2>2. ClearExplain(Ending(q)) \in Contexts
    BY <2>1, BeginFacts
  <2>. QED  BY <2>1, <2>2 DEF ExecutorEnd
<1>3. NoPlan \in Plans /\ NoPlan.clean = FALSE
  BY DisturbFacts DEF ContextInv
<1>4. /\ plan' = [Disturb EXCEPT ![q] = NoPlan]
      /\ status' = [status EXCEPT ![q] = "planned"]
      /\ env' = [env EXCEPT ![q] = None]
      /\ stack' = stack
  BY DEF ExecutorEnd, RemoveFromQueryContext
<1>5. /\ plan' \in [Statements -> Plans]
      /\ status' \in [Statements -> {"none", "planning", "planned", "open"}]
      /\ env' \in [Statements -> Contexts \cup {None}]
      /\ Planned' /\ Open'
  BY <1>2, <1>3, <1>4, ReplaceContext
<1>6. stack' \in Seq(Statements) /\ StackOK'
  BY <1>1, <1>4, KeepStack DEF ContextInv
<1>7. mode' \in Modes /\ (row' # None => row' \in Rows)
  BY DEF ExecutorEnd, ContextInv, Types
<1>. QED  BY <1>1, <1>2, <1>5, <1>6, <1>7, EndedOK DEF ContextInv, Types

(* The same when a standby refuses to write.                               *)
LEMMA RefuseEndStep ==
  ASSUME ContextInv, NEW q \in Statements, RefuseEnd(q)
  PROVE  ContextInv'
<1>1. status[q] = "open" /\ last' = Ended(q)
  BY DEF RefuseEnd, MayEnd
<1>2. ctx' \in Contexts
  BY <1>1, EndingFacts DEF RefuseEnd
<1>3. NoPlan \in Plans /\ NoPlan.clean = FALSE
  BY DisturbFacts DEF ContextInv
<1>4. /\ plan' = [Disturb EXCEPT ![q] = NoPlan]
      /\ status' = [status EXCEPT ![q] = "none"]
      /\ env' = [env EXCEPT ![q] = None]
      /\ stack' = stack
  BY DEF RefuseEnd
<1>5. /\ plan' \in [Statements -> Plans]
      /\ status' \in [Statements -> {"none", "planning", "planned", "open"}]
      /\ env' \in [Statements -> Contexts \cup {None}]
      /\ Planned' /\ Open'
  BY <1>2, <1>3, <1>4, ReplaceContext
<1>6. stack' \in Seq(Statements) /\ StackOK'
  BY <1>1, <1>4, KeepStack DEF ContextInv
<1>7. mode' \in Modes /\ (row' # None => row' \in Rows)
  BY DEF RefuseEnd, ContextInv, Types
<1>. QED  BY <1>1, <1>2, <1>5, <1>6, <1>7, EndedOK DEF ContextInv, Types

(* An estimate that a standby refuses: the innermost statement is given up,*)
(* the context stays.                                                      *)
LEMMA RefuseEstimateStep ==
  ASSUME ContextInv, RefuseEstimate
  PROVE  ContextInv'
<1>1. Last(stack) \in Statements
  BY PopFacts DEF ContextInv, RefuseEstimate
<1>2. /\ plan' \in [Statements -> Plans]
      /\ status' \in [Statements -> {"none", "planning", "planned", "open"}]
      /\ env' \in [Statements -> Contexts \cup {None}]
      /\ Planned' /\ Open'
  BY <1>1, DropStatement DEF RefuseEstimate
<1>3. stack' \in Seq(Statements) /\ StackOK'
  BY PopStack DEF ContextInv, RefuseEstimate
<1>. QED  BY <1>2, <1>3, NoEndOK DEF ContextInv, Types, RefuseEstimate

(* An error: the same, during planning or during execution.                *)
LEMMA FailStep ==
  ASSUME ContextInv, NEW q \in Statements, Fail(q)
  PROVE  ContextInv'
<1>1. /\ plan' \in [Statements -> Plans]
      /\ status' \in [Statements -> {"none", "planning", "planned", "open"}]
      /\ env' \in [Statements -> Contexts \cup {None}]
      /\ Planned' /\ Open'
  BY DropStatement DEF Fail
<1>2. stack' \in Seq(Statements) /\ StackOK'
  <2>1. CASE MayEnd(q) /\ stack' = stack
    BY <2>1, KeepStack DEF ContextInv, MayEnd, Fail
  <2>2. CASE stack # <<>> /\ q = Last(stack) /\ stack' = Front(stack)
    BY <2>2, PopStack DEF ContextInv, Fail
  <2>. QED  BY <2>1, <2>2 DEF Fail
<1>. QED  BY <1>1, <1>2, NoEndOK DEF ContextInv, Types, Fail

(* A change of aqo.mode or of the stored settings, and a promotion, touch  *)
(* no context.                                                             *)
LEMMA SettingsStep ==
  ASSUME ContextInv, mode' \in Modes, row' # None => row' \in Rows, last' = NoEnd \/ last' = last,
         UNCHANGED <<ctx, status, plan, env, stack>>
  PROVE  ContextInv'
<1>1. Types' /\ StackOK' /\ Planned' /\ Open'
  BY DEF ContextInv, Types, StackOK, Planned, Open, Held
<1>2. EndOK'
  <2>1. CASE last' = NoEnd
    BY <2>1, NoEndOK
  <2>2. CASE last' = last
    BY <2>2 DEF ContextInv, EndOK, Held
  <2>. QED  BY <2>1, <2>2
<1>. QED  BY <1>1, <1>2 DEF ContextInv

-----------------------------------------------------------------------------
(* ContextInv holds at the start of a session, and every step keeps it.    *)
LEMMA InitOK == SessionInit => ContextInv
<1>. SUFFICES ASSUME SessionInit PROVE ContextInv
  OBVIOUS
<1>1. ctx \in Contexts
  BY DEF SessionInit, Contexts
<1>2. NoPlan \in Plans /\ NoPlan.clean = FALSE
  BY DEF NoPlan, Plans
<1>3. row # None => row \in Rows
  BY StatementAssumption DEF SessionInit, Rows
<1>4. /\ mode \in Modes /\ stack = <<>> /\ status = [q \in Statements |-> "none"]
      /\ plan = [q \in Statements |-> NoPlan] /\ env = [q \in Statements |-> None]
  BY DEF SessionInit
<1>5. EndOK
  BY DEF SessionInit, EndOK, NoEnd
<1>6. /\ \A q \in Statements : status[q] = "none" /\ plan[q] = NoPlan
      /\ status \in [Statements -> {"none", "planning", "planned", "open"}]
  BY <1>4
<1>7. plan \in [Statements -> Plans] /\ env \in [Statements -> Contexts \cup {None}]
  BY <1>2, <1>4
<1>8. Types
  BY <1>1, <1>3, <1>4, <1>6, <1>7 DEF Types
<1>9. StackOK
  BY <1>4 DEF StackOK
<1>10. Planned /\ Open
  BY <1>2, <1>6 DEF Planned, Open
<1>. QED  BY <1>5, <1>8, <1>9, <1>10 DEF ContextInv

(* One case for each action.                                               *)
LEMMA NextOK == ContextInv /\ [SessionNext]_sessionVars => ContextInv'
<1>. SUFFICES ASSUME ContextInv, [SessionNext]_sessionVars PROVE ContextInv'
  OBVIOUS
<1>1. ASSUME NEW q \in Statements, BeginPlan(q) PROVE ContextInv'
  BY <1>1, BeginPlanStep
<1>2. ASSUME NEW q \in Statements, RefusePlan(q) PROVE ContextInv'
  BY <1>2, RefusePlanStep
<1>3. ASSUME NEW q \in Statements, RefuseEnd(q) PROVE ContextInv'
  BY <1>3, RefuseEndStep
<1>4. ASSUME NEW q \in Statements, Fail(q) PROVE ContextInv'
  BY <1>4, FailStep
<1>5. ASSUME NEW q \in Statements, NEW b \in BOOLEAN, ExecutorStart(q, b) PROVE ContextInv'
  BY <1>5, ExecutorStartStep
<1>6. ASSUME NEW q \in Statements, NEW b \in BOOLEAN, ExecutorEnd(q, b) PROVE ContextInv'
  BY <1>6, ExecutorEndStep
<1>7. ASSUME NEW b \in BOOLEAN, Estimate(b) PROVE ContextInv'
  BY <1>7, EstimateStep
<1>8. CASE RefuseEstimate
  BY <1>8, RefuseEstimateStep
<1>9. CASE JoinSearch
  BY <1>9, JoinSearchStep
<1>10. CASE FinishPlan
  BY <1>10, FinishPlanStep
<1>11. ASSUME NEW m \in Modes, SetMode(m) PROVE ContextInv'
  BY <1>11, SettingsStep DEF SetMode, ContextInv, Types
<1>12. ASSUME NEW s \in Settings, SetRow(s) PROVE ContextInv'
  <2>1. s \in Rows
    BY StatementAssumption DEF Rows
  <2>. QED  BY <1>12, <2>1, SettingsStep DEF SetRow, ContextInv, Types
<1>13. CASE Promote
  BY <1>13, SettingsStep DEF Promote, ContextInv, Types
<1>14. CASE UNCHANGED sessionVars
  BY <1>14, SettingsStep DEF sessionVars, ContextInv, Types
<1>. QED  BY <1>1, <1>2, <1>3, <1>4, <1>5, <1>6, <1>7, <1>8, <1>9, <1>10, <1>11, <1>12, <1>13,
            <1>14 DEF SessionNext

(* Whatever happens in a session, every statement that holds a context     *)
(* holds the one it was planned under.                                     *)
THEOREM ContextInvariant == SessionSpec => []ContextInv
BY InitOK, NextOK, PTL DEF SessionSpec

(* A statement that was started under the context of its own planning ends *)
(* under it (aqo_ExecutorStart saves it, learn_query_stat restores it),    *)
(* for any number of statements, nested and interleaved at any depth.      *)
THEOREM ContextIsOwn == SessionSpec => []OwnContext
<1>1. ContextInv => OwnContext
  BY DEF ContextInv, EndOK, Held, OwnContext, Contexts, Plans
<1>. QED  BY <1>1, ContextInvariant, PTL

(* learn_query_stat learns only from plans that aqo_ExecutorStart had the  *)
(* executor count rows for.                                                *)
THEOREM LearningIsCounted == SessionSpec => []LearnsFromCounters
<1>1. ContextInv => LearnsFromCounters
  BY DEF ContextInv, EndOK, LearnsFromCounters, Contexts, Plans
<1>. QED  BY <1>1, ContextInvariant, PTL

(* explain_aqo tells plans with estimates of the models from those with    *)
(* default estimates.                                                      *)
THEOREM ExplainIsTrue == SessionSpec => []ExplainTellsHooks
<1>1. ContextInv => ExplainTellsHooks
  BY DEF ContextInv, EndOK, Held, ExplainTellsHooks, Contexts, Plans
<1>. QED  BY <1>1, ContextInvariant, PTL

(* A statement planned on a standby that ends under its own context learns *)
(* nothing, promoted meanwhile or not.                                     *)
THEOREM NothingLearnedOnStandby == SessionSpec => []StandbyLearnsNothing
<1>1. ContextInv => StandbyLearnsNothing
  BY DEF ContextInv, EndOK, Held, StandbyLearnsNothing, Contexts, Plans
<1>. QED  BY <1>1, ContextInvariant, PTL
=============================================================================
