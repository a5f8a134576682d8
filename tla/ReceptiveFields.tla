-------------------------- MODULE ReceptiveFields --------------------------
(***************************************************************************)
(* The locally weighted model of one feature subspace                      *)
(* (machine_learning_lwpr.c): a list of receptive fields, each with a      *)
(* centre, a width and a regression that is trusted only after enough      *)
(* updates, and one "data house" per centre, the nearest-neighbour table   *)
(* that answers for a field until it is trusted.                           *)
(*                                                                         *)
(* An executed query teaches the model a point (lwpr_update), a planned    *)
(* one asks for a point (lwpr_predict_explore).  What is kept of the       *)
(* numbers is what the control flow compares: the weight of a field at a   *)
(* point (in millionths, a function of the distance of the point from the  *)
(* centre times the width), the count of updates, the recorded prediction  *)
(* errors and the number of rows of a house.  The regression, which error  *)
(* an update records and how it moves the width are chosen freely.         *)
(***************************************************************************)
EXTENDS Integers, FiniteSets, Sequences, Functions

CONSTANTS
    Points,         \* the feature vectors: integers on a line
    Widths,         \* diagonal of the distance metric D of a field
    InitWidth,      \* model->init_D
    NIn,            \* number of features
    Kernel(_),      \* weight of a scaled distance, in millionths
    Errors,         \* relative prediction errors, in units of the threshold
    ErrorWindow,    \* num_pred_error_history
    Patterns,       \* query patterns with a slot in the history matrix
    HistoryWindow,  \* num_history_data_compute_probability_rf
    NoPattern       \* current_query_hash = 0

FULL_W == 1000000         \* weight 1, at the centre of a field
W_GEN == 100000           \* model->w_gen = 0.1
W_PRUNE == 900000         \* model->w_prune = 0.9
W_COPY == 10000           \* 0.1 * w_gen
UPDATE_W == 1000          \* a field is updated when w > 0.001
CUTOFF == 1000            \* cutoff of lwpr_predict_explore
EXACT_W == 999000         \* 0.999
USE_AQO_THRESHOLD == 10   \* use_aqo_threshold = 1e-5
ERROR_THRESHOLD == 1      \* avg_error_threshold

\* rows of a data house: the arrays of 2.0 * nIn + 1 elements
HouseRows == 2 * NIn + 1

Abs(n) == IF n < 0 THEN -n ELSE n

Distances == {Abs(x - y) * d : x \in Points, y \in Points, d \in Widths}

\* A weight is a real number: equality with the threshold 1e-5 is left out.
ASSUME FieldAssumption ==
    /\ NIn \in Nat \ {0}
    /\ Points \subseteq Int
    /\ Widths \subseteq Nat \ {0}
    /\ InitWidth \in Widths
    /\ ErrorWindow \in Nat \ {0}
    /\ HistoryWindow \in Nat \ {0}
    /\ Errors \subseteq Nat
    /\ NoPattern \notin Patterns
    /\ Kernel(0) = FULL_W
    /\ \A d \in Distances : Kernel(d) \in 0..FULL_W \ {USE_AQO_THRESHOLD}

VARIABLES
    fields,    \* model->rf[0 .. numRFS-1]
    houses,    \* rows of the data house of each centre, 0 = no such row
    history,   \* num_history_data of each query pattern
    answer     \* what the last lwpr_predict_explore found

vars == <<fields, houses, history, answer>>

NoAnswer == [kind |-> "none", asked |-> NoPattern, of |-> {}, future |-> {}]

\* w = exp(-0.5 * (x - c)' D (x - c))
Weight(f, x) == Kernel(Abs(x - f.c) * f.d)

\* Fields that are within their kernel's reach of x.
Near(x, w) == {i \in DOMAIN fields : Weight(fields[i], x) > w}

\* A history window: append until it is full, then shift.
Window(s, e, size) == IF Len(s) < size THEN Append(s, e) ELSE Append(Tail(s), e)

Total(s) ==
    LET sum[i \in 0..Len(s)] == IF i = 0 THEN 0 ELSE sum[i - 1] + s[i]
    IN sum[Len(s)]

\* lwpr_math_avg_vector(pred_error_history) compared with the threshold; the
\* average of a field without errors stays 0.
AverageBelow(f) == f.errs = <<>> \/ Total(f.errs) < ERROR_THRESHOLD * Len(f.errs)
AverageAbove(f) == f.errs # <<>> /\ Total(f.errs) > ERROR_THRESHOLD * Len(f.errs)

\* num_history_data after one more point of pattern q
Remember(q) ==
    [p \in Patterns |-> IF p = q /\ history[p] < HistoryWindow
                        THEN history[p] + 1 ELSE history[p]]

Init ==
    /\ fields = <<>>
    /\ houses = [c \in Points |-> 0]
    /\ history = [p \in Patterns |-> 0]
    /\ answer = NoAnswer

(***************************************************************************)
(* lwpr_aux_update_one                                                     *)
(***************************************************************************)

\* Mutant: trust only after one update more.
TrustingLate(f) == f.n > 2 * NIn

\* The trust test reads n_data before the update counts in it; n_data starts
\* at 1e-10, so that "n_data > 2 nIn" already holds after 2 nIn updates.
Trusting(f) == f.n >= 2 * NIn

\* Mutant: a projection is added without the test of nReg against nIn.
UpdatedAlwaysGrows(f, e, d, grow) ==
    [f EXCEPT !.trust = f.trust \/ Trusting(f),
              !.errs = Window(f.errs, e, ErrorWindow),
              !.d = d,
              !.nreg = f.nreg + 1,
              !.n = IF f.n < 2 * NIn + 1 THEN f.n + 1 ELSE f.n]

\* One field takes a point: error e is recorded, the width becomes d, a
\* projection may be added.  The count matters up to 2 nIn + 1 and stops there.
Updated(f, e, d, grow) ==
    [f EXCEPT !.trust = f.trust \/ Trusting(f),
              !.errs = Window(f.errs, e, ErrorWindow),
              !.d = d,
              !.nreg = IF grow THEN f.nreg + 1 ELSE f.nreg,
              !.n = IF f.n < 2 * NIn + 1 THEN f.n + 1 ELSE f.n]

\* OkNNr_learn on the houses of "centres": an empty house gets its first row,
\* a full one keeps its rows, another one grows unless the point is close to
\* one of its rows.
LearnedHouses(centres) ==
    {[c \in Points |-> IF c \in grown THEN houses[c] + 1 ELSE houses[c]] :
        grown \in {g \in SUBSET {c \in centres : houses[c] < HouseRows} :
                      \A c \in centres : houses[c] = 0 => c \in g}}

\* lwpr_aux_init_rf: the new field starts from the default shape and the target
\* it was taught, or from the shape and the beta0 of a trusted neighbour.
NewField(x, d, nreg, copied) ==
    [c |-> x, d |-> d, nreg |-> nreg, n |-> 0, trust |-> FALSE, errs |-> <<>>,
     copied |-> copied, inherits |-> houses[x] > 0]

\* The first index whose weight is the largest, of those in "among".
Heaviest(x, among) ==
    CHOOSE i \in among :
        \A j \in among : \/ Weight(fields[i], x) > Weight(fields[j], x)
                         \/ /\ Weight(fields[i], x) = Weight(fields[j], x)
                            /\ i <= j

\* The update loop: the fields within reach of x record err, width and grown.
UpdateLoop(x, err, width, grown) ==
    [i \in DOMAIN fields |->
        IF i \in Near(x, UPDATE_W)
        THEN Updated(fields[i], err[i], width[i], i \in grown)
        ELSE fields[i]]

\* The fields after the update loop; the error, the width and the projection
\* of a field within reach are whatever the regression makes of them.
UpdatedFields(x) ==
    {UpdateLoop(x, err, width, grown) :
        err \in [Near(x, UPDATE_W) -> Errors], width \in [Near(x, UPDATE_W) -> Widths],
        grown \in SUBSET {i \in Near(x, UPDATE_W) : fields[i].nreg < NIn}}

\* Houses written by the loop: the untrusted fields' within reach.
Learners(x) ==
    {fields[i].c : i \in {j \in Near(x, UPDATE_W) : ~Trusting(fields[j])}}

\* Mutant: a new field without the first row of its house.
AddFieldNoHouse(x) ==
    /\ Near(x, W_GEN) = {}
    /\ \E upd \in UpdatedFields(x) :
         fields' = Append(upd, NewField(x, InitWidth, 1, FALSE))
    /\ houses' \in LearnedHouses(Learners(x))

\* lwpr_aux_update_one_add_prune, w_max <= w_gen: a new field at x.
AddField(x) ==
    /\ Near(x, W_GEN) = {}
    /\ \E upd \in UpdatedFields(x) :
         LET m == Heaviest(x, DOMAIN fields)
         IN fields' = Append(upd,
                IF Near(x, W_COPY) # {} /\ upd[m].trust
                THEN NewField(x, upd[m].d, upd[m].nreg, TRUE)
                ELSE NewField(x, InitWidth, IF NIn > 1 THEN 2 ELSE 1, FALSE))
    /\ houses' \in LearnedHouses(Learners(x) \cup {x})

\* The field that prune removes, of the two heaviest at x.
Pruned(x, upd) ==
    LET m == Heaviest(x, DOMAIN fields)
        s == Heaviest(x, DOMAIN fields \ {m})
    IN IF upd[m].d < upd[s].d THEN m ELSE s

\* Mutant: the last field is copied into the gap and stays where it was.
FillGapNoShrink(s, i) == [s EXCEPT ![i] = s[Len(s)]]

\* The last field fills the gap of a removed one.
FillGap(s, i) == SubSeq([s EXCEPT ![i] = s[Len(s)]], 1, Len(s) - 1)

\* Mutant: any second field within reach counts as overlapping.
PruneFieldInReach(x) ==
    /\ Near(x, W_GEN) # {}
    /\ Cardinality(Near(x, UPDATE_W)) > 1
    /\ \E upd \in UpdatedFields(x) : fields' = FillGap(upd, Pruned(x, upd))
    /\ houses' \in LearnedHouses(Learners(x))

\* w_sec > w_prune: two fields overlap at x, one goes.  Its house stays.
PruneField(x) ==
    /\ Near(x, W_GEN) # {}
    /\ Cardinality(Near(x, W_PRUNE)) > 1
    /\ \E upd \in UpdatedFields(x) : fields' = FillGap(upd, Pruned(x, upd))
    /\ houses' \in LearnedHouses(Learners(x))

KeepFields(x) ==
    /\ Near(x, W_GEN) # {}
    /\ Cardinality(Near(x, W_PRUNE)) <= 1
    /\ fields' \in UpdatedFields(x)
    /\ houses' \in LearnedHouses(Learners(x))

\* A new model starts the history of the query's pattern.
Learn(x) ==
    /\ AddField(x) \/ PruneField(x) \/ KeepFields(x)
    /\ IF fields = <<>> THEN \E q \in Patterns \cup {NoPattern} : history' = Remember(q)
                       ELSE UNCHANGED history
    /\ answer' = NoAnswer

(***************************************************************************)
(* lwpr_aux_predict_conf_one_T                                             *)
(***************************************************************************)

\* Close enough to be taken at its word.
Exact(x) == {i \in Near(x, CUTOFF) : /\ Weight(fields[i], x) > EXACT_W
                                     /\ AverageBelow(fields[i])}

\* Mutant: the errors of a trusted field are not looked at.
UsableDespiteErrors(x) == Near(x, CUTOFF) \ Exact(x)

\* Contributes to the weighted mean: a trusted field only with small errors,
\* an untrusted one through its house.
Usable(x) == {i \in Near(x, CUTOFF) \ Exact(x) :
                 ~(fields[i].trust /\ AverageAbove(fields[i]))}

\* min_error <= avg_error_threshold
SomeErrorSmall(x) ==
    \E i \in Near(x, CUTOFF) : fields[i].errs # <<>> /\ ~AverageAbove(fields[i])

\* Mutant: only the distance is tested, not the errors.
DeclinesFarOnly(x) == Near(x, USE_AQO_THRESHOLD - 1) = {}

\* No field is usable: leave the estimate to the default method.
Declines(x) ==
    \/ Near(x, USE_AQO_THRESHOLD - 1) = {}
    \/ Near(x, USE_AQO_THRESHOLD) # {} /\ ~SomeErrorSmall(x)

Kind(x) == IF Exact(x) # {} THEN "exact"
           ELSE IF Usable(x) # {} THEN "weighted"
           ELSE IF Declines(x) THEN "decline"
           ELSE "nearest"

\* The fields the value comes from; of several exact ones the last.
Contributors(x) ==
    CASE Kind(x) = "exact" -> {CHOOSE i \in Exact(x) : \A j \in Exact(x) : j <= i}
      [] Kind(x) = "weighted" -> Usable(x)
      [] Kind(x) = "decline" -> {}
      [] OTHER -> {Heaviest(x, DOMAIN fields)}

\* Mutant: the explore value is computed before the point joins the history.
PredictBeforeRemember(x, q) ==
    /\ fields # <<>>
    /\ history' = Remember(q)
    /\ answer' = [kind |-> Kind(x),
                  asked |-> q,
                  of |-> {fields[i] : i \in Contributors(x)},
                  future |-> IF Exact(x) \cup Usable(x) = {}
                             THEN {p \in Patterns : history[p] > 0} ELSE {}]
    /\ UNCHANGED <<fields, houses>>

\* The point joins the history of its pattern before the explore value is
\* computed; the future of an outlier counts every pattern with a history.
Predict(x, q) ==
    /\ fields # <<>>
    /\ history' = Remember(q)
    /\ answer' = [kind |-> Kind(x),
                  asked |-> q,
                  of |-> {fields[i] : i \in Contributors(x)},
                  future |-> IF Exact(x) \cup Usable(x) = {}
                             THEN {p \in Patterns : history'[p] > 0} ELSE {}]
    /\ UNCHANGED <<fields, houses>>

Next == \E x \in Points : \/ Learn(x)
                          \/ \E q \in Patterns \cup {NoPattern} : Predict(x, q)

Spec == Init /\ [][Next]_vars

-----------------------------------------------------------------------------
(***************************************************************************)
(* Properties                                                              *)
(***************************************************************************)

\* The values the variables may take.
TypeOK ==
    /\ \A i \in DOMAIN fields :
          fields[i] \in [c : Points, d : Widths, nreg : 1..NIn, n : 0..HouseRows,
                        trust : BOOLEAN, errs : Seq(Errors), copied : BOOLEAN,
                        inherits : BOOLEAN]
    /\ houses \in [Points -> 0..HouseRows]
    /\ history \in [Patterns -> 0..HistoryWindow]
    /\ answer.kind \in {"none", "exact", "weighted", "decline", "nearest"}

\* A data house is found by the hash of its field's centre
\* (get_int_array_hash2(RF->c)), so two fields of one model must not share a
\* centre: neither adding a field nor moving the last one into the gap of a
\* pruned one makes two of them.
CentresDistinct ==
    \A i, j \in DOMAIN fields : fields[i].c = fields[j].c => i = j

\* lwpr_aux_predict_conf_one_T asks the house of every untrusted field; when
\* load_rf_datahouse finds none it goes on with the untrusted regression.
\* Every untrusted field has a house with a row in it.
UntrustedHasHouse ==
    \A i \in DOMAIN fields : ~fields[i].trust => houses[fields[i].c] > 0

\* OkNNr_learn appends to a house while it has fewer than 2 nIn + 1 rows; on a
\* full house it moves the rows, dividing by their distances to the new point,
\* which may be 0.  A house that was empty when its field was made is never
\* full when the field still learns into it: the field is trusted in time.
HouseHasRoom ==
    \A i \in DOMAIN fields :
        ~fields[i].inherits /\ ~Trusting(fields[i])
            => houses[fields[i].c] < HouseRows

\* The last branch of lwpr_aux_predict_conf_one_T evaluates the nearest field on
\* xc, the difference to the mean of whichever field the loop visited last.
\* No prediction reaches it: a point is answered by the fields within reach or
\* declined.
NeverNearest == answer.kind # "nearest"

\* What a prediction is made of: a trusted field that was updated more than
\* 2 nIn times and whose recent errors do not exceed the threshold, or an
\* untrusted field with a house to ask.
AnswerBacked ==
    \A f \in answer.of :
        IF f.trust THEN f.n > 2 * NIn /\ ~AverageAbove(f) ELSE houses[f.c] > 0

\* An outlier's explore value counts the patterns with a history in the model;
\* the query that asks has just joined the history, so its own pattern is
\* always among them.
OutlierCountsItself ==
    answer.kind = "decline" /\ answer.asked # NoPattern => answer.asked \in answer.future

\* A query very close to a field's centre is answered by that field alone, with
\* uncertainty 0; the comment above the test says that the field's recorded
\* errors verify it.  So a field that has no errors yet answers this way only
\* with the target it was taught, not with the beta0 of a neighbour.
ExactIsVerified ==
    answer.kind = "exact" => \A f \in answer.of : f.errs # <<>> \/ ~f.copied

\* A step of lwpr_update forgets a field only when another field, which stays,
\* overlaps with it at some point; every other field keeps its centre, its
\* count and its trust, also the one moved into the gap.
ForgetsOnlyOverlapped ==
    [][\A f \in Range(fields) :
          \/ \E g \in Range(fields') : /\ g.c = f.c
                                       /\ g.n >= f.n
                                       /\ f.trust => g.trust
          \/ \E g \in Range(fields), x \in Points :
                /\ g.c # f.c
                /\ g.c \in {h.c : h \in Range(fields')}
                /\ Weight(f, x) > W_PRUNE
                /\ Weight(g, x) > W_PRUNE]_vars
=============================================================================
