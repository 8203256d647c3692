---- MODULE Regime ----
(***************************************************************************)
(* The market regime of domain/regime.py: five components calculated from  *)
(* the frozen snapshots, each positive, mixed, negative or unavailable,    *)
(* weighed into a score that is never renormalised.  A snapshot is what    *)
(* the metrics say of it: how long its history is, where its last close    *)
(* stands to its averages, the slope, its return and the sessions that is  *)
(* over, and its stress percentiles.  From one calculation to the next one *)
(* snapshot changes.                                                       *)
(***************************************************************************)
EXTENDS Integers, FiniteSets, FiniteSetsExt, Functions

CONSTANTS
    Spy, Qqq, Iwm, Hyg, Lqd,            \* the named symbols of the policy
    Sector,                             \* the sector symbols
    Cyclical, Defensive,                \* the leadership baskets of them
    Shapes,                             \* the snapshots a symbol may have
    PositiveMinimum, NegativeMaximum, ValidMinimum,    \* of participation
    Votes, ValidVotes,                                 \* of leadership
    Calm, Stressed,                     \* percentiles of the volatility rule
    Weight,                             \* component_weights
    Permissive, NegDefensive            \* the thresholds, the second negated

RadarSymbol == {Spy, Qqq, Iwm, Hyg, Lqd} \cup Sector
Component == {"BROAD_TREND", "PARTICIPATION", "LEADERSHIP", "VOLATILITY_STRESS",
              "CREDIT_CROSS_ASSET"}

ASSUME RegimeAssumption ==
    /\ 0 <= NegativeMaximum /\ NegativeMaximum < PositiveMinimum
    /\ PositiveMinimum <= Cardinality(Sector) /\ ValidMinimum \in 1..Cardinality(Sector)
    /\ Votes \in 1..3 /\ ValidVotes \in 1..3 /\ Calm < Stressed
    /\ Cyclical \cup Defensive \subseteq Sector
    /\ Cyclical \cap Defensive = {} /\ Cyclical # {} /\ Defensive # {}
    /\ \A c \in Component : Weight[c] > 0
    /\ SumFunction(Weight) = 100 /\ -NegDefensive < Permissive

VARIABLES
    snapshot,    \* what is known of each symbol
    verdict      \* the last RegimeResult: regime, score and component states

regimeVars == <<snapshot, verdict>>

(* How much history a snapshot has, from none to that of the percentiles.  *)
Absent == 0
Returns == 1
Trend == 2
LongTrend == 3
Distribution == 4

State(positive, negative) ==
    IF positive THEN "POSITIVE" ELSE IF negative THEN "NEGATIVE" ELSE "MIXED"
Has(s, symbols, history) == \A x \in symbols : s[x].history >= history

(* Returns are compared only over the same sessions.                       *)
Comparable(s, symbols) ==
    Has(s, symbols, Returns) /\ \A x, y \in symbols : s[x].dates = s[y].dates

-----------------------------------------------------------------------------
BroadTrend(s) ==
    IF ~Has(s, {Spy, Qqq}, LongTrend) THEN "UNAVAILABLE"
    ELSE State(\A x \in {Spy, Qqq} : s[x].short > 0 /\ s[x].long > 0 /\ s[x].slope > 0,
               /\ \A x \in {Spy, Qqq} : s[x].short < 0 /\ s[x].slope < 0
               /\ \E x \in {Spy, Qqq} : s[x].long < 0)

Valid(s) == {x \in Sector : s[x].history >= Trend}

(* Mutant: whatever is not positive is negative.                           *)
TwoSidedParticipation(s) ==
    IF Cardinality(Valid(s)) < ValidMinimum THEN "UNAVAILABLE"
    ELSE State(Cardinality({x \in Valid(s) : s[x].short > 0 /\ s[x].slope > 0}) >= PositiveMinimum,
               TRUE)

Participation(s) ==
    IF Cardinality(Valid(s)) < ValidMinimum THEN "UNAVAILABLE"
    ELSE State(Cardinality({x \in Valid(s) : s[x].short > 0 /\ s[x].slope > 0}) >= PositiveMinimum,
               Cardinality({x \in Valid(s) : s[x].short > 0}) <= NegativeMaximum)

(* Three votes; one that lacks a series, or the same sessions, is not cast. *)
Cyclicals(s) == MapThenSumSet(LAMBDA x : s[x].return, Cyclical)
Defensives(s) == MapThenSumSet(LAMBDA x : s[x].return, Defensive)
Ballots(s) ==
    {b \in {[needs |-> {Spy, Qqq}, value |-> s[Qqq].return - s[Spy].return],
            [needs |-> {Spy, Iwm}, value |-> s[Iwm].return - s[Spy].return],
            [needs |-> Cyclical \cup Defensive,
             value |-> Cyclicals(s) * Cardinality(Defensive)
                         - Defensives(s) * Cardinality(Cyclical)]} :
        Comparable(s, b.needs)}
Leadership(s) ==
    IF Cardinality(Ballots(s)) < ValidVotes THEN "UNAVAILABLE"
    ELSE State(Cardinality({b \in Ballots(s) : b.value > 0}) >= Votes,
               Cardinality({b \in Ballots(s) : b.value < 0}) >= Votes)

VolatilityStress(s) ==
    IF ~Has(s, {Spy}, Distribution) THEN "UNAVAILABLE"
    ELSE State(s[Spy].realized <= Calm /\ s[Spy].atr <= Calm,
               s[Spy].realized >= Stressed \/ s[Spy].atr >= Stressed)

CreditCrossAsset(s) ==
    IF ~Has(s, {Hyg}, Trend) \/ ~Comparable(s, {Hyg, Lqd}) THEN "UNAVAILABLE"
    ELSE State(s[Hyg].return > s[Lqd].return /\ s[Hyg].short > 0 /\ s[Hyg].slope > 0,
               s[Hyg].return < s[Lqd].return /\ s[Hyg].short < 0 /\ s[Hyg].slope < 0)

Components(s) ==
    [c \in Component |->
        CASE c = "BROAD_TREND" -> BroadTrend(s)
          [] c = "PARTICIPATION" -> Participation(s)
          [] c = "LEADERSHIP" -> Leadership(s)
          [] c = "VOLATILITY_STRESS" -> VolatilityStress(s)
          [] c = "CREDIT_CROSS_ASSET" -> CreditCrossAsset(s)]

-----------------------------------------------------------------------------
Unavailable(states) == {c \in Component : states[c] = "UNAVAILABLE"}

(* Mutant: exactly two unavailable components, not two or more.            *)
UnknownAtTwo(states) ==
    states["BROAD_TREND"] = "UNAVAILABLE" \/ Cardinality(Unavailable(states)) = 2

Unknowable(states) ==
    \/ states["BROAD_TREND"] = "UNAVAILABLE"
    \/ Cardinality(Unavailable(states) \ {"BROAD_TREND"}) >= 2

Score(states) ==
    MapThenSumSet(LAMBDA c : Weight[c], {c \in Component : states[c] = "POSITIVE"})
      - MapThenSumSet(LAMBDA c : Weight[c], {c \in Component : states[c] = "NEGATIVE"})

Classify(score) ==
    IF score <= -NegDefensive THEN "DEFENSIVE"
    ELSE IF score >= Permissive THEN "PERMISSIVE" ELSE "NEUTRAL"

(* calculate_regime; critical stress is never raised by it.                *)
RegimeOf(s) ==
    LET states == Components(s)
    IN IF Unknowable(states)
       THEN [regime |-> "UNKNOWN", score |-> 0, states |-> states]
       ELSE [regime |-> Classify(Score(states)), score |-> Score(states), states |-> states]

RegimeInit ==
    /\ snapshot = [x \in RadarSymbol |-> CHOOSE shape \in Shapes[x] : shape.history = Absent]
    /\ verdict = RegimeOf(snapshot)

Recalculate(x, shape) ==
    /\ shape # snapshot[x]
    /\ snapshot' = [snapshot EXCEPT ![x] = shape]
    /\ verdict' = RegimeOf(snapshot')

RegimeNext == \E x \in RadarSymbol : \E shape \in Shapes[x] : Recalculate(x, shape)

-----------------------------------------------------------------------------
Flips == {verdict.regime, verdict'.regime} = {"DEFENSIVE", "PERMISSIVE"}

(* A sector, the small caps or the credit pair change sides in at most two *)
(* components at once, and by less than the distance of the thresholds:    *)
(* such a series alone, gained, lost or turned, never turns a permissive   *)
(* regime into a defensive one or back.  (QQQ alone can: it sits in the    *)
(* broad trend and in leadership, 30 + 40 points.)                         *)
OneSeriesIsNotARegime ==
    [][\A x \in RadarSymbol \ {Spy, Qqq} : snapshot'[x] # snapshot[x] => ~Flips]_regimeVars

(* calculate_regime fails closed: what turned the regime unknown for lack  *)
(* of data is not undone by losing more of it, and losing data never takes *)
(* a defensive regime to a permissive one.                                 *)
LosingDataRevealsNothing ==
    [][(\E x \in RadarSymbol : snapshot'[x].history = Absent /\ snapshot[x].history > Absent) =>
         /\ verdict.regime = "UNKNOWN" => verdict'.regime = "UNKNOWN"
         /\ verdict.regime = "DEFENSIVE" => verdict'.regime # "PERMISSIVE"]_regimeVars
====
