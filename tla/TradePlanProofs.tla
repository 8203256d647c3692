---------------------------- MODULE TradePlanProofs ----------------------------
(***************************************************************************)
(* What holds of a plan from its run to its last observation, for all      *)
(* calendars, prices, policies and lifetimes.                              *)
(*                                                                         *)
(* An observation made through one session still agrees, session by        *)
(* session, with what the same bars say later: bars of closed sessions are *)
(* not revised, and an expiry that comes after a session has closed leaves *)
(* that session eligible.                                                  *)
(***************************************************************************)
EXTENDS TradePlan, FiniteSetTheorems, WellFoundedInduction, TLAPS

(***************************************************************************)
(* Integers                                                                *)
(***************************************************************************)

LEMMA Division ==
  ASSUME NEW a \in Nat, NEW b \in Nat \ {0}
  PROVE  a \div b \in Nat /\ (a \div b) * b <= a
BY SMTT(30)

LEMMA DivisionBounds ==
  ASSUME NEW a \in Nat, NEW b \in Nat \ {0}, NEW u \in Nat, u <= a \div b
  PROVE  u * b <= a
BY Division, SMTT(30)

LEMMA MultipleHasNoRemainder ==
  ASSUME NEW a \in Nat, NEW b \in Nat \ {0}
  PROVE  (a * b) % b = 0
BY SMTT(30)

LEMMA RoundedDownIsBelow ==
  ASSUME NEW a \in Nat, NEW b \in Nat \ {0}
  PROVE  /\ RoundedDown(a, b) \in Nat /\ RoundedDown(a, b) <= a
         /\ RoundedDown(a, b) % b = 0
BY Division, MultipleHasNoRemainder DEF RoundedDown

LEMMA LeastExists ==
  ASSUME NEW S \in SUBSET Nat, S # {}
  PROVE  \E x \in S : \A y \in S : x <= y
<1>1. PICK x \in S : \A y \in S : <<y, x>> \notin OpToRel(<, Nat)
  BY WFMin, NatLessThanWellFounded
<1>2. \A y \in S : ~(y < x)
  BY <1>1 DEF OpToRel
<1> QED BY <1>2

LEMMA FiniteMax ==
  ASSUME NEW S \in SUBSET Int, S # {}, IsFiniteSet(S)
  PROVE  Max(S) \in S /\ \A y \in S : y <= Max(S)
<1> DEFINE Above(x) == {y \in S : y > x}
           N == {Cardinality(Above(x)) : x \in S}
<1>1. \A x \in S : IsFiniteSet(Above(x)) /\ Cardinality(Above(x)) \in Nat
  BY FS_Subset, FS_CardinalityType
<1>2. PICK n \in N : \A m \in N : n <= m
  <2>1. N \in SUBSET Nat /\ N # {}
    BY <1>1
  <2> HIDE DEF N
  <2> QED BY <2>1, LeastExists
<1>3. PICK x \in S : n = Cardinality(Above(x))
  BY <1>2
<1>4. ASSUME NEW y \in S, y > x PROVE FALSE
  <2>0. x \in Int /\ y \in Int /\ \A z \in S : z \in Int
    OBVIOUS
  <2>1. Above(y) \in SUBSET Above(x) /\ y \in Above(x) /\ y \notin Above(y)
    <3>1. \A z \in Above(y) : z \in Above(x)
      BY <1>4, <2>0
    <3>2. y \in Above(x)
      BY <1>4
    <3>3. y \notin Above(y)
      BY <2>0
    <3> HIDE DEF Above
    <3> QED BY <3>1, <3>2, <3>3
  <2>2. Above(y) # Above(x)
    BY <2>1
  <2> HIDE DEF Above
  <2>3. Cardinality(Above(y)) < Cardinality(Above(x))
    BY <1>1, <2>1, <2>2, FS_Subset
  <2>4. Cardinality(Above(x)) <= Cardinality(Above(y))
    BY <1>2, <1>3
  <2> QED BY <1>1, <2>3, <2>4
<1>5. \A y \in S : x >= y
  BY <1>4
<1> QED BY <1>5 DEF Max

LEMMA FiniteMin ==
  ASSUME NEW S \in SUBSET Int, S # {}, IsFiniteSet(S)
  PROVE  Min(S) \in S /\ \A y \in S : Min(S) <= y
<1> DEFINE Under(x) == {y \in S : y < x}
           N == {Cardinality(Under(x)) : x \in S}
<1>1. \A x \in S : IsFiniteSet(Under(x)) /\ Cardinality(Under(x)) \in Nat
  BY FS_Subset, FS_CardinalityType
<1>2. PICK n \in N : \A m \in N : n <= m
  <2>1. N \in SUBSET Nat /\ N # {}
    BY <1>1
  <2> HIDE DEF N
  <2> QED BY <2>1, LeastExists
<1>3. PICK x \in S : n = Cardinality(Under(x))
  BY <1>2
<1>4. ASSUME NEW y \in S, y < x PROVE FALSE
  <2>0. x \in Int /\ y \in Int /\ \A z \in S : z \in Int
    OBVIOUS
  <2>1. Under(y) \in SUBSET Under(x) /\ y \in Under(x) /\ y \notin Under(y)
    <3>1. \A z \in Under(y) : z \in Under(x)
      BY <1>4, <2>0
    <3>2. y \in Under(x)
      BY <1>4
    <3>3. y \notin Under(y)
      BY <2>0
    <3> HIDE DEF Under
    <3> QED BY <3>1, <3>2, <3>3
  <2>2. Under(y) # Under(x)
    BY <2>1
  <2> HIDE DEF Under
  <2>3. Cardinality(Under(y)) < Cardinality(Under(x))
    BY <1>1, <2>1, <2>2, FS_Subset
  <2>4. Cardinality(Under(x)) <= Cardinality(Under(y))
    BY <1>2, <1>3
  <2> QED BY <1>1, <2>3, <2>4
<1>5. \A y \in S : x <= y
  BY <1>4
<1> QED BY <1>5 DEF Min

LEMMA MinIsUnique ==
  ASSUME NEW S \in SUBSET Int, NEW m \in S, \A y \in S : m <= y
  PROVE  Min(S) = m
<1>1. Min(S) \in S /\ \A y \in S : Min(S) <= y
  BY DEF Min
<1>2. Min(S) <= m /\ m <= Min(S) /\ m \in Int /\ Min(S) \in Int
  BY <1>1
<1> QED BY <1>2

LEMMA PairMin ==
  ASSUME NEW a \in Int, NEW b \in Int
  PROVE  Min({a, b}) \in {a, b} /\ Min({a, b}) <= a /\ Min({a, b}) <= b
<1>1. CASE a <= b
  BY <1>1, MinIsUnique
<1>2. CASE b <= a
  BY <1>2, MinIsUnique
<1> QED BY <1>1, <1>2

\* A range of excursions around zero has its bounds.
LEMMA Excursions ==
  ASSUME NEW S, IsFiniteSet(S), NEW f \in [S -> Int]
  PROVE  /\ IsFiniteSet({0} \cup {f[d] : d \in S})
         /\ {0} \cup {f[d] : d \in S} \in SUBSET Int
<1>1. IsFiniteSet({f[d] : d \in S})
  <2>1. f \in Surjection(S, {f[d] : d \in S})
    BY DEF Surjection
  <2> QED BY <2>1, FS_Surjection
<1>2. IsFiniteSet({f[d] : d \in S} \cup {0})
  BY <1>1, FS_AddElement
<1>3. {f[d] : d \in S} \cup {0} = {0} \cup {f[d] : d \in S}
  OBVIOUS
<1> QED BY <1>2, <1>3

(***************************************************************************)
(* The inductive invariant                                                 *)
(***************************************************************************)

Statuses == {"none", "BLOCKED", "REVIEW_REQUIRED", "DRAFT", "EXPIRED"}

Sizing == [units : Nat, step : Nat, regime : MarketRegimes,
           heat : Nat \cup {Unknown}]

Plan == [status : Statuses, generated : Int, expires : Int, effective : Int \cup {Unknown},
         sizing : Sizing]

PlanTypeOK ==
  /\ time \in Nat
  /\ run \in [delivery : {"none", "MISSED", "MANUAL", "ON_TIME", "DELAYED"}, day : 0..LastDay]
  /\ plan \in Plan
  /\ bar \in [SessionDay -> [kind : {"open", "bar", "unreliable"}, low : Int, high : Int]]

\* Only an expired plan has an effective expiry, and it has passed.
ExpiryOK ==
  IF plan.status = "EXPIRED"
  THEN /\ plan.effective \in Int /\ plan.effective <= time /\ plan.effective <= plan.expires
       /\ plan.sizing = NoSizing
  ELSE plan.effective = Unknown

WindowOK == plan.status # "none" => run.delivery # "none"

\* What was observed through a session is what its bars still say.
SeenOK ==
  \/ seen = NothingSeen
  \/ /\ seen.through \in SessionDay /\ CloseAt(seen.through) <= time /\ plan.status # "none"
     /\ seen = [Observed(seen.through) EXCEPT !.ended = seen.ended]

PlanInv ==
  PlanTypeOK /\ ExpiryOK /\ WindowOK /\ PlanPrecedesItsSession /\ SizedWithinPolicy /\ SeenOK

(***************************************************************************)
(* Building                                                                *)
(***************************************************************************)

\* The session a lifetime ends with exists, hence the expiry is an instant.
LEMMA ExpiryExists ==
  ASSUME NEW t \in Nat, CanExpire(t)
  PROVE  ExpiryOf(t) \in Int
<1> DEFINE Until(n) == {e \in SessionDay : Day(t) < e /\ e <= n}
           Enough == {n \in Nat : Cardinality(Until(n)) >= Lifetime}
<1>0. /\ Day(t) \in Nat /\ SessionDay \subseteq Nat /\ LastDay \in Nat /\ Lifetime \in Nat \ {0}
      /\ \A e \in SessionDay : e \in Nat /\ e <= LastDay
  BY PlanAssumption DEF Day
<1>1. \A n \in Int : IsFiniteSet(Until(n)) /\ Cardinality(Until(n)) \in Nat
  <2>1. IsFiniteSet(SessionDay)
    <3>1. LastDay \in Int /\ SessionDay \in SUBSET (0..LastDay)
      BY PlanAssumption
    <3>2. IsFiniteSet(0..LastDay)
      BY <3>1, FS_Interval
    <3> QED BY <3>1, <3>2, FS_Subset
  <2> QED BY <2>1, FS_Subset, FS_CardinalityType
<1>2. LastDay \in Enough
  <2>1. Until(LastDay) = {d \in SessionDay : d > Day(t)}
    BY <1>0
  <2> QED BY <1>0, <2>1 DEF CanExpire
<1>3. PICK n \in Enough : \A m \in Enough : n <= m
  BY <1>2, LeastExists
<1>4. n \in Nat /\ Cardinality(Until(n)) >= Lifetime
  BY <1>3
<1>5. Cardinality(Until(n - 1)) < Lifetime
  <2>1. CASE n = 0
    <3>1. \A e \in Until(n - 1) : FALSE
      BY <1>0, <2>1
    <3>2. Until(n - 1) = {}
      BY <3>1
    <3> QED BY <1>0, <3>2, FS_EmptySet
  <2>2. CASE n # 0
    <3>1. n - 1 \in Nat /\ n - 1 \notin Enough
      BY <1>3, <1>4, <2>2
    <3> HIDE DEF Until
    <3> QED BY <1>0, <1>1, <3>1
  <2> QED BY <2>1, <2>2
<1>6. n \in Until(n) /\ Until(n) = Until(n - 1) \cup {n}
  <2>1. ASSUME n \notin Until(n) PROVE Until(n) = Until(n - 1)
    <3>1. \A e \in Until(n) : e \in Until(n - 1)
      <4>1. \A e \in Until(n) : e \in Nat /\ e <= n /\ e # n
        BY <1>0, <2>1
      <4>2. \A e \in Until(n) : e <= n - 1
        BY <1>4, <4>1
      <4> QED BY <4>2
    <3>2. \A e \in Until(n - 1) : e \in Until(n)
      BY <1>0, <1>4
    <3> HIDE DEF Until
    <3> QED BY <3>1, <3>2
  <2>2. n \in Until(n)
    <3> HIDE DEF Until
    <3> QED BY <1>0, <1>1, <1>4, <1>5, <2>1
  <2>3. \A e \in Until(n) : e \in Until(n - 1) \/ e = n
    <3>1. \A e \in Until(n) : e \in Nat /\ e <= n
      BY <1>0
    <3>2. \A e \in Until(n) : e <= n - 1 \/ e = n
      BY <1>4, <3>1
    <3> QED BY <3>2
  <2>4. \A e \in Until(n - 1) : e \in Until(n)
    BY <1>0, <1>4
  <2> HIDE DEF Until
  <2> QED BY <2>2, <2>3, <2>4
<1>7. n \in SessionDay /\ Cardinality(Until(n)) = Lifetime
  <2>1. Cardinality(Until(n)) <= Cardinality(Until(n - 1)) + 1
    <3> HIDE DEF Until
    <3>1. n - 1 \in Int /\ IsFiniteSet(Until(n - 1)) /\ Cardinality(Until(n - 1)) \in Nat
      BY <1>1, <1>4
    <3>2. Cardinality(Until(n - 1) \cup {n})
            = IF n \in Until(n - 1) THEN Cardinality(Until(n - 1)) ELSE Cardinality(Until(n - 1)) + 1
      BY <3>1, FS_AddElement
    <3> QED BY <1>6, <3>1, <3>2
  <2>2. n \in SessionDay
    BY <1>6
  <2> HIDE DEF Until
  <2>3. n - 1 \in Int
    BY <1>4
  <2> QED BY <1>0, <1>1, <1>4, <1>5, <2>1, <2>2, <2>3
<1>8. \E d \in SessionDay : Cardinality({e \in SessionDay : Day(t) < e /\ e <= d}) = Lifetime
  BY <1>7
<1>9. (CHOOSE d \in SessionDay :
         Cardinality({e \in SessionDay : Day(t) < e /\ e <= d}) = Lifetime) \in SessionDay
  BY <1>8
<1>10. PICK last \in SessionDay : ExpiryOf(t) = 6 * last + SlotOf(t)
  BY <1>9 DEF ExpiryOf
<1> QED BY <1>0, <1>10 DEF SlotOf

\* The window that permits a plan closes before the session of its date opens.
LEMMA WindowPrecedesSession ==
  ASSUME NEW t \in Nat, NEW day \in 0..LastDay, NEW invocation,
         Window(t, day, invocation).runs, Window(t, day, invocation).allows
  PROVE  day \in SessionDay /\ t < OpenOf(day)
<1>1. day \in Nat
  BY PlanAssumption
<1>2. day \in SessionDay /\ ~(t >= CloseAt(day)) /\ ~(SlotOf(t) >= 4)
  BY DEF Window, Decision
<1>3. t < 6 * day + 5 /\ t % 6 < 4
  BY <1>1, <1>2 DEF CloseAt, SlotOf
<1>4. t < 6 * day + 4
  BY <1>1, <1>3
<1> QED BY <1>2, <1>4 DEF OpenOf

Sized(i, status) == IF Sizable(i, status) /\ "sizing" \notin i.missing THEN SuggestedUnits(i) ELSE 0

LEMMA SuggestedUnitsAreBounded ==
  ASSUME NEW i \in PlanInput
  PROVE  /\ SuggestedUnits(i) \in Nat /\ Step(i) \in Nat \ {0}
         /\ SuggestedUnits(i) * PerUnit * 10000 <= Capital * RiskPct * Multiplier[i.regime] * Whole
         /\ SuggestedUnits(i) * ZoneHigh * 100 <= Capital * PositionPct * Whole
         /\ SuggestedUnits(i) % Step(i) = 0
<1>a. PICK risk : risk = Capital * RiskPct * Multiplier[i.regime] * Whole
  OBVIOUS
<1>b. PICK position : position = Capital * PositionPct * Whole
  OBVIOUS
<1>0. /\ PerUnit \in Nat \ {0} /\ ZoneHigh \in Nat \ {0} /\ Step(i) \in Nat \ {0}
      /\ risk \in Nat /\ position \in Nat
  <2>1. PerUnit \in Nat \ {0} /\ ZoneHigh \in Nat \ {0}
    BY PlanAssumption DEF PerUnit
  <2>2. Step(i) \in Nat \ {0}
    BY PlanAssumption DEF Step
  <2>3. i.regime \in MarketRegimes
    BY DEF PlanInput
  <2>4. /\ Multiplier[i.regime] \in Nat /\ Capital \in Nat /\ RiskPct \in Nat /\ Whole \in Nat
        /\ PositionPct \in Nat
    BY <2>3, PlanAssumption
  <2>5. risk \in Nat /\ position \in Nat
    BY <2>4, <1>a, <1>b
  <2> QED BY <2>1, <2>2, <2>5
<1>c. PICK unit : unit = PerUnit
  OBVIOUS
<1>1. 10000 * unit \in Nat \ {0} /\ 100 * ZoneHigh \in Nat \ {0}
  BY <1>0, <1>c
<1>2. /\ UnitsByRisk(i) = RoundedDown(risk \div (10000 * unit), Step(i))
      /\ UnitsByPosition(i) = RoundedDown(position \div (100 * ZoneHigh), Step(i))
  BY <1>a, <1>b, <1>c DEF UnitsByRisk, UnitsByPosition
<1>3. /\ UnitsByRisk(i) \in Nat /\ UnitsByRisk(i) <= risk \div (10000 * unit)
      /\ UnitsByRisk(i) % Step(i) = 0
  <2>1. risk \div (10000 * unit) \in Nat
    BY <1>0, <1>1, Division
  <2> QED BY <1>0, <1>2, <2>1, RoundedDownIsBelow
<1>4. /\ UnitsByPosition(i) \in Nat /\ UnitsByPosition(i) <= position \div (100 * ZoneHigh)
      /\ UnitsByPosition(i) % Step(i) = 0
  <2>1. position \div (100 * ZoneHigh) \in Nat
    BY <1>0, <1>1, Division
  <2> QED BY <1>0, <1>2, <2>1, RoundedDownIsBelow
<1>5. PICK u : u = SuggestedUnits(i)
  OBVIOUS
<1>6. /\ u \in {UnitsByRisk(i), UnitsByPosition(i)}
      /\ u <= UnitsByRisk(i) /\ u <= UnitsByPosition(i)
  BY <1>3, <1>4, <1>5, PairMin DEF SuggestedUnits
<1>7. u \in Nat /\ u % Step(i) = 0
  BY <1>3, <1>4, <1>6
<1>8. u <= risk \div (10000 * unit) /\ u <= position \div (100 * ZoneHigh)
  <2>1. risk \div (10000 * unit) \in Nat /\ position \div (100 * ZoneHigh) \in Nat
    BY <1>0, <1>1, Division
  <2> QED BY <1>3, <1>4, <1>6, <1>7, <2>1
<1>9. u * (10000 * unit) <= risk /\ u * (100 * ZoneHigh) <= position
  BY <1>0, <1>1, <1>7, <1>8, DivisionBounds
<1>10. u * unit * 10000 = u * (10000 * unit) /\ u * ZoneHigh * 100 = u * (100 * ZoneHigh)
  BY <1>0, <1>7, <1>c
<1> QED BY <1>0, <1>5, <1>7, <1>9, <1>10, <1>a, <1>b, <1>c

LEMMA HeatAddsUp ==
  ASSUME NEW limit \in Int, NEW heat \in Int, NEW capital \in Int, NEW whole \in Int, NEW cost \in Int,
         ~(cost > (limit - heat) * capital * whole)
  PROVE  heat * capital * whole + cost <= limit * capital * whole
BY SMTT(30)

\* A plan that is sized is sized within the policy.
LEMMA PlannedIsWithinPolicy ==
  ASSUME NEW i \in PlanInput, NEW review \in BOOLEAN, time \in Nat, CanExpire(time)
  PROVE  /\ Planned(i, review) \in Plan
         /\ Planned(i, review).status \in {"BLOCKED", "REVIEW_REQUIRED", "DRAFT"}
         /\ Planned(i, review).generated = time /\ Planned(i, review).effective = Unknown
         /\ Planned(i, review).sizing.units > 0 =>
              LET sizing == Planned(i, review).sizing
              IN /\ sizing.units * PerUnit * 10000 <= Capital * RiskPct * Multiplier[sizing.regime] * Whole
                 /\ sizing.units * ZoneHigh * 100 <= Capital * PositionPct * Whole
                 /\ sizing.units % sizing.step = 0
                 /\ IF sizing.heat = Unknown THEN Planned(i, review).status # "DRAFT"
                    ELSE sizing.heat * Capital * Whole + sizing.units * PerUnit * 100
                           <= MaxHeat * Capital * Whole
<1>a. PICK judged : judged = IF Status(i) = "DRAFT" /\ (review \/ i.quality = "DEGRADED")
                             THEN "REVIEW_REQUIRED" ELSE Status(i)
  OBVIOUS
<1>b. PICK units : units = Sized(i, judged)
  OBVIOUS
<1>c. PICK sized : sized = IF OverHeat(i, units) THEN 0 ELSE units
  OBVIOUS
<1>d. PICK sizing : sizing = IF sized = 0 THEN NoSizing
                             ELSE [units |-> sized, step |-> Step(i), regime |-> i.regime, heat |-> i.heat]
  OBVIOUS
<1>1. Planned(i, review) = [status |-> IF sized = 0 THEN "BLOCKED" ELSE judged, generated |-> time,
                            expires |-> ExpiryOf(time), effective |-> Unknown, sizing |-> sizing]
  BY <1>a, <1>b, <1>c, <1>d DEF Planned, Sized
<1>2. judged \in {"BLOCKED", "REVIEW_REQUIRED", "DRAFT"}
  BY <1>a DEF Status
<1>3. /\ i.regime \in MarketRegimes /\ i.heat \in Nat \cup {Unknown} /\ i.limit \in {MaxHeat, Unknown}
      /\ MaxHeat \in Nat /\ Capital \in Nat /\ Whole \in Nat /\ PerUnit \in Nat
  BY PlanAssumption DEF PlanInput, PerUnit
<1>4. units = 0 \/ (units = SuggestedUnits(i) /\ Sizable(i, judged))
  BY <1>b DEF Sized
<1>5. sized \in Nat /\ Step(i) \in Nat
  BY <1>4, <1>c, SuggestedUnitsAreBounded
<1>6. sizing \in Sizing
  <2>1. CASE sized = 0
    BY <1>d, <2>1, <1>3 DEF Sizing, NoSizing, MarketRegimes
  <2>2. CASE sized # 0
    BY <1>d, <2>2, <1>3, <1>5 DEF Sizing
  <2> QED BY <2>1, <2>2
<1>7. Planned(i, review) \in Plan
  BY <1>1, <1>2, <1>6, ExpiryExists DEF Plan, Statuses
<1>8. ASSUME sizing.units > 0
      PROVE  /\ sized # 0 /\ sized = SuggestedUnits(i) /\ ~OverHeat(i, sized) /\ Sizable(i, judged)
             /\ sizing.units = sized /\ sizing.step = Step(i) /\ sizing.regime = i.regime
             /\ sizing.heat = i.heat
  <2>1. sized # 0
    BY <1>8, <1>d DEF NoSizing
  <2> QED BY <2>1, <1>4, <1>c, <1>d
<1>9. ASSUME sizing.units > 0, i.heat = Unknown PROVE judged # "DRAFT"
  BY <1>9, <1>a DEF Status
<1>10. ASSUME sizing.units > 0, i.heat # Unknown
       PROVE  i.heat * Capital * Whole + sized * PerUnit * 100 <= MaxHeat * Capital * Whole
  <2>1. judged # "BLOCKED"
    BY <1>8, <1>10 DEF Sizable
  <2>2. i.limit = MaxHeat
    BY <1>3, <2>1, <1>a DEF Status
  <2>3. ~(sized * PerUnit * 100 > (MaxHeat - i.heat) * Capital * Whole)
    BY <1>3, <1>8, <1>10, <2>2, PlanAssumption DEF OverHeat
  <2> QED BY <1>3, <1>5, <1>10, <2>3, HeatAddsUp
<1> QED BY <1>1, <1>2, <1>7, <1>8, <1>9, <1>10, SuggestedUnitsAreBounded

(***************************************************************************)
(* Observing                                                               *)
(***************************************************************************)

LEMMA Days ==
  /\ SessionDay \subseteq Nat /\ IsFiniteSet(SessionDay)
  /\ \A d \in SessionDay : d \in Nat
  /\ \A S \in SUBSET SessionDay : IsFiniteSet(S) /\ S \in SUBSET Int
<1>1. LastDay \in Int /\ SessionDay \in SUBSET (0..LastDay)
  BY PlanAssumption
<1>2. IsFiniteSet(0..LastDay)
  BY <1>1, FS_Interval
<1>3. IsFiniteSet(SessionDay)
  BY <1>1, <1>2, FS_Subset
<1>4. \A d \in SessionDay : d \in Nat
  BY <1>1
<1>5. ASSUME NEW S \in SUBSET SessionDay PROVE IsFiniteSet(S) /\ S \in SUBSET Int
  BY <1>3, <1>4, <1>5, FS_Subset
<1> QED BY <1>3, <1>4, <1>5

\* First is the first day, and Unknown only when there is none.
LEMMA FirstIsFirst ==
  ASSUME NEW S \in SUBSET SessionDay
  PROVE  /\ First(S) = Unknown <=> S = {}
         /\ S # {} => First(S) \in S /\ \A d \in S : First(S) <= d
<1>1. CASE S = {}
  BY <1>1 DEF First
<1>2. CASE S # {}
  <2>1. First(S) \in S /\ \A d \in S : First(S) <= d
    BY <1>2, Days, FiniteMin DEF First
  <2> QED BY <1>2, <2>1, Days, PlanAssumption
<1> QED BY <1>1, <1>2

\* Days added after all the days of a set do not change its first.
LEMMA FirstIsKept ==
  ASSUME NEW T \in SUBSET SessionDay, NEW S \in SUBSET T, S # {},
         \A d \in T \ S, e \in S : e <= d
  PROVE  First(T) = First(S)
<1>1. First(S) \in S /\ (\A d \in S : First(S) <= d) /\ First(T) \in T /\ \A d \in T : First(T) <= d
  BY FirstIsFirst
<1>2. First(T) <= First(S) /\ First(S) <= First(T)
  BY <1>1
<1>3. First(S) \in Int /\ First(T) \in Int
  BY <1>1, Days
<1> QED BY <1>2, <1>3

LEMMA EligibleDays ==
  ASSUME NEW through
  PROVE  /\ Eligible(through) \in SUBSET SessionDay
         /\ Path(through) \in SUBSET Eligible(through)
         /\ Path(through) \in SUBSET SessionDay
         /\ EntryDay(through) = Unknown => Path(through) = {}
BY DEF Eligible, Path

\* A later observation's path extends an earlier one's.
LEMMA PathExtends ==
  ASSUME NEW s \in SessionDay, NEW t \in SessionDay, s <= t
  PROVE  /\ EntryDay(s) # Unknown => EntryDay(t) = EntryDay(s)
         /\ Path(s) \in SUBSET Path(t)
         /\ \A d \in Path(t) \ Path(s), e \in Path(s) : e <= d
<1>0. s \in Int /\ t \in Int /\ \A d \in SessionDay : d \in Int
  BY Days
<1>1. Eligible(s) \in SUBSET Eligible(t) /\ Eligible(t) \in SUBSET SessionDay
  <2>1. \A d \in SessionDay : d <= s => d <= t
    BY <1>0
  <2>2. \A d \in Eligible(s) : d \in Eligible(t)
    BY <2>1 DEF Eligible
  <2> QED BY <2>2, EligibleDays
<1>2. \A d \in Eligible(t) : d \in Eligible(s) <=> d <= s
  BY <1>0 DEF Eligible
<1> DEFINE A == {d \in Eligible(s) : TouchesEntry(d)}
           B == {d \in Eligible(t) : TouchesEntry(d)}
<1>3. B \in SUBSET SessionDay /\ A \in SUBSET B
  BY <1>1
<1>4. \A d \in B \ A, e \in A : e <= d
  <2> SUFFICES ASSUME NEW d \in B \ A, NEW e \in A PROVE e <= d
    OBVIOUS
  <2>1. d \in SessionDay /\ e \in SessionDay /\ ~(d <= s) /\ e <= s
    BY <1>1, <1>2
  <2> QED BY <1>0, <2>1
<1>5. EntryDay(s) = First(A) /\ EntryDay(t) = First(B)
  BY DEF EntryDay
<1> HIDE DEF A, B
<1>6. ASSUME EntryDay(s) # Unknown PROVE A # {} /\ EntryDay(t) = EntryDay(s)
  BY <1>3, <1>4, <1>5, <1>6, FirstIsFirst, FirstIsKept
<1>7. CASE EntryDay(s) = Unknown
  BY <1>7, EligibleDays
<1>8. CASE EntryDay(s) # Unknown
  <2>1. /\ Path(s) = {d \in Eligible(s) : d >= EntryDay(s)}
        /\ Path(t) = {d \in Eligible(t) : d >= EntryDay(s)}
    BY <1>6, <1>8 DEF Path
  <2>2. Path(s) \in SUBSET Path(t)
    BY <1>1, <2>1
  <2>3. ASSUME NEW d \in Path(t) \ Path(s), NEW e \in Path(s) PROVE e <= d
    <3>1. d \in SessionDay /\ e \in SessionDay /\ ~(d <= s) /\ e <= s
      BY <1>1, <1>2, <2>1
    <3> QED BY <1>0, <3>1
  <2> QED BY <1>6, <1>8, <2>2, <2>3
<1> QED BY <1>7, <1>8

BarsTyped == bar \in [SessionDay -> [kind : {"open", "bar", "unreliable"}, low : Int, high : Int]]

\* The best and the worst excursion of a path.
LEMMA ExcursionBounds ==
  ASSUME BarsTyped, NEW P \in SUBSET SessionDay
  PROVE  /\ {0} \cup {bar[d].high - ZoneHigh : d \in P} \in SUBSET Int
         /\ {0} \cup {bar[d].low - ZoneHigh : d \in P} \in SUBSET Int
         /\ IsFiniteSet({0} \cup {bar[d].high - ZoneHigh : d \in P})
         /\ IsFiniteSet({0} \cup {bar[d].low - ZoneHigh : d \in P})
<1>1. IsFiniteSet(P)
  BY Days
<1>2. PICK f : f = [d \in P |-> bar[d].high - ZoneHigh]
  OBVIOUS
<1>3. PICK g : g = [d \in P |-> bar[d].low - ZoneHigh]
  OBVIOUS
<1>4. f \in [P -> Int] /\ g \in [P -> Int]
  BY <1>2, <1>3, PlanAssumption DEF BarsTyped
<1>5. /\ {0} \cup {f[d] : d \in P} = {0} \cup {bar[d].high - ZoneHigh : d \in P}
      /\ {0} \cup {g[d] : d \in P} = {0} \cup {bar[d].low - ZoneHigh : d \in P}
  BY <1>2, <1>3
<1>6. /\ IsFiniteSet({0} \cup {f[d] : d \in P}) /\ {0} \cup {f[d] : d \in P} \in SUBSET Int
      /\ IsFiniteSet({0} \cup {g[d] : d \in P}) /\ {0} \cup {g[d] : d \in P} \in SUBSET Int
  BY <1>1, <1>4, Excursions
<1> QED BY <1>5, <1>6

LEMMA ExcursionsWiden ==
  ASSUME BarsTyped, NEW Q \in SUBSET SessionDay, NEW P \in SUBSET Q
  PROVE  /\ Max({0} \cup {bar[d].high - ZoneHigh : d \in Q}) >= Max({0} \cup {bar[d].high - ZoneHigh : d \in P})
         /\ Min({0} \cup {bar[d].low - ZoneHigh : d \in Q}) <= Min({0} \cup {bar[d].low - ZoneHigh : d \in P})
         /\ Max({0} \cup {bar[d].high - ZoneHigh : d \in P}) \in Int
         /\ Min({0} \cup {bar[d].low - ZoneHigh : d \in P}) \in Int
<1>1. PICK A : A = {0} \cup {bar[d].high - ZoneHigh : d \in P}
  OBVIOUS
<1>2. PICK B : B = {0} \cup {bar[d].high - ZoneHigh : d \in Q}
  OBVIOUS
<1>3. PICK C : C = {0} \cup {bar[d].low - ZoneHigh : d \in P}
  OBVIOUS
<1>4. PICK D : D = {0} \cup {bar[d].low - ZoneHigh : d \in Q}
  OBVIOUS
<1>5. A \subseteq B /\ C \subseteq D /\ A # {} /\ B # {} /\ C # {} /\ D # {}
  BY <1>1, <1>2, <1>3, <1>4
<1>6. /\ A \in SUBSET Int /\ IsFiniteSet(A) /\ C \in SUBSET Int /\ IsFiniteSet(C)
      /\ B \in SUBSET Int /\ IsFiniteSet(B) /\ D \in SUBSET Int /\ IsFiniteSet(D)
  BY <1>1, <1>2, <1>3, <1>4, ExcursionBounds
<1>7. /\ Max(A) \in A /\ \A y \in B : y <= Max(B)
      /\ Min(C) \in C /\ \A y \in D : Min(D) <= y
      /\ Max(B) \in B /\ Min(D) \in D
  BY <1>5, <1>6, FiniteMax, FiniteMin
<1>8. Max(A) <= Max(B) /\ Min(D) <= Min(C) /\ Max(A) \in Int /\ Max(B) \in Int /\ Min(C) \in Int /\ Min(D) \in Int
  BY <1>5, <1>6, <1>7
<1> QED BY <1>1, <1>2, <1>3, <1>4, <1>8

\* What one observation says is not taken back by a later one of the same bars.
LEMMA LaterObservationAgrees ==
  ASSUME BarsTyped, NEW s \in SessionDay, NEW t \in SessionDay, s <= t
  PROVE  /\ Observed(s).entry # Unknown => Observed(t).entry = Observed(s).entry
         /\ Observed(s).stop # Unknown => Observed(t).stop = Observed(s).stop
         /\ Observed(s).target # Unknown => Observed(t).target = Observed(s).target
         /\ Observed(t).mfe >= Observed(s).mfe /\ Observed(t).mae <= Observed(s).mae
         /\ Observed(s).ambiguous => Observed(t).ambiguous
<1>1. /\ EntryDay(s) # Unknown => EntryDay(t) = EntryDay(s)
      /\ Path(s) \in SUBSET Path(t) /\ Path(t) \in SUBSET SessionDay
      /\ \A d \in Path(t) \ Path(s), e \in Path(s) : e <= d
  BY PathExtends, EligibleDays
<1> DEFINE Clear(u) == {d \in Path(u) : ~Ambiguous(d)}
           Stops(u) == {d \in Clear(u) : HitsStop(d)}
           Targets(u) == {d \in Clear(u) : HitsTarget(d)}
<1>2. \A u \in {s, t} :
        /\ Observed(u).entry = EntryDay(u)
        /\ Observed(u).stop = First(Stops(u)) /\ Observed(u).target = First(Targets(u))
        /\ Observed(u).mfe = Max({0} \cup {bar[d].high - ZoneHigh : d \in Path(u)})
        /\ Observed(u).mae = Min({0} \cup {bar[d].low - ZoneHigh : d \in Path(u)})
        /\ Observed(u).ambiguous = (Path(u) # Clear(u))
  BY DEF Observed
<1>3. ASSUME Observed(s).stop # Unknown PROVE Observed(t).stop = Observed(s).stop
  <2>1. Stops(t) \in SUBSET SessionDay /\ Stops(s) \in SUBSET Stops(t)
    BY <1>1
  <2>2. \A d \in Stops(t) \ Stops(s), e \in Stops(s) : e <= d
    BY <1>1
  <2>3. First(Stops(s)) # Unknown
    BY <1>2, <1>3
  <2> HIDE DEF Stops
  <2>4. Stops(s) # {}
    BY <2>1, <2>3, FirstIsFirst
  <2>5. First(Stops(t)) = First(Stops(s))
    BY <2>1, <2>2, <2>4, FirstIsKept
  <2> QED BY <1>2, <2>5
<1>4. ASSUME Observed(s).target # Unknown PROVE Observed(t).target = Observed(s).target
  <2>1. Targets(t) \in SUBSET SessionDay /\ Targets(s) \in SUBSET Targets(t)
    BY <1>1
  <2>2. \A d \in Targets(t) \ Targets(s), e \in Targets(s) : e <= d
    BY <1>1
  <2>3. First(Targets(s)) # Unknown
    BY <1>2, <1>4
  <2> HIDE DEF Targets
  <2>4. Targets(s) # {}
    BY <2>1, <2>3, FirstIsFirst
  <2>5. First(Targets(t)) = First(Targets(s))
    BY <2>1, <2>2, <2>4, FirstIsKept
  <2> QED BY <1>2, <2>5
<1>5. Path(s) # Clear(s) => Path(t) # Clear(t)
  BY <1>1
<1>6. Observed(t).mfe >= Observed(s).mfe /\ Observed(t).mae <= Observed(s).mae
  <2> HIDE DEF Stops, Targets, Clear
  <2> QED BY <1>1, <1>2, ExcursionsWiden
<1>7. Observed(s).entry # Unknown => Observed(t).entry = Observed(s).entry
  BY <1>1, <1>2
<1>8. Observed(s).ambiguous => Observed(t).ambiguous
  <2> HIDE DEF Stops, Targets
  <2> QED BY <1>2, <1>5
<1> QED BY <1>3, <1>4, <1>6, <1>7, <1>8

\* Stop and target are confirmed only after an entry, and excursions are numbers.
LEMMA NothingBeforeEntry ==
  ASSUME BarsTyped, NEW through \in SessionDay
  PROVE  /\ Observed(through).stop # Unknown \/ Observed(through).target # Unknown =>
              Observed(through).entry # Unknown
         /\ Observed(through).mfe \in Int /\ Observed(through).mae \in Int
<1>1. ASSUME EntryDay(through) = Unknown
      PROVE Observed(through).stop = Unknown /\ Observed(through).target = Unknown
  <2>1. Path(through) = {}
    BY <1>1, EligibleDays
  <2>2. First({}) = Unknown
    BY DEF First
  <2>3. /\ {d \in {e \in Path(through) : ~Ambiguous(e)} : HitsStop(d)} = {}
        /\ {d \in {e \in Path(through) : ~Ambiguous(e)} : HitsTarget(d)} = {}
    BY <2>1
  <2> QED BY <2>2, <2>3 DEF Observed
<1>2. /\ Max({0} \cup {bar[d].high - ZoneHigh : d \in Path(through)}) \in Int
      /\ Min({0} \cup {bar[d].low - ZoneHigh : d \in Path(through)}) \in Int
  BY EligibleDays, ExcursionsWiden
<1>3. Observed(through).entry = EntryDay(through)
  BY DEF Observed
<1>4. Observed(through).mfe \in Int /\ Observed(through).mae \in Int
  BY <1>2 DEF Observed
<1> QED BY <1>1, <1>3, <1>4

(***************************************************************************)
(* The steps                                                               *)
(***************************************************************************)

\* An observation depends on the eligible sessions and their bars.
LEMMA ObservedIsKept ==
  ASSUME NEW through, Eligible(through)' = Eligible(through),
         \A d \in Eligible(through) : bar'[d] = bar[d]
  PROVE  Observed(through)' = [Observed(through) EXCEPT !.ended = Observed(through)'.ended]
<1>1. \A d \in Eligible(through) :
        /\ (TouchesEntry(d)' <=> TouchesEntry(d))
        /\ (HitsStop(d)' <=> HitsStop(d))
        /\ (HitsTarget(d)' <=> HitsTarget(d))
        /\ (Ambiguous(d)' <=> Ambiguous(d))
  BY DEF TouchesEntry, HitsStop, HitsTarget, Ambiguous
<1>2. EntryDay(through)' = EntryDay(through)
  <2>1. {d \in Eligible(through) : TouchesEntry(d)}' = {d \in Eligible(through) : TouchesEntry(d)}
    BY <1>1
  <2> QED BY <2>1 DEF EntryDay, First
<1>3. Path(through)' = Path(through)
  BY <1>2 DEF Path
<1>4. Path(through) \in SUBSET Eligible(through)
  BY EligibleDays
<1> DEFINE Clear == {d \in Path(through) : ~Ambiguous(d)}
<1>5. Clear' = Clear
  BY <1>1, <1>3, <1>4
<1>6. /\ {d \in Clear : HitsStop(d)}' = {d \in Clear : HitsStop(d)}
      /\ {d \in Clear : HitsTarget(d)}' = {d \in Clear : HitsTarget(d)}
  <2>1. Clear \in SUBSET Eligible(through)
    BY <1>4
  <2> HIDE DEF Clear
  <2> QED BY <1>1, <1>5, <2>1
<1>7. /\ {bar[d].high - ZoneHigh : d \in Path(through)}' = {bar[d].high - ZoneHigh : d \in Path(through)}
      /\ {bar[d].low - ZoneHigh : d \in Path(through)}' = {bar[d].low - ZoneHigh : d \in Path(through)}
  <2>1. \A d \in Path(through) : bar'[d] = bar[d]
    BY <1>4
  <2> QED BY <1>3, <2>1
<1>8. Observed(through) = [through |-> through, entry |-> EntryDay(through),
                      stop |-> First({d \in Clear : HitsStop(d)}), target |-> First({d \in Clear : HitsTarget(d)}),
                      mfe |-> Max({0} \cup {bar[d].high - ZoneHigh : d \in Path(through)}),
                      mae |-> Min({0} \cup {bar[d].low - ZoneHigh : d \in Path(through)}),
                      ambiguous |-> Path(through) # Clear, ended |-> Observed(through).ended]
  BY DEF Observed, First
<1>9. Observed(through)' = [through |-> through, entry |-> EntryDay(through)',
                      stop |-> First({d \in Clear : HitsStop(d)}'), target |-> First({d \in Clear : HitsTarget(d)}'),
                      mfe |-> Max({0} \cup {bar[d].high - ZoneHigh : d \in Path(through)}'),
                      mae |-> Min({0} \cup {bar[d].low - ZoneHigh : d \in Path(through)}'),
                      ambiguous |-> Path(through)' # Clear', ended |-> Observed(through)'.ended]
  BY DEF Observed, First
<1> HIDE DEF Clear
<1>10. \A x : [Observed(through) EXCEPT !.ended = x]
                      = [through |-> through, entry |-> EntryDay(through),
                      stop |-> First({d \in Clear : HitsStop(d)}), target |-> First({d \in Clear : HitsTarget(d)}),
                      mfe |-> Max({0} \cup {bar[d].high - ZoneHigh : d \in Path(through)}),
                      mae |-> Min({0} \cup {bar[d].low - ZoneHigh : d \in Path(through)}),
                      ambiguous |-> Path(through) # Clear, ended |-> x]
  BY <1>8
<1> QED BY <1>2, <1>3, <1>5, <1>6, <1>7, <1>9, <1>10

\* Hence a recorded observation stays what its bars say.
LEMMA SeenIsKept ==
  ASSUME SeenOK, seen' = seen, time <= time', time \in Nat, time' \in Nat,
         plan.status # "none" => plan'.status # "none",
         \A through \in SessionDay :
           CloseAt(through) <= time /\ plan.status # "none" =>
             /\ Eligible(through)' = Eligible(through)
             /\ \A d \in Eligible(through) : bar'[d] = bar[d]
  PROVE  SeenOK'
<1>1. CASE seen = NothingSeen
  BY <1>1 DEF SeenOK
<1>2. CASE /\ seen.through \in SessionDay /\ CloseAt(seen.through) <= time /\ plan.status # "none"
           /\ seen = [Observed(seen.through) EXCEPT !.ended = seen.ended]
  <2>a. PICK through \in SessionDay : through = seen.through
    BY <1>2
  <2>b. PICK o : o = Observed(through)
    OBVIOUS
  <2>1. Observed(through)' = [Observed(through) EXCEPT !.ended = Observed(through)'.ended]
    BY <1>2, <2>a, ObservedIsKept
  <2>2. seen = [o EXCEPT !.ended = seen.ended]
    BY <1>2, <2>a, <2>b
  <2>3. [Observed(through)' EXCEPT !.ended = seen.ended] = [o EXCEPT !.ended = seen.ended]
    <3>1. Observed(through)' = [o EXCEPT !.ended = Observed(through)'.ended]
      BY <2>1, <2>b
    <3>2. \A x, y : [[o EXCEPT !.ended = x] EXCEPT !.ended = y] = [o EXCEPT !.ended = y]
      BY <2>b DEF Observed
    <3> QED BY <3>1, <3>2
  <2>4. CloseAt(through) \in Int
    BY Days DEF CloseAt
  <2>5. seen'.through = through /\ CloseAt(through) <= time' /\ plan'.status # "none"
    BY <1>2, <2>a, <2>4
  <2>6. seen' = [Observed(seen.through)' EXCEPT !.ended = seen.ended]
    BY <2>a, <2>2, <2>3
  <2> QED BY <2>a, <2>5, <2>6 DEF SeenOK
<1> QED BY <1>1, <1>2 DEF SeenOK

LEMMA PlanInitInv == PlanInit => PlanInv
<1> SUFFICES ASSUME PlanInit PROVE PlanInv
  OBVIOUS
<1>1. PlanTypeOK
  <2>1. 6 * FirstDay \in Nat /\ 0 \in 0..LastDay
    BY PlanAssumption
  <2>2. NoSizing \in Sizing
    BY PlanAssumption DEF NoSizing, Sizing, MarketRegimes
  <2>3. NoPlan \in Plan
    BY <2>2 DEF NoPlan, Plan, Statuses
  <2> QED BY <2>1, <2>3 DEF PlanInit, PlanTypeOK, NoBar
<1>2. ExpiryOK /\ WindowOK /\ PlanPrecedesItsSession /\ SizedWithinPolicy /\ SeenOK
  BY DEF PlanInit, ExpiryOK, WindowOK, PlanPrecedesItsSession, SizedWithinPolicy, SeenOK, NoPlan, NoSizing
<1> QED BY <1>1, <1>2 DEF PlanInv

LEMMA InvokeKeepsInv ==
  ASSUME PlanInv, Invoke
  PROVE  PlanInv'
<1> USE DEF PlanInv
<1>1. run' \in [delivery : {"none", "MISSED", "MANUAL", "ON_TIME", "DELAYED"}, day : 0..LastDay]
  <2>1. PICK day \in 0..LastDay, invocation \in {"SCHEDULED", "MANUAL"} :
          run' = [delivery |-> Window(time, day, invocation).delivery, day |-> day]
    BY DEF Invoke
  <2>2. Window(time, day, invocation).delivery \in {"none", "MISSED", "MANUAL", "ON_TIME", "DELAYED"}
    BY DEF Window, Decision
  <2> QED BY <2>1, <2>2
<1>2. plan.status = "none" /\ UNCHANGED <<time, plan, bar, seen>>
  BY DEF Invoke, WindowOK
<1>3. PlanTypeOK' /\ ExpiryOK' /\ SizedWithinPolicy'
  BY <1>1, <1>2 DEF PlanTypeOK, ExpiryOK, SizedWithinPolicy
<1>4. WindowOK' /\ PlanPrecedesItsSession'
  BY <1>2 DEF WindowOK, PlanPrecedesItsSession
<1>5. SeenOK'
  BY <1>2 DEF SeenOK
<1> QED BY <1>3, <1>4, <1>5

LEMMA BuildPlanKeepsInv ==
  ASSUME PlanInv, BuildPlan
  PROVE  PlanInv'
<1> USE DEF PlanInv
<1>0. /\ plan.status = "none" /\ run.delivery # "none" /\ CanExpire(time) /\ time \in Nat
      /\ UNCHANGED <<time, run, bar, seen>>
  BY DEF BuildPlan, PlanTypeOK
<1>b. PICK invocation : invocation = IF run.delivery = "MANUAL" THEN "MANUAL" ELSE "SCHEDULED"
  OBVIOUS
<1>1. PICK i \in PlanInput :
        /\ Window(time, run.day, invocation).runs /\ Window(time, run.day, invocation).allows
        /\ plan' = Planned(i, Window(time, run.day, invocation).review)
  BY <1>b DEF BuildPlan
<1>a. PICK review \in BOOLEAN : review = Window(time, run.day, invocation).review
  BY DEF Window, Decision
<1>2. /\ plan' \in Plan /\ plan'.status \in {"BLOCKED", "REVIEW_REQUIRED", "DRAFT"}
      /\ plan'.generated = time /\ plan'.effective = Unknown
  BY <1>0, <1>1, <1>a, PlannedIsWithinPolicy
<1>3. SizedWithinPolicy'
  <2>1. plan' = Planned(i, review)
    BY <1>1, <1>a
  <2>2. plan'.sizing.units > 0 =>
              LET sizing == plan'.sizing
              IN /\ sizing.units * PerUnit * 10000 <= Capital * RiskPct * Multiplier[sizing.regime] * Whole
                 /\ sizing.units * ZoneHigh * 100 <= Capital * PositionPct * Whole
                 /\ sizing.units % sizing.step = 0
                 /\ IF sizing.heat = Unknown THEN plan'.status # "DRAFT"
                    ELSE sizing.heat * Capital * Whole + sizing.units * PerUnit * 100
                           <= MaxHeat * Capital * Whole
    BY <1>0, <2>1, PlannedIsWithinPolicy
  <2> QED BY <2>2 DEF SizedWithinPolicy
<1>4. PlanTypeOK' /\ ExpiryOK' /\ WindowOK'
  BY <1>0, <1>2 DEF PlanTypeOK, ExpiryOK, WindowOK
<1>5. PlanPrecedesItsSession'
  <2>1. run.day \in 0..LastDay
    BY DEF PlanTypeOK
  <2>2. run.day \in SessionDay /\ time < OpenOf(run.day)
    BY <1>0, <1>1, <2>1, WindowPrecedesSession
  <2> QED BY <1>0, <1>2, <2>2 DEF PlanPrecedesItsSession
<1>6. SeenOK'
  BY <1>0 DEF SeenOK
<1> QED BY <1>3, <1>4, <1>5, <1>6

\* A session that closed before the cutoff is eligible whatever day the cutoff is of.
LEMMA ClosedBeforeCutoff ==
  ASSUME NEW d \in Nat, NEW cutoff \in Int
  PROVE  d <= Day(cutoff) /\ CloseAt(d) <= cutoff <=> CloseAt(d) <= cutoff
BY DEF Day, CloseAt

\* An expiry leaves the cutoff of the closed sessions where it was.
LEMMA ExpiryKeepsEligible ==
  ASSUME PlanTypeOK, PlanTypeOK', plan'.generated = plan.generated,
         NEW through \in SessionDay, CloseAt(through) <= time,
         \A d \in SessionDay : CloseAt(d) <= time => (CloseAt(d) <= CutoffOf' <=> CloseAt(d) <= CutoffOf)
  PROVE  Eligible(through)' = Eligible(through)
<1>1. CutoffOf \in Int /\ CutoffOf' \in Int
  BY DEF PlanTypeOK, Plan, CutoffOf
<1>2. \A d \in SessionDay : d <= through => CloseAt(d) <= time
  <2>1. time \in Int
    BY DEF PlanTypeOK
  <2> QED BY <2>1, Days DEF CloseAt
<1>3. PICK a \in Int : a = CutoffOf
  BY <1>1
<1>4. PICK b \in Int : b = CutoffOf'
  BY <1>1
<1>5. \A d \in SessionDay : d <= through =>
        (d <= Day(a) /\ CloseAt(d) <= a <=> d <= Day(b) /\ CloseAt(d) <= b)
  BY <1>2, <1>3, <1>4, Days, ClosedBeforeCutoff
<1>6. Eligible(through) = {d \in SessionDay : /\ d <= through /\ d <= Day(a) /\ d >= Day(plan.generated)
                        /\ OpenOf(d) >= plan.generated /\ CloseAt(d) <= a}
  BY <1>3 DEF Eligible
<1>7. Eligible(through)' = {d \in SessionDay : /\ d <= through /\ d <= Day(b) /\ d >= Day(plan.generated)
                        /\ OpenOf(d) >= plan.generated /\ CloseAt(d) <= b}
  <2>1. Eligible(through)' = {d \in SessionDay : /\ d <= through /\ d <= Day(CutoffOf') /\ d >= Day(plan'.generated)
                        /\ OpenOf(d) >= plan'.generated /\ CloseAt(d) <= CutoffOf'}
    BY DEF Eligible, Day
  <2> QED BY <1>4, <2>1
<1> QED BY <1>5, <1>6, <1>7

\* The earliest instant ever recorded stays the expiry.
LEMMA ExpirePlanSets ==
  ASSUME PlanInv, ExpirePlan
  PROVE  /\ plan' \in Plan /\ plan'.status = "EXPIRED" /\ plan'.sizing = NoSizing
         /\ plan'.generated = plan.generated /\ plan'.expires = plan.expires
         /\ plan'.effective \in Int /\ plan'.effective <= time /\ plan'.effective <= plan.expires
         /\ plan.effective # Unknown => plan'.effective = plan.effective
         /\ plan.effective = Unknown => plan'.effective = Min({time, plan.expires})
<1>0. plan \in Plan /\ time \in Nat /\ plan.expires \in Int /\ plan.effective \in Int \cup {Unknown}
  BY DEF PlanInv, PlanTypeOK, Plan
<1>1. PICK ended : ended = Min({time, plan.expires} \cup ({plan.effective} \ {Unknown}))
  OBVIOUS
<1>2. plan' = [plan EXCEPT !.status = "EXPIRED", !.sizing = NoSizing, !.effective = ended]
  BY <1>1 DEF ExpirePlan
<1>a. ASSUME ended \in Int
      PROVE  /\ plan' \in Plan /\ plan'.status = "EXPIRED" /\ plan'.sizing = NoSizing
             /\ plan'.generated = plan.generated /\ plan'.expires = plan.expires
             /\ plan'.effective = ended
  <2>1. NoSizing \in Sizing
    BY PlanAssumption DEF NoSizing, Sizing, MarketRegimes
  <2>2. /\ plan'.status = "EXPIRED" /\ plan'.sizing = NoSizing
        /\ plan'.generated = plan.generated /\ plan'.expires = plan.expires
        /\ plan'.effective = ended
    BY <1>0, <1>2 DEF Plan
  <2> QED BY <1>0, <1>2, <1>a, <2>1, <2>2 DEF Plan, Statuses
<1>3. CASE plan.effective = Unknown
  <2>1. {time, plan.expires} \cup ({plan.effective} \ {Unknown}) = {time, plan.expires}
    BY <1>3
  <2>2. ended = Min({time, plan.expires})
    BY <1>1, <2>1
  <2>3. ended \in Int /\ ended <= time /\ ended <= plan.expires
    <3>1. PICK a \in Int, b \in Int : a = time /\ b = plan.expires
      BY <1>0
    <3>2. Min({a, b}) \in {a, b} /\ Min({a, b}) <= a /\ Min({a, b}) <= b
      BY PairMin
    <3>3. Min({a, b}) = ended
      BY <2>2, <3>1
    <3> QED BY <3>1, <3>2, <3>3
  <2> QED BY <1>3, <1>a, <2>2, <2>3
<1>4. CASE plan.effective # Unknown
  <2>1. plan.effective \in Int /\ plan.effective <= time /\ plan.effective <= plan.expires
    BY <1>0, <1>4 DEF PlanInv, ExpiryOK
  <2>2. ended = plan.effective
    <3>1. PICK S : S = {time, plan.expires} \cup ({plan.effective} \ {Unknown})
      OBVIOUS
    <3>2. S \in SUBSET Int /\ plan.effective \in S /\ \A y \in S : plan.effective <= y
      BY <1>0, <1>4, <2>1, <3>1
    <3> QED BY <1>1, <3>1, <3>2, MinIsUnique
  <2> QED BY <1>4, <1>a, <2>1, <2>2
<1> QED BY <1>3, <1>4

LEMMA ExpirePlanKeepsInv ==
  ASSUME PlanInv, ExpirePlan
  PROVE  PlanInv'
<1> USE DEF PlanInv
<1>0. plan.status # "none" /\ UNCHANGED <<time, run, bar, seen>> /\ time \in Nat
  BY DEF ExpirePlan, PlanTypeOK
<1>1. PlanTypeOK' /\ ExpiryOK' /\ WindowOK'
  BY <1>0, ExpirePlanSets DEF PlanTypeOK, ExpiryOK, WindowOK
<1>2. PlanPrecedesItsSession' /\ SizedWithinPolicy'
  BY <1>0, ExpirePlanSets DEF PlanPrecedesItsSession, SizedWithinPolicy, NoSizing
<1>3. ASSUME NEW d \in SessionDay, CloseAt(d) <= time
      PROVE CloseAt(d) <= CutoffOf' <=> CloseAt(d) <= CutoffOf
  <2>1. CASE plan.effective = Unknown
    <3>1. CutoffOf = plan.expires /\ CutoffOf' = Min({time, plan.expires})
      BY <2>1, ExpirePlanSets, PlanAssumption DEF CutoffOf
    <3>2. PICK c \in Int : c = CloseAt(d)
      BY Days DEF CloseAt
    <3>3. PICK a \in Int, b \in Int : a = time /\ b = plan.expires
      BY <1>0 DEF PlanTypeOK, Plan
    <3>4. PICK m : m = Min({a, b})
      OBVIOUS
    <3>5. m \in {a, b} /\ m <= a /\ m <= b
      BY <3>4, PairMin
    <3>6. c <= a /\ CutoffOf = b /\ CutoffOf' = m
      BY <1>3, <3>1, <3>2, <3>3, <3>4
    <3>7. c <= m <=> c <= b
      BY <3>5, <3>6
    <3> QED BY <3>2, <3>6, <3>7
  <2>2. CASE plan.effective # Unknown
    BY <2>2, ExpirePlanSets DEF CutoffOf
  <2> QED BY <2>1, <2>2
<1>4. SeenOK'
  <2>1. \A through \in SessionDay : CloseAt(through) <= time => Eligible(through)' = Eligible(through)
    BY <1>1, <1>3, ExpirePlanSets, ExpiryKeepsEligible
  <2> QED BY <1>0, <2>1, ExpirePlanSets, SeenIsKept
<1> QED BY <1>1, <1>2, <1>4

\* An observation is a function of the plan and the bars.
LEMMA ObservedIsSame ==
  ASSUME NEW through, UNCHANGED <<plan, bar>>
  PROVE  Observed(through)' = Observed(through)
<1>1. CutoffOf' = CutoffOf /\ Eligible(through)' = Eligible(through)
  BY DEF Eligible, CutoffOf
<1>2. \A d : /\ TouchesEntry(d)' <=> TouchesEntry(d)
             /\ Ambiguous(d)' <=> Ambiguous(d)
             /\ HitsStop(d)' <=> HitsStop(d)
             /\ HitsTarget(d)' <=> HitsTarget(d)
  BY DEF Ambiguous, TouchesEntry, HitsStop, HitsTarget
<1>3. EntryDay(through)' = EntryDay(through) /\ Path(through)' = Path(through)
  BY <1>1, <1>2 DEF EntryDay, Path
<1> QED BY <1>1, <1>2, <1>3 DEF Observed

LEMMA ObserveKeepsInv ==
  ASSUME PlanInv, Observe
  PROVE  PlanInv'
<1> USE DEF PlanInv
<1>1. PICK through \in SessionDay : CloseAt(through) <= time /\ seen' = Observed(through)
  BY DEF Observe
<1>2. plan.status # "none" /\ UNCHANGED <<time, run, plan, bar>>
  BY DEF Observe
<1>3. /\ PlanTypeOK' /\ ExpiryOK' /\ WindowOK'
      /\ PlanPrecedesItsSession' /\ SizedWithinPolicy'
  BY <1>2 DEF PlanTypeOK, ExpiryOK, WindowOK, PlanPrecedesItsSession, SizedWithinPolicy
<1>4. SeenOK'
  <2>1. seen'.through = through
    BY <1>1 DEF Observed
  <2>2. Observed(through) = [Observed(through) EXCEPT !.ended = Observed(through).ended]
    BY DEF Observed
  <2>3. Observed(through)' = Observed(through)
    BY <1>2, ObservedIsSame
  <2>4. seen' = [Observed(through)' EXCEPT !.ended = seen'.ended]
    BY <1>1, <2>2, <2>3
  <2> QED BY <1>1, <1>2, <2>1, <2>4 DEF SeenOK
<1> QED BY <1>3, <1>4

LEMMA PlanTickKeepsInv ==
  ASSUME PlanInv, PlanTick
  PROVE  PlanInv'
<1> USE DEF PlanInv
<1>0. time \in Nat /\ time' = time + 1 /\ UNCHANGED <<run, plan, seen>>
  BY DEF PlanTick, PlanTypeOK
<1>1. PICK day : day = Day(time')
  OBVIOUS
<1>2. \/ bar' = bar
      \/ /\ day \in SessionDay /\ time' = CloseAt(day)
         /\ \E b \in {r \in Bar : r.low <= r.high} \cup {Unreliable} : bar' = [bar EXCEPT ![day] = b]
  BY <1>1 DEF PlanTick
<1>3. bar' \in [SessionDay -> [kind : {"open", "bar", "unreliable"}, low : Int, high : Int]]
  <2>1. \A b \in {r \in Bar : r.low <= r.high} \cup {Unreliable} :
          b \in [kind : {"open", "bar", "unreliable"}, low : Int, high : Int]
    BY PlanAssumption DEF Bar, Unreliable, NoBar
  <2> QED BY <1>2, <2>1 DEF PlanTypeOK
<1>4. \A d \in SessionDay : CloseAt(d) <= time => bar'[d] = bar[d]
  <2>1. \A d \in SessionDay : CloseAt(d) <= time => CloseAt(d) # time'
    BY <1>0, Days DEF CloseAt
  <2> QED BY <1>2, <2>1 DEF PlanTypeOK
<1>5. PlanTypeOK' /\ WindowOK' /\ PlanPrecedesItsSession' /\ SizedWithinPolicy'
  BY <1>0, <1>3 DEF PlanTypeOK, WindowOK, PlanPrecedesItsSession, SizedWithinPolicy
<1>6. ExpiryOK'
  BY <1>0 DEF ExpiryOK
<1>7. SeenOK'
  <2>1. ASSUME NEW through \in SessionDay, CloseAt(through) <= time
        PROVE  /\ Eligible(through)' = Eligible(through)
               /\ \A d \in Eligible(through) : bar'[d] = bar[d]
    <3>1. Eligible(through)' = Eligible(through)
      BY <1>0 DEF Eligible, CutoffOf
    <3>2. \A d \in Eligible(through) : d \in SessionDay /\ d <= through
      BY DEF Eligible
    <3>3. \A d \in Eligible(through) : CloseAt(d) <= time
      <4>1. \A d \in SessionDay : d <= through => CloseAt(d) <= CloseAt(through)
        BY Days DEF CloseAt
      <4>2. \A d \in SessionDay : CloseAt(d) \in Int
        BY Days DEF CloseAt
      <4> QED BY <1>0, <2>1, <3>2, <4>1, <4>2
    <3> QED BY <1>4, <3>1, <3>2, <3>3
  <2> QED BY <1>0, <2>1, SeenIsKept
<1> QED BY <1>5, <1>6, <1>7

LEMMA StutterKeepsInv ==
  ASSUME PlanInv, UNCHANGED planVars
  PROVE  PlanInv'
<1>1. time' = time /\ run' = run /\ plan' = plan /\ bar' = bar /\ seen' = seen
  BY DEF planVars
<1>2. SeenOK'
  <2>1. \A through : Observed(through)' = Observed(through)
    BY <1>1, ObservedIsSame
  <2> QED BY <1>1, <2>1 DEF PlanInv, SeenOK
<1> QED BY <1>1, <1>2 DEF PlanInv, PlanTypeOK, ExpiryOK, WindowOK, PlanPrecedesItsSession, SizedWithinPolicy

(***************************************************************************)
(* The theorems                                                            *)
(***************************************************************************)

\* Along every behaviour of one plan (invoked, built, expired any number of
\* times and observed by later runs, over any calendar, policy and prices)
\* its window, its sizing, its expiry and its last observation stay
\* consistent (plans.py:277-542, observations.py:82-178).
THEOREM PlanInvariance == PlanSpec => []PlanInv
<1>1. PlanInv /\ [PlanNext]_planVars => PlanInv'
  BY InvokeKeepsInv, BuildPlanKeepsInv, ExpirePlanKeepsInv, ObserveKeepsInv, PlanTickKeepsInv,
     StutterKeepsInv DEF PlanNext
<1> QED BY PlanInitInv, <1>1, PTL DEF PlanSpec

\* No plan is generated at or after the open of its run's session, whatever
\* market date was asked for and however late the run gets to build it
\* (market_calendar.py:49-123, plans.py:303-317).
THEOREM PlanStaysBeforeItsSession == PlanSpec => []PlanPrecedesItsSession
<1>1. PlanInv => PlanPrecedesItsSession
  BY DEF PlanInv
<1> QED BY PlanInvariance, <1>1, PTL

\* Whatever the policy, the zone and the capital, an exposed size is within
\* the risk budget, the position cap and the heat limit (sizing.py:157-209,
\* plans.py:473-490).
THEOREM SizeStaysWithinPolicy == PlanSpec => []SizedWithinPolicy
<1>1. PlanInv => SizedWithinPolicy
  BY DEF PlanInv
<1> QED BY PlanInvariance, <1>1, PTL

\* No later assessment revives an expired plan, gives it a size again or
\* moves the instant it ended (plans.py:528-542).
THEOREM ExpiryStaysFinal == PlanSpec => ExpiryIsFinal
<1>1. ASSUME PlanInv, [PlanNext]_planVars, plan.status = "EXPIRED"
      PROVE  plan'.status = "EXPIRED" /\ plan'.effective = plan.effective /\ plan'.sizing = NoSizing
  <2>1. plan.effective # Unknown /\ plan.sizing = NoSizing
    BY <1>1, PlanAssumption DEF PlanInv, ExpiryOK
  <2>2. CASE ExpirePlan
    BY <1>1, <2>1, <2>2, ExpirePlanSets
  <2>3. CASE plan' = plan
    BY <1>1, <2>1, <2>3
  <2>4. ~BuildPlan
    BY <1>1 DEF BuildPlan
  <2> QED BY <1>1, <2>2, <2>3, <2>4 DEF PlanNext, planVars, Invoke, Observe, PlanTick
<1>2. PlanInv /\ [PlanNext]_planVars =>
        [plan.status = "EXPIRED" =>
           plan'.status = "EXPIRED" /\ plan'.effective = plan.effective /\ plan'.sizing = NoSizing]_planVars
  BY <1>1
<1> QED BY PlanInvariance, <1>2, PTL DEF PlanSpec, ExpiryIsFinal

Agrees ==
  seen.through >= 0 =>
    /\ \A event \in {"entry", "stop", "target"} :
         seen[event] # Unknown => seen'[event] = seen[event]
    /\ seen'.mfe >= seen.mfe /\ seen'.mae <= seen.mae
    /\ seen.ambiguous => seen'.ambiguous
    /\ seen'.stop # Unknown \/ seen'.target # Unknown => seen'.entry # Unknown

\* A later run takes back no entry, stop, target or ambiguity an earlier run
\* has observed, and narrows no excursion, even when the plan expires between
\* the two (observations.py:82-178, prior_research.py:60-180).
THEOREM ObservationStaysStable == PlanSpec => ObservationIsStable
<1>1. ASSUME PlanInv, [PlanNext]_planVars PROVE Agrees
  <2> SUFFICES ASSUME seen.through >= 0 PROVE Agrees
    BY DEF Agrees
  <2>0. BarsTyped
    BY <1>1 DEF PlanInv, PlanTypeOK, BarsTyped
  <2>1. PICK s \in SessionDay : s = seen.through /\ seen = [Observed(s) EXCEPT !.ended = seen.ended]
    BY <1>1 DEF PlanInv, SeenOK, NothingSeen
  <2>2. /\ seen.entry = Observed(s).entry /\ seen.stop = Observed(s).stop
        /\ seen.target = Observed(s).target /\ seen.mfe = Observed(s).mfe
        /\ seen.mae = Observed(s).mae /\ seen.ambiguous = Observed(s).ambiguous
    BY <2>1 DEF Observed
  <2>3. /\ Observed(s).stop # Unknown \/ Observed(s).target # Unknown => Observed(s).entry # Unknown
        /\ Observed(s).mfe \in Int /\ Observed(s).mae \in Int
    BY <2>0, <2>1, NothingBeforeEntry
  <2>4. CASE seen' = seen
    BY <2>2, <2>3, <2>4 DEF Agrees
  <2>5. CASE Observe
    <3>1. PICK t \in SessionDay : t >= seen.through /\ seen' = Observed(t)
      BY <2>5 DEF Observe
    <3>2. s <= t
      BY <2>1, <3>1, Days
    <3>3. /\ Observed(s).entry # Unknown => Observed(t).entry = Observed(s).entry
          /\ Observed(s).stop # Unknown => Observed(t).stop = Observed(s).stop
          /\ Observed(s).target # Unknown => Observed(t).target = Observed(s).target
          /\ Observed(t).mfe >= Observed(s).mfe /\ Observed(t).mae <= Observed(s).mae
          /\ Observed(s).ambiguous => Observed(t).ambiguous
      BY <2>0, <3>2, LaterObservationAgrees
    <3>4. Observed(t).stop # Unknown \/ Observed(t).target # Unknown => Observed(t).entry # Unknown
      BY <2>0, NothingBeforeEntry
    <3> QED BY <2>2, <3>1, <3>3, <3>4 DEF Agrees
  <2> QED BY <1>1, <2>4, <2>5 DEF PlanNext, planVars, Invoke, BuildPlan, ExpirePlan, PlanTick
<1>2. PlanInv /\ [PlanNext]_planVars => [Agrees]_planVars
  BY <1>1
<1>3. ObservationIsStable <=> [][Agrees]_planVars
  BY DEF ObservationIsStable, Agrees
<1> QED BY PlanInvariance, <1>2, <1>3, PTL DEF PlanSpec

=============================================================================
