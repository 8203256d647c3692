---- MODULE TradePlan ----
(***************************************************************************)
(* One conditional plan: the run window that permits it                    *)
(* (domain/market_calendar.py), build_trade_plan and expire_plan           *)
(* (domain/plans.py), its sizing (domain/sizing.py) and the observations   *)
(* later runs make of it (domain/observations.py, prior_research.py).      *)
(* A day has six slots: before 8:45, to 9:00, to 9:25, to the open at      *)
(* 9:30, strictly inside the session, and from its close on.  Quantities   *)
(* and prices are integers; rounding to 28 digits is left out.             *)
(***************************************************************************)
EXTENDS Integers, FiniteSets, FiniteSetsExt

CONSTANTS
    SessionDay,              \* the days the calendar calls sessions
    FirstDay, LastDay,       \* bound: the clock runs from the first to the end of the last
    Lifetime,                \* plan_lifetime_sessions
    ZoneLow, ZoneHigh,       \* the entry zone
    Stop, Target,            \* candidate_stop and the target scenarios
    Price,                   \* bound: the prices bars reach
    Capital, RiskPct, PositionPct,    \* the risk policy, in percent
    Multiplier,              \* regime_risk_multipliers, in percent
    Whole, Increment,        \* subunits in one unit; quantity_increment in subunits
    MaxHeat, Heat,           \* max_total_portfolio_heat_pct; reported heats
    PriceAge, StopAge,       \* the frozen freshness limits, in slots
    Unknown                  \* an optional value that is absent

MarketRegimes == {"PERMISSIVE", "NEUTRAL", "DEFENSIVE", "UNKNOWN"}

ASSUME PlanAssumption ==
    /\ LastDay \in Nat /\ SessionDay \subseteq 0..LastDay /\ FirstDay \in 0..LastDay
    /\ Lifetime \in Nat \ {0} /\ Price \subseteq Int /\ Target \subseteq Int
    /\ Stop \in Int /\ ZoneLow \in Int /\ ZoneHigh \in Nat \ {0}
    /\ Stop < ZoneLow /\ ZoneLow <= ZoneHigh /\ \A t \in Target : t > ZoneHigh
    /\ {Capital, RiskPct, PositionPct, Whole, MaxHeat} \cup Heat \subseteq Nat
    /\ Multiplier \in [MarketRegimes -> Nat]
    /\ Increment \in 1..Whole /\ Unknown \notin Int /\ Target # {} /\ Price # {}

VARIABLES
    time,       \* the clock
    run,        \* the invoked run and what its window decided
    plan,       \* the plan
    bar,        \* the completed bar of each session that closed
    seen        \* the last observation of the plan, or its gate

planVars == <<time, run, plan, bar, seen>>

Day(t) == t \div 6
SlotOf(t) == t % 6
OpenOf(d) == 6 * d + 4
CloseAt(d) == 6 * d + 5
Early == 0
Punctual == 1
Delayed == 2

(* resolve_run_window.  An instant of slot 4 is past 9:30 of its own day,  *)
(* whatever market date was asked for.                                     *)
Decision(runs, delivery, allows, review) ==
    [runs |-> runs, delivery |-> delivery, allows |-> allows, review |-> review]

(* Mutant: the close of the market date is not looked at.                  *)
ClockOnlyWindow(t, day, invocation) ==
    IF day \notin SessionDay \/ (SlotOf(t) = Early /\ invocation = "SCHEDULED")
    THEN Decision(FALSE, "none", FALSE, FALSE)
    ELSE IF t >= OpenOf(Day(t)) THEN Decision(TRUE, "MISSED", FALSE, FALSE)
    ELSE Decision(TRUE, "MANUAL", TRUE, FALSE)

Window(t, day, invocation) ==
    IF day \notin SessionDay \/ (SlotOf(t) = Early /\ invocation = "SCHEDULED")
    THEN Decision(FALSE, "none", FALSE, FALSE)
    ELSE IF t >= CloseAt(day) THEN Decision(FALSE, "MISSED", FALSE, FALSE)
    ELSE IF SlotOf(t) >= 4 THEN Decision(TRUE, "MISSED", FALSE, FALSE)
    ELSE IF invocation = "MANUAL" THEN Decision(TRUE, "MANUAL", TRUE, FALSE)
    ELSE IF SlotOf(t) = Punctual THEN Decision(TRUE, "ON_TIME", TRUE, FALSE)
    ELSE IF SlotOf(t) = Delayed THEN Decision(TRUE, "DELAYED", FALSE, FALSE)
    ELSE Decision(TRUE, "DELAYED", TRUE, TRUE)

(* _expiry_time: the same time of day, Lifetime sessions later.            *)
ExpiryOf(t) ==
    LET last == CHOOSE d \in SessionDay :
                  Cardinality({e \in SessionDay : Day(t) < e /\ e <= d}) = Lifetime
    IN 6 * last + SlotOf(t)
CanExpire(t) == Cardinality({d \in SessionDay : d > Day(t)}) >= Lifetime

NoBar == [kind |-> "open", low |-> 0, high |-> 0]
Unreliable == [NoBar EXCEPT !.kind = "unreliable"]
Bar == {[kind |-> "bar", low |-> l, high |-> h] : l \in Price, h \in Price}

NoSizing == [units |-> 0, step |-> Whole, regime |-> "UNKNOWN", heat |-> Unknown]
NoPlan == [status |-> "none", generated |-> 0, expires |-> 0, effective |-> Unknown,
           sizing |-> NoSizing]
NothingSeen == [through |-> -1, entry |-> Unknown, stop |-> Unknown, target |-> Unknown,
                mfe |-> 0, mae |-> 0, ambiguous |-> FALSE, ended |-> FALSE]

PlanInit ==
    /\ time = 6 * FirstDay /\ run = [delivery |-> "none", day |-> 0]
    /\ plan = NoPlan /\ bar = [d \in SessionDay |-> NoBar] /\ seen = NothingSeen

(* A run is invoked once, for any market date, and keeps its delivery.     *)
Invoke ==
    /\ run.delivery = "none"
    /\ \E day \in 0..LastDay, invocation \in {"SCHEDULED", "MANUAL"} :
         /\ Window(time, day, invocation).runs
         /\ run' = [delivery |-> Window(time, day, invocation).delivery, day |-> day]
    /\ UNCHANGED <<time, plan, bar, seen>>

-----------------------------------------------------------------------------
(* What a plan is built from, as far as the code tells it apart: whether a *)
(* candidate, event, gate or quality verdict blocks or warns, which        *)
(* capabilities are missing, and the inputs of the sizing.                 *)
PlanInput ==
    [blocks : BOOLEAN, warns : BOOLEAN, missing : SUBSET {"sizing", "other"},
     regime : MarketRegimes, quality : {"PASS", "DEGRADED", "FAIL"},
     heat : Heat \cup {Unknown}, limit : {MaxHeat, Unknown}, complete : BOOLEAN,
     fractional : BOOLEAN, priceAge : 0..(PriceAge + 1) \cup {Unknown},
     stopAge : {0, StopAge + 1}]

Status(i) ==
    IF i.blocks \/ "sizing" \in i.missing \/ i.limit = Unknown
       \/ i.regime \in {"DEFENSIVE", "UNKNOWN"}
    THEN "BLOCKED"
    ELSE IF i.warns \/ i.missing # {} \/ i.heat = Unknown THEN "REVIEW_REQUIRED" ELSE "DRAFT"

(* calculate_position_sizing: any reason against it makes it unavailable;  *)
(* otherwise the smaller of the two caps, each rounded down to a multiple  *)
(* of the increment.                                                       *)
Fresh(age, limit) == age # Unknown /\ age <= limit
PerUnit == ZoneHigh - Stop
RoundedDown(quantity, step) == (quantity \div step) * step
Step(i) == IF i.fractional THEN Increment ELSE Whole
UnitsByRisk(i) ==
    RoundedDown((Capital * RiskPct * Multiplier[i.regime] * Whole) \div (10000 * PerUnit), Step(i))
UnitsByPosition(i) == RoundedDown((Capital * PositionPct * Whole) \div (100 * ZoneHigh), Step(i))

(* Mutant: rounded to the nearest multiple instead of down.                *)
RoundedUnits(i) ==
    LET exact == (Capital * RiskPct * Multiplier[i.regime] * Whole) \div (10000 * PerUnit)
    IN Min({RoundedDown(exact + Step(i) \div 2, Step(i)), UnitsByPosition(i)})

SuggestedUnits(i) == Min({UnitsByRisk(i), UnitsByPosition(i)})

Sizable(i, status) ==
    status # "BLOCKED" /\ i.complete /\ Fresh(i.priceAge, PriceAge) /\ Fresh(i.stopAge, StopAge)

(* Heat and limits are percents of the capital; a quantity has subunits.   *)
OverHeat(i, units) ==
    /\ i.heat # Unknown /\ i.limit # Unknown
    /\ units * PerUnit * 100 > (i.limit - i.heat) * Capital * Whole

(* build_trade_plan: the draft's status, then sizing, whose absence or     *)
(* excess heat blocks the plan after it was judged.                        *)
Planned(i, review) ==
    LET judged == IF Status(i) = "DRAFT" /\ (review \/ i.quality = "DEGRADED")
                  THEN "REVIEW_REQUIRED" ELSE Status(i)
        units == IF Sizable(i, judged) /\ "sizing" \notin i.missing THEN SuggestedUnits(i) ELSE 0
        sized == IF OverHeat(i, units) THEN 0 ELSE units
    IN [status |-> IF sized = 0 THEN "BLOCKED" ELSE judged, generated |-> time,
        expires |-> ExpiryOf(time), effective |-> Unknown,
        sizing |-> IF sized = 0 THEN NoSizing
                   ELSE [units |-> sized, step |-> Step(i), regime |-> i.regime, heat |-> i.heat]]

BuildPlan ==
    /\ plan.status = "none" /\ run.delivery \notin {"none", "MISSED"} /\ CanExpire(time)
    /\ LET window == Window(time, run.day,
                            IF run.delivery = "MANUAL" THEN "MANUAL" ELSE "SCHEDULED")
       IN /\ window.runs /\ window.allows
          /\ \E i \in PlanInput : i.quality # "FAIL" /\ plan' = Planned(i, window.review)
    /\ UNCHANGED <<time, run, bar, seen>>

(* expire_plan: any reason, or the expiry itself; the effective expiry is  *)
(* the earliest instant ever recorded, and the sizing is withdrawn.        *)
(* Mutant: the effective expiry is the last assessment's.                  *)
ExpireLatest ==
    /\ plan.status # "none" /\ \E reason \in BOOLEAN : reason \/ time >= plan.expires
    /\ plan' = [plan EXCEPT !.status = "EXPIRED", !.sizing = NoSizing,
                            !.effective = Min({time, plan.expires})]
    /\ UNCHANGED <<time, run, bar, seen>>

ExpirePlan ==
    /\ plan.status # "none" /\ \E reason \in BOOLEAN : reason \/ time >= plan.expires
    /\ plan' = [plan EXCEPT !.status = "EXPIRED", !.sizing = NoSizing,
                            !.effective = Min({time, plan.expires} \cup ({plan.effective} \ {Unknown}))]
    /\ UNCHANGED <<time, run, bar, seen>>

-----------------------------------------------------------------------------
(* Completed bars and their observation.                                   *)
CutoffOf == IF plan.effective = Unknown THEN plan.expires ELSE plan.effective

(* Sessions wholly inside the plan's validity, up to the observed one.     *)
Eligible(through) ==
    {d \in SessionDay : /\ d <= through /\ d <= Day(CutoffOf) /\ d >= Day(plan.generated)
                        /\ OpenOf(d) >= plan.generated /\ CloseAt(d) <= CutoffOf}

IntradayExpiry(through) ==
    /\ through >= Day(CutoffOf) /\ Day(CutoffOf) \in SessionDay
    /\ OpenOf(Day(CutoffOf)) <= CutoffOf /\ CutoffOf < CloseAt(Day(CutoffOf))

TouchesEntry(d) == bar[d].low <= ZoneHigh /\ bar[d].high >= ZoneLow
HitsStop(d) == bar[d].low <= Stop
HitsTarget(d) == \E t \in Target : bar[d].high >= t

(* The path through the eligible bars: nothing before the first bar that   *)
(* touches the zone counts, and a bar that could be read in two orders     *)
(* confirms neither stop nor target.                                       *)
Ambiguous(d) == \/ TouchesEntry(d) /\ (HitsStop(d) \/ HitsTarget(d))
                \/ HitsStop(d) /\ HitsTarget(d)
First(days) == IF days = {} THEN Unknown ELSE Min(days)

(* Mutant: the entry is the latest bar that touches the zone.              *)
LatestEntry(through) ==
    LET touching == {d \in Eligible(through) : TouchesEntry(d)}
    IN IF touching = {} THEN Unknown ELSE Max(touching)

EntryDay(through) == First({d \in Eligible(through) : TouchesEntry(d)})

Path(through) ==
    IF EntryDay(through) = Unknown THEN {}
    ELSE {d \in Eligible(through) : d >= EntryDay(through)}

Observed(through) ==
    LET path == Path(through)
        clear == {d \in path : ~Ambiguous(d)}
    IN [through |-> through, entry |-> EntryDay(through),
        stop |-> First({d \in clear : HitsStop(d)}), target |-> First({d \in clear : HitsTarget(d)}),
        mfe |-> Max({0} \cup {bar[d].high - ZoneHigh : d \in path}),
        mae |-> Min({0} \cup {bar[d].low - ZoneHigh : d \in path}),
        ambiguous |-> path # clear, ended |-> through >= Day(CutoffOf)]

(* observe_prior_research: a later run observes the plan through the last  *)
(* completed session before it, if that session closed; otherwise, and     *)
(* whenever the coverage cannot be trusted, only a gate is disclosed.      *)
(* observe_prior_plan takes an expired plan too, up to its effective       *)
(* expiry; observe_prior_research passes it drafts and plans under review. *)
Observable(through) ==
    /\ ~IntradayExpiry(through) /\ Eligible(through) # {}
    /\ \A d \in Eligible(through) : bar[d].kind = "bar"

Observe ==
    /\ plan.status \in {"DRAFT", "REVIEW_REQUIRED", "EXPIRED"}
    /\ \E through \in SessionDay :
         /\ CloseAt(through) <= time /\ through >= seen.through /\ Observable(through)
         /\ seen' = Observed(through)
    /\ UNCHANGED <<time, run, plan, bar>>

(* Time passes; a session that closes has one bar, reliable or not, and a  *)
(* completed bar is not revised.  Bars outside its validity, and those of  *)
(* a blocked plan, concern nobody and are left out.                        *)
PlanTick ==
    /\ time < CloseAt(LastDay) /\ time' = time + 1
    /\ IF plan.status \notin {"none", "BLOCKED"} /\ time' <= CutoffOf /\ Day(time') \in SessionDay /\ time' = CloseAt(Day(time'))
       THEN \E b \in {r \in Bar : r.low <= r.high} \cup {Unreliable} :
              bar' = [bar EXCEPT ![Day(time')] = b]
       ELSE bar' = bar
    /\ UNCHANGED <<run, plan, seen>>

PlanNext == Invoke \/ BuildPlan \/ ExpirePlan \/ Observe \/ PlanTick

PlanSpec == PlanInit /\ [][PlanNext]_planVars

-----------------------------------------------------------------------------

\* An exposed size costs no more than the regime's risk budget and the
\* position cap allow, is a multiple of its increment, and keeps the
\* portfolio under its heat limit; with unknown heat the plan is not a draft
\* (sizing.py:157-209, plans.py:473-490).
SizedWithinPolicy ==
    plan.sizing.units > 0 =>
      /\ plan.sizing.units * PerUnit * 10000 <= Capital * RiskPct * Multiplier[plan.sizing.regime] * Whole
      /\ plan.sizing.units * ZoneHigh * 100 <= Capital * PositionPct * Whole
      /\ plan.sizing.units % plan.sizing.step = 0
      /\ IF plan.sizing.heat = Unknown THEN plan.status # "DRAFT"
         ELSE plan.sizing.heat * Capital * Whole + plan.sizing.units * PerUnit * 100 <= MaxHeat * Capital * Whole

\* A plan is generated before the session of its run's market date opens,
\* although the window is judged when the run is invoked and again when the
\* plan is built, and compares a time of day with a requested date
\* (market_calendar.py:49-123, plans.py:303-317).
PlanPrecedesItsSession ==
    plan.status # "none" => plan.generated < OpenOf(run.day) /\ run.day \in SessionDay

\* Expiry is final: nothing an assessment learns later revives the plan, its
\* sizing, or moves the instant it ended (plans.py:528-542).
ExpiryIsFinal ==
    [][plan.status = "EXPIRED" =>
         plan'.status = "EXPIRED" /\ plan'.effective = plan.effective /\ plan'.sizing = NoSizing]_planVars

\* What a run has observed of a plan, no later run takes back, even when the
\* plan expires in between: entry, stop and target keep their session, an
\* ambiguity stays, excursions only widen (observations.py:82-178).
ObservationIsStable ==
    [][seen.through >= 0 =>
         /\ \A event \in {"entry", "stop", "target"} :
              seen[event] # Unknown => seen'[event] = seen[event]
         /\ seen'.mfe >= seen.mfe /\ seen'.mae <= seen.mae
         /\ seen.ambiguous => seen'.ambiguous
         /\ seen'.stop # Unknown \/ seen'.target # Unknown => seen'.entry # Unknown]_planVars
====
