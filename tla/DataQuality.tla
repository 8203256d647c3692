---- MODULE DataQuality ----
(***************************************************************************)
(* The quality of a finished market collection (domain/quality.py,         *)
(* application/collection_quality.py, application/source_health.py): which *)
(* capabilities remain, for the run and for each symbol, after the sources *)
(* report their readiness, later than the collection read them.  Reason    *)
(* codes are left out: a capability is available or disabled.              *)
(***************************************************************************)
EXTENDS MarketData

CONSTANTS
    RoleSets,       \* the quality_source_roles a source policy may configure
    HealthReports   \* what a role's sources may report, see Health

VARIABLES quality   \* the DataQualityResult, or NoQuality

qualityVars == <<marketVars, quality>>

MandatoryRole == {"market-data", "market-calendar"}
Role == MandatoryRole \cup {"macro-calendar", "official-verification"}
Capability == {"summary", "regime", "metrics", "events", "setup", "plan", "sizing", "heat"}
EventCapability == {"events", "setup", "plan", "sizing", "heat"}

(* The reports of one role: nothing, one source that is ready or not, one  *)
(* that is not required, or two sources at once.                           *)
Health == {"absent", "ready", "unready", "optional", "twice"}

ASSUME QualityAssumption ==
    /\ HealthReports \subseteq Health /\ HealthReports # {}
    /\ \A roles \in RoleSets : MandatoryRole \subseteq roles /\ roles \subseteq Role

NoQuality == [status |-> "none", disabled |-> {}, local |-> [s \in Symbol |-> {}],
              listed |-> {}, plan |-> [s \in Symbol |-> "DRAFT"]]

QualityInit == MarketInit /\ quality = NoQuality

(* _dependencies: what a source of a role takes with it.                   *)
Dependencies(role) ==
    CASE role \in MandatoryRole -> Capability
      [] role = "macro-calendar" -> EventCapability
      [] role = "official-verification" -> {"plan"}

(* _risk_dependencies: no policy, sizing disabled, or heat unknown.        *)
RiskDependencies(risk) ==
    CASE risk = "complete" -> {} [] risk = "heat_unknown" -> {"heat"} [] OTHER -> {"sizing", "heat"}

Incomplete(roles, report) == {role \in roles : report[role] \notin {"ready", "unready"}}
Unready(roles, report) == {role \in roles : report[role] = "unready"}

(* Mutant: a refused price request is counted as the symbol's own failure. *)
GlobalButPrice == \E s \in Symbol : identity[s] = "refused" \/ bars[s].scope = "request"

(* The failures of one symbol that name no symbol and thus fail the run.   *)
GlobalFailure ==
    \E s \in Symbol : identity[s] = "refused" \/ bars[s].scope = "request" \/ price[s].scope = "request"

SourceFailed(s) == identity[s] = "missing" \/ bars[s].scope = "symbol"
PriceFailed(s) == price[s].scope = "symbol"
Listed == {s \in Symbol : SourceFailed(s) \/ PriceFailed(s)}

GloballyDisabled(roles, report, risk) ==
    LET broken == Incomplete(roles, report) \cup Unready(roles, report)
    IN RiskDependencies(risk) \cup (UNION {Dependencies(role) : role \in broken})
         \cup (IF GlobalFailure THEN Dependencies("market-data") ELSE {})
         \cup (IF "macro-calendar" \in roles THEN {} ELSE EventCapability)
         \cup (IF "official-verification" \in roles THEN {} ELSE {"plan"})

LocallyDisabled(s) ==
    (IF SourceFailed(s) THEN Dependencies("market-data") ELSE {})
       \cup (IF PriceFailed(s) THEN {"sizing"} ELSE {})

(* Mutant: the last failure decides.                                       *)
LastPlanStatus(s) ==
    IF PriceFailed(s) THEN "REVIEW_REQUIRED" ELSE IF SourceFailed(s) THEN "BLOCKED" ELSE "DRAFT"

(* _strongest_plan_status, over the failures in the order they are read.   *)
StrongestPlanStatus(s) ==
    IF SourceFailed(s) THEN "BLOCKED" ELSE IF PriceFailed(s) THEN "REVIEW_REQUIRED" ELSE "DRAFT"

HardFailure(roles, report) ==
    GlobalFailure \/ Incomplete(roles, report) # {} \/ Unready(roles, report) \cap MandatoryRole # {}

Evaluated(roles, report, risk) ==
    LET disabled == GloballyDisabled(roles, report, risk)
    IN [status |-> IF HardFailure(roles, report) THEN "FAIL"
                   ELSE IF disabled # {} \/ Listed # {} THEN "DEGRADED" ELSE "PASS",
        disabled |-> disabled, local |-> [s \in Symbol |-> LocallyDisabled(s)], listed |-> Listed,
        plan |-> [s \in Symbol |-> StrongestPlanStatus(s)]]

(* What an evaluation accepts: a mandatory role has a single provider, and  *)
(* a provider reported twice is an error that leaves no verdict.           *)
Reports(roles) ==
    {report \in [roles -> HealthReports] : \A role \in MandatoryRole : report[role] # "twice"}

(* evaluate_collected_market_data_quality, on what its caller was told when *)
(* it asked the sources again, maybe otherwise than during the collection. *)
(* A run's caller, read_configured_source_health, serves the mandatory     *)
(* roles and raises when the policy configures another.                    *)
EvaluateCollection ==
    /\ stage = "done" /\ quality = NoQuality
    /\ \E roles \in RoleSets, risk \in {"complete", "heat_unknown", "disabled"} :
         \E report \in Reports(roles) : quality' = Evaluated(roles, report, risk)
    /\ UNCHANGED marketVars

QualityNext == (MarketNext /\ UNCHANGED quality) \/ EvaluateCollection

QualitySpec == QualityInit /\ [][QualityNext]_qualityVars

Available(s) == Capability \ (quality.disabled \cup quality.local[s])
PlanStatusOf(s) == IF "plan" \notin Available(s) THEN "BLOCKED" ELSE quality.plan[s]

-----------------------------------------------------------------------------

\* The evaluation never contradicts itself, whatever combination of sources
\* fails: the result passes its own validator, so the quality stage of a run
\* cannot be stopped by a failure it should have recorded
\* (quality.py:67-118, 388-455).
QualityIsCoherent ==
    quality.status # "none" =>
      /\ quality.status = "PASS" => quality.disabled = {} /\ quality.listed = {}
      /\ quality.status = "FAIL" => quality.disabled # {}
      /\ quality.status = "DEGRADED" => quality.disabled # {} \/ quality.listed # {}
      /\ \A s \in quality.listed :
           quality.plan[s] = IF "plan" \in quality.local[s] THEN "BLOCKED"
                             ELSE IF quality.local[s] # {} THEN "REVIEW_REQUIRED" ELSE "DRAFT"

\* No hole of the collection is lost on the way from the provider's answers
\* to the capabilities a symbol keeps: setups are detected only on complete
\* bars of a known instrument, sizes only on a current price, and a result
\* without restriction means that every read of every symbol succeeded
\* (market_collection.py:236-262, collection_quality.py:31-55, quality.py:388-455).
NoHoleIsHidden ==
    quality.status # "none" =>
      \A s \in Symbol :
        /\ {"setup", "metrics", "plan"} \cap Available(s) # {} =>
             identity[s] = "known" /\ bars[s].kind = "bars"
        /\ "sizing" \in Available(s) => price[s].kind = "price"
        /\ PlanStatusOf(s) = "DRAFT" /\ quality.status = "PASS" =>
             \A t \in Symbol : bars[t].kind = "bars" /\ price[t].kind = "price"
====
