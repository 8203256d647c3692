---- MODULE SetupDetection ----
(***************************************************************************)
(* One symbol of the watchlist: the eligibility gates                      *)
(* (domain/eligibility.py), the gates before any setup, the two setups and *)
(* the levels calculated for them (domain/setups.py, with the averages and *)
(* ranges of domain/indicators.py).  Prices are integers and every         *)
(* comparison of quotients is multiplied out; a bar reaches Wick above and *)
(* below its close.                                                        *)
(***************************************************************************)
EXTENDS Integers, Sequences, FiniteSets, FiniteSetsExt

CONSTANTS
    SetupClose,                         \* bound: the closes of the symbol
    Wick,                               \* high - close and close - low
    ShortWindow, MiddleWindow, LongWindow,      \* moving_average_windows
    MiddleLag, LongLag,                 \* trend_slope_windows
    BreakoutLookback, AtrWindow,
    LowerBuffer, UpperBuffer,           \* entry_zone_atr_buffers, in quarters
    BreakoutLimit, PullbackLimit,       \* extension_limits, in percent
    SupportTolerance, RetracementTolerance,     \* in percent
    RewardToRisk                        \* minimum_reward_to_risk

Required == Max({LongWindow + LongLag, MiddleWindow + MiddleLag, AtrWindow + 1,
                 BreakoutLookback + 1, ShortWindow + 1})

ASSUME SetupAssumption ==
    /\ SetupClose \subseteq Nat
    /\ {ShortWindow, MiddleWindow, LongWindow, MiddleLag, LongLag, BreakoutLookback, AtrWindow,
        LowerBuffer, UpperBuffer, Wick, RewardToRisk} \subseteq Nat \ {0}
    /\ ShortWindow < MiddleWindow /\ MiddleWindow < LongWindow /\ LowerBuffer <= UpperBuffer
    /\ 0 < BreakoutLimit /\ BreakoutLimit <= PullbackLimit
    /\ SupportTolerance <= RetracementTolerance

VARIABLES
    closes,      \* the completed daily closes, the last Required of them
    outcome      \* what assess_setups last answered

setupVars == <<closes, outcome>>

(* The k-th latest close and the sum of the n closes that end lag earlier. *)
CloseAgo(c, k) == c[Len(c) - k]
SumOf(c, n, lag) == MapThenSumSet(LAMBDA k : CloseAgo(c, k), lag..(lag + n - 1))
Rising(c, n, lag) == SumOf(c, n, 0) > SumOf(c, n, lag)
Outperforms(c, n, percent) == CloseAgo(c, 0) * 100 > CloseAgo(c, n) * (100 + percent)
KeepsUpWith(c, n, percent) == CloseAgo(c, 0) * 100 >= CloseAgo(c, n) * (100 + percent)
Distance(a, b) == IF a > b THEN a - b ELSE b - a
TrueRange(c, k) == Max({2 * Wick, Distance(CloseAgo(c, k) + Wick, CloseAgo(c, k + 1)),
                        Distance(CloseAgo(c, k) - Wick, CloseAgo(c, k + 1))})
TrueRanges(c) == MapThenSumSet(LAMBDA k : TrueRange(c, k), 0..(AtrWindow - 1))

(* Prices are compared in units of 1 / Scale, in which the support and the *)
(* buffers of average true range are integers.                             *)
Scale == 4 * AtrWindow * MiddleWindow
Support(c) == 4 * AtrWindow * SumOf(c, MiddleWindow, 0)
Buffer(c, quarters) == quarters * TrueRanges(c) * MiddleWindow
Resistance(c) == Scale * (Max({CloseAgo(c, k) : k \in 1..BreakoutLookback}) + Wick)
LowestLow(c) == Min({CloseAgo(c, k) : k \in 0..(BreakoutLookback - 1)}) - Wick

-----------------------------------------------------------------------------
(* What reaches the assessment besides the closes: up to two of the things *)
(* that can stand against a setup, the returns of benchmark and sector,    *)
(* and how far the latest price has moved from the last close, in percent. *)
Unsupported == {"unlisted", "unsupported type", "leveraged", "halted", "not long"}
Misconfigured == {"inconsistent identity", "wrong role", "no proxies"}
Thin == {"below price", "illiquid"}
Disabled == {"metrics off", "event check off", "setups off", "plans off"}
Objection == Unsupported \cup Misconfigured \cup Thin \cup Disabled
               \cup {"no volume", "event gate", "event blocks", "quality failed",
                     "no comparison", "late evidence", "partial coverage", "other sessions",
                     "thin for a setup"}
SetupInput ==
    [against : {{}} \cup {{x, y} : x, y \in Objection}, benchmark : {0, 30}, sector : {0, 30},
     rise : {-10, 0, 10}]

When(condition, code) == IF condition THEN {code} ELSE {}

(* evaluate_instrument_eligibility: price and liquidity are only looked at *)
(* in a history of the required length, all else is collected.             *)
EligibilityGates(c, i) ==
    LET long == Len(c) >= Required
    IN When(~long, "PROVIDER_MISSING_SESSION")
         \cup When(i.against \cap Misconfigured # {}, "CONFIGURATION_INVALID")
         \cup When(i.against \cap Unsupported # {}, "UNSUPPORTED_INSTRUMENT")
         \cup When(long /\ i.against \cap Thin # {}, "UNSUPPORTED_INSTRUMENT")
         \cup When(long /\ "no volume" \in i.against, "PROVIDER_NO_DATA")

(* required_gate_failures; an event status only speaks when nothing else   *)
(* did.                                                                    *)
RequiredFailures(c, i) ==
    LET failed == EligibilityGates(c, i)
                    \cup When("event gate" \in i.against, "EVENT_GATE")
                    \cup When("quality failed" \in i.against, "DATA_QUALITY_FAILED")
                    \cup When(i.against \cap Disabled # {}, "REQUIRED_DATA_MISSING")
    IN IF failed = {} THEN When("event blocks" \in i.against, "EVENT_BLOCKED") ELSE failed

Excluded(codes) == [kind |-> "excluded", codes |-> codes]

-----------------------------------------------------------------------------
(* Mutant: a close at the resistance is enough, whatever its support.      *)
BreakoutAtResistance(c, i) ==
    /\ KeepsUpWith(c, ShortWindow, i.sector)
    /\ Scale * CloseAgo(c, 0) >= Resistance(c) - Buffer(c, LowerBuffer)

Breakout(c, i) ==
    /\ Scale * CloseAgo(c, 0) > Support(c) /\ Rising(c, MiddleWindow, MiddleLag)
    /\ KeepsUpWith(c, ShortWindow, i.sector)
    /\ Scale * CloseAgo(c, 0) >= Resistance(c) - Buffer(c, LowerBuffer)

Pullback(c) ==
    /\ Distance(Scale * CloseAgo(c, 0), Support(c)) * 100 <= SupportTolerance * Support(c)
    /\ Resistance(c) > Scale * CloseAgo(c, 0)
    /\ (Resistance(c) - Scale * CloseAgo(c, 0)) * 100 <= RetracementTolerance * Resistance(c)
    /\ LowestLow(c) * LongWindow >= SumOf(c, LongWindow, 0)

SetupKind(c, i) ==
    IF Breakout(c, i) THEN "BREAKOUT" ELSE IF Pullback(c) THEN "PULLBACK" ELSE "none"

(* The latest price, where there is one, stands rise percent over the      *)
(* last close.  A price under the average is an extension of zero, which   *)
(* no limit is below.                                                      *)
Extended(c, i, kind) ==
    Scale * CloseAgo(c, 0) * (100 + i.rise)
      > Support(c) * (100 + IF kind = "BREAKOUT" THEN BreakoutLimit ELSE PullbackLimit)

(* _levels.                                                                *)
Levels(c, kind) ==
    LET trigger == IF kind = "BREAKOUT" THEN Resistance(c)
                   ELSE Max({Support(c), Scale * (CloseAgo(c, 0) + Wick)})
        base == IF kind = "BREAKOUT" THEN Support(c)
                ELSE Min({Support(c), Scale * LowestLow(c)})
        upper == trigger + Buffer(c, UpperBuffer)
        stop == base - Buffer(c, LowerBuffer)
    IN [lower |-> trigger + Buffer(c, LowerBuffer), upper |-> upper, stop |-> stop,
        targets |-> {upper + m * (upper - stop) : m \in {RewardToRisk, RewardToRisk + 1}}]

(* PlanLevels refuses other levels with a ValueError.                      *)
LongLevels(l) == l.stop < l.lower /\ \A t \in l.targets : t > l.upper

AssessSetups(c, i) ==
    IF RequiredFailures(c, i) # {} THEN Excluded(RequiredFailures(c, i))
    ELSE IF "no comparison" \in i.against THEN Excluded({"REQUIRED_DATA_MISSING"})
    ELSE IF "late evidence" \in i.against THEN Excluded({"INVALID_EVIDENCE"})
    ELSE IF {"partial coverage", "other sessions"} \cap i.against # {}
         THEN Excluded({"REQUIRED_DATA_MISSING"})
    ELSE IF "thin for a setup" \in i.against THEN Excluded({"LIQUIDITY_OR_PRICE_FAILED"})
    ELSE IF CloseAgo(c, 0) * LongWindow <= SumOf(c, LongWindow, 0) \/ ~Rising(c, LongWindow, LongLag)
         THEN Excluded({"PRIMARY_TREND_FAILED"})
    ELSE IF ~Outperforms(c, MiddleWindow, i.benchmark) THEN Excluded({"RELATIVE_STRENGTH_FAILED"})
    ELSE IF SetupKind(c, i) = "none" THEN Excluded({"SETUP_NOT_CONFIRMED"})
    ELSE IF Extended(c, i, SetupKind(c, i)) THEN Excluded({"EXTENSION_LIMIT"})
    ELSE IF ~LongLevels(Levels(c, SetupKind(c, i))) THEN [kind |-> "raised"]
    ELSE [kind |-> SetupKind(c, i), levels |-> Levels(c, SetupKind(c, i))]

NotAssessed == [kind |-> "none"]
SetupInit == closes = <<>> /\ outcome = NotAssessed

(* A session completes; the next run's snapshot ends with it.              *)
CompleteSession ==
    /\ outcome = NotAssessed
    /\ \E x \in SetupClose :
         closes' = IF Len(closes) < Required THEN Append(closes, x) ELSE Append(Tail(closes), x)
    /\ UNCHANGED outcome

DetectSetups ==
    /\ outcome = NotAssessed
    /\ \E i \in SetupInput : outcome' = AssessSetups(closes, i)
    /\ UNCHANGED closes

SetupNext == CompleteSession \/ DetectSetups
SetupSpec == SetupInit /\ [][SetupNext]_setupVars

-----------------------------------------------------------------------------
(* A confirmed setup is not invalid as it is proposed: the price it was    *)
(* confirmed at is over its own stop.  The stop comes from the average and *)
(* the lows, the confirmation from the resistance and the tolerances.      *)
StopIsBelowTheMarket ==
    outcome.kind \in {"BREAKOUT", "PULLBACK"} => outcome.levels.stop < Scale * CloseAgo(closes, 0)

(* "Return eligible setups or explicit exclusions" (assess_setups): a      *)
(* breakout whose levels miss the order of a long plan is an exclusion.    *)
AssessmentConcludes == outcome.kind # "raised"
====
