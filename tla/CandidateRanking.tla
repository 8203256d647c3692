---- MODULE CandidateRanking ----
(***************************************************************************)
(* The ranking of the scored candidates of domain/scoring.py.  Candidates  *)
(* are numbered in the order that breaks ties (setup quality, relative     *)
(* strength, ..., symbol, id); a candidate keeps the points of its         *)
(* components and its penalties, and a ranking may start from an earlier   *)
(* ranking's output.                                                       *)
(***************************************************************************)
EXTENDS Integers, FiniteSets

CONSTANTS
    Candidate,               \* the numbers of the candidates
    SymbolOf,                \* each one's symbol
    Points,                  \* bound: the positive scores
    MarketRegime,            \* bound: the regimes candidates are ranked in
    WarningPenalty, ConcentrationPenalty,      \* 5 and 10 points
    Threshold,               \* the least score in each regime that plans
    PlanCap, HighlightCap

RankedSymbols == {SymbolOf[c] : c \in Candidate}

ASSUME RankingAssumption ==
    /\ Candidate \subseteq Nat /\ Points \subseteq Nat
    /\ DOMAIN Threshold \subseteq MarketRegime
    /\ {Threshold[r] : r \in DOMAIN Threshold} \subseteq Nat
    /\ {WarningPenalty, ConcentrationPenalty, PlanCap, HighlightCap} \subseteq Nat
    /\ HighlightCap <= PlanCap /\ 0 < HighlightCap

VARIABLES
    score,       \* the scored candidates
    ranking,     \* the output of the last rank_candidates
    market       \* the regime and the correlated pairs it was given

rankingVars == <<score, ranking, market>>

Max0(n) == IF n < 0 THEN 0 ELSE n
Total(s) == Max0(s.points - s.warning - s.concentration)

(* _sort_key: the higher total first, then the lower number.               *)
Before(s, a, b) == Total(s[a]) > Total(s[b]) \/ (Total(s[a]) = Total(s[b]) /\ a < b)
BestOf(s, cs) == CHOOSE c \in cs : \A d \in cs \ {c} : Before(s, c, d)

(* score_candidate; a candidate whose gates fail is never scored.          *)
Scored(points, warned) ==
    [points |-> points, warning |-> IF warned THEN WarningPenalty ELSE 0, concentration |-> 0,
     secondary |-> FALSE, selected |-> FALSE, highlighted |-> FALSE]

-----------------------------------------------------------------------------
(* Mutant: a prior ranking keeps its penalty.                              *)
WithStalePenalty(s) ==
    [c \in DOMAIN s |-> [s[c] EXCEPT !.secondary = FALSE, !.selected = FALSE,
                                     !.highlighted = FALSE]]

WithoutCorrelationPenalty(s) ==
    [c \in DOMAIN s |-> [s[c] EXCEPT !.concentration = 0, !.secondary = FALSE,
                                     !.selected = FALSE, !.highlighted = FALSE]]

(* _correlation_group_assignments: the listed symbols reached breadth      *)
(* first over correlated pairs; the group's primary is its best candidate  *)
(* before any penalty.                                                     *)
WithNeighbours(group, symbols, links) ==
    group \cup {y \in symbols : \E z \in group : {y, z} \in links}
Reached(x, symbols, links) ==
    LET within[n \in Nat] ==
          IF n = 0 THEN {x} ELSE WithNeighbours(within[n - 1], symbols, links)
    IN  within[Cardinality(symbols)]
Groups(s, links) ==
    LET symbols == {SymbolOf[c] : c \in DOMAIN s}
    IN  [c \in DOMAIN s |-> {d \in DOMAIN s : SymbolOf[d] \in Reached(SymbolOf[c], symbols, links)}]

Penalized(s, links) ==
    LET group == Groups(s, links)
    IN [c \in DOMAIN s |->
          IF c = BestOf(s, group[c]) THEN s[c]
          ELSE [s[c] EXCEPT !.concentration = ConcentrationPenalty, !.secondary = TRUE]]

(* Mutant: the score alone decides, a duplicate exposure is no reason.     *)
PlanEligibleByScore(s, regime) ==
    {c \in DOMAIN s : regime \in DOMAIN Threshold /\ Total(s[c]) >= Threshold[regime]}

PlanEligible(s, regime) ==
    {c \in DOMAIN s : /\ regime \in DOMAIN Threshold /\ Total(s[c]) >= Threshold[regime]
                      /\ ~s[c].secondary}

(* In the order after the penalties, the first of the eligible ones.       *)
AmongFirst(s, cs, n) == {c \in cs : Cardinality({d \in cs : Before(s, d, c)}) < n}

Ranked(s, links, regime) ==
    LET t == Penalized(WithoutCorrelationPenalty(s), links)
        chosen == AmongFirst(t, PlanEligible(t, regime), PlanCap)
        shown == AmongFirst(t, PlanEligible(t, regime), HighlightCap)
    IN [c \in DOMAIN t |-> [t[c] EXCEPT !.selected = c \in chosen, !.highlighted = c \in shown]]

NotRanked == [c \in {} |-> Scored(0, FALSE)]
Link == {{x, y} : x, y \in RankedSymbols} \ {{x} : x \in RankedSymbols}

RankingInit ==
    /\ score = NotRanked /\ ranking = NotRanked
    /\ market = [regime |-> CHOOSE r \in MarketRegime : TRUE, links |-> {}]

ScoreCandidate ==
    /\ ranking = NotRanked
    /\ \E c \in Candidate \ DOMAIN score, points \in Points, warned \in BOOLEAN :
         score' = [d \in DOMAIN score \cup {c} |->
                     IF d = c THEN Scored(points, warned) ELSE score[d]]
    /\ UNCHANGED <<ranking, market>>

(* rank_candidates on the scored candidates or on the last ranking.        *)
RankCandidates ==
    /\ DOMAIN score # {}
    /\ \E regime \in MarketRegime, links \in SUBSET Link :
         /\ ranking' = Ranked(IF ranking = NotRanked THEN score ELSE ranking, links, regime)
         /\ market' = [regime |-> regime, links |-> links]
    /\ UNCHANGED score

RankingNext == ScoreCandidate \/ RankCandidates
RankingSpec == RankingInit /\ [][RankingNext]_rankingVars

-----------------------------------------------------------------------------
(* What was ranked before leaves no trace: ranking an earlier ranking with *)
(* other correlations or another regime gives what the scored candidates   *)
(* alone would give (_without_correlation_penalty).                        *)
RankingForgetsTheLast ==
    ranking # NotRanked => ranking = Ranked(score, market.links, market.regime)

Chosen == {c \in DOMAIN ranking : ranking[c].selected}

(* One plan per exposure and none lost: no two selected candidates are     *)
(* connected by correlations, at most PlanCap are selected, and whoever    *)
(* reaches the threshold before the concentration penalty is either        *)
(* represented by a selected candidate of its group or gave way to PlanCap *)
(* selected candidates that score no less.                                 *)
OnePlanPerExposure ==
    LET group == Groups(score, market.links)
        worthy == {c \in DOMAIN ranking : /\ market.regime \in DOMAIN Threshold
                                          /\ Total(score[c]) >= Threshold[market.regime]}
    IN /\ Cardinality(Chosen) <= PlanCap
       /\ \A c, d \in Chosen : c # d => d \notin group[c]
       /\ \A c \in worthy :
            \/ group[c] \cap Chosen # {}
            \/ /\ Cardinality(Chosen) = PlanCap
               /\ \A d \in Chosen : Total(score[d]) >= Total(score[c])
====
