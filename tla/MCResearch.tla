------------------------------ MODULE MCResearch ------------------------------
(***************************************************************************)
(* The research of a run, checked together: five parts that share no       *)
(* variable, one of which moves in any behaviour.  "market" is the         *)
(* collection with its quality verdict, "events" the event evidence of one *)
(* symbol, "regime", "setups" and "ranking" the analysis.                  *)
(***************************************************************************)
EXTENDS DataQuality, EventEvidence, Regime, SetupDetection, CandidateRanking, TLC

VARIABLE part

\* Collection: two calendars, the other sources with one or two items each.
Order == <<"sec", "news", "fed", "bls", "ir">>
Calendars == [s \in {"fed", "bls"} |-> IF s = "fed" THEN "HIGH" ELSE "MEDIUM"]
Rows == [s \in {"sec", "news", "fed", "bls"} |-> IF s = "sec" THEN 2 ELSE 1]
Roles == {{"market-data", "market-calendar"},
          {"market-data", "market-calendar", "macro-calendar", "official-verification"}}

\* The requested symbols are interchangeable.
Interchangeable == Permutations(Symbol)

\* Regime: the shapes a symbol's history can have, two to six of each.
Snap(history, short, long, slope, return, realized) ==
    [history |-> history, short |-> short, long |-> long, slope |-> slope,
     return |-> return, dates |-> 0, realized |-> realized,
     atr |-> IF realized = 80 THEN 60 ELSE realized]
NoHistory == Snap(Absent, 0, 0, 0, 0, 0)
Up   == Snap(LongTrend, 1, 1, 1, 1, 0)
Dip  == Snap(LongTrend, -1, 1, -1, -1, 0)
Down == Snap(LongTrend, -1, -1, -1, -1, 0)
Flat == Snap(LongTrend, 0, 1, 0, 0, 0)
Aged(s, percentile) ==
    [s EXCEPT !.history = Distribution, !.realized = percentile, !.atr = percentile]
Shifted(s) == [s EXCEPT !.dates = 1]
ShapesOf ==
    [x \in RadarSymbol |->
        IF x = Spy THEN {NoHistory, Up, Aged(Down, 80), Aged(Flat, 61), Aged(Up, 60), Aged(Up, 80)}
        ELSE IF x = Qqq THEN {NoHistory, Up, Dip, Down}
        ELSE IF x = Lqd THEN {NoHistory, Flat}
        ELSE IF x \in {Hyg, "xlk"} THEN {NoHistory, Up, Down, Shifted(Up)}
        ELSE {NoHistory, Up, Down}]
Weights == [BROAD_TREND |-> 30, PARTICIPATION |-> 25, LEADERSHIP |-> 20,
            VOLATILITY_STRESS |-> 15, CREDIT_CROSS_ASSET |-> 10]

\* Ranking: the third and fourth candidate are of one symbol.
Symbols == <<"a", "b", "c", "c">>
Thresholds == [PERMISSIVE |-> 70]

ResearchInit ==
    /\ part \in {"market", "events", "regime", "setups", "ranking"}
    /\ QualityInit /\ EventInit /\ RegimeInit /\ SetupInit /\ RankingInit

\* The part that moves does; the variables of the others keep their values.
ResearchNext ==
    /\ UNCHANGED part
    /\ IF part = "market" THEN QualityNext ELSE UNCHANGED qualityVars
    /\ IF part = "events" THEN EventNext ELSE UNCHANGED eventVars
    /\ IF part = "regime" THEN RegimeNext ELSE UNCHANGED regimeVars
    /\ IF part = "setups" THEN SetupNext ELSE UNCHANGED setupVars
    /\ IF part = "ranking" THEN RankingNext ELSE UNCHANGED rankingVars

ResearchSpec ==
    ResearchInit /\ [][ResearchNext]_<<part, qualityVars, eventVars, regimeVars, setupVars,
                                      rankingVars>>
================================================================================
