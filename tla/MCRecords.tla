------------------------------- MODULE MCRecords -------------------------------
(***************************************************************************)
(* What is made of the research and kept beside it, checked together: four *)
(* parts that share no variable, one of which moves in any behaviour.      *)
(* "plan" is one plan from its run to its observations, "brief" one brief  *)
(* from its draft to its review sample, "release" and "shadow" the release *)
(* evidence and the shadow scorecard.                                      *)
(***************************************************************************)
EXTENDS TradePlan, CitationSampling, ReleaseEvidence, ShadowScorecard

VARIABLE part

\* Plans: the sizing policy's percentages by regime.
Multipliers == [PERMISSIVE |-> 100, NEUTRAL |-> 50, DEFENSIVE |-> 0, UNKNOWN |-> 0]

\* Brief: two items about "a" of different tiers, one about "b", a metric of the
\* first item and a blocked plan; the forms hold, for every id, claims that are
\* right and claims that are wrong in one way. A frame may mention claim 2 before
\* it is written, or be wrong in its status and its order.
Number(a, p) == [amount |-> a, places |-> p]
Exactly(a) == {[is |-> "number", amounts |-> {a}]}
PriceOf(v) == [price |-> [value |-> v, unit |-> "usd"]]
ItemOf(instrument, about, tier, fields) ==
    [instrument |-> instrument, about |-> about, tier |-> tier, times |-> {1}, fields |-> fields,
     url |-> "url", coverage |-> "single_exchange"]
Frozen ==
    [run |-> "r", statuses |-> "degraded", snapshots |-> {"consolidated"},
     evidence |-> [e1 |-> ItemOf("a", Nothing, 1, PriceOf(Exactly(50))),
                   e2 |-> ItemOf("a", Nothing, 2,
                              PriceOf(Exactly(50) \union {[is |-> "text", amounts |-> {51}]})),
                   e3 |-> ItemOf(Nothing, "b", 2, [news |-> [value |-> {[is |-> "flag", amounts |-> {1}]},
                                                     unit |-> Nothing]])],
     metrics |-> [m1 |-> [name |-> "trend", value |-> Number(50, 1), unit |-> "score",
                          inputs |-> {"e1"}]],
     plans |-> [p1 |-> [status |-> "BLOCKED", counter |-> <<"e1">>, invalidation |-> "stop",
                        expires |-> 5, units |-> Nothing, bound |-> [risk |-> <<3, "price">>]]],
     gates |-> {}, candidates |-> {},
     exclusions |-> {[symbol |-> "b", reasons |-> {"missing"}]},
     disabled |-> [sizing |-> {"no portfolio"}]]

TextOf(says, words, numbers) ==
    [says |-> says, words |-> words, numbers |-> numbers, units |-> {"usd", "score"}, urls |-> {}]
ClaimOf(id, type) ==
    [id |-> id, type |-> type, subject |-> Nothing, field |-> Nothing, start |-> Nothing,
     end |-> Nothing, evidence |-> {}, metrics |-> {}, counter |-> <<>>, supports |-> {},
     value |-> Nothing, unit |-> Nothing, invalidation |-> Nothing, expires |-> Nothing,
     plan |-> Nothing, planStatus |-> Nothing, text |-> TextOf(<<"claim", id>>, {}, {})]
Priced(c, a) ==
    [c EXCEPT !.subject = "a", !.field = "price", !.value = Number(a, 0), !.unit = "usd",
              !.text.numbers = {Number(a, 0)}]
Fact(id) == [Priced(ClaimOf(id, "FACT"), 50) EXCEPT !.evidence = {"e1"}, !.start = 1]
Inference(id, supports) == [ClaimOf(id, "INFERENCE") EXCEPT !.supports = supports]
Calculated(value) ==
    [ClaimOf(2, "CALCULATION") EXCEPT !.metrics = {"m1"}, !.field = "trend", !.supports = {1},
                                      !.value = value, !.unit = "score"]
Planned1(c) == [c EXCEPT !.plan = "p1", !.planStatus = "BLOCKED", !.counter = <<"e1">>,
                        !.invalidation = "stop", !.expires = 5]
Exclusion == [ClaimOf(4, "FACT") EXCEPT !.subject = "b", !.field = "news", !.evidence = {"e3"},
                  !.text = TextOf(<<"b", "missing">>, {}, {})]
Forms ==
    {Fact(1), [Fact(1) EXCEPT !.evidence = {"e2"}], [Fact(1) EXCEPT !.counter = <<"e9">>],
     [Fact(1) EXCEPT !.text.words = {"imperative"}],
     Calculated(Number(50, 1)), Calculated(Number(50, 2)), Inference(2, {3}),
     Priced(Inference(2, {1}), 51), Priced(Inference(2, {1}), 50),
     Inference(3, {2}), Inference(3, {1, 4}), Planned1(Fact(3)),
     [Planned1(ClaimOf(3, "HYPOTHESIS")) EXCEPT !.supports = {1}],
     [Planned1(Fact(3)) EXCEPT !.text.words = {"actionable"}],
     Exclusion}
Narratives == {[plan |-> "p1", text |-> <<Fact(3).text>>, claims |-> <<3>>],
               [plan |-> "p1", text |-> <<Fact(1).text>>, claims |-> <<3>>]}

Outline(names, id) ==
    [i \in DOMAIN names |-> [section |-> names[i],
                             claims |-> IF names[i] = "dashboard" THEN id ELSE <<>>]]
Disclosure == [capability |-> "sizing", reasons |-> {"no portfolio"}]
FrameOf(statuses, detailed, mentioned) ==
    [run |-> "r", statuses |-> statuses, executive |-> Outline(ExecutiveSections, <<>>),
     detailed |-> Outline(detailed, mentioned), explanations |-> <<Disclosure>>]
Frames == {FrameOf("degraded", DetailedSections, <<>>), FrameOf("degraded", DetailedSections, <<2>>),
           FrameOf("pass", Reverse(DetailedSections), <<>>)}
Limits == [sizing |-> {"plans"}]
Executive == <<"posture", "warnings">>
Detailed == <<"dashboard", "plans", "exclusions", "quality">>
Types == <<"FACT", "CALCULATION", "INFERENCE", "HYPOTHESIS">>
Notices == {Fact(1).text}

\* Scorecard: one good run and review, one late and one unexplained, ...
RunOf(published, provider, inWindow, duration, replay) ==
    [report |-> published, provider |-> provider, inWindow |-> inWindow,
     duration |-> duration, replay |-> replay]
Runs == {RunOf("research", "normal", TRUE, 1, "matches"),
         RunOf("research", "normal", FALSE, 3, "differs"),
         RunOf("reduced", "normal", TRUE, 1, "matches"),
         RunOf("none", "unknown", FALSE, Unrecorded, "otherVersion")}
ReviewOf(executive, detailed, identified, usefulness, notes, citations) ==
    [executive |-> executive, detailed |-> detailed, identified |-> identified,
     score |-> usefulness, notes |-> notes, verdict |-> citations]
Reviews == {ReviewOf(1, 1, "right", 5, FALSE, "supported"),
            ReviewOf(3, 1, "right", 3, TRUE, "none"),
            ReviewOf(1, 3, "wrong", 3, FALSE, "none"),
            ReviewOf(Unrecorded, Unrecorded, "none", 5, FALSE, "supported")}
NoteOf(availability, identified, safety, failures) ==
    [availability |-> availability, identified |-> identified,
     safety |-> safety, failures |-> failures]
Notes == {NoteOf("ONLINE", "none", "clear", "recovered"),
          NoteOf("ONLINE", "right", "incident", "unreviewed"),
          NoteOf("EXCLUDED", "none", "clear", "recovered")}

RecordsInit ==
    /\ part \in {"plan", "brief", "release", "shadow"}
    /\ PlanInit /\ SamplingInit /\ ReleaseInit /\ EvidenceInit

\* The part that moves does; the variables of the others keep their values.
RecordsNext ==
    /\ UNCHANGED part
    /\ IF part = "plan" THEN PlanNext ELSE UNCHANGED planVars
    /\ IF part = "brief" THEN SamplingNext ELSE UNCHANGED samplingVars
    /\ IF part = "release" THEN ReleaseNext ELSE UNCHANGED releaseVars
    /\ IF part = "shadow" THEN EvidenceNext ELSE UNCHANGED evidence

RecordsSpec ==
    RecordsInit /\ [][RecordsNext]_<<part, planVars, samplingVars, releaseVars, evidence>>
================================================================================
