---------------------------- MODULE ShadowScorecard ----------------------------
(***************************************************************************)
(* The shadow period's append-only evidence and the scorecard computed     *)
(* from it (evaluation/shadow_scorecard.py).                               *)
(*                                                                         *)
(* Runs are published, reviews of published runs and day observations are  *)
(* recorded, release receipts arrive; no record is ever changed or         *)
(* removed, a correction is one more observation.  Ten gates are computed  *)
(* anew from whatever is on disk.  Records of a kind are in the order of   *)
(* their timestamps: two records of the same microsecond, or a clock that  *)
(* steps back, are left out.                                               *)
(***************************************************************************)
EXTENDS Integers, Sequences, FiniteSets, FiniteSetsExt

CONSTANTS
    ShadowDay,       \* trading days of the period, as numbers
    MinimumDays,      \* valid days required (20)
    ExecutiveLimit, DetailedLimit,   \* review times in seconds (180, 900)
    DurationLimit,    \* seconds a normal run may take (900)
    RunKind,          \* what a run can have come to: a set of records
    ReviewKind,       \* what a review can say: a set of records
    Note,             \* what a day observation can say: a set of records
    MaxRecords        \* bound of the checker on the records of one period

Unrecorded == -1

VARIABLES
    runs,             \* stored runs in publication order
    feedback,         \* RecordedFeedback in recording order
    observations,     \* ShadowDayObservation in recording order
    receipts          \* the exact-source release receipts

evidence == <<runs, feedback, observations, receipts>>

Room == Len(runs) + Len(feedback) + Len(observations) < MaxRecords

EvidenceInit ==
    /\ runs = <<>>
    /\ feedback = <<>>
    /\ observations = <<>>
    /\ receipts = "missing"

--------------------------------------------------------------------------------
(* Recording.                                                                 *)

\* A run of the day ends, published or not, and is listed with its telemetry.
StoreRun ==
    /\ Room
    /\ \E day \in ShadowDay, kind \in RunKind :
           runs' = Append(runs, [day |-> day, kind |-> kind])
    /\ UNCHANGED <<feedback, observations, receipts>>

\* RunFeedbackService.record: any number of reviews of a published run; a verdict
\* on anything but the claims of its brief is refused.
RecordFeedback ==
    /\ Room
    /\ \E r \in DOMAIN runs, kind \in ReviewKind :
           /\ runs[r].kind.report # "none"
           /\ kind.verdict # "none" => runs[r].kind.report = "research"
           /\ feedback' = Append(feedback, [run |-> r, kind |-> kind])
    /\ UNCHANGED <<runs, observations, receipts>>

\* record_shadow_day_observation: a run or a review it refers to has to exist,
\* an observation it corrects has to be of the same day; 0 stands for no
\* reference, and a review is referred to by the run it is of.
RecordObservation ==
    /\ Room
    /\ \E day \in ShadowDay, note \in Note,
          r \in {0} \union DOMAIN runs, o \in {0} \union DOMAIN observations,
          of \in {0} \union {feedback[f].run : f \in DOMAIN feedback} :
           /\ o # 0 => observations[o].day = day
           /\ observations' = Append(observations,
                  [day |-> day, note |-> note, run |-> r, review |-> of, corrects |-> o])
    /\ UNCHANGED <<runs, feedback, receipts>>

\* The collector of release evidence settles (ReleaseEvidence).
CollectReceipts ==
    /\ receipts = "missing"
    /\ receipts' \in {"successful", "failed"}
    /\ UNCHANGED <<runs, feedback, observations>>

EvidenceNext == StoreRun \/ RecordFeedback \/ RecordObservation \/ CollectReceipts

EvidenceSpec == EvidenceInit /\ [][EvidenceNext]_evidence

--------------------------------------------------------------------------------
(* Loading (shadow_evidence_loader.py) and what the gates share.              *)

\* A reference to another day's run, or to a review of one, was accepted when it
\* was recorded, and fails every load from then on.
Loads ==
    \A o \in DOMAIN observations :
        \A r \in {observations[o].run, observations[o].review} \ {0} :
            runs[r].day = observations[o].day

Current == {o \in DOMAIN observations :
               ~\E c \in DOMAIN observations : observations[c].corrects = o}
CurrentOf(day) == {o \in Current : observations[o].day = day}
Verdict(day) == {observations[o].note.availability : o \in CurrentOf(day)}

EligibleDays == {day \in ShadowDay : Verdict(day) # {"EXCLUDED"}}
CompleteDays == \A day \in ShadowDay : Verdict(day) \in {{"ONLINE"}, {"EXCLUDED"}}

\* PERSONAL_SHADOW: some run demonstrably used the production providers.
Personal == \E r \in DOMAIN runs : runs[r].kind.provider = "normal"

\* The earliest research publication of the day by a normal run, 0 for none; a
\* reduced publication is one.
Publications(day) ==
    {r \in DOMAIN runs : /\ runs[r].day = day
                         /\ runs[r].kind.report \in {"research", "reduced"}
                         /\ runs[r].kind.provider = "normal"}
SelectedRun(day) == IF Publications(day) = {} THEN 0 ELSE Min(Publications(day))

ReportDays == {day \in EligibleDays : SelectedRun(day) # 0}

ReviewsOf(r) == {f \in DOMAIN feedback : feedback[f].run = r}
CompleteReviews(day) ==
    {f \in ReviewsOf(SelectedRun(day)) :
        LET k == feedback[f].kind
        IN  Unrecorded \notin {k.executive, k.detailed} /\ k.identified # "none"}
ReviewedDays == {day \in ReportDays : CompleteReviews(day) # {}}

LatestDailyFeedback == [day \in ReviewedDays |-> feedback[Max(CompleteReviews(day))].kind]

\* _select_daily_feedback: a day's first complete review stands for it.
DailyFeedback == [day \in ReviewedDays |-> feedback[Min(CompleteReviews(day))].kind]

\* The value of rank k of the measure over a finite set, smallest first.
OfRank(k, over, Measure(_)) ==
    Min({Measure(x) : x \in {y \in over :
            Cardinality({z \in over : Measure(z) <= Measure(y)}) >= k}})

\* Twice _median, so that it stays an integer.
TwiceMedian(over, Measure(_)) ==
    LET n == Cardinality(over)
    IN  OfRank((n + 1) \div 2, over, Measure) + OfRank(n \div 2 + 1, over, Measure)

Settled(failed, open) == IF failed THEN "FAIL" ELSE IF open THEN "PENDING" ELSE "PASS"

--------------------------------------------------------------------------------
(* The gates.                                                                 *)

ValidDays == {day \in ShadowDay : Verdict(day) = {"ONLINE"} /\ SelectedRun(day) # 0}

DayGate == Settled(FALSE, Cardinality(ValidDays) < MinimumDays \/ ~CompleteDays)

TimelyGate ==
    LET timely == {day \in ShadowDay : /\ SelectedRun(day) # 0
                                        /\ Verdict(day) # {"EXCLUDED"}
                                        /\ runs[SelectedRun(day)].kind.inWindow}
        open == EligibleDays = {} \/ ~CompleteDays
    IN  Settled(~open /\ 100 * Cardinality(timely) < 95 * Cardinality(EligibleDays), open)

\* Two gates are given the days with a report and what stands for each of them.
ReviewTimeGate(days, daily) ==
    LET Executive(day) == daily[day].executive
        Detailed(day)  == daily[day].detailed
    IN  IF days = {} \/ DOMAIN daily # days THEN "PENDING"
        ELSE Settled(\/ TwiceMedian(days, Executive) > 2 * ExecutiveLimit
                     \/ TwiceMedian(days, Detailed) > 2 * DetailedLimit, FALSE)

UsefulnessGate(days, daily) ==
    LET Score(day, total) == daily[day].score + total
    IN  IF days = {} \/ DOMAIN daily # days THEN "PENDING"
        ELSE LET low == FoldSet(Score, 0, days) < 4 * Cardinality(days)
                 explained == \E day \in days : daily[day].notes
             IN  Settled(low /\ ~explained, low)

\* Every identification of the day counts, from reviews and from current
\* observations: one mismatch fails, one is enough to be complete.
ExecutiveGate ==
    LET Identified(day) ==
            ({feedback[f].kind.identified : f \in ReviewsOf(SelectedRun(day))} \union
             {observations[o].note.identified :
                 o \in {p \in CurrentOf(day) : observations[p].run = SelectedRun(day)}})
            \ {"none"}
    IN  Settled(\E day \in ReportDays : "wrong" \in Identified(day),
                ReportDays = {} \/ \E day \in ReportDays : Identified(day) = {})

\* The 95th percentile of the normal runs that ended, by nearest rank.
DurationGate ==
    LET normal == {r \in DOMAIN runs : runs[r].kind.provider = "normal"}
        Duration(r) == runs[r].kind.duration
        n == Cardinality(normal)
        open == \/ normal = {}
                \/ \E r \in DOMAIN runs : runs[r].kind.provider = "unknown"
                \/ \E r \in normal : Duration(r) = Unrecorded
    IN  IF open THEN "PENDING"
        ELSE Settled(OfRank((95 * n + 99) \div 100, normal, Duration) > DurationLimit, FALSE)

\* The sampled claims of every brief need a supporting verdict, from any review,
\* and no adverse one. A reduced publication has no claims to sample and needs
\* none; an operational one leaves the gate open.
CitationGate ==
    LET published == {r \in DOMAIN runs : runs[r].kind.report # "none"}
        Verdicts(r) == {feedback[f].kind.verdict : f \in ReviewsOf(r)}
        sampled == {r \in published : runs[r].kind.report = "research"}
    IN  Settled(\E r \in sampled : "adverse" \in Verdicts(r),
                \/ published = {}
                \/ \E r \in published : runs[r].kind.report = "operational"
                \/ \E r \in sampled : "supported" \notin Verdicts(r))

SafetyGate ==
    LET Safety(o) == observations[o].note.safety
    IN  Settled((\E o \in Current : Safety(o) = "incident") \/ receipts = "failed",
                \/ EligibleDays = {}
                \/ receipts = "missing"
                \/ \E day \in EligibleDays :
                       CurrentOf(day) = {} \/ \E o \in CurrentOf(day) : Safety(o) = "unreviewed")

FailureOperationsGate ==
    LET Failures(o) == observations[o].note.failures
    IN  Settled(\E o \in Current : Failures(o) = "unrecovered",
                \/ EligibleDays = {}
                \/ \E day \in EligibleDays :
                       CurrentOf(day) = {} \/ \E o \in CurrentOf(day) : Failures(o) = "unreviewed")

CorrectnessGate ==
    LET replayed == {r \in DOMAIN runs : /\ runs[r].kind.report # "none"
                                         /\ runs[r].kind.replay # "otherVersion"}
    IN  Settled(receipts = "failed" \/ \E r \in replayed : runs[r].kind.replay = "differs",
                receipts = "missing" \/ replayed = {})

Gates == [days |-> DayGate, safety |-> SafetyGate, correctness |-> CorrectnessGate,
          evidence |-> CitationGate, timely |-> TimelyGate, duration |-> DurationGate,
          failureOperations |-> FailureOperationsGate, executive |-> ExecutiveGate,
          reviewTime |-> ReviewTimeGate(ReportDays, DailyFeedback),
          usefulness |-> UsefulnessGate(ReportDays, DailyFeedback)]

GraduationReady ==
    /\ Loads
    /\ Personal
    /\ Cardinality(ValidDays) >= MinimumDays
    /\ \A g \in DOMAIN Gates : Gates[g] = "PASS"

--------------------------------------------------------------------------------
\* A day that has been reviewed completely cannot be reviewed again into a
\* better scorecard: whatever a later review of its report says, no gate comes to
\* pass but the one that counts citations supported (_select_daily_feedback's
\* earliest review, the executive gate's every review). So graduation is reached
\* by such a review only where citation evidence was all that was missing.
LaterReviewsCannotRescue ==
    [][ \A day \in ReviewedDays :
            (Len(feedback') > Len(feedback) /\ feedback'[Len(feedback')].run = SelectedRun(day))
            => /\ \A g \in DOMAIN Gates \ {"evidence"} : Gates'[g] = "PASS" => Gates[g] = "PASS"
               /\ (GraduationReady' /\ ~GraduationReady) => Gates.evidence # "PASS" ]_evidence

================================================================================
