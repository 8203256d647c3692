--------------------------- MODULE RunOutcomeProofs ---------------------------
(***************************************************************************)
(* What the attempts of a run and its publication say, for all processes,  *)
(* drafts and collections: the second layer of the inductive invariant of  *)
(* RunLifecycle, on top of that of RunEvidenceProofs.                      *)
(*                                                                         *)
(* A host decides on the attempts it has loaded.  checkpoint_if_current    *)
(* makes what it decided true of the checkpoint it appends, and after the  *)
(* final checkpoint nothing is appended, so that it is still true of the   *)
(* record when the bundle is published.                                    *)
(***************************************************************************)
EXTENDS RunEvidenceProofs

(***************************************************************************)
(* The final checkpoint                                                    *)
(***************************************************************************)

Final == cutoff # None /\ Len(log) > 0 /\ Latest.stage = "PUBLISHED"

\* _checkpoint_unlocked admits nothing after the final checkpoint of a run whose
\* evidence is frozen.
LEMMA FinalAcceptsNothing ==
  ASSUME Final, NEW e
  PROVE  ~Accepts(e)
<1>1. ~Freeze(e)
  BY DEF Final, Freeze
<1>2. ~QualityEvaluation(e)
  BY DEF Final, QualityEvaluation
<1>3. ~OperationalPublication(e)
  BY DEF Final, OperationalPublication, PreSynthesis
<1>4. ~PreparationFailure(e)
  BY DEF Final, PreparationFailure
<1>5. ~PacketWork(e)
  BY DEF Final, PacketWork, Synthesis, Validation, ValidatedPublication, ReducedPublication
<1>6. QED
  BY <1>1, <1>2, <1>3, <1>4, <1>5 DEF Final, Accepts

\* Hence no append leaves the log changed.
LEMMA FinalBindsNothing ==
  ASSUME Final, NEW p, NEW admitted, NEW e, NEW step, Bind(p, admitted, e, step)
  PROVE  log' = log
BY FinalAcceptsNothing DEF Bind

\* A preparer's steps before the packet.
LEMMA FinalStopsCollecting ==
  ASSUME Final, NEW p,
         \/ Prepare(p) \/ Allocate(p) \/ FreezeConfiguration(p) \/ Dispatch(p)
         \/ SelectPrior(p) \/ StagePrior(p) \/ BindPrior(p)
         \/ Collect(p) \/ Fetch(p) \/ BindCollection(p) \/ FreezeEvidence(p) \/ SealFreeze(p)
         \/ EvaluateQuality(p) \/ StageQuality(p) \/ BindQuality(p)
  PROVE  log' = log
<1>1. CASE Prepare(p) \/ Allocate(p) \/ Dispatch(p) \/ SelectPrior(p) \/ Collect(p)
             \/ FreezeEvidence(p) \/ EvaluateQuality(p)
  BY <1>1 DEF Prepare, Allocate, Dispatch, SelectPrior, Collect, FreezeEvidence,
              EvaluateQuality, recordVars
<1>2. CASE StagePrior(p) \/ Fetch(p) \/ StageQuality(p)
  BY <1>2 DEF StagePrior, Fetch, StageQuality, Stage
<1>3. CASE FreezeConfiguration(p)
  BY <1>3, FinalBindsNothing DEF FreezeConfiguration
<1>4. CASE BindPrior(p)
  BY <1>4, FinalBindsNothing DEF BindPrior
<1>5. CASE BindCollection(p)
  BY <1>5, FinalBindsNothing DEF BindCollection
<1>6. CASE SealFreeze(p)
  BY <1>6, FinalAcceptsNothing DEF SealFreeze
<1>7. CASE BindQuality(p)
  BY <1>7, FinalBindsNothing DEF BindQuality
<1>8. QED
  BY <1>1, <1>2, <1>3, <1>4, <1>5, <1>6, <1>7

\* Its steps from the packet or the failure on.
LEMMA FinalStopsPreparing ==
  ASSUME Final, NEW p,
         \/ BuildPacket(p) \/ LoadForPacket(p) \/ StagePacket(p) \/ StageReducedReport(p)
         \/ BindPacket(p) \/ Reload(p) \/ Fail(p) \/ BindFailure(p)
         \/ LoadForReport(p) \/ StageReport(p) \/ BindReport(p)
  PROVE  log' = log
<1>1. CASE BuildPacket(p) \/ LoadForPacket(p) \/ Reload(p) \/ LoadForReport(p)
  BY <1>1 DEF BuildPacket, LoadForPacket, Reload, LoadForReport, recordVars
<1>2. CASE StagePacket(p) \/ StageReducedReport(p) \/ Fail(p) \/ StageReport(p)
  BY <1>2 DEF StagePacket, StageReducedReport, Fail, StageReport, Stage, recordVars
<1>3. CASE BindPacket(p)
  BY <1>3, FinalBindsNothing DEF BindPacket, recordVars
<1>4. CASE BindFailure(p)
  BY <1>4, FinalBindsNothing DEF BindFailure
<1>5. CASE BindReport(p)
  BY <1>5, FinalBindsNothing DEF BindReport
<1>6. QED
  BY <1>1, <1>2, <1>3, <1>4, <1>5

\* A host's steps, and the publication both kinds of process end with.
LEMMA FinalStopsBriefing ==
  ASSUME Final, NEW p,
         Briefing(p) \/ PublishBundle(p) \/ (\E d \in Drafts : Validate(p, d))
           \/ (\E r \in ReducedReasons : Reduce(p, r))
  PROVE  log' = log
<1>1. CASE PublishBundle(p)
  BY <1>1 DEF PublishBundle
<1>2. CASE \E d \in Drafts : Validate(p, d)
  BY <1>2 DEF Validate, recordVars
<1>3. CASE \E r \in ReducedReasons : Reduce(p, r)
  BY <1>3 DEF Reduce, recordVars
<1>4. CASE StageAttempt(p) \/ LoadForBrief(p) \/ StageReducedReason(p)
  BY <1>4 DEF StageAttempt, LoadForBrief, StageReducedReason, Stage, recordVars
<1>5. CASE BindAttempt(p)
  BY <1>5, FinalBindsNothing DEF BindAttempt
<1>6. CASE BindBrief(p)
  BY <1>6, FinalBindsNothing DEF BindBrief
<1>7. CASE BindReduced(p)
  BY <1>7, FinalBindsNothing DEF BindReduced
<1>8. QED
  BY <1>1, <1>2, <1>3, <1>4, <1>5, <1>6, <1>7 DEF Briefing

\* Once the evidence is frozen, nothing follows the final checkpoint: neither a
\* second publication nor a late validation, whichever process asks for it.
THEOREM FinalIsFinal == Spec => FinalCheckpointIsFinal
<1>1. ASSUME Final, [Next]_vars PROVE log' = log
  <2>1. CASE UNCHANGED vars
    BY <2>1 DEF vars
  <2>2. CASE \E p \in Process : Outage(p) \/ Crash(p)
    BY <2>2 DEF Outage, Crash, recordVars
  <2>3. CASE WindowCloses \/ DeadlinePasses
    BY <2>3 DEF WindowCloses, DeadlinePasses, recordVars
  <2>4. CASE \E p \in Preparer : Preparation(p)
    BY <1>1, <2>4, FinalStopsCollecting, FinalStopsPreparing DEF Preparation
  <2>5. CASE \E p \in Process :
               Briefing(p) \/ PublishBundle(p) \/ (\E d \in Drafts : Validate(p, d))
                 \/ (\E r \in ReducedReasons : Reduce(p, r))
    BY <1>1, <2>5, FinalStopsBriefing
  <2>6. QED
    BY <1>1, <2>1, <2>2, <2>3, <2>4, <2>5 DEF Next, Process
<1>2. QED
  BY <1>1, PTL DEF Spec, FinalCheckpointIsFinal, Final

(***************************************************************************)
(* The attempts                                                            *)
(***************************************************************************)

\* The names that checkpoints of work on the packet bind.
WorkNames == {"research_packet", "reduced_report", "attempt"}

NoneValid(attempts) == \A a \in attempts : a[2] \notin Valid

\* The draft with the highest number.
LastOf(attempts) ==
  IF attempts = {} THEN None
  ELSE (CHOOSE a \in attempts : \A b \in attempts : b[3] <= a[3])[2]

(***************************************************************************)
(* The log                                                                 *)
(***************************************************************************)

AttemptsOK ==
  /\ AttemptsInOrder
  /\ Cardinality(Attempts) = Cardinality(Of("VALIDATING"))
  /\ Of("VALIDATING") # {} => \E i \in Of("VALIDATING") : \A j \in Of("VALIDATING") : j <= i

WorkOK ==
  \A i \in 1..Len(log) :
    log[i].stage \in {"AWAITING_SYNTHESIS", "VALIDATING"} => Names(log[i].artifacts) \subseteq WorkNames

FinalOK ==
  \A i \in Of("PUBLISHED") :
    \/ log[i].quality = "FAIL"
    \/ Names(log[i].artifacts) \subseteq WorkNames
    \/ NoneValid(AttemptsUpTo(i))

(***************************************************************************)
(* The calls                                                               *)
(***************************************************************************)

ReducibleOK(reason, attempts) ==
  /\ NoneValid(attempts)
  /\ reason = "VALIDATION_REPAIR_EXHAUSTED" <=> Cardinality(attempts) = 3

SynthesizedOK(l) ==
  /\ l.cut # None
  /\ l.draft = LastDraft /\ LastDraft \in Valid
  /\ Names(log[l.seen].artifacts) \subseteq WorkNames

ReducedOK(l) ==
  /\ l.cut # None
  /\ <<"reduced_reason", l.reason>> \in log[l.seen].artifacts
  /\ ReducibleOK(l.reason, Attempts)

OperationalOK(l) ==
  /\ <<"operational_reason", l.reason>> \in log[l.seen].artifacts
  /\ log[l.seen].quality = "FAIL"
  /\ l.cut # None /\ FrozenPacket # {} => l.reason = "MISSED_WINDOW"

\* A bundle composed from the final checkpoint.
FinalCallOK(l) ==
  /\ log[l.seen].stage = "PUBLISHED"
  /\ l.cut # None => l.seen = Len(log)
  /\ l.draft # None => SynthesizedOK(l)
  /\ l.draft = None /\ l.reason \in ReducedReasons => ReducedOK(l)
  /\ l.draft = None /\ l.reason \notin ReducedReasons => OperationalOK(l)

DecisionOK(step, l) ==
  /\ step \in {"stage_attempt", "bind_attempt"} => NoneValid(AttemptsUpTo(l.seen))
  /\ step = "bind_brief" => l.draft = LastOf(AttemptsUpTo(l.seen)) /\ l.draft \in Valid
  /\ step \in {"stage_reason", "bind_reduced"} => ReducibleOK(l.reason, AttemptsUpTo(l.seen))
  /\ step = "publish_bundle" => FinalCallOK(l)

OutcomeInv ==
  /\ AttemptsOK
  /\ WorkOK
  /\ FinalOK
  /\ \A p \in Process : DecisionOK(pc[p], job[p])
  /\ PublicationMatchesRecord

(***************************************************************************)
(* Attempts and their numbers                                              *)
(***************************************************************************)

\* The validation checkpoints up to the i-th checkpoint.
ValidationsTo(i) == {j \in Of("VALIDATING") : j <= i}

LEMMA ValidationsCounted ==
  ASSUME TypeOK, NEW i
  PROVE  /\ IsFiniteSet(Of("VALIDATING")) /\ Cardinality(Of("VALIDATING")) \in Nat
         /\ IsFiniteSet(ValidationsTo(i)) /\ Cardinality(ValidationsTo(i)) \in Nat
         /\ Cardinality(ValidationsTo(i)) <= Cardinality(Of("VALIDATING"))
         /\ Cardinality(ValidationsTo(i)) = Cardinality(Of("VALIDATING"))
              => ValidationsTo(i) = Of("VALIDATING")
<1>1. Len(log) \in Nat
  BY DEF TypeOK
<1>2. IsFiniteSet(1..Len(log))
  BY <1>1, FS_Interval
<1>3. IsFiniteSet(Of("VALIDATING"))
  BY <1>2, FS_Subset DEF Of
<1>4. ValidationsTo(i) \subseteq Of("VALIDATING")
  BY DEF ValidationsTo
<1>5. QED
  BY <1>3, <1>4, FS_Subset, FS_CardinalityType

\* Each recorded attempt and the checkpoint that records it.
LEMMA AttemptRecorded ==
  ASSUME TypeOK, AttemptsOK, NEW a \in Attempts
  PROVE  \E i \in Of("VALIDATING") : \E d \in Drafts :
           /\ a = <<"attempt", d, Cardinality(ValidationsTo(i))>>
           /\ Named(log[i].artifacts, "attempt") = {a}
           /\ d \in Valid => \A j \in Of("VALIDATING") : j <= i
<1>1. PICK i \in Of("VALIDATING") : a \in Named(log[i].artifacts, "attempt")
  BY DEF Attempts, AttemptsUpTo
<1>2. PICK d \in Drafts :
        /\ Named(log[i].artifacts, "attempt") = {<<"attempt", d, Cardinality(ValidationsTo(i))>>}
        /\ d \in Valid => \A j \in Of("VALIDATING") : j <= i
  BY <1>1 DEF AttemptsOK, AttemptsInOrder, ValidationsTo
<1>3. QED
  BY <1>1, <1>2

LEMMA AttemptOf ==
  ASSUME TypeOK, AttemptsOK, NEW i \in Of("VALIDATING")
  PROVE  \E d \in Drafts : <<"attempt", d, Cardinality(ValidationsTo(i))>> \in Attempts
<1>1. PICK d \in Drafts :
        Named(log[i].artifacts, "attempt") = {<<"attempt", d, Cardinality(ValidationsTo(i))>>}
  BY DEF AttemptsOK, AttemptsInOrder, ValidationsTo
<1>2. i <= Len(log)
  BY DEF Of, TypeOK
<1>3. Named(log[i].artifacts, "attempt") \subseteq Attempts
  BY <1>2 DEF Attempts, AttemptsUpTo
<1>4. QED
  BY <1>1, <1>3

LEMMA AttemptNumbers ==
  ASSUME TypeOK, AttemptsOK, NEW a \in Attempts
  PROVE  /\ a[3] \in Nat /\ a[3] <= Cardinality(Of("VALIDATING")) /\ a[2] \in Drafts
BY AttemptRecorded, ValidationsCounted

\* The latest attempt is the one with the highest number, so that a valid draft
\* on record is that of the latest attempt.
LEMMA LatestAttempt ==
  ASSUME TypeOK, AttemptsOK, Attempts # {}
  PROVE  \E a \in Attempts : LastDraft = a[2] /\ \A b \in Attempts : b[3] <= a[3]
<1>1. Of("VALIDATING") # {}
  BY DEF Attempts, AttemptsUpTo
<1>2. PICK i \in Of("VALIDATING") : \A j \in Of("VALIDATING") : j <= i
  BY <1>1 DEF AttemptsOK
<1>3. ValidationsTo(i) = Of("VALIDATING")
  BY <1>2 DEF ValidationsTo
<1>4. PICK d \in Drafts : <<"attempt", d, Cardinality(Of("VALIDATING"))>> \in Attempts
  BY <1>3, AttemptOf
<1>5. \A b \in Attempts : b[3] <= <<"attempt", d, Cardinality(Of("VALIDATING"))>>[3]
  BY AttemptNumbers
<1>6. \E a \in Attempts : \A b \in Attempts : b[3] <= a[3]
  BY <1>4, <1>5
<1> DEFINE a == CHOOSE a \in Attempts : \A b \in Attempts : b[3] <= a[3]
<1>7. a \in Attempts /\ \A b \in Attempts : b[3] <= a[3]
  BY <1>6
<1>8. LastDraft = a[2]
  BY DEF LastDraft
<1>9. QED
  BY <1>7, <1>8

LEMMA InvalidLastMeansNone ==
  ASSUME TypeOK, AttemptsOK, LastDraft \notin Valid
  PROVE  NoneValid(Attempts)
<1> SUFFICES ASSUME NEW b \in Attempts, b[2] \in Valid PROVE FALSE
  BY DEF NoneValid
<1>1. PICK a \in Attempts : LastDraft = a[2] /\ \A c \in Attempts : c[3] <= a[3]
  BY LatestAttempt
<1>2. PICK i \in Of("VALIDATING"), d \in Drafts :
        /\ b = <<"attempt", d, Cardinality(ValidationsTo(i))>>
        /\ Named(log[i].artifacts, "attempt") = {b}
        /\ d \in Valid => \A j \in Of("VALIDATING") : j <= i
  BY AttemptRecorded
<1>3. PICK k \in Of("VALIDATING"), f \in Drafts :
        /\ a = <<"attempt", f, Cardinality(ValidationsTo(k))>>
        /\ Named(log[k].artifacts, "attempt") = {a}
  BY AttemptRecorded
<1>4. \A j \in Of("VALIDATING") : j <= i
  BY <1>2
<1>5. ValidationsTo(i) = Of("VALIDATING")
  BY <1>4 DEF ValidationsTo
<1>6. Cardinality(ValidationsTo(k)) = Cardinality(Of("VALIDATING"))
  <2>1. Cardinality(Of("VALIDATING")) <= Cardinality(ValidationsTo(k))
    BY <1>1, <1>2, <1>3, <1>5
  <2>2. QED
    BY <2>1, ValidationsCounted
<1>7. ValidationsTo(k) = Of("VALIDATING")
  BY <1>6, ValidationsCounted
<1>8. i <= k /\ k <= i
  BY <1>4, <1>7 DEF ValidationsTo
<1>9. i = k
  BY <1>8 DEF Of, TypeOK
<1>10. QED
  BY <1>1, <1>2, <1>3, <1>9

(***************************************************************************)
(* What a step appends                                                     *)
(***************************************************************************)

BriefCheckpoint(p) ==
  Checkpoint("PUBLISHED", "PUBLISHED", "PASS", job[p].cut, Seen(p).artifacts)

ReducedCheckpoint(p) ==
  Checkpoint("PUBLISHED", "PUBLISHED", "PASS", job[p].cut, Seen(p).artifacts \cup {ReducedReason(p)})

\* The checkpoints of process p, as far as attempts and publications go.
Recordable(p, e) ==
  \/ e.stage \notin {"AWAITING_SYNTHESIS", "VALIDATING", "PUBLISHED"}
  \/ e.stage = "AWAITING_SYNTHESIS" /\ Names(e.artifacts) \subseteq WorkNames
  \/ e.stage = "PUBLISHED" /\ e.quality = "FAIL"
  \/ pc[p] = "bind_attempt" /\ Current(p) /\ e = AttemptCheckpoint(p)
  \/ pc[p] = "bind_brief" /\ Current(p) /\ e = BriefCheckpoint(p)
  \/ pc[p] = "bind_reduced" /\ Current(p) /\ e = ReducedCheckpoint(p)

Recorded(p) ==
  \/ log' = log
  \/ \E e : Accepts(e) /\ Appends(e) /\ Recordable(p, e)

LogOK == AttemptsOK /\ WorkOK /\ FinalOK

\* A publication of a PASS run follows work on the packet.
LEMMA PublicationAccepted ==
  ASSUME NEW e, Accepts(e), e.stage = "PUBLISHED", e.quality = "PASS"
  PROVE  /\ cutoff # None /\ e.cut = cutoff /\ Len(log) > 0
         /\ Latest.stage \in {"AWAITING_SYNTHESIS", "VALIDATING"}
<1>1. ~OperationalPublication(e)
  BY DEF OperationalPublication
<1>2. ~Freeze(e) /\ ~QualityEvaluation(e) /\ ~PreparationFailure(e)
  BY DEF Freeze, QualityEvaluation, PreparationFailure
<1>3. cutoff # None
  BY <1>1 DEF Accepts
<1>4. PacketWork(e) /\ e.cut = cutoff /\ Len(log) > 0
  BY <1>1, <1>2, <1>3 DEF Accepts
<1>5. QED
  BY <1>3, <1>4 DEF PacketWork, Synthesis, Validation, ValidatedPublication, ReducedPublication

\* A validation with an attempt is one of three.
LEMMA ValidationAccepted ==
  ASSUME NEW e, Accepts(e), cutoff # None, e.stage = "VALIDATING", Named(e.artifacts, "attempt") # {}
  PROVE  Cardinality(Of("VALIDATING")) < 3
<1>1. ~Freeze(e) /\ ~QualityEvaluation(e) /\ ~PreparationFailure(e) /\ ~OperationalPublication(e)
  BY DEF Freeze, QualityEvaluation, PreparationFailure, OperationalPublication
<1>2. PacketWork(e)
  BY <1>1 DEF Accepts
<1>3. "attempt" \in Names(e.artifacts)
  BY DEF Named, Names
<1>4. ~PacketOnly(e)
  BY <1>3 DEF PacketOnly
<1>5. QED
  BY <1>2, <1>4 DEF PacketWork, Synthesis, Validation, ValidatedPublication, ReducedPublication

LEMMA AttemptNames ==
  ASSUME IInv, NEW p \in Process, pc[p] = "bind_attempt"
  PROVE  Names(AttemptCheckpoint(p).artifacts) \subseteq WorkNames
<1>1. Attempt(p)[1] = "attempt"
  BY AttemptIsArtifact
<1>2. QED
  BY <1>1 DEF AttemptCheckpoint, Checkpoint, Names, Named, WorkNames

\* The brief that is published binds what its validation bound.
LEMMA BriefNames ==
  ASSUME IInv, WorkOK, NEW p \in Process, Current(p), Accepts(BriefCheckpoint(p))
  PROVE  Names(BriefCheckpoint(p).artifacts) \subseteq WorkNames
<1>1. Len(log) > 0 /\ Latest.stage \in {"AWAITING_SYNTHESIS", "VALIDATING"}
  BY PublicationAccepted DEF BriefCheckpoint, Checkpoint
<1>2. Len(log) \in 1..Len(log)
  BY <1>1 DEF IInv, TypeOK
<1>3. BriefCheckpoint(p).artifacts = Latest.artifacts
  BY DEF BriefCheckpoint, Checkpoint, Current, Seen, Latest
<1>4. QED
  BY <1>1, <1>2, <1>3 DEF WorkOK, Latest

LEMMA AppendKeepsWork ==
  ASSUME IInv, WorkOK, NEW p \in Process, NEW e, Accepts(e), Appends(e), Recordable(p, e)
  PROVE  WorkOK'
<1> SUFFICES ASSUME NEW i \in 1..Len(log'),
                    log'[i].stage \in {"AWAITING_SYNTHESIS", "VALIDATING"}
             PROVE  Names(log'[i].artifacts) \subseteq WorkNames
  BY DEF WorkOK, WorkNames, Names
<1>1. CASE i \in 1..Len(log) /\ log'[i] = log[i]
  BY <1>1 DEF WorkOK
<1>2. CASE log'[i] = e
  <2>1. CASE e = AttemptCheckpoint(p) /\ pc[p] = "bind_attempt"
    BY <1>2, <2>1, AttemptNames
  <2>2. CASE e.stage = "AWAITING_SYNTHESIS" /\ Names(e.artifacts) \subseteq WorkNames
    BY <1>2, <2>2
  <2>3. QED
    BY <1>2, <2>1, <2>2 DEF Recordable, BriefCheckpoint, ReducedCheckpoint, Checkpoint
<1>3. QED
  BY <1>1, <1>2, AppendAt

LEMMA AppendKeepsFinal ==
  ASSUME IInv, IInv', WorkOK, FinalOK, NEW p \in Process, DecisionOK(pc[p], job[p]),
         NEW e, Accepts(e), Appends(e), Recordable(p, e)
  PROVE  FinalOK'
<1> SUFFICES ASSUME NEW i \in Of("PUBLISHED")'
             PROVE  \/ log'[i].quality = "FAIL"
                    \/ Names(log'[i].artifacts) \subseteq WorkNames
                    \/ NoneValid(AttemptsUpTo(i)')
  BY DEF FinalOK, WorkNames, Names, NoneValid
<1>1. i \in 1..Len(log') /\ log'[i].stage = "PUBLISHED" /\ TypeOK /\ TypeOK'
  BY DEF Of, IInv
<1>2. CASE i \in 1..Len(log) /\ log'[i] = log[i]
  <2>1. i \in Of("PUBLISHED") /\ i \in Nat /\ i <= Len(log)
    BY <1>1, <1>2 DEF Of, TypeOK
  <2>2. AttemptsUpTo(i)' = AttemptsUpTo(i)
    BY <1>1, <2>1, AttemptsKept DEF Appends
  <2>3. QED
    BY <1>2, <2>1, <2>2 DEF FinalOK
<1>3. CASE i = Len(log) + 1 /\ log'[i] = e
  <2>1. CASE e.quality = "FAIL"
    BY <1>3, <2>1
  <2>2. CASE pc[p] = "bind_brief" /\ Current(p) /\ e = BriefCheckpoint(p)
    BY <1>3, <2>2, BriefNames
  <2>3. CASE pc[p] = "bind_reduced" /\ Current(p) /\ e = ReducedCheckpoint(p)
    <3>1. NoneValid(Attempts)
      BY <2>3 DEF DecisionOK, ReducibleOK, Current, Attempts
    <3>2. Attempts' = Attempts
      BY <1>1, <1>3, AppendAttempts
    <3>3. AttemptsUpTo(i)' = Attempts'
      BY <1>3 DEF Appends, Attempts, AttemptsUpTo
    <3>4. QED
      BY <3>1, <3>2, <3>3
  <2>4. QED
    BY <1>1, <1>3, <2>1, <2>2, <2>3 DEF Recordable, AttemptCheckpoint, Checkpoint
<1>4. QED
  BY <1>1, <1>2, <1>3, AppendAt

\* The checkpoints that record no attempt.
LEMMA AppendKeepsAttempts ==
  ASSUME TypeOK, AttemptsOK, NEW e, Appends(e), e.stage # "VALIDATING"
  PROVE  AttemptsOK'
<1>1. Of("VALIDATING")' = Of("VALIDATING") /\ Attempts' = Attempts
  BY AppendSets, AppendAttempts
<1>2. \A i \in Of("VALIDATING") : log'[i] = log[i]
  BY DEF Of, Appends
<1>3. AttemptsInOrder'
  <2>1. Cardinality(Of("VALIDATING"))' <= 3
    BY <1>1 DEF AttemptsOK, AttemptsInOrder
  <2>2. ASSUME NEW i \in Of("VALIDATING")
        PROVE  \E d \in Drafts :
                 /\ Named(log'[i].artifacts, "attempt")
                      = {<<"attempt", d, Cardinality({j \in Of("VALIDATING") : j <= i})>>}
                 /\ d \in Valid => \A j \in Of("VALIDATING") : j <= i
    BY <1>2 DEF AttemptsOK, AttemptsInOrder
  <2>3. QED
    BY <1>1, <2>1, <2>2 DEF AttemptsInOrder, Named
<1>4. QED
  BY <1>1, <1>3 DEF AttemptsOK

\* checkpoint_if_current: the attempts counted when the run was loaded are all
\* there are, and none is valid.
LEMMA NextAttempt ==
  ASSUME IInv, AttemptsOK, NEW p \in Process, DecisionOK(pc[p], job[p]),
         pc[p] = "bind_attempt", Current(p)
  PROVE  /\ NoneValid(Attempts)
         /\ job[p].draft \in Drafts
         /\ Attempt(p) = <<"attempt", job[p].draft, Cardinality(Of("VALIDATING")) + 1>>
         /\ Attempt(p) \notin Attempts
<1>1. job[p].draft \in Drafts /\ TypeOK
  BY AtHand DEF CallOK, OutcomeOK, IInv
<1>2. AttemptsUpTo(job[p].seen) = Attempts
  BY DEF Current, Attempts
<1>3. NoneValid(Attempts)
  BY <1>2 DEF DecisionOK
<1>4. Attempt(p) = <<"attempt", job[p].draft, Cardinality(Of("VALIDATING")) + 1>>
  BY <1>2 DEF Attempt, AttemptsOK
<1>5. Attempt(p)[3] = Cardinality(Of("VALIDATING")) + 1
  BY <1>4
<1>6. ASSUME Attempt(p) \in Attempts PROVE FALSE
  BY <1>1, <1>5, <1>6, AttemptNumbers, ValidationsCounted
<1>7. QED
  BY <1>1, <1>3, <1>4, <1>6

LEMMA AttemptKeepsAttempts ==
  ASSUME IInv, AttemptsOK, NEW p \in Process, DecisionOK(pc[p], job[p]),
         pc[p] = "bind_attempt", Current(p),
         Accepts(AttemptCheckpoint(p)), Appends(AttemptCheckpoint(p))
  PROVE  AttemptsOK'
<1> DEFINE e == AttemptCheckpoint(p)
           n == Cardinality(Of("VALIDATING"))
           last == Len(log) + 1
<1>1. /\ TypeOK /\ Len(log) \in Nat /\ IsFiniteSet(Attempts) /\ cutoff # None
      /\ IsFiniteSet(Of("VALIDATING")) /\ n \in Nat
  BY AtHand, ValidationsCounted DEF IInv, RecordOK, CallOK, OutcomeOK
<1>2. Named(e.artifacts, "attempt") = {Attempt(p)} /\ e.stage = "VALIDATING"
  BY AttemptBindable DEF AttemptCheckpoint, Checkpoint
<1>3. /\ NoneValid(Attempts) /\ job[p].draft \in Drafts
      /\ Attempt(p) = <<"attempt", job[p].draft, n + 1>> /\ Attempt(p) \notin Attempts
  BY NextAttempt
<1>4. n < 3
  BY <1>1, <1>2, ValidationAccepted
<1>5. /\ Of("VALIDATING")' = Of("VALIDATING") \cup {last}
      /\ Attempts' = Attempts \cup {Attempt(p)}
  BY <1>2, AppendSets, AppendAttempts
<1>6. /\ last \in Nat /\ \A i \in Of("VALIDATING") : i \in Nat /\ i < last /\ log'[i] = log[i]
      /\ log'[last] = e
  BY <1>1 DEF Of, Appends
<1> HIDE DEF e, n, last
<1>7. Cardinality(Of("VALIDATING"))' = n + 1
  <2>1. last \notin Of("VALIDATING")
    BY <1>6
  <2>2. Cardinality(Of("VALIDATING") \cup {last}) = n + 1
    BY <1>1, <2>1, FS_AddElement DEF n
  <2>3. QED
    BY <1>5, <2>2
<1>8. Cardinality(Attempts)' = n + 1
  <2>1. Cardinality(Attempts) = n
    BY DEF AttemptsOK, n
  <2>2. Cardinality(Attempts \cup {Attempt(p)}) = n + 1
    BY <1>1, <1>3, <2>1, FS_AddElement
  <2>3. QED
    BY <1>5, <2>2
<1>9. ASSUME NEW i \in Of("VALIDATING")'
      PROVE  \E d \in Drafts :
               /\ Named(log'[i].artifacts, "attempt")
                    = {<<"attempt", d, Cardinality({j \in Of("VALIDATING")' : j <= i})>>}
               /\ d \in Valid => \A j \in Of("VALIDATING")' : j <= i
  <2>1. CASE i \in Of("VALIDATING")
    <3>1. PICK d \in Drafts :
            Named(log[i].artifacts, "attempt")
              = {<<"attempt", d, Cardinality({j \in Of("VALIDATING") : j <= i})>>}
      BY <2>1 DEF AttemptsOK, AttemptsInOrder
    <3>2. {j \in Of("VALIDATING")' : j <= i} = {j \in Of("VALIDATING") : j <= i}
      BY <1>5, <1>6, <2>1
    <3>3. Named(log[i].artifacts, "attempt") \subseteq Attempts
      BY <2>1 DEF Attempts, AttemptsUpTo, Of
    <3>4. d \notin Valid
      <4> DEFINE a == <<"attempt", d, Cardinality({j \in Of("VALIDATING") : j <= i})>>
      <4>1. a[2] = d
        OBVIOUS
      <4> HIDE DEF a
      <4>2. a \in Attempts
        BY <3>1, <3>3 DEF a
      <4>3. QED
        BY <1>3, <4>1, <4>2 DEF NoneValid
    <3>5. QED
      BY <1>6, <2>1, <3>1, <3>2, <3>4
  <2>2. CASE i = last
    <3>1. {j \in Of("VALIDATING")' : j <= i} = Of("VALIDATING")' /\ \A j \in Of("VALIDATING")' : j <= i
      BY <1>5, <1>6, <2>2
    <3>2. Named(log'[i].artifacts, "attempt") = {<<"attempt", job[p].draft, n + 1>>}
      BY <1>2, <1>3, <1>6, <2>2
    <3>3. QED
      BY <1>3, <1>7, <3>1, <3>2
  <2>3. QED
    BY <1>5, <2>1, <2>2
<1>10. AttemptsInOrder'
  BY <1>1, <1>4, <1>7, <1>9 DEF AttemptsInOrder, Named, n
<1>11. \E i \in Of("VALIDATING")' : \A j \in Of("VALIDATING")' : j <= i
  BY <1>5, <1>6
<1>12. QED
  BY <1>7, <1>8, <1>10, <1>11 DEF AttemptsOK

LEMMA RecordedKeepsLog ==
  ASSUME IInv, IInv', LogOK, NEW p \in Process, DecisionOK(pc[p], job[p]), Recorded(p)
  PROVE  LogOK'
<1>1. CASE log' = log
  BY <1>1 DEF LogOK, AttemptsOK, AttemptsInOrder, WorkOK, FinalOK, Attempts, AttemptsUpTo, Of
<1>2. ASSUME NEW e, Accepts(e), Appends(e), Recordable(p, e)
      PROVE  LogOK'
  <2>1. WorkOK' /\ FinalOK'
    BY <1>2, AppendKeepsWork, AppendKeepsFinal DEF LogOK
  <2>2. AttemptsOK'
    <3>1. CASE e.stage # "VALIDATING"
      BY <1>2, <3>1, AppendKeepsAttempts DEF LogOK, IInv
    <3>2. CASE e = AttemptCheckpoint(p) /\ pc[p] = "bind_attempt" /\ Current(p)
      BY <1>2, <3>2, AttemptKeepsAttempts DEF LogOK
    <3>3. QED
      BY <1>2, <3>1, <3>2 DEF Recordable, BriefCheckpoint, ReducedCheckpoint, Checkpoint
  <2>3. QED
    BY <2>1, <2>2 DEF LogOK
<1>3. QED
  BY <1>1, <1>2 DEF Recorded

(***************************************************************************)
(* What a step decides                                                     *)
(***************************************************************************)

Deciding == {"stage_attempt", "bind_attempt", "bind_brief", "stage_reason", "bind_reduced",
             "publish_bundle"}

\* A step of process p that publishes nothing.
StepOK(p) ==
  /\ Recorded(p)
  /\ bundle' = bundle
  /\ \A q \in Process \ {p} : pc'[q] = pc[q] /\ job'[q] = job[q]
  /\ DecisionOK(pc[p], job[p])'

LEMMA NothingDecided ==
  ASSUME NEW p, pc'[p] \notin Deciding
  PROVE  DecisionOK(pc[p], job[p])'
BY DEF DecisionOK, Deciding

\* A step that writes no checkpoint.
LEMMA GoesOn ==
  ASSUME IInv, NEW p \in Process, NEW step, NEW l, Continue(p, step, l),
         UNCHANGED <<log, bundle>>,
         step \notin Deciding \/ (pc'[p] = step /\ job'[p] = l => DecisionOK(pc[p], job[p])')
  PROVE  StepOK(p)
<1>1. pc \in [Process -> Steps] /\ job \in [Process -> Locals]
  BY DEF IInv, TypeOK
<1>2. /\ pc'[p] = step /\ job'[p] = l
      /\ \A q \in Process \ {p} : pc'[q] = pc[q] /\ job'[q] = job[q]
  BY <1>1 DEF Continue, GoTo
<1>3. DecisionOK(pc[p], job[p])'
  BY <1>2, NothingDecided
<1>4. QED
  BY <1>2, <1>3 DEF StepOK, Recorded

LEMMA EndsOK ==
  ASSUME IInv, NEW p \in Process, Finish(p), UNCHANGED <<log, bundle>>
  PROVE  StepOK(p)
<1>1. "idle" \notin Deciding
  BY DEF Deciding
<1>2. QED
  BY <1>1, GoesOn DEF Finish

LEMMA GoesTo ==
  ASSUME IInv, NEW p \in Process, NEW step, GoTo(p, step), UNCHANGED job,
         UNCHANGED <<log, bundle>>,
         step \notin Deciding \/ (pc'[p] = step /\ job'[p] = job[p] => DecisionOK(pc[p], job[p])')
  PROVE  StepOK(p)
<1>1. Continue(p, step, job[p])
  BY KeepsLocals DEF IInv
<1>2. QED
  BY <1>1, GoesOn

LEMMA StageOK ==
  ASSUME IInv, NEW p \in Process, NEW a, NEW step, Stage(p, a, step),
         step \notin Deciding
           \/ (pc'[p] = step /\ job'[p] = job[p] /\ log' = log => DecisionOK(pc[p], job[p])')
  PROVE  StepOK(p)
<1>1. UNCHANGED <<log, bundle>>
  BY DEF Stage
<1>2. CASE Finish(p)
  BY <1>1, <1>2, EndsOK
<1>3. CASE GoTo(p, step) /\ UNCHANGED job
  BY <1>1, <1>3, GoesTo
<1>4. QED
  BY <1>2, <1>3 DEF Stage

LEMMA AppendTyped ==
  ASSUME TypeOK, TypeOK', NEW e, log' = Append(log, e), UNCHANGED <<staged, cutoff, bundle>>
  PROVE  Appends(e)
<1> DEFINE S == Checkpoints \cup {e}
<1>1. log \in Seq(S) /\ e \in S /\ Len(log) \in Nat
  BY DEF TypeOK
<1> HIDE DEF S
<1>2. /\ Len(log') = Len(log) + 1
      /\ \A i \in 1..Len(log) : log'[i] = log[i]
      /\ log'[Len(log) + 1] = e
  BY <1>1, Appending
<1>3. e \in Checkpoints
  BY <1>1, <1>2 DEF TypeOK
<1>4. QED
  BY <1>1, <1>2, <1>3 DEF Appends, TypeOK

LEMMA BindOK ==
  ASSUME IInv, IInv', NEW p \in Process, NEW admitted, NEW e, NEW step, Bind(p, admitted, e, step),
         admitted /\ Accepts(e) => Recordable(p, e),
         step \notin Deciding
           \/ (admitted /\ Accepts(e) /\ Appends(e) /\ pc'[p] = step
                 /\ job'[p] = [job[p] EXCEPT !.seen = Len(log) + 1, !.cut = cutoff]
               => DecisionOK(pc[p], job[p])')
  PROVE  StepOK(p)
<1>1. UNCHANGED <<staged, cutoff, bundle>> /\ pc \in [Process -> Steps] /\ job \in [Process -> Locals]
  BY DEF Bind, IInv, TypeOK
<1>2. CASE log' = log /\ Finish(p)
  BY <1>1, <1>2, EndsOK
<1>3. CASE admitted /\ Accepts(e) /\ log' = Append(log, e)
  <2> DEFINE l == IF step = "idle" THEN Fresh
                  ELSE [job[p] EXCEPT !.seen = Len(log) + 1, !.cut = cutoff]
  <2>1. Appends(e)
    BY <1>1, <1>3, AppendTyped DEF IInv
  <2>2. Recorded(p)
    BY <1>3, <2>1 DEF Recorded
  <2>3. Continue(p, step, l)
    <3>1. Len(log') # Len(log)
      BY <2>1 DEF Appends
    <3>2. log' # log
      BY <3>1
    <3>3. QED
      BY <3>2 DEF Bind
  <2>4. /\ pc'[p] = step /\ job'[p] = l
        /\ \A q \in Process \ {p} : pc'[q] = pc[q] /\ job'[q] = job[q]
    BY <1>1, <2>3 DEF Continue, GoTo
  <2>5. step # "idle" => l = [job[p] EXCEPT !.seen = Len(log) + 1, !.cut = cutoff]
    OBVIOUS
  <2> HIDE DEF l
  <2>6. DecisionOK(pc[p], job[p])'
    <3>1. CASE step \notin Deciding
      BY <2>4, <3>1, NothingDecided
    <3>2. CASE step \in Deciding
      <4>1. step # "idle"
        BY <3>2 DEF Deciding
      <4>2. QED
        BY <1>3, <2>1, <2>4, <2>5, <3>2, <4>1
    <3>3. QED
      BY <3>1, <3>2
  <2>7. QED
    BY <1>1, <2>2, <2>4, <2>6 DEF StepOK
<1>4. QED
  BY <1>2, <1>3 DEF Bind

(* A preparer *)

\* Its steps that only read the record.
LEMMA ReadingOK ==
  ASSUME IInv, NEW p \in Process,
         \/ Prepare(p) \/ Dispatch(p) \/ SelectPrior(p) \/ Collect(p) \/ EvaluateQuality(p)
         \/ BuildPacket(p) \/ LoadForPacket(p) \/ Reload(p) \/ Outage(p) \/ Crash(p)
  PROVE  StepOK(p)
<1> DEFINE Elsewhere == \/ Finish(p)
                        \/ \E step \in Steps \ Deciding : \E l : Continue(p, step, l)
                        \/ \E step \in Steps \ Deciding : GoTo(p, step) /\ UNCHANGED job
<1>1. UNCHANGED <<log, bundle>>
  BY DEF Prepare, Dispatch, SelectPrior, Collect, EvaluateQuality, BuildPacket, LoadForPacket,
         Reload, Outage, Crash, recordVars
<1>2. CASE Prepare(p) \/ Dispatch(p)
  <2>1. Elsewhere
    BY <1>2 DEF Prepare, Dispatch, FailWith, Steps, Deciding
  <2>2. QED
    BY <1>1, <2>1, EndsOK, GoesOn, GoesTo
<1>3. CASE SelectPrior(p) \/ Collect(p)
  <2>1. Elsewhere
    BY <1>3 DEF SelectPrior, Collect, Expire, Steps, Deciding
  <2>2. QED
    BY <1>1, <2>1, EndsOK, GoesOn, GoesTo
<1>4. CASE EvaluateQuality(p)
  <2>1. \A q : AfterQuality(q) \in Steps \ Deciding
    BY DEF AfterQuality, Steps, Deciding
  <2>2. Elsewhere
    BY <1>4, <2>1 DEF EvaluateQuality, Expire, Steps, Deciding
  <2>3. QED
    BY <1>1, <2>2, EndsOK, GoesOn, GoesTo
<1>5. CASE BuildPacket(p) \/ LoadForPacket(p) \/ Reload(p)
  <2>1. Elsewhere
    BY <1>5 DEF BuildPacket, LoadForPacket, Reload, Expire, Steps, Deciding
  <2>2. QED
    BY <1>1, <2>1, EndsOK, GoesOn, GoesTo
<1>6. CASE Outage(p) \/ Crash(p)
  <2>1. Elsewhere
    BY <1>6 DEF Outage, Crash, FailWith, Steps, Deciding
  <2>2. QED
    BY <1>1, <2>1, EndsOK, GoesOn, GoesTo
<1>7. QED
  BY <1>2, <1>3, <1>4, <1>5, <1>6

\* Its other steps up to the packet.
LEMMA PreparingOK ==
  ASSUME IInv, IInv', NEW p \in Process,
         \/ Allocate(p) \/ FreezeConfiguration(p) \/ StagePrior(p) \/ BindPrior(p)
         \/ Fetch(p) \/ BindCollection(p) \/ FreezeEvidence(p) \/ SealFreeze(p)
         \/ StageQuality(p) \/ BindQuality(p)
         \/ StagePacket(p) \/ StageReducedReport(p) \/ BindPacket(p)
  PROVE  StepOK(p)
<1>1. /\ "config" \notin Deciding /\ "dispatch" \notin Deciding /\ "bind_prior" \notin Deciding
      /\ "collect" \notin Deciding /\ "bind_collection" \notin Deciding /\ "freeze" \notin Deciding
      /\ "seal_freeze" \notin Deciding /\ "quality" \notin Deciding /\ "bind_quality" \notin Deciding
      /\ "stage_reduced" \notin Deciding /\ "bind_packet" \notin Deciding /\ "idle" \notin Deciding
      /\ \A q : AfterQuality(q) \notin Deciding
  BY DEF Deciding, AfterQuality
<1>2. CASE Allocate(p)
  BY <1>1, <1>2, GoesTo DEF Allocate, envVars
<1>3. CASE FreezeConfiguration(p)
  BY <1>1, <1>3, BindOK DEF FreezeConfiguration, Recordable, Checkpoint
<1>4. CASE StagePrior(p) \/ Fetch(p) \/ StageQuality(p)
  BY <1>1, <1>4, StageOK DEF StagePrior, Fetch, StageQuality
<1>5. CASE StagePacket(p) \/ StageReducedReport(p)
  BY <1>1, <1>5, StageOK DEF StagePacket, StageReducedReport
<1>6. CASE BindPrior(p)
  BY <1>1, <1>6, BindOK DEF BindPrior, Recordable, Checkpoint
<1>7. CASE BindCollection(p)
  BY <1>1, <1>7, BindOK DEF BindCollection, Recordable, Checkpoint
<1>8. CASE BindQuality(p)
  BY <1>1, <1>8, BindOK DEF BindQuality, Recordable, Checkpoint
<1>9. CASE FreezeEvidence(p)
  <2>1. UNCHANGED <<log, bundle>>
    BY <1>9 DEF FreezeEvidence
  <2>2. Finish(p) \/ (GoTo(p, "seal_freeze") /\ UNCHANGED job)
    BY <1>9 DEF FreezeEvidence
  <2>3. QED
    BY <1>1, <2>1, <2>2, EndsOK, GoesTo
<1>10. CASE SealFreeze(p)
  <2> DEFINE e == Checkpoint("EVIDENCE_FROZEN", Latest.execution, Latest.quality, job[p].item, {})
             l == [job[p] EXCEPT !.seen = Len(log) + 1, !.cut = cutoff]
  <2>1. /\ UNCHANGED <<staged, cutoff, bundle>> /\ TypeOK /\ TypeOK'
        /\ pc \in [Process -> Steps] /\ job \in [Process -> Locals]
    BY <1>10 DEF SealFreeze, IInv, TypeOK
  <2>2. CASE Finish(p) /\ log' = log
    BY <2>1, <2>2, EndsOK
  <2>3. CASE Accepts(e) /\ log' = Append(log, e) /\ Continue(p, "quality", l)
    <3>1. Appends(e)
      BY <2>1, <2>3, AppendTyped
    <3>2. Recordable(p, e)
      BY DEF Recordable, Checkpoint
    <3>3. Recorded(p)
      BY <2>3, <3>1, <3>2 DEF Recorded
    <3>4. /\ pc'[p] = "quality"
          /\ \A q \in Process \ {p} : pc'[q] = pc[q] /\ job'[q] = job[q]
      BY <2>1, <2>3 DEF Continue, GoTo
    <3>5. DecisionOK(pc[p], job[p])'
      BY <1>1, <3>4, NothingDecided
    <3>6. QED
      BY <2>1, <3>3, <3>4, <3>5 DEF StepOK
  <2>4. QED
    BY <1>10, <2>2, <2>3 DEF SealFreeze
<1>11. CASE BindPacket(p)
  <2> DEFINE e == Checkpoint("AWAITING_SYNTHESIS", "AWAITING_SYNTHESIS", "PASS", job[p].item,
                     {<<"research_packet", job[p].item>>, <<"reduced_report", job[p].item>>})
  <2>1. Recordable(p, e)
    BY DEF Recordable, Checkpoint, Names, WorkNames
  <2>2. CASE Finish(p) /\ UNCHANGED <<recordVars, envVars>>
    BY <2>2, EndsOK DEF recordVars
  <2>3. CASE Bind(p, TRUE, e, "idle")
    BY <1>1, <2>1, <2>3, BindOK
  <2>4. QED
    BY <1>11, <2>2, <2>3 DEF BindPacket
<1>12. QED
  BY <1>2, <1>3, <1>4, <1>5, <1>6, <1>7, <1>8, <1>9, <1>10, <1>11

\* A failed run is published for what it recorded.
LEMMA FailOK ==
  ASSUME IInv, NEW p \in Process, Fail(p)
  PROVE  StepOK(p)
<1>1. "report" \notin Deciding /\ "bind_failure" \notin Deciding
  BY DEF Deciding
<1>2. CASE GoTo(p, "report") /\ UNCHANGED <<recordVars, envVars, job>>
  BY <1>1, <1>2, GoesTo DEF recordVars
<1>3. CASE Stage(p, FailureReason(p), "bind_failure")
  BY <1>1, <1>3, StageOK
<1>4. QED
  BY <1>2, <1>3 DEF Fail

LEMMA BindFailureOK ==
  ASSUME IInv, IInv', NEW p \in Process, BindFailure(p)
  PROVE  StepOK(p)
<1> DEFINE e == [Seen(p) EXCEPT !.stage = "PREPARATION_FAILED", !.quality = "FAIL",
                                !.artifacts = @ \cup {FailureReason(p)}]
<1>1. pc[p] = "bind_failure" /\ Bind(p, Current(p), e, "report")
  BY DEF BindFailure
<1>2. Seen(p) \in Checkpoints
  BY <1>1, SeenAt
<1>3. e.stage = "PREPARATION_FAILED"
  BY <1>2 DEF Checkpoints
<1> HIDE DEF e
<1>4. Recordable(p, e) /\ "report" \notin Deciding
  BY <1>3 DEF Recordable, Deciding
<1>5. QED
  BY <1>1, <1>4, BindOK

LEMMA LoadForReportOK ==
  ASSUME IInv, NEW p \in Process, LoadForReport(p)
  PROVE  StepOK(p)
<1>1. /\ CallOK(pc[p], job[p]) /\ pc[p] = "report" /\ UNCHANGED <<log, bundle>>
      /\ Len(log) \in 1..Len(log)
  BY AtHand, SeenAt DEF LoadForReport, recordVars
<1>2. CASE Finish(p)
  BY <1>1, <1>2, EndsOK
<1>3. CASE Continue(p, "stage_report", Loaded(p))
  BY <1>1, <1>3, GoesOn DEF Deciding
<1>4. CASE /\ Reportable(p) /\ Latest.stage = "PUBLISHED" /\ FailureReason(p) \in Latest.artifacts
           /\ Continue(p, "publish_bundle", Loaded(p))
  <2> DEFINE l == Loaded(p)
  <2>1. l.seen = Len(log) /\ l.draft = None /\ l.reason = job[p].reason
    BY <1>1, LoadedAgain DEF CallOK, OutcomeOK
  <2>2. l.reason \notin ReducedReasons
    BY <1>1, <2>1 DEF CallOK, OutcomeOK, Failing, FailureReasons, ReducedReasons
  <2>3. FrozenPacket # {} => l.reason = "MISSED_WINDOW"
    BY <1>4, <2>1 DEF Reportable, Packetless
  <2>4. /\ log[l.seen].stage = "PUBLISHED" /\ log[l.seen].quality = "FAIL"
        /\ <<"operational_reason", l.reason>> \in log[l.seen].artifacts
    BY <1>4, <2>1 DEF Reportable, Latest, FailureReason
  <2> HIDE DEF l
  <2>5. ASSUME pc'[p] = "publish_bundle", job'[p] = l PROVE DecisionOK(pc[p], job[p])'
    <3>1. FrozenPacket' = FrozenPacket
      BY <1>1 DEF FrozenPacket
    <3>2. FinalCallOK(job[p])'
      BY <1>1, <2>1, <2>2, <2>3, <2>4, <2>5, <3>1 DEF FinalCallOK, OperationalOK
    <3>3. QED
      BY <2>5, <3>2 DEF DecisionOK
  <2>6. QED
    BY <1>1, <1>4, <2>5, GoesOn DEF l
<1>5. QED
  BY <1>2, <1>3, <1>4 DEF LoadForReport

LEMMA StageReportOK ==
  ASSUME IInv, NEW p \in Process, StageReport(p)
  PROVE  StepOK(p)
BY StageOK DEF StageReport, Deciding

\* A frozen packet is published without a brief only when its window was missed.
LEMMA MissedWithItsPacket ==
  ASSUME IInv, WorkOK, NEW e, Accepts(e), e.stage = "PUBLISHED", e.quality = "FAIL", cutoff # None,
         NEW r, <<"operational_reason", r>> \in e.artifacts
  PROVE  /\ FrozenPacket # {} => r = "MISSED_WINDOW"
         /\ Named(e.artifacts, "research_packet") \subseteq FrozenPacket
<1>1. "operational_reason" \in Names(e.artifacts) /\ Len(log) > 0
  BY DEF Names, Accepts
<1>2. ~Freeze(e) /\ ~QualityEvaluation(e) /\ ~PreparationFailure(e)
  BY DEF Freeze, QualityEvaluation, PreparationFailure
<1>3. ~PacketWork(e)
  <2>1. ~Synthesis(e) /\ ~Validation(e)
    BY DEF Synthesis, Validation
  <2>2. ~ValidatedPublication(e)
    BY <1>1 DEF ValidatedPublication, AttemptArtifacts
  <2>3. ~ReducedPublication(e)
    <3>1. SUFFICES ASSUME ReducedPublication(e) PROVE FALSE
      OBVIOUS
    <3>2. Len(log) \in 1..Len(log)
      BY <1>1 DEF IInv, TypeOK
    <3>3. Names(Latest.artifacts) \subseteq WorkNames
      BY <3>1, <3>2 DEF ReducedPublication, WorkOK, Latest
    <3>4. QED
      BY <1>1, <3>1, <3>3 DEF ReducedPublication, WorkNames
  <2>4. QED
    BY <2>1, <2>2, <2>3 DEF PacketWork
<1>4. OperationalPublication(e)
  BY <1>2, <1>3 DEF Accepts
<1>5. ASSUME FrozenPacket # {} PROVE r = "MISSED_WINDOW"
  <2>1. MissedWithPacket
    BY <1>4, <1>5 DEF OperationalPublication, Packetless
  <2>2. <<"operational_reason", r>> \in Reason
    BY <1>4 DEF OperationalPublication, Reason, Named
  <2>3. <<"operational_reason", r>> = <<"operational_reason", "MISSED_WINDOW">>
    BY <2>1, <2>2 DEF MissedWithPacket
  <2>4. QED
    BY <2>3
<1>6. Named(e.artifacts, "research_packet") \subseteq FrozenPacket
  <2>1. Named(e.artifacts, "research_packet") \subseteq Named(Latest.artifacts, "research_packet")
    BY <1>4 DEF OperationalPublication, Reason, Named
  <2>2. Len(log) \in 1..Len(log)
    BY <1>1 DEF IInv, TypeOK
  <2>3. QED
    BY <2>1, <2>2 DEF FrozenPacket, Latest
<1>7. QED
  BY <1>5, <1>6

LEMMA BindReportOK ==
  ASSUME IInv, IInv', WorkOK, NEW p \in Process, BindReport(p)
  PROVE  StepOK(p)
<1> DEFINE a == FailureReason(p)
           e == Checkpoint("PUBLISHED", "PUBLISHED", "FAIL", job[p].cut, Seen(p).artifacts \cup {a})
<1>1. /\ CallOK(pc[p], job[p]) /\ job[p] \in Locals /\ pc[p] = "bind_report"
      /\ Len(log) \in Nat /\ Bind(p, Current(p), e, "publish_bundle")
  BY AtHand DEF BindReport
<1>2. /\ e.stage = "PUBLISHED" /\ e.quality = "FAIL" /\ a \in e.artifacts
      /\ a = <<"operational_reason", job[p].reason>>
  BY DEF Checkpoint, FailureReason
<1>3. job[p].draft = None /\ job[p].reason \notin ReducedReasons
  BY <1>1 DEF CallOK, OutcomeOK, Failing, FailureReasons, ReducedReasons
<1> HIDE DEF a, e
<1>4. Recordable(p, e)
  BY <1>2 DEF Recordable
<1>5. ASSUME Accepts(e), Appends(e), pc'[p] = "publish_bundle",
             job'[p] = [job[p] EXCEPT !.seen = Len(log) + 1, !.cut = cutoff]
      PROVE  DecisionOK(pc[p], job[p])'
  <2>1. /\ job'[p].seen = Len(log) + 1 /\ job'[p].cut = cutoff
        /\ job'[p].draft = None /\ job'[p].reason = job[p].reason
    BY <1>1, <1>3, <1>5 DEF Locals
  <2>2. log'[job'[p].seen] = e /\ job'[p].seen = Len(log')
    BY <1>5, <2>1 DEF Appends
  <2>3. job'[p].cut # None /\ FrozenPacket' # {} => job[p].reason = "MISSED_WINDOW"
    <3>1. FrozenPacket' = FrozenPacket \cup Named(e.artifacts, "research_packet")
      BY <1>5, AppendSets
    <3>2. QED
      BY <1>2, <1>5, <2>1, <3>1, MissedWithItsPacket
  <2>4. FinalCallOK(job[p])'
    BY <1>2, <1>3, <2>1, <2>2, <2>3 DEF FinalCallOK, OperationalOK
  <2>5. QED
    BY <1>5, <2>4 DEF DecisionOK
<1>6. QED
  BY <1>1, <1>4, <1>5, BindOK

(* A host *)

LEMMA LastOfAttempts == LastDraft = LastOf(Attempts)
BY DEF LastDraft, LastOf

\* A valid last draft is a recorded one.
LEMMA ValidLastIsRecorded ==
  ASSUME TypeOK, AttemptsOK, LastDraft \in Valid
  PROVE  ~NoneValid(Attempts)
<1>1. Attempts # {}
  BY DataAssumption DEF LastDraft
<1>2. PICK a \in Attempts : LastDraft = a[2]
  BY <1>1, LatestAttempt
<1>3. QED
  BY <1>2 DEF NoneValid

LEMMA ValidateOK ==
  ASSUME IInv, AttemptsOK, NEW p \in Process, NEW d \in Drafts, Validate(p, d)
  PROVE  StepOK(p)
<1> DEFINE l == [Loaded(p) EXCEPT !.draft = d]
<1>1. UNCHANGED <<log, bundle>> /\ TypeOK
  BY DEF Validate, recordVars, IInv
<1>2. CASE Repairable /\ Continue(p, "stage_attempt", l)
  <2>1. l.seen = Len(log)
    BY LoadedAgain DEF Locals
  <2>2. NoneValid(Attempts)
    BY <1>1, <1>2, InvalidLastMeansNone DEF Repairable
  <2> HIDE DEF l
  <2>3. ASSUME pc'[p] = "stage_attempt", job'[p] = l PROVE DecisionOK(pc[p], job[p])'
    <3>1. AttemptsUpTo(job[p].seen)' = Attempts
      BY <1>1, <2>1, <2>3 DEF Attempts, AttemptsUpTo, Of
    <3>2. QED
      BY <2>2, <2>3, <3>1 DEF DecisionOK, NoneValid
  <2>4. QED
    BY <1>1, <1>2, <2>3, GoesOn DEF l
<1>3. CASE GoTo(p, "publish") /\ UNCHANGED job
  BY <1>1, <1>3, GoesTo DEF Deciding
<1>4. QED
  BY <1>2, <1>3 DEF Validate

LEMMA StageAttemptOK ==
  ASSUME IInv, NEW p \in Process, DecisionOK(pc[p], job[p]), StageAttempt(p)
  PROVE  StepOK(p)
<1>1. pc[p] = "stage_attempt" /\ Stage(p, Attempt(p), "bind_attempt")
  BY DEF StageAttempt
<1>2. ASSUME pc'[p] = "bind_attempt", job'[p] = job[p], log' = log
      PROVE  DecisionOK(pc[p], job[p])'
  BY <1>1, <1>2 DEF DecisionOK, NoneValid, AttemptsUpTo, Of
<1>3. QED
  BY <1>1, <1>2, StageOK

LEMMA BindAttemptOK ==
  ASSUME IInv, IInv', NEW p \in Process, BindAttempt(p)
  PROVE  StepOK(p)
<1> DEFINE step == IF job[p].draft \in Valid THEN "publish" ELSE "idle"
<1>1. pc[p] = "bind_attempt" /\ Bind(p, Current(p), AttemptCheckpoint(p), step)
  BY DEF BindAttempt, AttemptCheckpoint
<1>2. step \notin Deciding
  BY DEF Deciding
<1>3. Current(p) => Recordable(p, AttemptCheckpoint(p))
  BY <1>1 DEF Recordable
<1>4. QED
  BY <1>1, <1>2, <1>3, BindOK

LEMMA LoadForBriefOK ==
  ASSUME IInv, LogOK, NEW p \in Process, LoadForBrief(p)
  PROVE  StepOK(p)
<1> DEFINE l == [Loaded(p) EXCEPT !.draft = LastDraft]
<1>1. UNCHANGED <<log, bundle>> /\ TypeOK /\ AttemptsOK
  BY DEF LoadForBrief, recordVars, IInv, LogOK
<1>2. CASE Finish(p)
  BY <1>1, <1>2, EndsOK
<1>3. ASSUME Handed({"VALIDATING", "PUBLISHED"}), LastDraft \in Valid,
             NEW step \in {"publish_bundle", "bind_brief"}, Continue(p, step, l),
             step = "publish_bundle" <=> Latest.stage = "PUBLISHED"
      PROVE  StepOK(p)
  <2>1. l.seen = Len(log) /\ l.cut = cutoff /\ l.draft = LastDraft
    BY <1>3, LoadedAgain, DataAssumption DEF Locals
  <2>2. Len(log) > 0 /\ cutoff # None /\ Latest.quality = "PASS" /\ LastDraft # None
    BY <1>3, HandedOver, DataAssumption
  <2> HIDE DEF l
  <2>3. Attempts' = Attempts /\ LastDraft' = LastDraft
    BY <1>1 DEF Attempts, AttemptsUpTo, Of, LastDraft
  <2>4. ASSUME pc'[p] = step, job'[p] = l PROVE DecisionOK(pc[p], job[p])'
    <3>1. CASE step = "bind_brief"
      <4>1. AttemptsUpTo(job[p].seen)' = Attempts
        BY <1>1, <2>1, <2>4 DEF Attempts, AttemptsUpTo, Of
      <4>2. LastOf(AttemptsUpTo(job[p].seen))' = LastDraft
        BY <4>1, LastOfAttempts DEF LastOf
      <4>3. QED
        BY <1>3, <2>1, <2>4, <3>1, <4>2 DEF DecisionOK
    <3>2. CASE step = "publish_bundle"
      <4>1. Len(log) \in Of("PUBLISHED")
        BY <1>1, <1>3, <2>2, <3>2 DEF Of, Latest, TypeOK
      <4>2. ~NoneValid(AttemptsUpTo(Len(log)))
        BY <1>1, <1>3, ValidLastIsRecorded DEF Attempts
      <4>3. Names(log[Len(log)].artifacts) \subseteq WorkNames
        BY <2>2, <4>1, <4>2 DEF LogOK, FinalOK, Latest
      <4>4. SynthesizedOK(job[p])'
        BY <1>1, <1>3, <2>1, <2>2, <2>3, <2>4, <4>3 DEF SynthesizedOK, Names, WorkNames
      <4>5. FinalCallOK(job[p])'
        BY <1>1, <2>1, <2>2, <2>4, <4>1, <4>4 DEF FinalCallOK, Of
      <4>6. QED
        BY <2>4, <3>2, <4>5 DEF DecisionOK
    <3>3. QED
      BY <3>1, <3>2
  <2>5. QED
    BY <1>1, <1>3, <2>4, GoesOn DEF l
<1>4. QED
  BY <1>2, <1>3 DEF LoadForBrief

LEMMA BindBriefOK ==
  ASSUME IInv, IInv', WorkOK, NEW p \in Process, DecisionOK(pc[p], job[p]), BindBrief(p)
  PROVE  StepOK(p)
<1> DEFINE e == BriefCheckpoint(p)
<1>1. /\ pc[p] = "bind_brief" /\ Bind(p, Current(p), e, "publish_bundle") /\ job[p] \in Locals
      /\ Len(log) \in Nat /\ job[p].draft \in Drafts
  BY AtHand DEF BindBrief, BriefCheckpoint, CallOK, OutcomeOK
<1>2. e.stage = "PUBLISHED" /\ e.quality = "PASS"
  BY DEF BriefCheckpoint, Checkpoint
<1>3. Current(p) => Recordable(p, e)
  BY <1>1 DEF Recordable
<1>4. ASSUME Current(p), Accepts(e), Appends(e), pc'[p] = "publish_bundle",
             job'[p] = [job[p] EXCEPT !.seen = Len(log) + 1, !.cut = cutoff]
      PROVE  DecisionOK(pc[p], job[p])'
  <2>1. cutoff # None /\ Names(e.artifacts) \subseteq WorkNames
    BY <1>2, <1>4, PublicationAccepted, BriefNames
  <2>2. job[p].draft = LastDraft /\ job[p].draft \in Valid /\ job[p].draft # None
    BY <1>1, <1>4, LastOfAttempts, DataAssumption DEF DecisionOK, Current, Attempts
  <2> HIDE DEF e
  <2>3. /\ job'[p].seen = Len(log) + 1 /\ job'[p].cut = cutoff /\ job'[p].draft = job[p].draft
    BY <1>1, <1>4 DEF Locals
  <2>4. log'[job'[p].seen] = e /\ job'[p].seen = Len(log')
    BY <1>4, <2>3 DEF Appends
  <2>5. Attempts' = Attempts
    BY <1>2, <1>4, AppendAttempts
  <2>6. LastDraft' = LastDraft
    BY <2>5 DEF LastDraft
  <2>7. SynthesizedOK(job[p])'
    BY <2>1, <2>2, <2>3, <2>4, <2>6 DEF SynthesizedOK, Names, WorkNames
  <2>8. FinalCallOK(job[p])'
    BY <1>2, <2>2, <2>3, <2>4, <2>7 DEF FinalCallOK
  <2>9. QED
    BY <1>4, <2>8 DEF DecisionOK
<1> HIDE DEF e
<1>5. QED
  BY <1>1, <1>3, <1>4, BindOK

LEMMA ReduceOK ==
  ASSUME IInv, NEW p \in Process, NEW reason \in ReducedReasons, Reduce(p, reason)
  PROVE  StepOK(p)
<1> DEFINE l == [Loaded(p) EXCEPT !.reason = reason]
<1>1. UNCHANGED <<log, bundle>> /\ CallOK(pc[p], job[p]) /\ pc[p] = "idle" /\ TypeOK
  BY AtHand DEF Reduce, recordVars, IInv
<1>2. /\ l.seen = Len(log) /\ l.cut = cutoff /\ l.reason = reason /\ l.draft = None
  BY <1>1, LoadedAgain DEF Locals, CallOK, OutcomeOK, Fresh
<1>3. /\ ReducibleOK(reason, Attempts) /\ Len(log) > 0 /\ cutoff # None
  BY HandedOver DEF Reduce, Reducible, ReducibleOK, NoneValid
<1>4. Attempts' = Attempts
  BY <1>1 DEF Attempts, AttemptsUpTo, Of
<1> HIDE DEF l
<1>5. CASE Continue(p, "stage_reason", l)
  <2>1. ASSUME pc'[p] = "stage_reason", job'[p] = l PROVE DecisionOK(pc[p], job[p])'
    <3>1. AttemptsUpTo(job[p].seen)' = Attempts
      BY <1>1, <1>2, <2>1 DEF Attempts, AttemptsUpTo, Of
    <3>2. ReducibleOK(job[p].reason, AttemptsUpTo(job[p].seen))'
      BY <1>2, <1>3, <2>1, <3>1 DEF ReducibleOK, NoneValid
    <3>3. QED
      BY <2>1, <3>2 DEF DecisionOK
  <2>2. QED
    BY <1>1, <1>5, <2>1, GoesOn
<1>6. CASE /\ Latest.stage = "PUBLISHED" /\ <<"reduced_reason", reason>> \in Latest.artifacts
           /\ Continue(p, "publish_bundle", l)
  <2>1. ASSUME pc'[p] = "publish_bundle", job'[p] = l PROVE DecisionOK(pc[p], job[p])'
    <3>1. <<"reduced_reason", job'[p].reason>> \in log'[job'[p].seen].artifacts
      BY <1>1, <1>2, <1>6, <2>1 DEF Latest
    <3>2. ReducibleOK(job[p].reason, Attempts)'
      BY <1>2, <1>3, <1>4, <2>1 DEF ReducibleOK, NoneValid
    <3>3. ReducedOK(job[p])'
      BY <1>1, <1>2, <1>3, <2>1, <3>1, <3>2 DEF ReducedOK
    <3>4. log'[job'[p].seen].stage = "PUBLISHED" /\ job'[p].seen = Len(log') /\ job'[p].draft = None
      BY <1>1, <1>2, <1>6, <2>1 DEF Latest
    <3>5. job'[p].reason \in ReducedReasons
      BY <1>2, <2>1
    <3>6. FinalCallOK(job[p])'
      BY <3>3, <3>4, <3>5 DEF FinalCallOK
    <3>7. QED
      BY <2>1, <3>6 DEF DecisionOK
  <2>2. QED
    BY <1>1, <1>6, <2>1, GoesOn
<1>7. QED
  BY <1>5, <1>6 DEF Reduce, l

LEMMA StageReducedReasonOK ==
  ASSUME IInv, NEW p \in Process, DecisionOK(pc[p], job[p]), StageReducedReason(p)
  PROVE  StepOK(p)
<1>1. pc[p] = "stage_reason" /\ Stage(p, ReducedReason(p), "bind_reduced")
  BY DEF StageReducedReason
<1>2. ASSUME pc'[p] = "bind_reduced", job'[p] = job[p], log' = log
      PROVE  DecisionOK(pc[p], job[p])'
  <2>1. AttemptsUpTo(job[p].seen)' = AttemptsUpTo(job[p].seen)
    BY <1>2 DEF AttemptsUpTo, Of
  <2>2. ReducibleOK(job[p].reason, AttemptsUpTo(job[p].seen))'
    BY <1>1, <1>2, <2>1 DEF DecisionOK, ReducibleOK, NoneValid
  <2>3. QED
    BY <1>2, <2>2 DEF DecisionOK
<1>3. QED
  BY <1>1, <1>2, StageOK

LEMMA BindReducedOK ==
  ASSUME IInv, IInv', NEW p \in Process, DecisionOK(pc[p], job[p]), BindReduced(p)
  PROVE  StepOK(p)
<1> DEFINE e == ReducedCheckpoint(p)
<1>1. /\ pc[p] = "bind_reduced" /\ Bind(p, Current(p), e, "publish_bundle") /\ job[p] \in Locals
      /\ Len(log) \in Nat /\ job[p].draft = None /\ job[p].reason \in ReducedReasons
  BY AtHand DEF BindReduced, ReducedCheckpoint, CallOK, OutcomeOK
<1>2. /\ e.stage = "PUBLISHED" /\ e.quality = "PASS"
      /\ <<"reduced_reason", job[p].reason>> \in e.artifacts
  BY DEF ReducedCheckpoint, Checkpoint, ReducedReason
<1>3. Current(p) => Recordable(p, e)
  BY <1>1 DEF Recordable
<1>4. ASSUME Current(p), Accepts(e), Appends(e), pc'[p] = "publish_bundle",
             job'[p] = [job[p] EXCEPT !.seen = Len(log) + 1, !.cut = cutoff]
      PROVE  DecisionOK(pc[p], job[p])'
  <2>1. cutoff # None
    BY <1>2, <1>4, PublicationAccepted
  <2>2. ReducibleOK(job[p].reason, Attempts)
    BY <1>1, <1>4 DEF DecisionOK, Current, Attempts
  <2> HIDE DEF e
  <2>3. /\ job'[p].seen = Len(log) + 1 /\ job'[p].cut = cutoff /\ job'[p].draft = None
        /\ job'[p].reason = job[p].reason
    BY <1>1, <1>4 DEF Locals
  <2>4. log'[job'[p].seen] = e /\ job'[p].seen = Len(log')
    BY <1>4, <2>3 DEF Appends
  <2>5. Attempts' = Attempts
    BY <1>2, <1>4, AppendAttempts
  <2>6. ReducibleOK(job[p].reason, Attempts)'
    BY <2>2, <2>3, <2>5 DEF ReducibleOK, NoneValid
  <2>7. ReducedOK(job[p])'
    BY <1>2, <2>1, <2>3, <2>4, <2>6 DEF ReducedOK
  <2>8. FinalCallOK(job[p])'
    BY <1>1, <1>2, <2>3, <2>4, <2>7 DEF FinalCallOK
  <2>9. QED
    BY <1>4, <2>8 DEF DecisionOK
<1> HIDE DEF e
<1>5. QED
  BY <1>1, <1>3, <1>4, BindOK

(* Publication *)

\* What a call composes from the final checkpoint is what the record says.
LEMMA ComposedMatches ==
  ASSUME IInv, NEW p \in Process, pc[p] = "publish_bundle", DecisionOK(pc[p], job[p]),
         bundle' = Composed(p), Composed(p).cut = cutoff, log' = log
  PROVE  PublicationMatchesRecord'
<1> DEFINE i == job[p].seen
           b == Composed(p)
<1>1. /\ CallOK(pc[p], job[p]) /\ i \in 1..Len(log) /\ FinalCallOK(job[p])
      /\ EvidenceOK
  BY AtHand, SeenAt DEF DecisionOK, IInv, RecordOK
<1>2. i \in Of("PUBLISHED")'
  BY <1>1 DEF Of, FinalCallOK
<1>3. /\ b.kind = "synthesized" <=> job[p].draft # None
      /\ b.kind = "reduced" <=> job[p].draft = None /\ job[p].reason \in ReducedReasons
      /\ b.kind = "operational" <=> job[p].draft = None /\ job[p].reason \notin ReducedReasons
      /\ b.about = IF job[p].draft # None THEN job[p].draft ELSE job[p].reason
      /\ b.quality = log[i].quality /\ b.cut = job[p].cut
  BY DEF Composed, Seen
<1> HIDE DEF b, i
<1>4. b.kind = "synthesized" =>
        /\ b.about = LastDraft /\ LastDraft \in Valid
        /\ Names(log[i].artifacts) \cap {"reduced_reason", "operational_reason"} = {}
  BY <1>1, <1>3 DEF FinalCallOK, SynthesizedOK, WorkNames, i
<1>5. b.kind = "reduced" =>
        /\ <<"reduced_reason", b.about>> \in log[i].artifacts
        /\ \A a \in Attempts : a[2] \notin Valid
        /\ b.about = "VALIDATION_REPAIR_EXHAUSTED" <=> Cardinality(Attempts) = 3
  BY <1>1, <1>3 DEF FinalCallOK, ReducedOK, ReducibleOK, NoneValid, i
<1>6. b.kind = "operational" =>
        /\ <<"operational_reason", b.about>> \in log[i].artifacts
        /\ b.quality = "FAIL"
        /\ FrozenPacket # {} => b.about = "MISSED_WINDOW"
  <2>1. job[p].cut = None => FrozenPacket = {}
    BY <1>1, <1>3 DEF EvidenceOK, b
  <2>2. QED
    BY <1>1, <1>3, <2>1 DEF FinalCallOK, OperationalOK, i
<1>7. Attempts' = Attempts /\ FrozenPacket' = FrozenPacket
  BY DEF Attempts, AttemptsUpTo, Of, FrozenPacket
<1>8. LastDraft' = LastDraft
  BY <1>7 DEF LastDraft
<1>9. bundle' = b /\ log'[i] = log[i]
  BY DEF b
<1> DEFINE Matches(k) ==
      /\ bundle'.quality = log'[k].quality
      /\ bundle'.kind = "synthesized" =>
           /\ bundle'.about = LastDraft' /\ LastDraft' \in Valid
           /\ Names(log'[k].artifacts) \cap {"reduced_reason", "operational_reason"} = {}
      /\ bundle'.kind = "reduced" =>
           /\ <<"reduced_reason", bundle'.about>> \in log'[k].artifacts
           /\ \A a \in Attempts' : a[2] \notin Valid
           /\ bundle'.about = "VALIDATION_REPAIR_EXHAUSTED" <=> Cardinality(Attempts') = 3
      /\ bundle'.kind = "operational" =>
           /\ <<"operational_reason", bundle'.about>> \in log'[k].artifacts
           /\ bundle'.quality = "FAIL"
           /\ FrozenPacket' # {} => bundle'.about = "MISSED_WINDOW"
<1>10. Matches(i)
  BY <1>3, <1>4, <1>5, <1>6, <1>7, <1>8, <1>9
<1>11. PublicationMatchesRecord' <=> (bundle' # None => \E k \in Of("PUBLISHED")' : Matches(k))
  BY DEF PublicationMatchesRecord, Names
<1> HIDE DEF Matches
<1>12. QED
  BY <1>2, <1>10, <1>11

LEMMA PublicationKept ==
  ASSUME PublicationMatchesRecord, log' = log, bundle' = bundle
  PROVE  PublicationMatchesRecord'
<1>1. \A s : Of(s)' = Of(s)
  BY DEF Of
<1>2. Attempts' = Attempts /\ FrozenPacket' = FrozenPacket
  BY DEF Attempts, AttemptsUpTo, Of, FrozenPacket
<1>3. LastDraft' = LastDraft
  BY <1>2 DEF LastDraft
<1>4. CASE bundle = None
  BY <1>4 DEF PublicationMatchesRecord
<1>5. CASE bundle # None
  BY <1>1, <1>2, <1>3, <1>5 DEF PublicationMatchesRecord, Names
<1>6. QED
  BY <1>4, <1>5

LEMMA PublishBundleOK ==
  ASSUME IInv, NEW p \in Process, DecisionOK(pc[p], job[p]), PublicationMatchesRecord,
         PublishBundle(p)
  PROVE  /\ log' = log /\ PublicationMatchesRecord'
         /\ \A q \in Process \ {p} : pc'[q] = pc[q] /\ job'[q] = job[q]
         /\ DecisionOK(pc[p], job[p])'
<1>1. log' = log /\ pc[p] = "publish_bundle" /\ Finish(p)
  BY DEF PublishBundle
<1>2. pc \in [Process -> Steps] /\ job \in [Process -> Locals]
  BY DEF IInv, TypeOK
<1>3. pc'[p] = "idle" /\ \A q \in Process \ {p} : pc'[q] = pc[q] /\ job'[q] = job[q]
  BY <1>1, <1>2 DEF Finish, Continue, GoTo
<1>4. PublicationMatchesRecord'
  <2>1. CASE MayPublish(p)
    BY <1>1, <2>1, ComposedMatches DEF PublishBundle, MayPublish
  <2>2. CASE bundle' = bundle
    BY <1>1, <2>2, PublicationKept
  <2>3. QED
    BY <2>1, <2>2 DEF PublishBundle
<1>5. DecisionOK(pc[p], job[p])'
  BY <1>3, NothingDecided DEF Deciding
<1>6. QED
  BY <1>1, <1>3, <1>4, <1>5

(***************************************************************************)
(* The invariant                                                           *)
(***************************************************************************)

\* What the other calls have decided stays true of the record: a checkpoint
\* changes nothing they have counted, and after the final one there is none.
LEMMA DecisionKept ==
  ASSUME IInv, IInv', NEW p \in Process, Recorded(p), NEW q \in Process,
         DecisionOK(pc[q], job[q]), pc'[q] = pc[q], job'[q] = job[q]
  PROVE  DecisionOK(pc[q], job[q])'
<1>1. /\ CallOK(pc[q], job[q]) /\ TypeOK /\ TypeOK' /\ Len(log) \in Nat
      /\ job[q].seen \in Nat /\ job[q].seen <= Len(log) /\ job[q].cut \in {None, cutoff}
  BY AtHand DEF IInv, CallOK, LoadedOK, Locals
<1>2. Len(log) <= Len(log') /\ \A i \in 1..Len(log) : log'[i] = log[i]
  BY <1>1 DEF Recorded, Appends
<1>3. AttemptsUpTo(job[q].seen)' = AttemptsUpTo(job[q].seen)
  <2>1. PICK n \in Nat : n = job[q].seen /\ n = job'[q].seen /\ n <= Len(log)
    BY <1>1
  <2>2. AttemptsUpTo(n)' = AttemptsUpTo(n)
    BY <1>1, <1>2, <2>1, AttemptsKept
  <2>3. AttemptsUpTo(job[q].seen)' = AttemptsUpTo(n)'
    BY <2>1 DEF AttemptsUpTo
  <2>4. QED
    BY <2>1, <2>2, <2>3
<1>4. pc[q] = "publish_bundle" => FinalCallOK(job[q])'
  <2>1. SUFFICES ASSUME pc[q] = "publish_bundle" PROVE FinalCallOK(job[q])'
    OBVIOUS
  <2>2. FinalCallOK(job[q]) /\ job[q].seen \in 1..Len(log)
    BY <2>1, SeenAt DEF DecisionOK
  <2>3. log'[job[q].seen] = log[job[q].seen]
    BY <1>2, <2>2
  <2>4. CASE job[q].cut = None
    BY <2>2, <2>3, <2>4 DEF FinalCallOK, SynthesizedOK, ReducedOK, OperationalOK
  <2>5. CASE job[q].cut # None
    <3>1. Final
      BY <1>1, <2>2, <2>5 DEF FinalCallOK, Final, Latest
    <3>2. log' = log
      BY <3>1, FinalAcceptsNothing DEF Recorded
    <3>3. /\ Attempts' = Attempts /\ FrozenPacket' = FrozenPacket
      BY <3>2 DEF Attempts, AttemptsUpTo, Of, FrozenPacket
    <3>4. LastDraft' = LastDraft
      BY <3>3 DEF LastDraft
    <3>5. SynthesizedOK(job[q]) => SynthesizedOK(job[q])'
      BY <2>3, <3>4 DEF SynthesizedOK, Names, WorkNames
    <3>6. ReducedOK(job[q]) => ReducedOK(job[q])'
      BY <2>3, <3>3 DEF ReducedOK, ReducibleOK, NoneValid
    <3>7. OperationalOK(job[q]) => OperationalOK(job[q])'
      BY <2>3, <3>3 DEF OperationalOK
    <3>8. QED
      BY <2>2, <2>3, <3>2, <3>5, <3>6, <3>7 DEF FinalCallOK
  <2>6. QED
    BY <2>4, <2>5
<1>5. QED
  BY <1>3, <1>4 DEF DecisionOK, ReducibleOK, NoneValid, LastOf

\* The published bundle is on record, and a published run accepts no checkpoint.
LEMMA StepKeepsOutcome ==
  ASSUME IInv, IInv', OutcomeInv, NEW p \in Process, StepOK(p)
  PROVE  OutcomeInv'
<1>1. LogOK /\ \A q \in Process : DecisionOK(pc[q], job[q])
  BY DEF OutcomeInv, LogOK
<1>2. LogOK'
  BY <1>1, RecordedKeepsLog DEF StepOK
<1>3. ASSUME NEW q \in Process PROVE DecisionOK(pc[q], job[q])'
  BY <1>1, DecisionKept DEF StepOK
<1>4. PublicationMatchesRecord'
  <2>1. bundle' = bundle /\ PublicationMatchesRecord
    BY DEF StepOK, OutcomeInv
  <2>2. CASE bundle = None
    BY <2>1, <2>2 DEF PublicationMatchesRecord
  <2>3. CASE bundle # None
    <3>1. log' = log
      BY <2>3 DEF StepOK, Recorded, Accepts, Writable
    <3>2. QED
      BY <2>1, <3>1, PublicationKept
  <2>4. QED
    BY <2>2, <2>3
<1>5. QED
  BY <1>2, <1>3, <1>4 DEF OutcomeInv, LogOK

LEMMA PublishKeepsOutcome ==
  ASSUME IInv, IInv', OutcomeInv, NEW p \in Process, PublishBundle(p)
  PROVE  OutcomeInv'
<1>1. LogOK /\ PublicationMatchesRecord /\ \A q \in Process : DecisionOK(pc[q], job[q])
  BY DEF OutcomeInv, LogOK
<1>2. /\ log' = log /\ PublicationMatchesRecord' /\ DecisionOK(pc[p], job[p])'
      /\ \A q \in Process \ {p} : pc'[q] = pc[q] /\ job'[q] = job[q]
  BY <1>1, PublishBundleOK
<1>3. Recorded(p)
  BY <1>2 DEF Recorded
<1>4. LogOK'
  BY <1>1, <1>3, RecordedKeepsLog
<1>5. ASSUME NEW q \in Process PROVE DecisionOK(pc[q], job[q])'
  BY <1>1, <1>2, <1>3, DecisionKept
<1>6. QED
  BY <1>2, <1>4, <1>5 DEF OutcomeInv, LogOK

\* Time, and a step of nobody.
LEMMA NobodyKeepsOutcome ==
  ASSUME OutcomeInv, UNCHANGED <<log, bundle, pc, job>>
  PROVE  OutcomeInv'
<1>1. \A n : AttemptsUpTo(n)' = AttemptsUpTo(n)
  BY DEF AttemptsUpTo, Of
<1>2. Attempts' = Attempts /\ FrozenPacket' = FrozenPacket
  BY DEF Attempts, AttemptsUpTo, Of, FrozenPacket
<1>3. LastDraft' = LastDraft
  BY <1>2 DEF LastDraft
<1>4. AttemptsOK' /\ WorkOK' /\ FinalOK'
  BY <1>1, <1>2 DEF OutcomeInv, AttemptsOK, AttemptsInOrder, WorkOK, FinalOK, Of
<1>5. PublicationMatchesRecord'
  BY PublicationKept DEF OutcomeInv
<1>6. ASSUME NEW q \in Process PROVE DecisionOK(pc[q], job[q])'
  <2>1. DecisionOK(pc[q], job[q])
    BY DEF OutcomeInv
  <2>2. FinalCallOK(job[q]) => FinalCallOK(job[q])'
    BY <1>2, <1>3 DEF FinalCallOK, SynthesizedOK, ReducedOK, ReducibleOK, OperationalOK, NoneValid
  <2>3. AttemptsUpTo(job[q].seen)' = AttemptsUpTo(job[q].seen)
    BY DEF AttemptsUpTo, Of
  <2>4. QED
    BY <2>1, <2>2, <2>3 DEF DecisionOK, ReducibleOK, NoneValid, LastOf
<1>7. QED
  BY <1>4, <1>5, <1>6 DEF OutcomeInv

LEMMA PreparationOK ==
  ASSUME IInv, IInv', OutcomeInv, NEW p \in Process, Preparation(p)
  PROVE  StepOK(p)
<1>1. WorkOK
  BY DEF OutcomeInv
<1>2. CASE \/ Prepare(p) \/ Dispatch(p) \/ SelectPrior(p) \/ Collect(p) \/ EvaluateQuality(p)
           \/ BuildPacket(p) \/ LoadForPacket(p) \/ Reload(p)
  BY <1>2, ReadingOK
<1>3. CASE \/ Allocate(p) \/ FreezeConfiguration(p) \/ StagePrior(p) \/ BindPrior(p)
           \/ Fetch(p) \/ BindCollection(p) \/ FreezeEvidence(p) \/ SealFreeze(p)
           \/ StageQuality(p) \/ BindQuality(p)
           \/ StagePacket(p) \/ StageReducedReport(p) \/ BindPacket(p)
  BY <1>3, PreparingOK
<1>4. CASE \/ Fail(p) \/ BindFailure(p) \/ LoadForReport(p) \/ StageReport(p) \/ BindReport(p)
  BY <1>1, <1>4, FailOK, BindFailureOK, LoadForReportOK, StageReportOK, BindReportOK
<1>5. QED
  BY <1>2, <1>3, <1>4 DEF Preparation

LEMMA BriefingOK ==
  ASSUME IInv, IInv', OutcomeInv, NEW p \in Process,
         \/ \E d \in Drafts : Validate(p, d)
         \/ \E r \in ReducedReasons : Reduce(p, r)
         \/ Briefing(p)
  PROVE  StepOK(p)
<1>1. WorkOK /\ AttemptsOK /\ LogOK /\ DecisionOK(pc[p], job[p])
  BY DEF OutcomeInv, LogOK
<1>2. CASE \E d \in Drafts : Validate(p, d)
  BY <1>1, <1>2, ValidateOK
<1>3. CASE \E r \in ReducedReasons : Reduce(p, r)
  BY <1>3, ReduceOK
<1>4. CASE StageAttempt(p) \/ BindAttempt(p) \/ LoadForBrief(p)
  BY <1>1, <1>4, StageAttemptOK, BindAttemptOK, LoadForBriefOK
<1>5. CASE BindBrief(p) \/ StageReducedReason(p) \/ BindReduced(p)
  BY <1>1, <1>5, BindBriefOK, StageReducedReasonOK, BindReducedOK
<1>6. QED
  BY <1>2, <1>3, <1>4, <1>5 DEF Briefing

LEMMA NextKeepsOutcome ==
  ASSUME IInv, IInv', OutcomeInv, [Next]_vars
  PROVE  OutcomeInv'
<1>1. CASE UNCHANGED vars
  BY <1>1, NobodyKeepsOutcome DEF vars
<1>2. CASE \E p \in Preparer : Preparation(p) \/ PublishBundle(p) \/ Outage(p) \/ Crash(p)
  BY <1>2, PreparationOK, ReadingOK, StepKeepsOutcome, PublishKeepsOutcome DEF Process
<1>3. CASE \E p \in Host :
             \/ \E d \in Drafts : Validate(p, d)
             \/ \E r \in ReducedReasons : Reduce(p, r)
             \/ Briefing(p) \/ PublishBundle(p) \/ Crash(p)
  BY <1>3, BriefingOK, ReadingOK, StepKeepsOutcome, PublishKeepsOutcome DEF Process
<1>4. CASE WindowCloses \/ DeadlinePasses
  BY <1>4, NobodyKeepsOutcome DEF WindowCloses, DeadlinePasses, recordVars
<1>5. QED
  BY <1>1, <1>2, <1>3, <1>4 DEF Next

LEMMA OutcomeInit == Init => OutcomeInv
<1> SUFFICES ASSUME Init PROVE OutcomeInv
  OBVIOUS
<1>1. 1..Len(log) = {} /\ \A s : Of(s) = {}
  BY DEF Init, Of
<1>2. Attempts = {} /\ Cardinality(Of("VALIDATING")) = 0
  BY <1>1, FS_EmptySet DEF Attempts, AttemptsUpTo
<1>3. AttemptsOK /\ WorkOK /\ FinalOK
  BY <1>1, <1>2, FS_EmptySet DEF AttemptsOK, AttemptsInOrder, WorkOK, FinalOK
<1>4. \A p \in Process : DecisionOK(pc[p], job[p])
  BY DEF Init, DecisionOK
<1>5. PublicationMatchesRecord
  BY DEF Init, PublicationMatchesRecord
<1>6. QED
  BY <1>3, <1>4, <1>5 DEF OutcomeInv

\* What a host has counted and decided when it writes is what the record then says
\* (checkpoint_if_current and _checkpoint_unlocked).
THEOREM OutcomeInvariance == Spec => [](IInv /\ OutcomeInv)
<1>1. Init => IInv /\ OutcomeInv
  BY InitOK, OutcomeInit
<1>2. IInv /\ OutcomeInv /\ [Next]_vars => IInv' /\ OutcomeInv'
  BY NextKeeps, NextKeepsOutcome
<1>3. QED
  BY <1>1, <1>2, PTL DEF Spec

\* validate_staged_brief numbers the recorded attempts 1, 2, 3 in the order of their
\* checkpoints, stops after a valid one, and never records a fourth, although
\* hosts count them without the lock.
THEOREM AttemptsStayInOrder == Spec => []AttemptsInOrder
<1>1. OutcomeInv => AttemptsInOrder
  BY DEF OutcomeInv, AttemptsOK
<1>2. QED
  BY <1>1, OutcomeInvariance, PTL

\* The bundle that publish_atomically publishes says what the final checkpoint and
\* the recorded attempts say, whichever of the three publications wins the run.
THEOREM PublicationIsTrue == Spec => []PublicationMatchesRecord
<1>1. OutcomeInv => PublicationMatchesRecord
  BY DEF OutcomeInv
<1>2. QED
  BY <1>1, OutcomeInvariance, PTL

=============================================================================
