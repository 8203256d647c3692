--------------------------- MODULE RunEvidenceProofs ---------------------------
(***************************************************************************)
(* The inductive invariant of RunLifecycle and what follows from it, for   *)
(* all processes, drafts and collections.                                  *)
(*                                                                         *)
(* A process decides on the record as it loaded it and writes later.  What *)
(* it may still rely on are the facts that no write of another process     *)
(* undoes: the log keeps its prefix, staged artifacts are never removed    *)
(* and a cutoff, once set, stays.  CallOK collects those facts, step by    *)
(* step; RecordOK is what they let every append and every staged artifact  *)
(* maintain; SealOK is the one fact that needs the run lock.               *)
(***************************************************************************)
EXTENDS RunLifecycle, FiniteSetTheorems, TLAPS

(***************************************************************************)
(* The record                                                              *)
(***************************************************************************)

\* The checkpoints after which only failures and the publication of one follow.
FailedAt(i) ==
  \/ log[i].stage = "QUALITY_EVALUATED" /\ log[i].quality = "FAIL"
  \/ log[i].stage = "PREPARATION_FAILED" /\ log[i].cut # None

CutsOK ==
  \A i \in 1..Len(log) :
    /\ log[i].cut \in {None, cutoff}
    /\ log[i].stage \in {"EVIDENCE_FROZEN", "QUALITY_EVALUATED"} => log[i].cut # None

StagedOnce == \A a, b \in staged : a[1] = b[1] /\ a[1] # "attempt" => a = b

EvidenceOK ==
  /\ Collected \subseteq staged
  /\ cutoff # None => Collected = {<<"collection", cutoff>>}
  /\ cutoff # None => StagedPacket \subseteq {<<"research_packet", cutoff>>}
  /\ cutoff = None => StagedPacket = {}
  /\ FrozenPacket \subseteq StagedPacket
  /\ bundle # None => bundle.cut = cutoff

FailureOK ==
  \A i \in 1..Len(log) : FailedAt(i) =>
    /\ log[i].quality = "FAIL"
    /\ \A j \in 1..Len(log) : j > i =>
         log[j].quality = "FAIL" /\ log[j].stage \in {"PREPARATION_FAILED", "PUBLISHED"}
    /\ log[i].stage = "QUALITY_EVALUATED" => FrozenPacket = {}
    /\ bundle # None => bundle.kind = "operational"

RecordOK ==
  /\ CutsOK
  /\ StagedOnce
  /\ EvidenceOK
  /\ FailureOK
  /\ EvidenceFrozenOnce
  /\ IsFiniteSet(Attempts)

(***************************************************************************)
(* The calls                                                               *)
(***************************************************************************)

Failing == {"reload", "fail", "bind_failure", "report", "stage_report", "bind_report"}

AboutEvidence == {"seal_freeze", "quality", "stage_quality", "bind_quality", "packet",
                  "stage_packet", "stage_reduced", "bind_packet"}

\* What a call that goes on with a step and its locals has loaded.
LoadedOK(step, l) ==
  /\ l.seen <= Len(log)
  /\ step \notin {"idle", "allocate", "config", "dispatch", "reload", "publish"} => l.seen > 0
  /\ step = "reload" => Len(log) > 0
  /\ l.cut \in {None, cutoff}

\* What it has collected, frozen and evaluated.
CollectionOK(step, l) ==
  /\ step \in AboutEvidence \cup {"fetch", "bind_collection", "freeze", "load_packet"}
       => l.item \in Collections
  /\ step \in AboutEvidence => cutoff = l.item
  /\ step = "bind_collection" => <<"collection", l.item>> \in staged
  /\ step = "freeze" => <<"collection", l.item>> \in Collected
  /\ step \in {"stage_quality", "bind_quality"} /\ l.quality = "FAIL" => l.reason = "QUALITY"

\* What it is about to record or publish.
OutcomeOK(step, l) ==
  /\ step = "idle" => l = Fresh
  /\ step \in Failing => l.reason \in FailureReasons
  /\ step \in {"stage_reason", "bind_reduced"} => l.reason \in ReducedReasons
  /\ l.draft # None =>
       step \in {"stage_attempt", "bind_attempt", "publish", "bind_brief", "publish_bundle"}
  /\ step \in {"stage_attempt", "bind_attempt", "bind_brief"} => l.draft \in Drafts
  /\ step \in {"stage_attempt", "bind_attempt"} =>
       cutoff # None /\ Cardinality(AttemptsUpTo(l.seen)) \in 0..2
  /\ step = "publish_bundle" =>
       /\ l.draft # None \/ l.reason # "none"
       /\ l.draft # None \/ l.reason \in ReducedReasons => log[l.seen].quality = "PASS"

CallOK(step, l) == LoadedOK(step, l) /\ CollectionOK(step, l) /\ OutcomeOK(step, l)

\* Between the two files of freeze_evidence nobody else writes, and no checkpoint
\* has a cutoff yet.
SealOK ==
  \A p \in Process : pc[p] = "seal_freeze" =>
    /\ \A i \in 1..Len(log) : log[i].cut = None
    /\ \A q \in Process : pc[q] = "seal_freeze" => q = p

IInv ==
  /\ TypeOK
  /\ RecordOK
  /\ \A p \in Process : CallOK(pc[p], job[p])
  /\ SealOK

(***************************************************************************)
(* What no write undoes                                                    *)
(***************************************************************************)

LEMMA Appending ==
  ASSUME NEW S, NEW s \in Seq(S), NEW e \in S
  PROVE  /\ Append(s, e) \in Seq(S)
         /\ Len(Append(s, e)) = Len(s) + 1
         /\ \A i \in 1..Len(s) : Append(s, e)[i] = s[i]
         /\ Append(s, e)[Len(s) + 1] = e
OBVIOUS

\* No write truncates or rewrites the log, deletes an artifact or moves a cutoff.
Kept ==
  /\ Len(log) <= Len(log')
  /\ \A i \in 1..Len(log) : log'[i] = log[i]
  /\ staged \subseteq staged'
  /\ cutoff # None => cutoff' = cutoff

\* The attempts a call has counted stay those of the checkpoints it loaded.
LEMMA AttemptsKept ==
  ASSUME Len(log) <= Len(log'), \A i \in 1..Len(log) : log'[i] = log[i],
         TypeOK, TypeOK', NEW n \in Nat, n <= Len(log)
  PROVE  AttemptsUpTo(n)' = AttemptsUpTo(n)
<1>1. Len(log) \in Nat /\ Len(log') \in Nat
  BY DEF TypeOK
<1>2. {j \in Of("VALIDATING") : j <= n}' = {j \in Of("VALIDATING") : j <= n}
  BY <1>1 DEF Of
<1>3. \A j \in {j \in Of("VALIDATING") : j <= n} : log'[j] = log[j]
  BY <1>1 DEF Of
<1>4. QED
  BY <1>2, <1>3 DEF AttemptsUpTo

LEMMA CollectedKept ==
  ASSUME Kept, TypeOK, TypeOK'
  PROVE  Collected \subseteq Collected'
<1>1. Len(log) \in Nat /\ Len(log') \in Nat
  BY DEF TypeOK
<1>2. \A i \in Of("EVIDENCE_COLLECTED") : i \in Of("EVIDENCE_COLLECTED")' /\ log'[i] = log[i]
  BY <1>1 DEF Kept, Of
<1>3. QED
  BY <1>2 DEF Collected

\* Hence what one call relies on survives the writes of all the others.
LEMMA CallKept ==
  ASSUME Kept, TypeOK, TypeOK', NEW q \in Process, CallOK(pc[q], job[q]),
         pc'[q] = pc[q], job'[q] = job[q]
  PROVE  CallOK(pc[q], job[q])'
<1>1. job[q] \in Locals /\ job[q].seen \in Nat /\ Len(log) \in Nat /\ Len(log') \in Nat
  BY DEF TypeOK, Locals
<1>2. LoadedOK(pc[q], job[q])'
  BY <1>1 DEF CallOK, LoadedOK, Kept
<1>3. CollectionOK(pc[q], job[q])'
  BY CollectedKept, CollectionsAssumption DEF CallOK, CollectionOK, Kept, AboutEvidence
<1>4. OutcomeOK(pc[q], job[q])'
  <2>1. pc[q] \in {"stage_attempt", "bind_attempt"} =>
          AttemptsUpTo(job[q].seen)' = AttemptsUpTo(job[q].seen)
    BY <1>1, AttemptsKept DEF Kept, CallOK, LoadedOK
  <2>2. pc[q] = "publish_bundle" => log'[job[q].seen] = log[job[q].seen]
    <3>1. LoadedOK(pc[q], job[q])
      BY DEF CallOK
    <3>2. pc[q] = "publish_bundle" => job[q].seen > 0 /\ job[q].seen <= Len(log)
      BY <3>1 DEF LoadedOK
    <3>3. pc[q] = "publish_bundle" => job[q].seen \in 1..Len(log)
      BY <1>1, <3>2, SMT
    <3>4. QED
      BY <3>3 DEF Kept
  <2>3. OutcomeOK(pc[q], job[q])
    BY DEF CallOK
  <2>4. pc[q] \in {"stage_attempt", "bind_attempt"} => cutoff' # None
    BY <2>3 DEF Kept, OutcomeOK
  <2>5. QED
    BY <2>1, <2>2, <2>3, <2>4 DEF OutcomeOK
<1>5. QED
  BY <1>2, <1>3, <1>4 DEF CallOK

(***************************************************************************)
(* The shapes of a step                                                    *)
(***************************************************************************)

\* A call moves on; the others stay where they are.
LEMMA Moved ==
  ASSUME TypeOK, NEW p \in Process, NEW step \in Steps, NEW l \in Locals, Continue(p, step, l)
  PROVE  /\ pc' \in [Process -> Steps] /\ pc'[p] = step
         /\ job' \in [Process -> Locals] /\ job'[p] = l
         /\ \A q \in Process \ {p} : pc'[q] = pc[q] /\ job'[q] = job[q]
BY DEF TypeOK, Continue, GoTo

LEMMA KeepsLocals ==
  ASSUME TypeOK, NEW p \in Process, NEW step, GoTo(p, step), UNCHANGED job
  PROVE  Continue(p, step, job[p])
BY DEF TypeOK, Continue

LEMMA FreshLocals == Fresh \in Locals
BY DEF Fresh, Locals

\* Every step of process p.
LEMMA StepKeeps ==
  ASSUME IInv, NEW p \in Process, Kept, TypeOK', RecordOK', SealOK', CallOK(pc[p], job[p])',
         \A q \in Process \ {p} : pc'[q] = pc[q] /\ job'[q] = job[q]
  PROVE  IInv'
<1>1. ASSUME NEW q \in Process \ {p} PROVE CallOK(pc[q], job[q])'
  BY CallKept DEF IInv
<1>2. QED
  BY <1>1 DEF IInv

\* A process that is not about to seal leaves the lock as it found it.
LEMMA LockKept ==
  ASSUME SealOK, NEW p \in Process, pc'[p] # "seal_freeze",
         \A q \in Process \ {p} : pc'[q] = pc[q],
         log' = log \/ Unlocked
  PROVE  SealOK'
<1>1. CASE Unlocked
  BY <1>1 DEF SealOK, Unlocked
<1>2. CASE log' = log
  BY <1>2 DEF SealOK
<1>3. QED
  BY <1>1, <1>2

LEMMA UnchangedRecord ==
  ASSUME IInv, UNCHANGED <<log, staged, cutoff, bundle>>
  PROVE  RecordOK' /\ Kept
<1>1. log' = log /\ staged' = staged /\ cutoff' = cutoff /\ bundle' = bundle
  OBVIOUS
<1>2. RecordOK
  BY DEF IInv
<1>3. CutsOK' /\ StagedOnce' /\ EvidenceFrozenOnce'
  BY <1>1, <1>2 DEF RecordOK, CutsOK, StagedOnce, EvidenceFrozenOnce, Of
<1>4. EvidenceOK'
  BY <1>1, <1>2 DEF RecordOK, EvidenceOK, Collected, StagedPacket, FrozenPacket, Of, Named
<1>5. FailureOK'
  BY <1>1, <1>2 DEF RecordOK, FailureOK, FailedAt, FrozenPacket
<1>6. IsFiniteSet(Attempts)'
  BY <1>1, <1>2 DEF RecordOK, Attempts, AttemptsUpTo, Of
<1>7. Kept
  BY <1>1 DEF Kept, IInv, TypeOK
<1>8. QED
  BY <1>3, <1>4, <1>5, <1>6, <1>7 DEF RecordOK

\* A step that reads the record and decides.
LEMMA LocalStep ==
  ASSUME IInv, NEW p \in Process, NEW step \in Steps \ {"seal_freeze"}, NEW l \in Locals,
         Continue(p, step, l), CallOK(step, l),
         UNCHANGED <<log, staged, cutoff, bundle, window, overdue>>,
         created' \in BOOLEAN, faults' \in 0..MaxFaults
  PROVE  IInv'
<1>1. /\ pc' \in [Process -> Steps] /\ pc'[p] = step
      /\ job' \in [Process -> Locals] /\ job'[p] = l
      /\ \A q \in Process \ {p} : pc'[q] = pc[q] /\ job'[q] = job[q]
  BY Moved DEF IInv
<1>2. log' = log /\ staged' = staged /\ cutoff' = cutoff /\ bundle' = bundle
  OBVIOUS
<1>3. TypeOK'
  BY <1>1, <1>2 DEF IInv, TypeOK
<1>4. RecordOK' /\ Kept
  BY <1>2, UnchangedRecord
<1>5. SealOK'
  BY <1>1, <1>2, LockKept DEF IInv
<1>6. CallOK(pc[p], job[p])'
  <2>1. LoadedOK(pc[p], job[p])' /\ CollectionOK(pc[p], job[p])'
    BY <1>1, <1>2 DEF CallOK, LoadedOK, CollectionOK, Collected, Of
  <2>2. OutcomeOK(pc[p], job[p])'
    BY <1>1, <1>2 DEF CallOK, OutcomeOK, AttemptsUpTo, Of
  <2>3. QED
    BY <2>1, <2>2 DEF CallOK
<1>7. QED
  BY <1>1, <1>3, <1>4, <1>5, <1>6, StepKeeps

LEMMA IdleOK ==
  /\ TypeOK => CallOK("idle", Fresh)
  /\ TypeOK' => CallOK("idle", Fresh)'
BY CollectionsAssumption
   DEF TypeOK, CallOK, LoadedOK, CollectionOK, OutcomeOK, AboutEvidence, Failing, Fresh

\* A call that ends, returning or raising.
LEMMA FinishStep ==
  ASSUME IInv, NEW p \in Process, Finish(p), UNCHANGED <<recordVars, window, overdue>>,
         faults' \in 0..MaxFaults
  PROVE  IInv'
<1>1. TypeOK /\ created' \in BOOLEAN /\ UNCHANGED <<log, staged, cutoff, bundle>>
  BY DEF IInv, TypeOK, recordVars
<1>2. "idle" \in Steps \ {"seal_freeze"}
  BY DEF Steps
<1>3. Continue(p, "idle", Fresh)
  BY DEF Finish
<1>4. QED
  BY <1>1, <1>2, <1>3, IdleOK, FreshLocals, LocalStep

(***************************************************************************)
(* Another checkpoint                                                      *)
(***************************************************************************)

\* What every call but the one that seals the freeze appends.
Bindable(e) ==
  /\ e \in Checkpoints
  /\ e.stage # "EVIDENCE_FROZEN"
  /\ e.cut \in {None, cutoff}
  /\ e.stage = "QUALITY_EVALUATED" => cutoff # None
  /\ e.stage = "EVIDENCE_COLLECTED" => Named(e.artifacts, "collection") \subseteq staged
  /\ Named(e.artifacts, "research_packet") \subseteq StagedPacket
  /\ e.stage = "VALIDATING" => IsFiniteSet(Named(e.artifacts, "attempt"))

\* The log before and after an append.
Appends(e) ==
  /\ e \in Checkpoints
  /\ log \in Seq(Checkpoints) /\ log' \in Seq(Checkpoints)
  /\ Len(log) \in Nat /\ Len(log') = Len(log) + 1
  /\ \A i \in 1..Len(log) : log'[i] = log[i]
  /\ log'[Len(log) + 1] = e
  /\ UNCHANGED <<staged, cutoff, bundle>>

LEMMA AppendMaps ==
  ASSUME TypeOK, NEW e \in Checkpoints, log' = Append(log, e), UNCHANGED <<staged, cutoff, bundle>>
  PROVE  Appends(e) /\ Kept
<1>1. log \in Seq(Checkpoints) /\ Len(log) \in Nat
  BY DEF TypeOK
<1>2. /\ log' \in Seq(Checkpoints)
      /\ Len(log') = Len(log) + 1
      /\ \A i \in 1..Len(log) : log'[i] = log[i]
      /\ log'[Len(log) + 1] = e
  BY <1>1, Appending
<1>3. QED
  BY <1>1, <1>2 DEF Appends, Kept

LEMMA AppendAt ==
  ASSUME NEW e, Appends(e), NEW i \in 1..Len(log')
  PROVE  \/ i \in 1..Len(log) /\ log'[i] = log[i]
         \/ i = Len(log) + 1 /\ log'[i] = e
BY DEF Appends

LEMMA AppendSets ==
  ASSUME NEW e, Appends(e)
  PROVE  /\ \A s : Of(s)' = Of(s) \cup (IF e.stage = s THEN {Len(log) + 1} ELSE {})
         /\ FrozenPacket' = FrozenPacket \cup Named(e.artifacts, "research_packet")
         /\ Collected' = Collected \cup (IF e.stage = "EVIDENCE_COLLECTED"
                                         THEN Named(e.artifacts, "collection") ELSE {})
         /\ StagedPacket' = StagedPacket
<1>1. 1..Len(log') = 1..Len(log) \cup {Len(log) + 1}
  BY DEF Appends
<1>2. ASSUME NEW s PROVE Of(s)' = Of(s) \cup (IF e.stage = s THEN {Len(log) + 1} ELSE {})
  BY <1>1 DEF Appends, Of
<1>3. FrozenPacket' = FrozenPacket \cup Named(e.artifacts, "research_packet")
  BY <1>1 DEF Appends, FrozenPacket
<1>4. Collected' = Collected \cup (IF e.stage = "EVIDENCE_COLLECTED"
                                   THEN Named(e.artifacts, "collection") ELSE {})
  <2>1. \A i \in Of("EVIDENCE_COLLECTED") : i \in 1..Len(log)
    BY DEF Of
  <2>2. Of("EVIDENCE_COLLECTED")' =
          Of("EVIDENCE_COLLECTED") \cup (IF e.stage = "EVIDENCE_COLLECTED" THEN {Len(log) + 1} ELSE {})
    BY <1>2
  <2>3. QED
    BY <2>1, <2>2 DEF Appends, Collected
<1>5. StagedPacket' = StagedPacket
  BY DEF Appends, StagedPacket
<1>6. QED
  BY <1>2, <1>3, <1>4, <1>5

\* _checkpoint_unlocked, once the evidence is frozen.
LEMMA AcceptedOnceFrozen ==
  ASSUME NEW e, Accepts(e), cutoff # None, e.stage # "EVIDENCE_FROZEN"
  PROVE  /\ e.cut = cutoff
         /\ e.stage \in {"QUALITY_EVALUATED", "AWAITING_SYNTHESIS", "VALIDATING",
                         "PREPARATION_FAILED", "PUBLISHED"}
         /\ e.artifacts \subseteq staged
BY DEF Accepts, Freeze, QualityEvaluation, PacketWork, Synthesis, Validation,
       ValidatedPublication, ReducedPublication, OperationalPublication, PreparationFailure

\* valid_quality_evaluation comes before any packet.
LEMMA QualityBeforePacket ==
  ASSUME NEW e, Accepts(e), cutoff # None, e.stage = "QUALITY_EVALUATED"
  PROVE  StagedPacket = {} /\ Named(e.artifacts, "research_packet") = {}
<1>1. QualityEvaluation(e)
  BY DEF Accepts, Freeze, PacketWork, Synthesis, Validation, ValidatedPublication,
         ReducedPublication, OperationalPublication, PreparationFailure
<1>2. \A a \in e.artifacts : a[1] \in {"collection", "data_quality"}
  BY <1>1 DEF QualityEvaluation, Names
<1>3. QED
  BY <1>1, <1>2 DEF QualityEvaluation, Named

\* After a failure nothing but failures and their publication is accepted.
LEMMA AcceptedAfterFailure ==
  ASSUME TypeOK, RecordOK, NEW e, Accepts(e), Bindable(e), NEW i \in 1..Len(log), FailedAt(i)
  PROVE  /\ e.quality = "FAIL" /\ e.stage \in {"PREPARATION_FAILED", "PUBLISHED"}
         /\ Named(e.artifacts, "research_packet") \subseteq FrozenPacket
<1>1. Len(log) \in Nat /\ Len(log) \in 1..Len(log)
  BY DEF TypeOK
<1>2. cutoff # None
  BY DEF RecordOK, CutsOK, FailedAt
<1>3. /\ Latest.quality = "FAIL"
      /\ Latest.stage \in {"QUALITY_EVALUATED", "PREPARATION_FAILED", "PUBLISHED"}
  <2>1. CASE i = Len(log)
    BY <2>1 DEF Latest, FailedAt, RecordOK, FailureOK
  <2>2. CASE i # Len(log)
    BY <1>1, <2>2 DEF Latest, RecordOK, FailureOK
  <2>3. QED
    BY <2>1, <2>2
<1>4. ~Freeze(e) /\ ~QualityEvaluation(e)
  BY <1>3 DEF Bindable, Freeze, QualityEvaluation
<1>5. ~PacketWork(e)
  BY <1>3 DEF PacketWork, Synthesis, Validation, ValidatedPublication, ReducedPublication
<1>6. OperationalPublication(e) \/ PreparationFailure(e)
  BY <1>2, <1>4, <1>5 DEF Accepts
<1>7. e.artifacts = Latest.artifacts \cup Reason
  BY <1>6 DEF OperationalPublication, PreparationFailure
<1>8. Named(e.artifacts, "research_packet") \subseteq FrozenPacket
  BY <1>1, <1>7 DEF Named, Reason, FrozenPacket, Latest
<1>9. QED
  BY <1>6, <1>8 DEF OperationalPublication, PreparationFailure

\* An accepted checkpoint keeps the record in order.
LEMMA AppendKeepsCuts ==
  ASSUME TypeOK, RecordOK, NEW e, Accepts(e), Bindable(e), Appends(e)
  PROVE  CutsOK'
<1>1. e.stage = "QUALITY_EVALUATED" => e.cut # None
  BY AcceptedOnceFrozen DEF Bindable
<1>2. QED
  BY <1>1, AppendAt DEF Bindable, Appends, RecordOK, CutsOK

LEMMA AppendKeepsEvidence ==
  ASSUME TypeOK, RecordOK, NEW e, Accepts(e), Bindable(e), Appends(e)
  PROVE  EvidenceOK'
<1>1. /\ FrozenPacket' \subseteq StagedPacket'
      /\ StagedPacket' = StagedPacket /\ cutoff' = cutoff /\ bundle' = bundle /\ staged' = staged
  BY AppendSets DEF Bindable, Appends, RecordOK, EvidenceOK
<1>2. Collected' \subseteq staged'
  BY AppendSets DEF Bindable, Appends, RecordOK, EvidenceOK
<1>3. cutoff # None => Collected' = Collected
  BY AppendSets, AcceptedOnceFrozen DEF Bindable
<1>4. QED
  BY <1>1, <1>2, <1>3 DEF RecordOK, EvidenceOK

LEMMA AppendKeepsFailure ==
  ASSUME TypeOK, RecordOK, NEW e, Accepts(e), Bindable(e), Appends(e)
  PROVE  FailureOK'
<1> SUFFICES ASSUME NEW i \in 1..Len(log'), FailedAt(i)'
             PROVE  /\ log'[i].quality = "FAIL"
                    /\ \A j \in 1..Len(log') : j > i =>
                         /\ log'[j].quality = "FAIL"
                         /\ log'[j].stage \in {"PREPARATION_FAILED", "PUBLISHED"}
                    /\ log'[i].stage = "QUALITY_EVALUATED" => FrozenPacket' = {}
                    /\ bundle' # None => bundle'.kind = "operational"
  BY DEF FailureOK
<1>1. Len(log) \in Nat
  BY DEF Appends
<1>2. CASE i \in 1..Len(log)
  <2>1. FailedAt(i) /\ log'[i] = log[i]
    BY <1>2 DEF FailedAt, Appends
  <2>2. /\ e.quality = "FAIL" /\ e.stage \in {"PREPARATION_FAILED", "PUBLISHED"}
        /\ Named(e.artifacts, "research_packet") \subseteq FrozenPacket
    BY <1>2, <2>1, AcceptedAfterFailure
  <2>3. \A j \in 1..Len(log') : j > i =>
          log'[j].quality = "FAIL" /\ log'[j].stage \in {"PREPARATION_FAILED", "PUBLISHED"}
    BY <1>1, <1>2, <2>1, <2>2, AppendAt DEF RecordOK, FailureOK
  <2>4. log[i].stage = "QUALITY_EVALUATED" => FrozenPacket' = {}
    BY <1>2, <2>1, <2>2, AppendSets DEF RecordOK, FailureOK
  <2>5. bundle' = bundle
    BY DEF Appends
  <2>6. QED
    BY <1>2, <2>1, <2>3, <2>4, <2>5 DEF RecordOK, FailureOK
<1>3. CASE i = Len(log) + 1
  <2>1. log'[i] = e /\ \A j \in 1..Len(log') : ~(j > i)
    BY <1>1, <1>3 DEF Appends
  <2>2. Writable /\ cutoff # None
    BY <2>1 DEF FailedAt, Bindable, Accepts
  <2>3. e.stage = "QUALITY_EVALUATED" => FrozenPacket' = {}
    BY <2>2, QualityBeforePacket, AppendSets DEF RecordOK, EvidenceOK
  <2>4. e.quality = "FAIL"
    <3>1. CASE e.stage = "QUALITY_EVALUATED"
      BY <2>1, <3>1 DEF FailedAt
    <3>2. CASE e.stage = "PREPARATION_FAILED"
      <4>1. PreparationFailure(e)
        BY <2>2, <3>2 DEF Accepts, Freeze, QualityEvaluation, PacketWork, Synthesis, Validation,
                          ValidatedPublication, ReducedPublication, OperationalPublication
      <4>2. QED
        BY <4>1 DEF PreparationFailure
    <3>3. QED
      BY <2>1, <3>1, <3>2 DEF FailedAt
  <2>5. QED
    BY <2>1, <2>2, <2>3, <2>4 DEF Writable, Appends
<1>4. QED
  BY <1>2, <1>3, AppendAt

\* The freeze is never repeated, and what follows it carries the cutoff.
LEMMA AppendKeepsFreeze ==
  ASSUME TypeOK, RecordOK, NEW e, Accepts(e), Bindable(e), Appends(e)
  PROVE  EvidenceFrozenOnce'
<1> SUFFICES ASSUME NEW i \in Of("EVIDENCE_FROZEN")', NEW j \in 1..Len(log')
             PROVE  /\ j < i => log'[j].cut = None
                    /\ j > i => /\ log'[j].cut = cutoff'
                                /\ log'[j].stage \notin {"CONFIG_FROZEN", "EVIDENCE_COLLECTED",
                                                         "EVIDENCE_FROZEN"}
  BY DEF EvidenceFrozenOnce
<1>1. i \in Of("EVIDENCE_FROZEN") /\ i \in 1..Len(log) /\ Len(log) \in Nat /\ cutoff' = cutoff
  BY AppendSets DEF Bindable, Appends, Of
<1>2. cutoff # None
  BY <1>1 DEF RecordOK, CutsOK, Of
<1>3. CASE j \in 1..Len(log)
  BY <1>1, <1>3 DEF RecordOK, EvidenceFrozenOnce, Appends
<1>4. CASE j = Len(log) + 1
  BY <1>1, <1>2, <1>4, AcceptedOnceFrozen DEF Bindable, Appends
<1>5. QED
  BY <1>3, <1>4, AppendAt

\* The attempts on record after an append.
LEMMA AppendAttempts ==
  ASSUME NEW e, Appends(e)
  PROVE  Attempts' = Attempts \cup (IF e.stage = "VALIDATING"
                                    THEN Named(e.artifacts, "attempt") ELSE {})
<1>1. /\ {j \in Of("VALIDATING") : j <= Len(log)} = Of("VALIDATING")
      /\ {j \in Of("VALIDATING") : j <= Len(log)}' = Of("VALIDATING")'
  BY DEF Of, Appends
<1>2. Of("VALIDATING")' = Of("VALIDATING") \cup (IF e.stage = "VALIDATING" THEN {Len(log) + 1} ELSE {})
  BY AppendSets
<1>3. \A i \in Of("VALIDATING") : log'[i] = log[i]
  BY DEF Appends, Of
<1>4. log'[Len(log) + 1] = e
  BY DEF Appends
<1>5. Attempts = UNION {Named(log[i].artifacts, "attempt") : i \in Of("VALIDATING")}
  BY <1>1 DEF Attempts, AttemptsUpTo
<1>6. Attempts' = UNION {Named(log'[i].artifacts, "attempt") : i \in Of("VALIDATING")'}
  BY <1>1 DEF Attempts, AttemptsUpTo
<1>7. QED
  BY <1>2, <1>3, <1>4, <1>5, <1>6

LEMMA AppendKeepsRecord ==
  ASSUME TypeOK, RecordOK, NEW e, Accepts(e), Bindable(e), Appends(e)
  PROVE  RecordOK'
<1>1. StagedOnce'
  BY DEF Appends, RecordOK, StagedOnce
<1>2. IsFiniteSet(Attempts)'
  <2>1. IsFiniteSet(Attempts)
    BY DEF RecordOK
  <2>2. CASE e.stage = "VALIDATING"
    <3>1. Attempts' = Attempts \cup Named(e.artifacts, "attempt")
      BY <2>2, AppendAttempts
    <3>2. IsFiniteSet(Named(e.artifacts, "attempt"))
      BY <2>2 DEF Bindable
    <3>3. QED
      BY <2>1, <3>1, <3>2, FS_Union
  <2>3. CASE e.stage # "VALIDATING"
    BY <2>1, <2>3, AppendAttempts
  <2>4. QED
    BY <2>2, <2>3
<1>3. QED
  BY <1>1, <1>2, AppendKeepsCuts, AppendKeepsEvidence, AppendKeepsFailure, AppendKeepsFreeze
     DEF RecordOK

\* A call that appends a checkpoint and goes on, ends or raises.
LEMMA BindStep ==
  ASSUME IInv, NEW p \in Process, NEW admitted, NEW e, NEW step \in Steps \ {"seal_freeze"},
         Bind(p, admitted, e, step), admitted /\ Accepts(e) => Bindable(e),
         admitted /\ Accepts(e) /\ Appends(e) /\ Kept /\ step # "idle"
            /\ pc'[p] = step
            /\ job'[p] = [job[p] EXCEPT !.seen = Len(log) + 1, !.cut = cutoff]
           => CallOK(pc[p], job[p])'
  PROVE  IInv'
<1>1. CASE log' = log /\ Finish(p)
  <2>1. UNCHANGED <<recordVars, window, overdue>> /\ faults' \in 0..MaxFaults
    BY <1>1 DEF Bind, recordVars, IInv, TypeOK
  <2>2. QED
    BY <1>1, <2>1, FinishStep
<1>2. CASE admitted /\ Accepts(e) /\ log' = Append(log, e)
  <2> DEFINE l == IF step = "idle" THEN Fresh
                  ELSE [job[p] EXCEPT !.seen = Len(log) + 1, !.cut = cutoff]
  <2>1. TypeOK /\ RecordOK /\ SealOK /\ Bindable(e) /\ e \in Checkpoints
    BY <1>2 DEF IInv, Bindable
  <2>2. Continue(p, step, l) /\ Unlocked
    BY <1>2, <2>1 DEF Bind, Accepts
  <2>3. l \in Locals
    <3>1. job[p] \in Locals /\ Len(log) + 1 \in Nat /\ cutoff \in Collections \cup {None}
      BY <2>1 DEF TypeOK
    <3>2. [job[p] EXCEPT !.seen = Len(log) + 1, !.cut = cutoff] \in Locals
      BY <3>1 DEF Locals
    <3>3. QED
      BY <3>2, FreshLocals
  <2>4. /\ pc' \in [Process -> Steps] /\ pc'[p] = step
        /\ job' \in [Process -> Locals] /\ job'[p] = l
        /\ \A q \in Process \ {p} : pc'[q] = pc[q] /\ job'[q] = job[q]
    BY <2>1, <2>2, <2>3, Moved
  <2>5. Appends(e) /\ Kept
    BY <1>2, <2>1, AppendMaps DEF Bind
  <2>6. TypeOK'
    BY <2>1, <2>4, <2>5 DEF TypeOK, Bind, Appends
  <2>7. RecordOK'
    BY <1>2, <2>1, <2>5, AppendKeepsRecord
  <2>8. SealOK'
    BY <2>1, <2>2, <2>4, LockKept
  <2>9. CallOK(pc[p], job[p])'
    <3>1. CASE step = "idle"
      <4>1. pc'[p] = "idle" /\ job'[p] = Fresh
        BY <2>4, <3>1
      <4>2. CallOK("idle", Fresh)'
        BY <2>6, IdleOK
      <4>3. QED
        BY <4>1, <4>2
    <3>2. CASE step # "idle"
      BY <1>2, <2>4, <2>5, <3>2
    <3>3. QED
      BY <3>1, <3>2
  <2>10. QED
    BY <2>4, <2>5, <2>6, <2>7, <2>8, <2>9, StepKeeps
<1>3. QED
  BY <1>1, <1>2 DEF Bind

(***************************************************************************)
(* Another staged artifact                                                 *)
(***************************************************************************)

\* stage_artifact keeps one artifact of a name, and packets are about the cutoff.
LEMMA StageKeepsRecord ==
  ASSUME TypeOK, RecordOK, NEW a, Stageable(a),
         a[1] = "research_packet" => cutoff # None /\ a = <<"research_packet", cutoff>>,
         staged' = staged \cup {a}, UNCHANGED <<log, cutoff, bundle>>
  PROVE  RecordOK' /\ Kept
<1>1. StagedOnce'
  BY DEF RecordOK, StagedOnce, Stageable, Named
<1>2. CutsOK' /\ EvidenceFrozenOnce' /\ FailureOK'
  BY DEF RecordOK, CutsOK, EvidenceFrozenOnce, FailureOK, FailedAt, FrozenPacket, Of
<1>3. EvidenceOK'
  <2>1. Collected' = Collected /\ FrozenPacket' = FrozenPacket
    BY DEF Collected, FrozenPacket, Of
  <2>2. StagedPacket \subseteq StagedPacket'
    BY DEF StagedPacket, Named
  <2>3. StagedPacket' \subseteq StagedPacket \cup {<<"research_packet", cutoff>>}
    BY DEF StagedPacket, Named
  <2>4. cutoff = None => StagedPacket' = StagedPacket
    BY DEF StagedPacket, Named
  <2>5. QED
    BY <2>1, <2>2, <2>3, <2>4 DEF RecordOK, EvidenceOK
<1>4. IsFiniteSet(Attempts)'
  BY DEF RecordOK, Attempts, AttemptsUpTo, Of
<1>5. Kept
  BY DEF Kept, TypeOK
<1>6. QED
  BY <1>1, <1>2, <1>3, <1>4, <1>5 DEF RecordOK

\* A call that stages an artifact and goes on, or raises.
LEMMA StageStep ==
  ASSUME IInv, NEW p \in Process, NEW a \in Artifacts, NEW step \in Steps \ {"seal_freeze"},
         Stage(p, a, step),
         a[1] = "research_packet" => cutoff # None /\ a = <<"research_packet", cutoff>>,
         pc'[p] = step /\ job'[p] = job[p] /\ a \in staged' /\ UNCHANGED <<log, cutoff>>
           => CallOK(pc[p], job[p])'
  PROVE  IInv'
<1>1. CASE Finish(p) /\ staged' = staged
  <2>1. UNCHANGED <<recordVars, window, overdue>> /\ faults' \in 0..MaxFaults
    BY <1>1 DEF Stage, recordVars, IInv, TypeOK
  <2>2. QED
    BY <1>1, <2>1, FinishStep
<1>2. CASE Stageable(a) /\ staged' = staged \cup {a} /\ GoTo(p, step) /\ UNCHANGED job
  <2>1. TypeOK /\ RecordOK /\ SealOK /\ Unlocked
    BY DEF IInv, Stage
  <2>2. Continue(p, step, job[p]) /\ job[p] \in Locals
    BY <1>2, <2>1, KeepsLocals DEF TypeOK
  <2>3. /\ pc' \in [Process -> Steps] /\ pc'[p] = step
        /\ job' \in [Process -> Locals] /\ job'[p] = job[p]
        /\ \A q \in Process \ {p} : pc'[q] = pc[q] /\ job'[q] = job[q]
    BY <2>1, <2>2, Moved
  <2>4. UNCHANGED <<log, cutoff, bundle>>
    BY DEF Stage
  <2>5. TypeOK'
    BY <1>2, <2>1, <2>3 DEF TypeOK, Stage
  <2>6. RecordOK' /\ Kept
    BY <1>2, <2>1, <2>4, StageKeepsRecord
  <2>7. SealOK'
    BY <2>1, <2>3, LockKept
  <2>8. CallOK(pc[p], job[p])'
    BY <1>2, <2>3, <2>4
  <2>9. QED
    BY <2>3, <2>5, <2>6, <2>7, <2>8, StepKeeps
<1>3. QED
  BY <1>1, <1>2 DEF Stage

(***************************************************************************)
(* The actions                                                             *)
(***************************************************************************)

\* A step that reads the record as it is, in terms of the model's definitions.
LEMMA Decides ==
  ASSUME IInv, NEW p \in Process, NEW step \in Steps \ {"seal_freeze"}, NEW l \in Locals,
         Continue(p, step, l), CallOK(step, l), UNCHANGED <<recordVars, envVars>>
  PROVE  IInv'
BY LocalStep DEF recordVars, envVars, IInv, TypeOK

LEMMA Ends ==
  ASSUME IInv, NEW p \in Process, Finish(p), UNCHANGED <<recordVars, envVars>>
  PROVE  IInv'
BY FinishStep DEF envVars, IInv, TypeOK

LEMMA Stays ==
  ASSUME IInv, NEW p \in Process, NEW step \in Steps \ {"seal_freeze"},
         GoTo(p, step), UNCHANGED job, CallOK(step, job[p]), UNCHANGED <<recordVars, envVars>>
  PROVE  IInv'
<1>1. job[p] \in Locals /\ Continue(p, step, job[p])
  BY KeepsLocals DEF IInv, TypeOK
<1>2. QED
  BY <1>1, Decides

\* What a call has at hand.
LEMMA AtHand ==
  ASSUME IInv, NEW p \in Process
  PROVE  /\ CallOK(pc[p], job[p]) /\ pc[p] \in Steps
         /\ job[p] \in Locals /\ Loaded(p) \in Locals
         /\ \A c \in Collections : [Loaded(p) EXCEPT !.item = c] \in Locals
         /\ \A c \in Collections : [job[p] EXCEPT !.item = c] \in Locals
         /\ Len(log) \in Nat /\ cutoff \in Collections \cup {None}
<1>1. /\ CallOK(pc[p], job[p]) /\ pc[p] \in Steps /\ job[p] \in Locals
      /\ Len(log) \in Nat /\ cutoff \in Collections \cup {None}
  BY DEF IInv, TypeOK
<1>2. Loaded(p) \in Locals
  BY <1>1 DEF Loaded, Locals
<1>3. QED
  BY <1>1, <1>2 DEF Locals

LEMMA SeenAt ==
  ASSUME IInv, NEW p \in Process,
         pc[p] \notin {"idle", "allocate", "config", "dispatch", "reload", "publish"}
  PROVE  /\ job[p].seen \in 1..Len(log) /\ Seen(p) \in Checkpoints
         /\ Len(log) \in 1..Len(log) /\ Latest \in Checkpoints
<1>1. Len(log) \in Nat /\ job[p].seen \in Nat /\ log \in Seq(Checkpoints)
  BY DEF IInv, TypeOK, Locals
<1>2. job[p].seen > 0 /\ job[p].seen <= Len(log)
  BY DEF IInv, CallOK, LoadedOK
<1>3. QED
  BY <1>1, <1>2 DEF Seen, Latest

LEMMA PrepareKeeps ==
  ASSUME IInv, NEW p \in Process, Prepare(p)
  PROVE  IInv'
<1>1. CallOK(pc[p], job[p]) /\ job[p] \in Locals /\ Loaded(p) \in Locals /\ Len(log) \in Nat
  BY AtHand
<1>2. CASE Continue(p, "dispatch", Loaded(p))
  <2>1. CallOK("dispatch", Loaded(p))
    BY <1>1 DEF Prepare, CallOK, LoadedOK, CollectionOK, OutcomeOK, AboutEvidence, Failing,
                Loaded, Fresh, Locals
  <2>2. QED
    BY <1>1, <1>2, <2>1, Decides DEF Prepare, Steps
<1>3. CASE GoTo(p, "allocate") /\ UNCHANGED job
  <2>1. CallOK("allocate", job[p])
    BY <1>1 DEF Prepare, CallOK, LoadedOK, CollectionOK, OutcomeOK, AboutEvidence, Failing, Fresh
  <2>2. QED
    BY <1>3, <2>1, Stays DEF Prepare, Steps
<1>4. QED
  BY <1>2, <1>3 DEF Prepare

LEMMA AllocateKeeps ==
  ASSUME IInv, NEW p \in Process, Allocate(p)
  PROVE  IInv'
<1>1. CallOK(pc[p], job[p]) /\ job[p] \in Locals
  BY AtHand
<1>2. CallOK("config", job[p])
  BY <1>1 DEF Allocate, CallOK, LoadedOK, CollectionOK, OutcomeOK, AboutEvidence, Failing
<1>3. Continue(p, "config", job[p])
  BY KeepsLocals DEF Allocate, IInv
<1>4. QED
  BY <1>1, <1>2, <1>3, LocalStep DEF Allocate, envVars, Steps, IInv, TypeOK

LEMMA FreezeConfigurationKeeps ==
  ASSUME IInv, NEW p \in Process, FreezeConfiguration(p)
  PROVE  IInv'
<1> DEFINE e == Checkpoint("CONFIG_FROZEN", "CREATED", "PASS", None, {})
<1>1. CallOK(pc[p], job[p]) /\ job[p] \in Locals /\ Len(log) \in Nat
  BY AtHand
<1>2. Bindable(e)
  BY DEF Bindable, Checkpoint, Checkpoints, Stages, PreSynthesis, ExecutionStatuses, Named
<1>3. ASSUME Appends(e), pc'[p] = "dispatch",
             job'[p] = [job[p] EXCEPT !.seen = Len(log) + 1, !.cut = cutoff]
      PROVE  CallOK(pc[p], job[p])'
  BY <1>1, <1>3 DEF FreezeConfiguration, Appends, CallOK, LoadedOK, CollectionOK, OutcomeOK,
                    AboutEvidence, Failing, Locals
<1>4. "dispatch" \in Steps \ {"seal_freeze"}
  BY DEF Steps
<1>5. QED
  BY <1>2, <1>3, <1>4, BindStep DEF FreezeConfiguration

\* A call that turns to the failure it has met.
LEMMA FailWithKeeps ==
  ASSUME IInv, NEW p \in Process, NEW reason \in FailureReasons, FailWith(p, reason),
         job[p].seen > 0, UNCHANGED <<recordVars, window, overdue>>, faults' \in 0..MaxFaults
  PROVE  IInv'
<1> DEFINE l == [Fresh EXCEPT !.seen = job[p].seen, !.cut = job[p].cut, !.reason = reason]
<1>1. CallOK(pc[p], job[p]) /\ job[p] \in Locals
  BY AtHand
<1>2. l \in Locals
  BY <1>1 DEF Locals, Fresh
<1>3. CallOK("fail", l)
  BY <1>1 DEF CallOK, LoadedOK, CollectionOK, OutcomeOK, AboutEvidence, Failing, Fresh, Locals
<1>4. Continue(p, "fail", l)
  BY DEF FailWith
<1>5. UNCHANGED <<log, staged, cutoff, bundle, window, overdue>> /\ created' \in BOOLEAN
  BY DEF recordVars, IInv, TypeOK
<1>6. "fail" \in Steps \ {"seal_freeze"}
  BY DEF Steps
<1>7. QED
  BY <1>2, <1>3, <1>4, <1>5, <1>6, LocalStep

LEMMA ReloadWithKeeps ==
  ASSUME IInv, NEW p \in Process, NEW reason \in FailureReasons,
         Continue(p, "reload", [Fresh EXCEPT !.reason = reason]),
         pc[p] \notin {"idle", "allocate", "config", "dispatch", "reload", "publish"},
         UNCHANGED <<recordVars, window, overdue>>, faults' \in 0..MaxFaults
  PROVE  IInv'
<1> DEFINE l == [Fresh EXCEPT !.reason = reason]
<1>1. Len(log) \in Nat /\ Len(log) > 0
  BY AtHand, SeenAt
<1>2. l \in Locals
  BY DEF Locals, Fresh
<1>3. CallOK("reload", l)
  BY <1>1 DEF CallOK, LoadedOK, CollectionOK, OutcomeOK, AboutEvidence, Failing, Fresh
<1>4. UNCHANGED <<log, staged, cutoff, bundle, window, overdue>> /\ created' \in BOOLEAN
  BY DEF recordVars, IInv, TypeOK
<1>5. "reload" \in Steps \ {"seal_freeze"}
  BY DEF Steps
<1>6. QED
  BY <1>2, <1>3, <1>4, <1>5, LocalStep

LEMMA ExpireKeeps ==
  ASSUME IInv, NEW p \in Process, Expire(p), UNCHANGED <<recordVars, envVars>>,
         pc[p] \notin {"idle", "allocate", "config", "dispatch", "reload", "publish"}
  PROVE  IInv'
<1>1. "DEADLINE_EXCEEDED" \in FailureReasons /\ faults' \in 0..MaxFaults
  BY DEF FailureReasons, IInv, TypeOK, envVars
<1>2. QED
  BY <1>1, ReloadWithKeeps DEF Expire, envVars

\* The artifacts a call finds again.
LEMMA StagedArtifact ==
  ASSUME TypeOK, NEW a \in staged
  PROVE  /\ a[1] \in {"collection", "research_packet"} =>
              a[2] \in Collections /\ a = <<a[1], a[2]>>
         /\ a[1] = "data_quality" => a[2] \in {"PASS", "FAIL"} /\ a = <<a[1], a[2]>>
         /\ a[1] = "operational_reason" => a[2] \in FailureReasons
<1>1. a \in Artifacts
  BY DEF TypeOK
<1>2. CASE a \in {<<name, c>> : name \in {"collection", "research_packet", "reduced_report"},
                              c \in Collections}
  BY <1>2
<1>3. CASE a \in {<<"data_quality", q>> : q \in {"PASS", "FAIL"}}
  BY <1>3
<1>4. CASE a \in {<<"operational_reason", r>> : r \in FailureReasons}
  BY <1>4
<1>5. CASE a \in {<<"prior">>} \cup {<<"reduced_reason", r>> : r \in ReducedReasons}
                  \cup {<<"attempt", d, k>> : d \in Drafts, k \in 1..3}
  BY <1>5
<1>6. QED
  BY <1>1, <1>2, <1>3, <1>4, <1>5 DEF Artifacts

LEMMA DispatchKeeps ==
  ASSUME IInv, NEW p \in Process, Dispatch(p)
  PROVE  IInv'
<1> DEFINE now == IF bundle = None THEN staged ELSE {}
<1>1. /\ CallOK(pc[p], job[p]) /\ job[p] \in Locals /\ pc[p] = "dispatch"
      /\ \A c \in Collections : [job[p] EXCEPT !.item = c] \in Locals
      /\ UNCHANGED <<recordVars, envVars>>
  BY AtHand DEF Dispatch
<1>2. UNCHANGED <<window, overdue>> /\ faults' \in 0..MaxFaults /\ job[p].seen \in Nat
  BY <1>1 DEF envVars, IInv, TypeOK, Locals
<1>3. CASE Finish(p)
  BY <1>1, <1>3, Ends
<1>4. CASE job[p].seen > 0 /\ FailWith(p, "MISSED_WINDOW")
  BY <1>1, <1>2, <1>4, FailWithKeeps DEF FailureReasons
<1>5. CASE job[p].seen > 0 /\ \E a \in Named(now, "operational_reason") : FailWith(p, a[2])
  <2>1. PICK a \in staged : a[1] = "operational_reason" /\ FailWith(p, a[2])
    BY <1>5 DEF Named
  <2>2. a[2] \in FailureReasons
    BY <2>1, StagedArtifact DEF IInv
  <2>3. QED
    BY <1>1, <1>2, <1>5, <2>1, <2>2, FailWithKeeps
<1>6. CASE job[p].seen > 0 /\ \E a \in Named(now, "research_packet") :
                Continue(p, "load_packet", [job[p] EXCEPT !.item = a[2]])
  <2>1. PICK a \in staged : a[1] = "research_packet" /\
                Continue(p, "load_packet", [job[p] EXCEPT !.item = a[2]])
    BY <1>6 DEF Named
  <2>2. a[2] \in Collections
    BY <2>1, StagedArtifact DEF IInv
  <2>3. CallOK("load_packet", [job[p] EXCEPT !.item = a[2]])
    BY <1>1, <1>6, <2>2 DEF CallOK, LoadedOK, CollectionOK, OutcomeOK, AboutEvidence, Failing, Locals
  <2>4. "load_packet" \in Steps \ {"seal_freeze"}
    BY DEF Steps
  <2>5. QED
    BY <1>1, <2>1, <2>2, <2>3, <2>4, Decides
<1>7. CASE job[p].seen > 0 /\ GoTo(p, "prior") /\ UNCHANGED job
  <2>1. CallOK("prior", job[p])
    BY <1>1, <1>7 DEF CallOK, LoadedOK, CollectionOK, OutcomeOK, AboutEvidence, Failing
  <2>2. QED
    BY <1>1, <1>7, <2>1, Stays DEF Steps
<1>8. QED
  BY <1>3, <1>4, <1>5, <1>6, <1>7 DEF Dispatch

LEMMA SelectPriorKeeps ==
  ASSUME IInv, NEW p \in Process, SelectPrior(p)
  PROVE  IInv'
<1>1. /\ CallOK(pc[p], job[p]) /\ job[p] \in Locals /\ Loaded(p) \in Locals /\ pc[p] = "prior"
      /\ Len(log) \in Nat /\ UNCHANGED <<recordVars, envVars>>
  BY AtHand DEF SelectPrior
<1>2. job[p].seen \in 1..Len(log)
  BY <1>1, SeenAt
<1>3. CASE Expire(p)
  BY <1>1, <1>3, ExpireKeeps
<1>4. CASE Finish(p)
  BY <1>1, <1>4, Ends
<1>5. CASE GoTo(p, "collect") /\ UNCHANGED job
  <2>1. CallOK("collect", job[p])
    BY <1>1, <1>2 DEF CallOK, LoadedOK, CollectionOK, OutcomeOK, AboutEvidence, Failing
  <2>2. QED
    BY <1>1, <1>5, <2>1, Stays DEF Steps
<1>6. CASE Continue(p, "stage_prior", Loaded(p))
  <2>1. CallOK("stage_prior", Loaded(p))
    BY <1>1, <1>2 DEF CallOK, LoadedOK, CollectionOK, OutcomeOK, AboutEvidence, Failing, Loaded, Locals
  <2>2. QED
    BY <1>1, <1>6, <2>1, Decides DEF Steps
<1>7. QED
  BY <1>3, <1>4, <1>5, <1>6 DEF SelectPrior

LEMMA StagePriorKeeps ==
  ASSUME IInv, NEW p \in Process, StagePrior(p)
  PROVE  IInv'
<1> DEFINE a == <<"prior">>
<1>1. CallOK(pc[p], job[p]) /\ pc[p] = "stage_prior" /\ Stage(p, a, "bind_prior")
  BY AtHand DEF StagePrior
<1>2. ASSUME pc'[p] = "bind_prior", job'[p] = job[p], UNCHANGED <<log, cutoff>>
      PROVE  CallOK(pc[p], job[p])'
  BY <1>1, <1>2 DEF CallOK, LoadedOK, CollectionOK, OutcomeOK, AboutEvidence, Failing
<1>3. a \in Artifacts /\ a[1] # "research_packet"
  BY DEF Artifacts
<1>4. "bind_prior" \in Steps \ {"seal_freeze"}
  BY DEF Steps
<1> HIDE DEF a
<1>5. QED
  BY <1>1, <1>2, <1>3, <1>4, StageStep

LEMMA BindPriorKeeps ==
  ASSUME IInv, NEW p \in Process, BindPrior(p)
  PROVE  IInv'
<1> DEFINE e == Checkpoint("CONFIG_FROZEN", Seen(p).execution, Seen(p).quality, None, {<<"prior">>})
<1>1. /\ CallOK(pc[p], job[p]) /\ job[p] \in Locals /\ pc[p] = "bind_prior"
      /\ Len(log) \in Nat /\ Seen(p) \in Checkpoints
      /\ Bind(p, Current(p), e, "collect")
  BY AtHand, SeenAt DEF BindPrior
<1>2. Bindable(e)
  <2>1. e \in Checkpoints
    BY <1>1 DEF Checkpoint, Checkpoints, Stages, PreSynthesis, Artifacts
  <2>2. Named({<<"prior">>}, "research_packet") = {}
    BY DEF Named
  <2>3. QED
    BY <2>1, <2>2 DEF Bindable, Checkpoint
<1>3. ASSUME Appends(e), pc'[p] = "collect",
             job'[p] = [job[p] EXCEPT !.seen = Len(log) + 1, !.cut = cutoff]
      PROVE  CallOK(pc[p], job[p])'
  BY <1>1, <1>3 DEF Appends, CallOK, LoadedOK, CollectionOK, OutcomeOK, AboutEvidence, Failing, Locals
<1>4. "collect" \in Steps \ {"seal_freeze"}
  BY DEF Steps
<1>5. QED
  BY <1>1, <1>2, <1>3, <1>4, BindStep

LEMMA CollectedArtifact ==
  ASSUME IInv, NEW a \in Collected
  PROVE  /\ a[2] \in Collections /\ a = <<"collection", a[2]>>
         /\ cutoff # None => a[2] = cutoff
<1>1. a \in staged /\ a[1] = "collection"
  BY DEF IInv, RecordOK, EvidenceOK, Collected, Named
<1>2. a[2] \in Collections /\ a = <<"collection", a[2]>>
  BY <1>1, StagedArtifact DEF IInv
<1>3. cutoff # None => a = <<"collection", cutoff>>
  BY DEF IInv, RecordOK, EvidenceOK
<1>4. QED
  BY <1>2, <1>3

\* Locals with a collection picked at load.
LEMMA LoadedWith ==
  ASSUME IInv, NEW p \in Process, NEW c \in Collections
  PROVE  LET l == [Loaded(p) EXCEPT !.item = c]
         IN  /\ l \in Locals
             /\ l.seen = Len(log) /\ l.cut = cutoff /\ l.item = c
             /\ l.quality = job[p].quality /\ l.reason = job[p].reason /\ l.draft = job[p].draft
<1>1. job[p] \in Locals /\ Loaded(p) \in Locals /\ [Loaded(p) EXCEPT !.item = c] \in Locals
  BY AtHand
<1>2. /\ Loaded(p).seen = Len(log) /\ Loaded(p).cut = cutoff
      /\ Loaded(p).quality = job[p].quality /\ Loaded(p).reason = job[p].reason
      /\ Loaded(p).draft = job[p].draft
  BY <1>1 DEF Loaded, Locals
<1>3. QED
  BY <1>1, <1>2 DEF Locals

\* A call that goes on with the collection it picked.
LEMMA PickedKeeps ==
  ASSUME IInv, NEW p \in Process, pc[p] = "collect", NEW c \in Collections,
         NEW step \in {"fetch", "bind_collection", "freeze", "quality"},
         step = "bind_collection" => <<"collection", c>> \in staged,
         step = "freeze" => <<"collection", c>> \in Collected,
         step = "quality" => c = cutoff,
         Continue(p, step, [Loaded(p) EXCEPT !.item = c]), UNCHANGED <<recordVars, envVars>>
  PROVE  IInv'
<1> DEFINE l == [Loaded(p) EXCEPT !.item = c]
<1>1. CallOK(pc[p], job[p]) /\ Len(log) \in Nat /\ Len(log) > 0
  BY AtHand, SeenAt
<1>2. /\ l \in Locals /\ l.seen = Len(log) /\ l.cut = cutoff /\ l.item = c
      /\ l.draft = job[p].draft
  BY LoadedWith
<1>3. Continue(p, step, l) /\ step \in Steps \ {"seal_freeze"}
  BY DEF Steps
<1> HIDE DEF l
<1>4. LoadedOK(step, l)
  BY <1>1, <1>2 DEF LoadedOK
<1>5. CollectionOK(step, l)
  BY <1>2 DEF CollectionOK, AboutEvidence
<1>6. OutcomeOK(step, l)
  BY <1>1, <1>2 DEF CallOK, OutcomeOK, Failing
<1>7. QED
  BY <1>2, <1>3, <1>4, <1>5, <1>6, Decides DEF CallOK

LEMMA CollectKeeps ==
  ASSUME IInv, NEW p \in Process, Collect(p)
  PROVE  IInv'
<1>1. pc[p] = "collect" /\ UNCHANGED <<recordVars, envVars>>
  BY DEF Collect
<1>2. CASE Finish(p)
  BY <1>1, <1>2, Ends
<1>3. CASE /\ cutoff # None
           /\ \E a \in Collected : Continue(p, "quality", [Loaded(p) EXCEPT !.item = a[2]])
  BY <1>1, <1>3, CollectedArtifact, PickedKeeps
<1>4. CASE \E a \in Collected : Continue(p, "freeze", [Loaded(p) EXCEPT !.item = a[2]])
  BY <1>1, <1>4, CollectedArtifact, PickedKeeps
<1>5. CASE \E a \in Named(staged, "collection") :
             Continue(p, "bind_collection", [Loaded(p) EXCEPT !.item = a[2]])
  <2>1. PICK a \in staged : a[1] = "collection" /\
                Continue(p, "bind_collection", [Loaded(p) EXCEPT !.item = a[2]])
    BY <1>5 DEF Named
  <2>2. a[2] \in Collections /\ <<"collection", a[2]>> \in staged
    BY <2>1, StagedArtifact DEF IInv
  <2>3. QED
    BY <1>1, <2>1, <2>2, PickedKeeps
<1>6. CASE \E c \in Collections : Continue(p, "fetch", [Loaded(p) EXCEPT !.item = c])
  BY <1>1, <1>6, PickedKeeps
<1>7. QED
  BY <1>2, <1>3, <1>4, <1>5, <1>6 DEF Collect

LEMMA FetchKeeps ==
  ASSUME IInv, NEW p \in Process, Fetch(p)
  PROVE  IInv'
<1> DEFINE a == <<"collection", job[p].item>>
<1>1. CallOK(pc[p], job[p]) /\ pc[p] = "fetch" /\ Stage(p, a, "bind_collection")
  BY AtHand DEF Fetch
<1>2. job[p].item \in Collections
  BY <1>1 DEF CallOK, CollectionOK
<1>3. ASSUME pc'[p] = "bind_collection", job'[p] = job[p], UNCHANGED <<log, cutoff>>, a \in staged'
      PROVE  CallOK(pc[p], job[p])'
  BY <1>1, <1>3 DEF CallOK, LoadedOK, CollectionOK, OutcomeOK, AboutEvidence, Failing
<1>4. a \in Artifacts /\ a[1] # "research_packet"
  BY <1>2 DEF Artifacts
<1>5. "bind_collection" \in Steps \ {"seal_freeze"}
  BY DEF Steps
<1> HIDE DEF a
<1>6. QED
  BY <1>1, <1>3, <1>4, <1>5, StageStep

LEMMA BindCollectionKeeps ==
  ASSUME IInv, NEW p \in Process, BindCollection(p)
  PROVE  IInv'
<1> DEFINE a == <<"collection", job[p].item>>
           e == Checkpoint("EVIDENCE_COLLECTED", Seen(p).execution, Seen(p).quality, None, {a})
<1>1. /\ CallOK(pc[p], job[p]) /\ job[p] \in Locals /\ pc[p] = "bind_collection"
      /\ Len(log) \in Nat /\ Seen(p) \in Checkpoints
      /\ Bind(p, Current(p), e, "freeze")
  BY AtHand, SeenAt DEF BindCollection
<1>2. job[p].item \in Collections /\ a \in staged
  BY <1>1 DEF CallOK, CollectionOK
<1>3. a[1] = "collection" /\ a \in Artifacts
  BY <1>2 DEF Artifacts
<1>4. Named({a}, "research_packet") = {} /\ Named({a}, "collection") = {a}
  BY DEF Named
<1> HIDE DEF a
<1>5. Bindable(e)
  <2>1. e \in Checkpoints
    BY <1>1, <1>3 DEF Checkpoint, Checkpoints, Stages, PreSynthesis
  <2>2. QED
    BY <1>2, <1>4, <2>1 DEF Bindable, Checkpoint
<1>51. e.stage = "EVIDENCE_COLLECTED" /\ e.artifacts = {a}
  BY DEF Checkpoint
<1> HIDE DEF e
<1>6. ASSUME Appends(e), pc'[p] = "freeze",
             job'[p] = [job[p] EXCEPT !.seen = Len(log) + 1, !.cut = cutoff]
      PROVE  CallOK(pc[p], job[p])'
  <2>1. a \in Collected'
    <3>1. Appends(e)
      BY <1>6
    <3>2. Collected' = Collected \cup Named(e.artifacts, "collection")
      BY <1>51, <3>1, AppendSets
    <3>3. QED
      BY <1>4, <1>51, <3>2
  <2>2. job'[p].item = job[p].item
    BY <1>1, <1>6 DEF Locals
  <2>3. CollectionOK(pc[p], job[p])'
    BY <1>1, <1>6, <2>1, <2>2 DEF a, CallOK, CollectionOK, AboutEvidence
  <2>4. LoadedOK(pc[p], job[p])' /\ OutcomeOK(pc[p], job[p])'
    BY <1>1, <1>6 DEF Appends, CallOK, LoadedOK, OutcomeOK, Failing, Locals
  <2>5. QED
    BY <2>3, <2>4 DEF CallOK
<1>7. "freeze" \in Steps \ {"seal_freeze"}
  BY DEF Steps
<1>8. QED
  BY <1>1, <1>5, <1>6, <1>7, BindStep

\* freeze_evidence, first file: the collection on record becomes the cutoff.
LEMMA FreezeEvidenceKeeps ==
  ASSUME IInv, NEW p \in Process, FreezeEvidence(p)
  PROVE  IInv'
<1>1. /\ TypeOK /\ RecordOK /\ SealOK /\ CallOK(pc[p], job[p]) /\ pc[p] = "freeze"
      /\ job[p] \in Locals /\ Len(log) \in Nat /\ Unlocked
  BY AtHand DEF IInv, FreezeEvidence
<1>2. CASE Finish(p) /\ UNCHANGED cutoff
  BY <1>2, Ends DEF FreezeEvidence, recordVars
<1>3. CASE Writable /\ cutoff = None /\ cutoff' = job[p].item /\ GoTo(p, "seal_freeze") /\ UNCHANGED job
  <2>1. UNCHANGED <<created, log, staged, bundle, window, overdue, faults>> /\ bundle = None
    BY <1>3 DEF FreezeEvidence, envVars, Writable
  <2>2. job[p].item \in Collections /\ <<"collection", job[p].item>> \in Collected
    BY <1>1 DEF CallOK, CollectionOK
  <2>3. /\ pc' \in [Process -> Steps] /\ pc'[p] = "seal_freeze"
        /\ job' \in [Process -> Locals] /\ job'[p] = job[p]
        /\ \A q \in Process \ {p} : pc'[q] = pc[q] /\ job'[q] = job[q]
    BY <1>1, <1>3, KeepsLocals, Moved DEF Steps
  <2>4. TypeOK'
    BY <1>1, <1>3, <2>1, <2>2, <2>3 DEF TypeOK
  <2>5. \A i \in 1..Len(log) : log[i].cut = None
    BY <1>1, <1>3 DEF RecordOK, CutsOK
  <2>6. CutsOK' /\ StagedOnce' /\ FailureOK'
    BY <1>1, <2>1, <2>5 DEF RecordOK, CutsOK, StagedOnce, FailureOK, FailedAt, FrozenPacket
  <2>7. EvidenceFrozenOnce'
    BY <1>1, <2>1, <2>5 DEF RecordOK, CutsOK, EvidenceFrozenOnce, Of
  <2>8. EvidenceOK'
    <3>1. Collected' = Collected /\ StagedPacket' = StagedPacket /\ FrozenPacket' = FrozenPacket
      BY <2>1 DEF Collected, StagedPacket, FrozenPacket, Of
    <3>2. ASSUME NEW a \in Collected PROVE a = <<"collection", job[p].item>>
      <4>1. a \in staged /\ <<"collection", job[p].item>> \in staged
        BY <1>1, <2>2 DEF RecordOK, EvidenceOK
      <4>2. a[1] = "collection" /\ <<"collection", job[p].item>>[1] = "collection"
        BY DEF Collected, Named
      <4>3. QED
        BY <1>1, <4>1, <4>2 DEF RecordOK, StagedOnce
    <3>3. Collected = {<<"collection", job[p].item>>}
      BY <2>2, <3>2
    <3>4. StagedPacket = {} /\ cutoff' # None
      BY <1>1, <1>3, <2>2, CollectionsAssumption DEF RecordOK, EvidenceOK
    <3>5. QED
      BY <1>1, <1>3, <2>1, <3>1, <3>3, <3>4 DEF RecordOK, EvidenceOK
  <2>9. RecordOK'
    BY <1>1, <2>1, <2>6, <2>7, <2>8 DEF RecordOK, Attempts, AttemptsUpTo, Of
  <2>10. SealOK'
    BY <1>1, <2>1, <2>3, <2>5 DEF SealOK, Unlocked
  <2>11. Kept
    BY <1>1, <1>3, <2>1 DEF Kept
  <2>12. CallOK(pc[p], job[p])'
    BY <1>1, <1>3, <2>1, <2>2, <2>3 DEF CallOK, LoadedOK, CollectionOK, OutcomeOK, AboutEvidence, Failing
  <2>13. QED
    BY <2>3, <2>4, <2>9, <2>10, <2>11, <2>12, StepKeeps
<1>4. QED
  BY <1>2, <1>3 DEF FreezeEvidence

\* Second file: the first checkpoint with a cutoff.
LEMMA SealFreezeKeeps ==
  ASSUME IInv, NEW p \in Process, SealFreeze(p)
  PROVE  IInv'
<1> DEFINE e == Checkpoint("EVIDENCE_FROZEN", Latest.execution, Latest.quality, job[p].item, {})
           l == [job[p] EXCEPT !.seen = Len(log) + 1, !.cut = cutoff]
<1>1. /\ TypeOK /\ RecordOK /\ SealOK /\ CallOK(pc[p], job[p]) /\ pc[p] = "seal_freeze"
      /\ job[p] \in Locals /\ Len(log) \in Nat /\ Latest \in Checkpoints
  BY AtHand, SeenAt DEF IInv, SealFreeze
<1>2. CASE Finish(p) /\ UNCHANGED log
  BY <1>2, Ends DEF SealFreeze, recordVars
<1>3. CASE log' = Append(log, e) /\ Continue(p, "quality", l) /\ Accepts(e)
  <2>1. job[p].item \in Collections /\ cutoff = job[p].item /\ cutoff # None
    BY <1>1, CollectionsAssumption DEF CallOK, CollectionOK, AboutEvidence
  <2>2. e \in Checkpoints
    BY <1>1, <2>1 DEF Checkpoint, Checkpoints, Stages, PreSynthesis
  <2>3. Appends(e) /\ Kept
    BY <1>1, <1>3, <2>2, AppendMaps DEF SealFreeze
  <2>4. l \in Locals
    <3>1. job[p] \in Locals /\ Len(log) + 1 \in Nat /\ cutoff \in Collections
      BY <1>1, <2>1
    <3>2. QED
      BY <3>1 DEF Locals
  <2>5. /\ pc' \in [Process -> Steps] /\ pc'[p] = "quality"
        /\ job' \in [Process -> Locals] /\ job'[p] = l
        /\ \A q \in Process \ {p} : pc'[q] = pc[q] /\ job'[q] = job[q]
    <3>1. "quality" \in Steps
      BY DEF Steps
    <3>2. QED
      BY <1>1, <1>3, <2>4, <3>1, Moved
  <2>6. TypeOK'
    BY <1>1, <2>3, <2>5 DEF TypeOK, SealFreeze, Appends, envVars
  <2>7. \A i \in 1..Len(log) : log[i].cut = None
    BY <1>1 DEF SealOK
  <2>8. e.cut = cutoff /\ e.stage = "EVIDENCE_FROZEN" /\ e.artifacts = {}
    BY <2>1 DEF Checkpoint
  <2>9. CutsOK' /\ StagedOnce'
    BY <1>1, <2>1, <2>3, <2>8, AppendAt DEF RecordOK, CutsOK, StagedOnce, Appends
  <2>10. \A i \in 1..Len(log') : ~FailedAt(i)'
    BY <1>1, <2>3, <2>7, <2>8, AppendAt DEF FailedAt, RecordOK, CutsOK
  <2>11. EvidenceOK'
    <3>1. Named(e.artifacts, "research_packet") = {}
      BY <2>8 DEF Named
    <3>2. Collected' = Collected /\ StagedPacket' = StagedPacket /\ FrozenPacket' = FrozenPacket
      BY <2>3, <2>8, <3>1, AppendSets
    <3>3. QED
      BY <1>1, <2>3, <3>2 DEF RecordOK, EvidenceOK, Appends
  <2>12. EvidenceFrozenOnce'
    <3>1. Of("EVIDENCE_FROZEN") = {}
      BY <1>1, <2>7 DEF RecordOK, CutsOK, Of
    <3>2. Of("EVIDENCE_FROZEN")' = {Len(log) + 1}
      BY <2>3, <2>8, <3>1, AppendSets
    <3>3. QED
      BY <1>1, <2>3, <2>7, <3>2, AppendAt DEF EvidenceFrozenOnce, Appends
  <2>13. IsFiniteSet(Attempts)'
    BY <1>1, <2>3, <2>8, AppendAttempts DEF RecordOK
  <2>14. RecordOK'
    BY <2>9, <2>10, <2>11, <2>12, <2>13 DEF RecordOK, FailureOK
  <2>15. SealOK'
    BY <1>1, <2>5 DEF SealOK
  <2>16. CallOK(pc[p], job[p])'
    BY <1>1, <2>1, <2>3, <2>5 DEF Appends, CallOK, LoadedOK, CollectionOK, OutcomeOK, AboutEvidence,
                                  Failing, Locals
  <2>17. QED
    BY <2>3, <2>5, <2>6, <2>14, <2>15, <2>16, StepKeeps
<1>4. QED
  BY <1>2, <1>3 DEF SealFreeze

(* Quality and packet *)

LEMMA EvaluateQualityKeeps ==
  ASSUME IInv, NEW p \in Process, EvaluateQuality(p)
  PROVE  IInv'
<1>1. /\ CallOK(pc[p], job[p]) /\ job[p] \in Locals /\ pc[p] = "quality"
      /\ UNCHANGED <<recordVars, envVars>>
  BY AtHand DEF EvaluateQuality
<1>2. CASE Expire(p)
  BY <1>1, <1>2, ExpireKeeps
<1>3. CASE Finish(p)
  BY <1>1, <1>3, Ends
<1>4. ASSUME NEW q \in {"PASS", "FAIL"}, NEW step \in {"stage_quality", AfterQuality(q)},
             Continue(p, step, WithQuality(p, q))
      PROVE  IInv'
  <2> DEFINE l == WithQuality(p, q)
  <2>1. /\ l \in Locals /\ l.seen = job[p].seen /\ l.cut = job[p].cut /\ l.item = job[p].item
        /\ l.draft = job[p].draft /\ l.quality = q /\ (q = "FAIL" => l.reason = "QUALITY")
    BY <1>1 DEF WithQuality, Locals, FailureReasons
  <2>2. /\ step \in {"stage_quality", "fail", "packet"} /\ (step = "fail" => q = "FAIL")
        /\ Continue(p, step, l)
    BY <1>4 DEF AfterQuality
  <2>3. step \in Steps \ {"seal_freeze"}
    BY <2>2 DEF Steps
  <2> HIDE DEF l
  <2>4. LoadedOK(step, l) /\ CollectionOK(step, l)
    BY <1>1, <2>1, <2>2 DEF CallOK, LoadedOK, CollectionOK, AboutEvidence
  <2>5. OutcomeOK(step, l)
    BY <1>1, <2>1, <2>2 DEF CallOK, OutcomeOK, Failing, FailureReasons
  <2>6. QED
    BY <1>1, <2>1, <2>2, <2>3, <2>4, <2>5, Decides DEF CallOK
<1>5. CASE \E a \in Named(staged, "data_quality") :
             Continue(p, AfterQuality(a[2]), WithQuality(p, a[2]))
  <2>1. PICK a \in staged : a[1] = "data_quality" /\
                Continue(p, AfterQuality(a[2]), WithQuality(p, a[2]))
    BY <1>5 DEF Named
  <2>2. a[2] \in {"PASS", "FAIL"}
    BY <2>1, StagedArtifact DEF IInv
  <2>3. QED
    BY <1>4, <2>1, <2>2
<1>6. CASE \E q \in {"PASS", "FAIL"} : Continue(p, "stage_quality", WithQuality(p, q))
  BY <1>4, <1>6
<1>7. QED
  BY <1>2, <1>3, <1>5, <1>6 DEF EvaluateQuality

LEMMA StageQualityKeeps ==
  ASSUME IInv, NEW p \in Process, StageQuality(p)
  PROVE  IInv'
<1> DEFINE a == <<"data_quality", job[p].quality>>
<1>1. /\ CallOK(pc[p], job[p]) /\ pc[p] = "stage_quality" /\ Stage(p, a, "bind_quality")
      /\ job[p] \in Locals
  BY AtHand DEF StageQuality
<1>2. ASSUME pc'[p] = "bind_quality", job'[p] = job[p], UNCHANGED <<log, cutoff>>
      PROVE  CallOK(pc[p], job[p])'
  BY <1>1, <1>2 DEF CallOK, LoadedOK, CollectionOK, OutcomeOK, AboutEvidence, Failing
<1>3. a \in Artifacts /\ a[1] # "research_packet"
  BY <1>1 DEF Artifacts, Locals
<1>4. "bind_quality" \in Steps \ {"seal_freeze"}
  BY DEF Steps
<1> HIDE DEF a
<1>5. QED
  BY <1>1, <1>2, <1>3, <1>4, StageStep

LEMMA BindQualityKeeps ==
  ASSUME IInv, NEW p \in Process, BindQuality(p)
  PROVE  IInv'
<1> DEFINE a == <<"data_quality", job[p].quality>>
           e == Checkpoint("QUALITY_EVALUATED", "ANALYZING", job[p].quality, job[p].cut,
                           Collected \cup {a})
           step == AfterQuality(job[p].quality)
<1>1. /\ CallOK(pc[p], job[p]) /\ job[p] \in Locals /\ pc[p] = "bind_quality"
      /\ Len(log) \in Nat /\ Bind(p, Current(p), e, step)
  BY AtHand DEF BindQuality
<1>2. /\ job[p].item \in Collections /\ cutoff # None /\ job[p].cut \in {None, cutoff}
      /\ cutoff \in Collections \cup {None}
  BY <1>1, AtHand, CollectionsAssumption DEF CallOK, LoadedOK, CollectionOK, AboutEvidence
<1>3. a \in Artifacts /\ a[1] = "data_quality" /\ job[p].quality \in {"PASS", "FAIL"}
  BY <1>1 DEF Artifacts, Locals
<1>4. Collected \subseteq Artifacts /\ \A b \in Collected : b[1] = "collection"
  BY DEF IInv, TypeOK, RecordOK, EvidenceOK, Collected, Named
<1>5. step \in {"fail", "packet"} /\ (step = "fail" => job[p].quality = "FAIL")
  BY DEF AfterQuality
<1> HIDE DEF a, step
<1>6. Named(Collected \cup {a}, "research_packet") = {}
  BY <1>3, <1>4 DEF Named
<1>7. Bindable(e)
  <2>1. e \in Checkpoints
    BY <1>2, <1>3, <1>4 DEF Checkpoint, Checkpoints, Stages, PreSynthesis, ExecutionStatuses
  <2>2. QED
    BY <1>2, <1>6, <2>1 DEF Bindable, Checkpoint
<1>8. ASSUME Appends(e), pc'[p] = step,
             job'[p] = [job[p] EXCEPT !.seen = Len(log) + 1, !.cut = cutoff]
      PROVE  CallOK(pc[p], job[p])'
  <2>1. /\ job'[p].seen = Len(log) + 1 /\ job'[p].cut = cutoff /\ job'[p].item = job[p].item
        /\ job'[p].draft = job[p].draft /\ job'[p].reason = job[p].reason
        /\ Len(log') = Len(log) + 1 /\ cutoff' = cutoff
    BY <1>1, <1>8 DEF Locals, Appends
  <2>2. LoadedOK(pc[p], job[p])' /\ CollectionOK(pc[p], job[p])'
    BY <1>1, <1>5, <1>8, <2>1 DEF CallOK, LoadedOK, CollectionOK, AboutEvidence
  <2>3. OutcomeOK(pc[p], job[p])'
    BY <1>1, <1>5, <1>8, <2>1 DEF CallOK, CollectionOK, OutcomeOK, Failing, FailureReasons
  <2>4. QED
    BY <2>2, <2>3 DEF CallOK
<1>9. step \in Steps \ {"seal_freeze"}
  BY <1>5 DEF Steps
<1>10. QED
  BY <1>1, <1>7, <1>8, <1>9, BindStep

LEMMA BuildPacketKeeps ==
  ASSUME IInv, NEW p \in Process, BuildPacket(p)
  PROVE  IInv'
<1>1. CallOK(pc[p], job[p]) /\ pc[p] = "packet" /\ UNCHANGED <<recordVars, envVars>>
  BY AtHand DEF BuildPacket
<1>2. CASE Expire(p)
  BY <1>1, <1>2, ExpireKeeps
<1>3. CASE GoTo(p, "load_packet") /\ UNCHANGED job
  <2>1. CallOK("load_packet", job[p])
    BY <1>1 DEF CallOK, LoadedOK, CollectionOK, OutcomeOK, AboutEvidence, Failing
  <2>2. "load_packet" \in Steps \ {"seal_freeze"}
    BY DEF Steps
  <2>3. QED
    BY <1>1, <1>3, <2>1, <2>2, Stays
<1>4. QED
  BY <1>2, <1>3 DEF BuildPacket

\* What a call has after it loaded the run again.
LEMMA LoadedAgain ==
  ASSUME IInv, NEW p \in Process
  PROVE  /\ Loaded(p) \in Locals
         /\ Loaded(p).seen = Len(log) /\ Loaded(p).cut = cutoff /\ Loaded(p).item = job[p].item
         /\ Loaded(p).quality = job[p].quality /\ Loaded(p).reason = job[p].reason
         /\ Loaded(p).draft = job[p].draft
BY AtHand DEF Loaded, Locals

LEMMA LoadForPacketKeeps ==
  ASSUME IInv, NEW p \in Process, LoadForPacket(p)
  PROVE  IInv'
<1>1. /\ CallOK(pc[p], job[p]) /\ pc[p] = "load_packet" /\ Len(log) \in Nat
      /\ UNCHANGED <<recordVars, envVars>>
  BY AtHand DEF LoadForPacket
<1>2. CASE Finish(p)
  BY <1>1, <1>2, Ends
<1>3. CASE cutoff = job[p].item /\ Len(log) > 0 /\ Continue(p, "stage_packet", Loaded(p))
  <2>1. LoadedOK("stage_packet", Loaded(p)) /\ CollectionOK("stage_packet", Loaded(p))
    BY <1>1, <1>3, LoadedAgain DEF CallOK, LoadedOK, CollectionOK, AboutEvidence
  <2>2. OutcomeOK("stage_packet", Loaded(p))
    BY <1>1, LoadedAgain DEF CallOK, OutcomeOK, Failing
  <2>3. "stage_packet" \in Steps \ {"seal_freeze"}
    BY DEF Steps
  <2>4. QED
    BY <1>1, <1>3, <2>1, <2>2, <2>3, LoadedAgain, Decides DEF CallOK
<1>4. QED
  BY <1>2, <1>3 DEF LoadForPacket

LEMMA StagePacketKeeps ==
  ASSUME IInv, NEW p \in Process, StagePacket(p)
  PROVE  IInv'
<1> DEFINE a == <<"research_packet", job[p].item>>
<1>1. CallOK(pc[p], job[p]) /\ pc[p] = "stage_packet" /\ Stage(p, a, "stage_reduced")
  BY AtHand DEF StagePacket
<1>2. ASSUME pc'[p] = "stage_reduced", job'[p] = job[p], UNCHANGED <<log, cutoff>>
      PROVE  CallOK(pc[p], job[p])'
  BY <1>1, <1>2 DEF CallOK, LoadedOK, CollectionOK, OutcomeOK, AboutEvidence, Failing
<1>3. job[p].item \in Collections /\ cutoff = job[p].item /\ cutoff # None
  BY <1>1, CollectionsAssumption DEF CallOK, CollectionOK, AboutEvidence
<1>4. a \in Artifacts /\ a = <<"research_packet", cutoff>>
  BY <1>3 DEF Artifacts
<1>5. "stage_reduced" \in Steps \ {"seal_freeze"}
  BY DEF Steps
<1> HIDE DEF a
<1>6. QED
  BY <1>1, <1>2, <1>3, <1>4, <1>5, StageStep

LEMMA StageReducedReportKeeps ==
  ASSUME IInv, NEW p \in Process, StageReducedReport(p)
  PROVE  IInv'
<1> DEFINE a == <<"reduced_report", job[p].item>>
<1>1. CallOK(pc[p], job[p]) /\ pc[p] = "stage_reduced" /\ Stage(p, a, "bind_packet")
  BY AtHand DEF StageReducedReport
<1>2. ASSUME pc'[p] = "bind_packet", job'[p] = job[p], UNCHANGED <<log, cutoff>>
      PROVE  CallOK(pc[p], job[p])'
  BY <1>1, <1>2 DEF CallOK, LoadedOK, CollectionOK, OutcomeOK, AboutEvidence, Failing
<1>3. job[p].item \in Collections
  BY <1>1 DEF CallOK, CollectionOK, AboutEvidence
<1>4. a \in Artifacts /\ a[1] # "research_packet"
  BY <1>3 DEF Artifacts
<1>5. "bind_packet" \in Steps \ {"seal_freeze"}
  BY DEF Steps
<1> HIDE DEF a
<1>6. QED
  BY <1>1, <1>2, <1>4, <1>5, StageStep

LEMMA BindPacketKeeps ==
  ASSUME IInv, NEW p \in Process, BindPacket(p)
  PROVE  IInv'
<1> DEFINE a == <<"research_packet", job[p].item>>
           b == <<"reduced_report", job[p].item>>
           e == Checkpoint("AWAITING_SYNTHESIS", "AWAITING_SYNTHESIS", "PASS", job[p].item, {a, b})
<1>1. /\ CallOK(pc[p], job[p]) /\ pc[p] = "bind_packet"
      /\ (Finish(p) /\ UNCHANGED <<recordVars, envVars>>) \/ Bind(p, TRUE, e, "idle")
  BY AtHand DEF BindPacket
<1>2. job[p].item \in Collections /\ cutoff = job[p].item /\ cutoff # None
  BY <1>1, CollectionsAssumption DEF CallOK, CollectionOK, AboutEvidence
<1>3. a \in Artifacts /\ b \in Artifacts
  BY <1>2 DEF Artifacts
<1> HIDE DEF a, b
<1>4. ASSUME Accepts(e) PROVE Bindable(e)
  <2>1. e \in Checkpoints
    BY <1>2, <1>3 DEF Checkpoint, Checkpoints, Stages, PreSynthesis, ExecutionStatuses
  <2>2. e.stage = "AWAITING_SYNTHESIS" /\ e.cut = cutoff
    BY <1>2 DEF Checkpoint
  <2> HIDE DEF e
  <2>3. e.artifacts \subseteq staged
    BY <1>2, <1>4, <2>2, AcceptedOnceFrozen
  <2>4. Named(e.artifacts, "research_packet") \subseteq StagedPacket
    BY <2>3 DEF Named, StagedPacket
  <2>5. QED
    BY <2>1, <2>2, <2>4 DEF Bindable
<1>5. "idle" \in Steps \ {"seal_freeze"}
  BY DEF Steps
<1>6. CASE Bind(p, TRUE, e, "idle")
  BY <1>4, <1>5, <1>6, BindStep
<1>7. QED
  BY <1>1, <1>6, Ends

(* Failure and its report *)

LEMMA ReloadKeeps ==
  ASSUME IInv, NEW p \in Process, Reload(p)
  PROVE  IInv'
<1>1. /\ CallOK(pc[p], job[p]) /\ pc[p] = "reload" /\ Len(log) \in Nat
      /\ Continue(p, "fail", Loaded(p)) /\ UNCHANGED <<recordVars, envVars>>
  BY AtHand DEF Reload
<1>2. CallOK("fail", Loaded(p))
  BY <1>1, LoadedAgain DEF CallOK, LoadedOK, CollectionOK, OutcomeOK, AboutEvidence, Failing
<1>3. "fail" \in Steps \ {"seal_freeze"}
  BY DEF Steps
<1>4. QED
  BY <1>1, <1>2, <1>3, LoadedAgain, Decides

LEMMA FailKeeps ==
  ASSUME IInv, NEW p \in Process, Fail(p)
  PROVE  IInv'
<1> DEFINE a == <<"operational_reason", job[p].reason>>
<1>1. CallOK(pc[p], job[p]) /\ pc[p] = "fail"
  BY AtHand DEF Fail
<1>2. CASE GoTo(p, "report") /\ UNCHANGED <<recordVars, envVars, job>>
  <2>1. CallOK("report", job[p])
    BY <1>1 DEF CallOK, LoadedOK, CollectionOK, OutcomeOK, AboutEvidence, Failing
  <2>2. "report" \in Steps \ {"seal_freeze"}
    BY DEF Steps
  <2>3. QED
    BY <1>2, <2>1, <2>2, Stays
<1>3. CASE Stage(p, a, "bind_failure")
  <2>1. ASSUME pc'[p] = "bind_failure", job'[p] = job[p], UNCHANGED <<log, cutoff>>
        PROVE  CallOK(pc[p], job[p])'
    BY <1>1, <2>1 DEF CallOK, LoadedOK, CollectionOK, OutcomeOK, AboutEvidence, Failing
  <2>2. a \in Artifacts /\ a[1] # "research_packet"
    BY <1>1 DEF Artifacts, CallOK, OutcomeOK, Failing
  <2>3. "bind_failure" \in Steps \ {"seal_freeze"}
    BY DEF Steps
  <2> HIDE DEF a
  <2>4. QED
    BY <1>3, <2>1, <2>2, <2>3, StageStep
<1>4. QED
  BY <1>2, <1>3 DEF Fail, FailureReason

\* What the loaded checkpoint binds, whatever was appended since.
LEMMA SeenBinds ==
  ASSUME IInv, NEW p \in Process,
         pc[p] \notin {"idle", "allocate", "config", "dispatch", "reload", "publish"}
  PROVE  /\ Named(Seen(p).artifacts, "research_packet") \subseteq StagedPacket
         /\ Seen(p).cut \in {None, cutoff}
<1>1. job[p].seen \in 1..Len(log) /\ RecordOK
  BY SeenAt DEF IInv
<1>2. Named(Seen(p).artifacts, "research_packet") \subseteq FrozenPacket
  BY <1>1 DEF Seen, FrozenPacket
<1>3. QED
  BY <1>1, <1>2 DEF RecordOK, EvidenceOK, CutsOK, Seen

LEMMA BindFailureKeeps ==
  ASSUME IInv, NEW p \in Process, BindFailure(p)
  PROVE  IInv'
<1> DEFINE a == <<"operational_reason", job[p].reason>>
           e == [Seen(p) EXCEPT !.stage = "PREPARATION_FAILED", !.quality = "FAIL",
                                !.artifacts = @ \cup {a}]
<1>1. /\ CallOK(pc[p], job[p]) /\ job[p] \in Locals /\ pc[p] = "bind_failure"
      /\ Len(log) \in Nat /\ Seen(p) \in Checkpoints /\ Bind(p, Current(p), e, "report")
  BY AtHand, SeenAt DEF BindFailure, FailureReason
<1>2. a \in Artifacts /\ a[1] = "operational_reason"
  BY <1>1 DEF Artifacts, CallOK, OutcomeOK, Failing
<1>3. /\ Named(Seen(p).artifacts, "research_packet") \subseteq StagedPacket
      /\ Seen(p).cut \in {None, cutoff}
  BY <1>1, SeenBinds
<1> HIDE DEF a
<1>4. Bindable(e)
  <2>1. /\ e \in Checkpoints /\ e.stage = "PREPARATION_FAILED" /\ e.cut = Seen(p).cut
        /\ e.artifacts = Seen(p).artifacts \cup {a}
    BY <1>1, <1>2 DEF Checkpoints, Stages, PreSynthesis
  <2>2. Named(e.artifacts, "research_packet") \subseteq StagedPacket
    BY <1>2, <1>3, <2>1 DEF Named
  <2>3. QED
    BY <1>3, <2>1, <2>2 DEF Bindable
<1>5. ASSUME Appends(e), pc'[p] = "report",
             job'[p] = [job[p] EXCEPT !.seen = Len(log) + 1, !.cut = cutoff]
      PROVE  CallOK(pc[p], job[p])'
  BY <1>1, <1>5 DEF Appends, CallOK, LoadedOK, CollectionOK, OutcomeOK, AboutEvidence, Failing, Locals
<1>6. "report" \in Steps \ {"seal_freeze"}
  BY DEF Steps
<1>7. QED
  BY <1>1, <1>4, <1>5, <1>6, BindStep

LEMMA LoadForReportKeeps ==
  ASSUME IInv, NEW p \in Process, LoadForReport(p)
  PROVE  IInv'
<1>1. /\ CallOK(pc[p], job[p]) /\ pc[p] = "report" /\ UNCHANGED <<recordVars, envVars>>
      /\ Len(log) \in 1..Len(log)
  BY AtHand, SeenAt DEF LoadForReport
<1>2. CASE Finish(p)
  BY <1>1, <1>2, Ends
<1>3. ASSUME NEW step \in {"publish_bundle", "stage_report"}, Continue(p, step, Loaded(p))
      PROVE  IInv'
  <2>1. LoadedOK(step, Loaded(p)) /\ CollectionOK(step, Loaded(p))
    BY <1>1, LoadedAgain DEF CallOK, LoadedOK, CollectionOK, AboutEvidence
  <2>2. OutcomeOK(step, Loaded(p))
    BY <1>1, LoadedAgain DEF CallOK, OutcomeOK, Failing, FailureReasons, ReducedReasons
  <2>3. step \in Steps \ {"seal_freeze"}
    BY DEF Steps
  <2>4. QED
    BY <1>1, <1>3, <2>1, <2>2, <2>3, LoadedAgain, Decides DEF CallOK
<1>4. QED
  BY <1>2, <1>3 DEF LoadForReport

LEMMA StageReportKeeps ==
  ASSUME IInv, NEW p \in Process, StageReport(p)
  PROVE  IInv'
<1> DEFINE a == <<"operational_reason", job[p].reason>>
<1>1. CallOK(pc[p], job[p]) /\ pc[p] = "stage_report" /\ Stage(p, a, "bind_report")
  BY AtHand DEF StageReport, FailureReason
<1>2. ASSUME pc'[p] = "bind_report", job'[p] = job[p], UNCHANGED <<log, cutoff>>
      PROVE  CallOK(pc[p], job[p])'
  BY <1>1, <1>2 DEF CallOK, LoadedOK, CollectionOK, OutcomeOK, AboutEvidence, Failing
<1>3. a \in Artifacts /\ a[1] # "research_packet"
  BY <1>1 DEF Artifacts, CallOK, OutcomeOK, Failing
<1>4. "bind_report" \in Steps \ {"seal_freeze"}
  BY DEF Steps
<1> HIDE DEF a
<1>5. QED
  BY <1>1, <1>2, <1>3, <1>4, StageStep

\* A final checkpoint binds no packet that is not staged.
LEMMA FinalBindable ==
  ASSUME IInv, NEW p \in Process, NEW arts \in SUBSET Artifacts,
         Named(arts, "research_packet") \subseteq StagedPacket,
         NEW quality \in {"PASS", "FAIL"},
         pc[p] \notin {"idle", "allocate", "config", "dispatch", "reload", "publish"}
  PROVE  Bindable(Checkpoint("PUBLISHED", "PUBLISHED", quality, job[p].cut, arts))
<1>1. CallOK(pc[p], job[p]) /\ cutoff \in Collections \cup {None}
  BY AtHand
<1>2. job[p].cut \in {None, cutoff}
  BY <1>1 DEF CallOK, LoadedOK
<1>3. QED
  BY <1>1, <1>2 DEF Bindable, Checkpoint, Checkpoints, Stages, PreSynthesis, ExecutionStatuses

LEMMA SeenWith ==
  ASSUME IInv, NEW p \in Process, NEW a \in Artifacts, a[1] # "research_packet",
         pc[p] \notin {"idle", "allocate", "config", "dispatch", "reload", "publish"}
  PROVE  /\ Seen(p).artifacts \cup {a} \in SUBSET Artifacts
         /\ Named(Seen(p).artifacts \cup {a}, "research_packet") \subseteq StagedPacket
<1>1. Seen(p) \in Checkpoints /\ Named(Seen(p).artifacts, "research_packet") \subseteq StagedPacket
  BY SeenAt, SeenBinds
<1>2. QED
  BY <1>1 DEF Named, Checkpoints

LEMMA BindReportKeeps ==
  ASSUME IInv, NEW p \in Process, BindReport(p)
  PROVE  IInv'
<1> DEFINE a == <<"operational_reason", job[p].reason>>
           e == Checkpoint("PUBLISHED", "PUBLISHED", "FAIL", job[p].cut, Seen(p).artifacts \cup {a})
<1>1. /\ CallOK(pc[p], job[p]) /\ job[p] \in Locals /\ pc[p] = "bind_report"
      /\ Len(log) \in Nat /\ Bind(p, Current(p), e, "publish_bundle")
  BY AtHand DEF BindReport, FailureReason
<1>2. a \in Artifacts /\ a[1] # "research_packet"
  BY <1>1 DEF Artifacts, CallOK, OutcomeOK, Failing
<1> HIDE DEF a
<1>3. Bindable(e)
  BY <1>1, <1>2, SeenWith, FinalBindable
<1>4. ASSUME Appends(e), pc'[p] = "publish_bundle",
             job'[p] = [job[p] EXCEPT !.seen = Len(log) + 1, !.cut = cutoff]
      PROVE  CallOK(pc[p], job[p])'
  <2>1. LoadedOK(pc[p], job[p])' /\ CollectionOK(pc[p], job[p])'
    BY <1>1, <1>4 DEF Appends, CallOK, LoadedOK, CollectionOK, AboutEvidence, Locals
  <2>2. OutcomeOK(pc[p], job[p])'
    BY <1>1, <1>4 DEF CallOK, OutcomeOK, Failing, FailureReasons, ReducedReasons, Locals
  <2>3. QED
    BY <2>1, <2>2 DEF CallOK
<1>5. "publish_bundle" \in Steps \ {"seal_freeze"}
  BY DEF Steps
<1>6. QED
  BY <1>1, <1>3, <1>4, <1>5, BindStep

(* Attempts, briefs and reduced reports *)

LEMMA HandedOver ==
  ASSUME IInv, NEW stages, Handed(stages)
  PROVE  /\ Len(log) > 0 /\ cutoff # None /\ Latest.quality = "PASS"
BY DEF Handed, IInv, RecordOK, EvidenceOK

LEMMA ValidateKeeps ==
  ASSUME IInv, NEW p \in Process, NEW d \in Drafts, Validate(p, d)
  PROVE  IInv'
<1> DEFINE l == [Loaded(p) EXCEPT !.draft = d]
<1>1. /\ CallOK(pc[p], job[p]) /\ pc[p] = "idle" /\ UNCHANGED <<recordVars, envVars>>
      /\ Len(log) \in Nat /\ Len(log) > 0 /\ cutoff # None
  BY AtHand, HandedOver DEF Validate
<1>2. CASE Cardinality(Attempts) < 3 /\ Continue(p, "stage_attempt", l)
  <2>1. /\ l \in Locals /\ l.seen = Len(log) /\ l.cut = cutoff /\ l.draft = d
    BY LoadedAgain DEF Locals
  <2>2. Cardinality(AttemptsUpTo(Len(log))) \in 0..2
    <3>1. IsFiniteSet(Attempts)
      BY DEF IInv, RecordOK
    <3>2. Cardinality(Attempts) \in Nat
      BY <3>1, FS_CardinalityType
    <3>3. QED
      BY <1>2, <3>2 DEF Attempts
  <2> HIDE DEF l
  <2>3. CallOK("stage_attempt", l)
    BY <1>1, <2>1, <2>2 DEF CallOK, LoadedOK, CollectionOK, OutcomeOK, AboutEvidence, Failing
  <2>4. "stage_attempt" \in Steps \ {"seal_freeze"}
    BY DEF Steps
  <2>5. QED
    BY <1>1, <1>2, <2>1, <2>3, <2>4, Decides
<1>3. CASE GoTo(p, "publish") /\ UNCHANGED job
  <2>1. CallOK("publish", job[p])
    BY <1>1 DEF CallOK, LoadedOK, CollectionOK, OutcomeOK, AboutEvidence, Failing, Fresh
  <2>2. "publish" \in Steps \ {"seal_freeze"}
    BY DEF Steps
  <2>3. QED
    BY <1>1, <1>3, <2>1, <2>2, Stays
<1>4. QED
  BY <1>2, <1>3 DEF Validate, Repairable

LEMMA AttemptIsArtifact ==
  ASSUME IInv, NEW p \in Process, pc[p] \in {"stage_attempt", "bind_attempt"}
  PROVE  Attempt(p) \in Artifacts /\ Attempt(p)[1] = "attempt"
<1>1. job[p].draft \in Drafts /\ Cardinality(AttemptsUpTo(job[p].seen)) \in 0..2
  BY AtHand DEF CallOK, OutcomeOK
<1>2. Cardinality(AttemptsUpTo(job[p].seen)) + 1 \in 1..3
  BY <1>1
<1>3. QED
  BY <1>1, <1>2 DEF Attempt, Artifacts

LEMMA StageAttemptKeeps ==
  ASSUME IInv, NEW p \in Process, StageAttempt(p)
  PROVE  IInv'
<1>1. CallOK(pc[p], job[p]) /\ pc[p] = "stage_attempt" /\ Stage(p, Attempt(p), "bind_attempt")
  BY AtHand DEF StageAttempt
<1>2. ASSUME pc'[p] = "bind_attempt", job'[p] = job[p], UNCHANGED <<log, cutoff>>
      PROVE  CallOK(pc[p], job[p])'
  BY <1>1, <1>2 DEF CallOK, LoadedOK, CollectionOK, OutcomeOK, AboutEvidence, Failing, AttemptsUpTo, Of
<1>3. Attempt(p) \in Artifacts /\ Attempt(p)[1] # "research_packet"
  BY <1>1, AttemptIsArtifact
<1>4. "bind_attempt" \in Steps \ {"seal_freeze"}
  BY DEF Steps
<1>5. QED
  BY <1>1, <1>2, <1>3, <1>4, StageStep

\* The checkpoint of an attempt binds it, the packet and the reduced report.
AttemptCheckpoint(p) ==
  Checkpoint("VALIDATING", "VALIDATING", "PASS", job[p].cut,
             {Attempt(p)} \cup Named(Seen(p).artifacts, "research_packet")
                          \cup Named(Seen(p).artifacts, "reduced_report"))

LEMMA AttemptBindable ==
  ASSUME IInv, NEW p \in Process, pc[p] = "bind_attempt"
  PROVE  /\ Bindable(AttemptCheckpoint(p))
         /\ Named(AttemptCheckpoint(p).artifacts, "attempt") = {Attempt(p)}
<1>1. /\ CallOK(pc[p], job[p]) /\ cutoff \in Collections \cup {None} /\ Seen(p) \in Checkpoints
      /\ Named(Seen(p).artifacts, "research_packet") \subseteq StagedPacket
  BY AtHand, SeenAt, SeenBinds
<1>2. Attempt(p) \in Artifacts /\ Attempt(p)[1] = "attempt"
  BY AttemptIsArtifact
<1> DEFINE arts == {Attempt(p)} \cup Named(Seen(p).artifacts, "research_packet")
                                \cup Named(Seen(p).artifacts, "reduced_report")
<1>3. arts \in SUBSET Artifacts
  BY <1>1, <1>2 DEF Named, Checkpoints
<1>4. Named(arts, "research_packet") \subseteq StagedPacket
  BY <1>1, <1>2 DEF Named
<1>5. Named(arts, "attempt") = {Attempt(p)}
  BY <1>2 DEF Named
<1>6. IsFiniteSet(Named(arts, "attempt"))
  BY <1>5, FS_Singleton
<1>7. job[p].cut \in {None, cutoff}
  BY <1>1 DEF CallOK, LoadedOK
<1> HIDE DEF arts
<1>8. AttemptCheckpoint(p) = Checkpoint("VALIDATING", "VALIDATING", "PASS", job[p].cut, arts)
  BY DEF AttemptCheckpoint, arts
<1>9. QED
  BY <1>1, <1>3, <1>4, <1>5, <1>6, <1>7, <1>8
     DEF Bindable, Checkpoint, Checkpoints, Stages, PreSynthesis, ExecutionStatuses

LEMMA BindAttemptKeeps ==
  ASSUME IInv, NEW p \in Process, BindAttempt(p)
  PROVE  IInv'
<1> DEFINE step == IF job[p].draft \in Valid THEN "publish" ELSE "idle"
           e == AttemptCheckpoint(p)
<1>1. /\ CallOK(pc[p], job[p]) /\ job[p] \in Locals /\ pc[p] = "bind_attempt"
      /\ Len(log) \in Nat /\ Bind(p, Current(p), e, step)
  BY AtHand DEF BindAttempt, AttemptCheckpoint
<1>2. Bindable(e)
  BY <1>1, AttemptBindable
<1>3. step \in {"publish", "idle"}
  OBVIOUS
<1> HIDE DEF step, e
<1>4. ASSUME Appends(e), step # "idle", pc'[p] = step,
             job'[p] = [job[p] EXCEPT !.seen = Len(log) + 1, !.cut = cutoff]
      PROVE  CallOK(pc[p], job[p])'
  BY <1>1, <1>3, <1>4 DEF Appends, CallOK, LoadedOK, CollectionOK, OutcomeOK, AboutEvidence, Failing, Locals
<1>5. step \in Steps \ {"seal_freeze"}
  BY <1>3 DEF Steps
<1>6. QED
  BY <1>1, <1>2, <1>4, <1>5, BindStep

LEMMA LoadForBriefKeeps ==
  ASSUME IInv, NEW p \in Process, LoadForBrief(p)
  PROVE  IInv'
<1> DEFINE l == [Loaded(p) EXCEPT !.draft = LastDraft]
<1>1. /\ CallOK(pc[p], job[p]) /\ pc[p] = "publish" /\ UNCHANGED <<recordVars, envVars>>
      /\ Len(log) \in Nat
  BY AtHand DEF LoadForBrief
<1>2. CASE Finish(p)
  BY <1>1, <1>2, Ends
<1>3. ASSUME Handed({"VALIDATING", "PUBLISHED"}), LastDraft \in Valid,
             NEW step \in {"publish_bundle", "bind_brief"}, Continue(p, step, l)
      PROVE  IInv'
  <2>1. LastDraft \in Drafts /\ LastDraft # None
    BY <1>3, DataAssumption
  <2>2. l \in Locals /\ l.seen = Len(log) /\ l.cut = cutoff /\ l.draft = LastDraft
    BY <2>1, LoadedAgain DEF Locals
  <2>3. Len(log) > 0 /\ cutoff # None /\ log[Len(log)].quality = "PASS"
    BY <1>3, HandedOver DEF Latest
  <2> HIDE DEF l
  <2>4. CallOK(step, l)
    BY <1>1, <2>1, <2>2, <2>3 DEF CallOK, LoadedOK, CollectionOK, OutcomeOK, AboutEvidence, Failing
  <2>5. step \in Steps \ {"seal_freeze"}
    BY DEF Steps
  <2>6. QED
    BY <1>1, <1>3, <2>2, <2>4, <2>5, Decides
<1>4. QED
  BY <1>2, <1>3 DEF LoadForBrief

LEMMA BindBriefKeeps ==
  ASSUME IInv, NEW p \in Process, BindBrief(p)
  PROVE  IInv'
<1> DEFINE e == Checkpoint("PUBLISHED", "PUBLISHED", "PASS", job[p].cut, Seen(p).artifacts)
<1>1. /\ CallOK(pc[p], job[p]) /\ job[p] \in Locals /\ pc[p] = "bind_brief"
      /\ Len(log) \in Nat /\ Bind(p, Current(p), e, "publish_bundle")
      /\ job[p].draft # None
  BY AtHand, DataAssumption DEF BindBrief, CallOK, OutcomeOK
<1>2. Seen(p).artifacts \in SUBSET Artifacts
  BY <1>1, SeenAt DEF Checkpoints
<1>3. Bindable(e)
  BY <1>1, <1>2, SeenBinds, FinalBindable
<1>4. ASSUME Appends(e), pc'[p] = "publish_bundle",
             job'[p] = [job[p] EXCEPT !.seen = Len(log) + 1, !.cut = cutoff]
      PROVE  CallOK(pc[p], job[p])'
  <2>1. LoadedOK(pc[p], job[p])' /\ CollectionOK(pc[p], job[p])'
    BY <1>1, <1>4 DEF Appends, CallOK, LoadedOK, CollectionOK, AboutEvidence, Locals
  <2>2. log'[Len(log) + 1].quality = "PASS"
    BY <1>4 DEF Appends, Checkpoint
  <2>3. OutcomeOK(pc[p], job[p])'
    BY <1>1, <1>4, <2>2 DEF OutcomeOK, Failing, Locals
  <2>4. QED
    BY <2>1, <2>3 DEF CallOK
<1>5. "publish_bundle" \in Steps \ {"seal_freeze"}
  BY DEF Steps
<1>6. QED
  BY <1>1, <1>3, <1>4, <1>5, BindStep

LEMMA ReduceKeeps ==
  ASSUME IInv, NEW p \in Process, NEW reason \in ReducedReasons, Reduce(p, reason)
  PROVE  IInv'
<1> DEFINE l == [Loaded(p) EXCEPT !.reason = reason]
<1>1. /\ CallOK(pc[p], job[p]) /\ pc[p] = "idle" /\ UNCHANGED <<recordVars, envVars>>
      /\ Len(log) \in Nat /\ Len(log) > 0 /\ log[Len(log)].quality = "PASS"
  BY AtHand, HandedOver DEF Reduce, Reducible, Latest
<1>2. ASSUME NEW step \in {"publish_bundle", "stage_reason"}, Continue(p, step, l)
      PROVE  IInv'
  <2>1. l \in Locals /\ l.seen = Len(log) /\ l.cut = cutoff /\ l.reason = reason /\ l.draft = job[p].draft
    BY LoadedAgain DEF Locals
  <2> HIDE DEF l
  <2>2. reason # "none"
    BY DEF ReducedReasons
  <2>3. CallOK(step, l)
    BY <1>1, <2>1, <2>2 DEF CallOK, LoadedOK, CollectionOK, OutcomeOK, AboutEvidence, Failing
  <2>4. step \in Steps \ {"seal_freeze"}
    BY DEF Steps
  <2>5. QED
    BY <1>1, <1>2, <2>1, <2>3, <2>4, Decides
<1>3. QED
  BY <1>2 DEF Reduce

LEMMA StageReducedReasonKeeps ==
  ASSUME IInv, NEW p \in Process, StageReducedReason(p)
  PROVE  IInv'
<1> DEFINE a == <<"reduced_reason", job[p].reason>>
<1>1. CallOK(pc[p], job[p]) /\ pc[p] = "stage_reason" /\ Stage(p, a, "bind_reduced")
  BY AtHand DEF StageReducedReason, ReducedReason
<1>2. ASSUME pc'[p] = "bind_reduced", job'[p] = job[p], UNCHANGED <<log, cutoff>>
      PROVE  CallOK(pc[p], job[p])'
  BY <1>1, <1>2 DEF CallOK, LoadedOK, CollectionOK, OutcomeOK, AboutEvidence, Failing
<1>3. a \in Artifacts /\ a[1] # "research_packet"
  BY <1>1 DEF Artifacts, CallOK, OutcomeOK
<1>4. "bind_reduced" \in Steps \ {"seal_freeze"}
  BY DEF Steps
<1> HIDE DEF a
<1>5. QED
  BY <1>1, <1>2, <1>3, <1>4, StageStep

LEMMA BindReducedKeeps ==
  ASSUME IInv, NEW p \in Process, BindReduced(p)
  PROVE  IInv'
<1> DEFINE a == <<"reduced_reason", job[p].reason>>
           e == Checkpoint("PUBLISHED", "PUBLISHED", "PASS", job[p].cut, Seen(p).artifacts \cup {a})
<1>1. /\ CallOK(pc[p], job[p]) /\ job[p] \in Locals /\ pc[p] = "bind_reduced"
      /\ Len(log) \in Nat /\ Bind(p, Current(p), e, "publish_bundle")
  BY AtHand DEF BindReduced, ReducedReason
<1>2. a \in Artifacts /\ a[1] # "research_packet" /\ job[p].reason # "none"
  BY <1>1 DEF Artifacts, CallOK, OutcomeOK, ReducedReasons
<1> HIDE DEF a
<1>3. Bindable(e)
  BY <1>1, <1>2, SeenWith, FinalBindable
<1>4. ASSUME Appends(e), pc'[p] = "publish_bundle",
             job'[p] = [job[p] EXCEPT !.seen = Len(log) + 1, !.cut = cutoff]
      PROVE  CallOK(pc[p], job[p])'
  <2>1. LoadedOK(pc[p], job[p])' /\ CollectionOK(pc[p], job[p])'
    BY <1>1, <1>4 DEF Appends, CallOK, LoadedOK, CollectionOK, AboutEvidence, Locals
  <2>2. log'[Len(log) + 1].quality = "PASS"
    BY <1>4 DEF Appends, Checkpoint
  <2>3. OutcomeOK(pc[p], job[p])'
    BY <1>1, <1>2, <1>4, <2>2 DEF CallOK, OutcomeOK, Failing, Locals
  <2>4. QED
    BY <2>1, <2>3 DEF CallOK
<1>5. "publish_bundle" \in Steps \ {"seal_freeze"}
  BY DEF Steps
<1>6. QED
  BY <1>1, <1>3, <1>4, <1>5, BindStep

(* Publication *)

LEMMA ComposedBundle ==
  ASSUME IInv, NEW p \in Process, pc[p] = "publish_bundle", MayPublish(p)
  PROVE  /\ Composed(p) \in Bundles /\ Composed(p).cut = cutoff
         /\ \A i \in 1..Len(log) : FailedAt(i) => Composed(p).kind = "operational"
<1>1. /\ CallOK(pc[p], job[p]) /\ job[p] \in Locals /\ Seen(p) \in Checkpoints
      /\ Len(log) \in 1..Len(log)
  BY AtHand, SeenAt
<1>2. /\ job[p].draft # None \/ job[p].reason # "none"
      /\ job[p].draft # None \/ job[p].reason \in ReducedReasons => Seen(p).quality = "PASS"
  BY <1>1 DEF CallOK, OutcomeOK, Seen
<1>3. Composed(p) \in Bundles
  <2>1. /\ job[p].draft \in Drafts \cup {None} /\ job[p].cut \in Collections \cup {None}
        /\ job[p].reason \in FailureReasons \cup ReducedReasons \cup {"none"}
        /\ Seen(p).quality \in {"PASS", "FAIL"}
    BY <1>1 DEF Locals, Checkpoints
  <2>2. QED
    BY <1>2, <2>1 DEF Composed, Bundles
<1>4. Composed(p).cut = cutoff /\ Latest.quality = Seen(p).quality
  BY DEF MayPublish, Composed
<1>5. ASSUME NEW i \in 1..Len(log), FailedAt(i) PROVE Composed(p).kind = "operational"
  <2>1. Latest.quality = "FAIL"
    <3>1. CASE i = Len(log)
      BY <1>5, <3>1 DEF Latest, IInv, RecordOK, FailureOK
    <3>2. CASE i # Len(log)
      BY <1>1, <1>5, <3>2 DEF Latest, IInv, RecordOK, FailureOK
    <3>3. QED
      BY <3>1, <3>2
  <2>2. job[p].draft = None /\ job[p].reason \notin ReducedReasons
    BY <1>2, <1>4, <2>1
  <2>3. QED
    BY <2>2 DEF Composed
<1>6. QED
  BY <1>3, <1>4, <1>5

LEMMA PublishBundleKeeps ==
  ASSUME IInv, NEW p \in Process, PublishBundle(p)
  PROVE  IInv'
<1>1. /\ TypeOK /\ RecordOK /\ SealOK /\ pc[p] = "publish_bundle" /\ Len(log) \in Nat
      /\ Finish(p) /\ UNCHANGED <<created, log, staged, cutoff, window, overdue, faults>>
  BY AtHand DEF IInv, PublishBundle, envVars
<1>2. CASE ~MayPublish(p)
  BY <1>1, <1>2, Ends DEF PublishBundle, recordVars, envVars
<1>3. CASE MayPublish(p)
  <2>1. /\ bundle' \in Bundles /\ bundle'.cut = cutoff
        /\ \A i \in 1..Len(log) : FailedAt(i) => bundle'.kind = "operational"
    BY <1>1, <1>3, ComposedBundle DEF PublishBundle
  <2>2. /\ pc' \in [Process -> Steps] /\ pc'[p] = "idle"
        /\ job' \in [Process -> Locals] /\ job'[p] = Fresh
        /\ \A q \in Process \ {p} : pc'[q] = pc[q] /\ job'[q] = job[q]
    BY <1>1, FreshLocals, Moved DEF Finish, Steps
  <2>3. TypeOK'
    BY <1>1, <2>1, <2>2 DEF TypeOK
  <2>4. CutsOK' /\ StagedOnce' /\ EvidenceFrozenOnce'
    BY <1>1 DEF RecordOK, CutsOK, StagedOnce, EvidenceFrozenOnce, Of
  <2>5. EvidenceOK'
    BY <1>1, <2>1 DEF RecordOK, EvidenceOK, Collected, StagedPacket, FrozenPacket, Of
  <2>6. FailureOK'
    BY <1>1, <2>1 DEF RecordOK, FailureOK, FailedAt, FrozenPacket
  <2>7. RecordOK'
    BY <1>1, <2>4, <2>5, <2>6 DEF RecordOK, Attempts, AttemptsUpTo, Of
  <2>8. SealOK' /\ Kept
    BY <1>1, <2>2, LockKept DEF Kept
  <2>9. CallOK("idle", Fresh)'
    BY <2>3, IdleOK
  <2>10. QED
    BY <2>2, <2>3, <2>7, <2>8, <2>9, StepKeeps
<1>4. QED
  BY <1>2, <1>3

(* Time, outages and crashes *)

LEMMA TimeKeeps ==
  ASSUME IInv, WindowCloses \/ DeadlinePasses
  PROVE  IInv'
<1>1. /\ UNCHANGED <<recordVars, pc, job, faults>>
      /\ window' \in {"open", "late", "closed"} /\ overdue' \in BOOLEAN
  BY DEF WindowCloses, DeadlinePasses, IInv, TypeOK
<1>2. UNCHANGED <<created, log, staged, cutoff, bundle>>
  BY <1>1 DEF recordVars
<1>3. TypeOK'
  BY <1>1, <1>2 DEF IInv, TypeOK
<1>4. RecordOK' /\ Kept
  BY <1>2, UnchangedRecord
<1>5. ASSUME NEW q \in Process PROVE CallOK(pc[q], job[q])'
  BY <1>1, <1>3, <1>4, CallKept DEF IInv
<1>6. SealOK'
  BY <1>1, <1>2 DEF IInv, SealOK
<1>7. QED
  BY <1>3, <1>4, <1>5, <1>6 DEF IInv

LEMMA FaultKeeps ==
  ASSUME IInv, NEW p \in Process, Outage(p) \/ Crash(p)
  PROVE  IInv'
<1>1. UNCHANGED <<recordVars, window, overdue>> /\ faults' \in 0..MaxFaults
  BY FaultAssumption DEF Outage, Crash, IInv, TypeOK
<1>2. "MARKET_CALENDAR_UNAVAILABLE" \in FailureReasons
  BY DEF FailureReasons
<1>3. CASE Finish(p)
  BY <1>1, <1>3, FinishStep
<1>4. CASE job[p].seen > 0 /\ FailWith(p, "MARKET_CALENDAR_UNAVAILABLE")
  BY <1>1, <1>2, <1>4, FailWithKeeps
<1>5. CASE /\ pc[p] \in {"fetch", "packet"}
           /\ Continue(p, "reload", [Fresh EXCEPT !.reason = "MARKET_CALENDAR_UNAVAILABLE"])
  BY <1>1, <1>2, <1>5, ReloadWithKeeps
<1>6. QED
  BY <1>3, <1>4, <1>5 DEF Outage, Crash

(***************************************************************************)
(* The invariant                                                           *)
(***************************************************************************)

LEMMA InitOK == Init => IInv
<1> SUFFICES ASSUME Init PROVE IInv
  OBVIOUS
<1>1. TypeOK
  <2>1. pc \in [Process -> Steps] /\ job \in [Process -> Locals]
    BY FreshLocals DEF Init, Steps
  <2>2. log \in Seq(Checkpoints) /\ faults \in 0..MaxFaults
    BY FaultAssumption DEF Init
  <2>3. QED
    BY <2>1, <2>2 DEF Init, TypeOK
<1>2. 1..Len(log) = {} /\ \A s : Of(s) = {}
  BY DEF Init, Of
<1>3. Collected = {} /\ FrozenPacket = {} /\ StagedPacket = {} /\ Attempts = {}
  BY <1>2 DEF Init, Collected, FrozenPacket, StagedPacket, Named, Attempts, AttemptsUpTo
<1>4. EvidenceOK
  BY <1>3 DEF Init, EvidenceOK
<1>5. RecordOK
  BY <1>2, <1>3, <1>4, FS_EmptySet
     DEF Init, RecordOK, CutsOK, StagedOnce, FailureOK, EvidenceFrozenOnce
<1>6. \A p \in Process : CallOK(pc[p], job[p])
  BY <1>1, IdleOK DEF Init
<1>7. SealOK
  BY DEF Init, SealOK
<1>8. QED
  BY <1>1, <1>5, <1>6, <1>7 DEF IInv

LEMMA PreparationKeeps ==
  ASSUME IInv, NEW p \in Process, Preparation(p)
  PROVE  IInv'
<1>1. CASE Prepare(p) \/ Allocate(p) \/ FreezeConfiguration(p) \/ Dispatch(p)
  BY <1>1, PrepareKeeps, AllocateKeeps, FreezeConfigurationKeeps, DispatchKeeps
<1>2. CASE SelectPrior(p) \/ StagePrior(p) \/ BindPrior(p)
  BY <1>2, SelectPriorKeeps, StagePriorKeeps, BindPriorKeeps
<1>3. CASE Collect(p) \/ Fetch(p) \/ BindCollection(p) \/ FreezeEvidence(p) \/ SealFreeze(p)
  BY <1>3, CollectKeeps, FetchKeeps, BindCollectionKeeps, FreezeEvidenceKeeps, SealFreezeKeeps
<1>4. CASE EvaluateQuality(p) \/ StageQuality(p) \/ BindQuality(p)
  BY <1>4, EvaluateQualityKeeps, StageQualityKeeps, BindQualityKeeps
<1>5. CASE BuildPacket(p) \/ LoadForPacket(p) \/ StagePacket(p) \/ StageReducedReport(p) \/ BindPacket(p)
  BY <1>5, BuildPacketKeeps, LoadForPacketKeeps, StagePacketKeeps, StageReducedReportKeeps,
     BindPacketKeeps
<1>6. CASE Reload(p) \/ Fail(p) \/ BindFailure(p) \/ LoadForReport(p) \/ StageReport(p) \/ BindReport(p)
  BY <1>6, ReloadKeeps, FailKeeps, BindFailureKeeps, LoadForReportKeeps, StageReportKeeps,
     BindReportKeeps
<1>7. QED
  BY <1>1, <1>2, <1>3, <1>4, <1>5, <1>6 DEF Preparation

LEMMA BriefingKeeps ==
  ASSUME IInv, NEW p \in Process,
         \/ \E d \in Drafts : Validate(p, d)
         \/ \E r \in ReducedReasons : Reduce(p, r)
         \/ Briefing(p)
  PROVE  IInv'
<1>1. CASE \E d \in Drafts : Validate(p, d)
  BY <1>1, ValidateKeeps
<1>2. CASE \E r \in ReducedReasons : Reduce(p, r)
  BY <1>2, ReduceKeeps
<1>3. CASE Briefing(p)
  BY <1>3, StageAttemptKeeps, BindAttemptKeeps, LoadForBriefKeeps, BindBriefKeeps,
     StageReducedReasonKeeps, BindReducedKeeps DEF Briefing
<1>4. QED
  BY <1>1, <1>2, <1>3

LEMMA NextKeeps ==
  ASSUME IInv, [Next]_vars
  PROVE  IInv'
<1>1. CASE UNCHANGED vars
  <2>1. UNCHANGED <<created, log, staged, cutoff, bundle, window, overdue, pc, job, faults>>
    BY <1>1 DEF vars
  <2>2. TypeOK'
    BY <2>1 DEF IInv, TypeOK
  <2>3. RecordOK' /\ Kept
    BY <2>1, UnchangedRecord
  <2>4. ASSUME NEW q \in Process PROVE CallOK(pc[q], job[q])'
    BY <2>1, <2>2, <2>3, CallKept DEF IInv
  <2>5. SealOK'
    BY <2>1 DEF IInv, SealOK
  <2>6. QED
    BY <2>2, <2>3, <2>4, <2>5 DEF IInv
<1>2. CASE \E p \in Preparer : Preparation(p) \/ PublishBundle(p) \/ Outage(p) \/ Crash(p)
  BY <1>2, PreparationKeeps, PublishBundleKeeps, FaultKeeps DEF Process
<1>3. CASE \E p \in Host :
             \/ \E d \in Drafts : Validate(p, d)
             \/ \E r \in ReducedReasons : Reduce(p, r)
             \/ Briefing(p) \/ PublishBundle(p) \/ Crash(p)
  BY <1>3, BriefingKeeps, PublishBundleKeeps, FaultKeeps DEF Process
<1>4. CASE WindowCloses \/ DeadlinePasses
  BY <1>4, TimeKeeps
<1>5. QED
  BY <1>1, <1>2, <1>3, <1>4 DEF Next

\* What the services rely on between their unlocked reads and their locked writes
\* (checkpoint_if_current, stage_artifact, freeze_evidence) holds in every state,
\* whichever calls run, end, raise or die.
THEOREM Invariance == Spec => []IInv
<1>1. Init => IInv
  BY InitOK
<1>2. IInv /\ [Next]_vars => IInv'
  BY NextKeeps
<1>3. QED
  BY <1>1, <1>2, PTL DEF Spec

\* Every variable keeps its type; no call counts or records a fourth attempt.
THEOREM TypeCorrectness == Spec => []TypeOK
<1>1. IInv => TypeOK
  BY DEF IInv
<1>2. QED
  BY <1>1, Invariance, PTL

\* freeze_evidence happens once: nothing before it carries a cutoff, everything
\* after it carries that one, although calls that began earlier go on appending.
THEOREM EvidenceIsFrozenOnce == Spec => []EvidenceFrozenOnce
<1>1. IInv => EvidenceFrozenOnce
  BY DEF IInv, RecordOK
<1>2. QED
  BY <1>1, Invariance, PTL

\* The collection, the packet and the published bundle of a run are about the
\* same evidence, however many calls collect, freeze and publish at a time.
THEOREM EvidenceIsOne == Spec => []OneEvidence
<1>1. IInv => OneEvidence
  BY DEF IInv, RecordOK, EvidenceOK, CutsOK, OneEvidence
<1>2. QED
  BY <1>1, Invariance, PTL

\* A model never gets a packet of failed evidence, and a run whose preparation
\* failed on frozen evidence publishes nothing but that failure.
THEOREM FailureStaysOperational == Spec => []FailureIsNeverSynthesized
<1>1. IInv => FailureIsNeverSynthesized
  BY DEF IInv, RecordOK, FailureOK, FailedAt, FailureIsNeverSynthesized, Of
<1>2. QED
  BY <1>1, Invariance, PTL

=============================================================================
