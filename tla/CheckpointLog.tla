---------------------------- MODULE CheckpointLog ----------------------------
(***************************************************************************)
(* The durable record of one premarket run while it is staged: its         *)
(* numbered checkpoint files, its immutable staged artifacts and its       *)
(* evidence cutoff, with the rules by which FileSystemRunRepository        *)
(* (adapters/filesystem.py) accepts another checkpoint.                    *)
(*                                                                         *)
(* An artifact is a tuple whose first element is its name; the rest stands *)
(* for its bytes and their SHA-256.  brief_draft_<sha> and                 *)
(* validation_report_<sha>, always written as a pair, are one artifact     *)
(* <<"attempt", draft, number>>.  The cutoff is the completion time of the *)
(* collection it freezes, so it is that collection.  The packet and the    *)
(* reduced report are computed from the frozen artifacts: their bytes are  *)
(* the collection they are about.  Quality is "FAIL", or "PASS" for PASS   *)
(* and DEGRADED, which the rules never tell apart.  The delivery status is *)
(* fixed when the run is allocated, performance telemetry is bookkeeping,  *)
(* and resumable follows from the stage; they are left out.                *)
(***************************************************************************)
EXTENDS Naturals, Sequences, FiniteSets

CONSTANTS Collections,  \* the market data a provider may return
          None          \* no cutoff, no bundle, no collection

ASSUME CollectionsAssumption == None \notin Collections

VARIABLES created,  \* run.json exists
          log,      \* checkpoints/NNNN-<stage>.json, in order
          staged,   \* artifacts/<name>.bin
          cutoff,   \* frozen-evidence.json
          bundle    \* what publish_atomically published

recordVars == <<created, log, staged, cutoff, bundle>>

PreSynthesis == {"CONFIG_FROZEN", "EVIDENCE_COLLECTED", "EVIDENCE_FROZEN", "QUALITY_EVALUATED"}
Stages == PreSynthesis \cup {"AWAITING_SYNTHESIS", "VALIDATING", "PREPARATION_FAILED", "PUBLISHED"}
ExecutionStatuses == {"CREATED", "ANALYZING", "AWAITING_SYNTHESIS", "VALIDATING", "PUBLISHED"}

\* A checkpoint: its stage, execution and quality status, cutoff and hashes.
Checkpoint(stage, execution, quality, cut, artifacts) ==
  [stage |-> stage, execution |-> execution, quality |-> quality,
   cut |-> cut, artifacts |-> artifacts]

Latest == log[Len(log)]

\* The artifacts of a given name: the name bound to its bytes, or nothing.
Named(artifacts, name) == {a \in artifacts : a[1] = name}
Names(artifacts) == {a[1] : a \in artifacts}

\* The numbers of the checkpoints of a stage.
Of(stage) == {i \in 1..Len(log) : log[i].stage = stage}

\* load finds the run in staging; published runs accept no write.
Writable == created /\ bundle = None

-----------------------------------------------------------------------------
(* What the log and the staged files say of the packet and of the failure *)

\* _stored_packet_hash.  Every checkpoint binds the same immutable bytes.
FrozenPacket == UNION {Named(log[i].artifacts, "research_packet") : i \in 1..Len(log)}
StagedPacket == Named(staged, "research_packet")
Reason == Named(staged, "operational_reason")

Packetless == FrozenPacket = {} /\ StagedPacket = {}

MissedWithPacket ==
  /\ Reason = {<<"operational_reason", "MISSED_WINDOW">>}
  /\ FrozenPacket # {}
  /\ FrozenPacket = StagedPacket

\* The market data bound by the collection checkpoint.
Collected == UNION {Named(log[i].artifacts, "collection") : i \in Of("EVIDENCE_COLLECTED")}

-----------------------------------------------------------------------------
(* _checkpoint_unlocked: the five kinds of checkpoint accepted once the    *)
(* evidence is frozen, and the one restriction before.                     *)

\* _operational_publication_valid.
OperationalPublication(e) ==
  /\ Len(log) > 0
  /\ e.stage = "PUBLISHED" /\ e.execution = "PUBLISHED" /\ e.quality = "FAIL"
  /\ e.cut = cutoff
  /\ Latest.quality = "FAIL"
  /\ Latest.stage \in PreSynthesis \cup {"PREPARATION_FAILED"}
  /\ Packetless \/ MissedWithPacket
  /\ Reason # {}
  /\ e.artifacts = Latest.artifacts \cup Reason
  /\ e.artifacts \subseteq staged

\* valid_freeze.  Its time is the cutoff, which must not precede the latest
\* checkpoint: of those that can be latest here, a failure or a publication is
\* written after the collection completed, the others are not.
Freeze(e) ==
  /\ e.stage = "EVIDENCE_FROZEN"
  /\ e.execution = Latest.execution /\ e.quality = Latest.quality
  /\ e.artifacts = {}
  /\ Latest.stage \notin {"PREPARATION_FAILED", "PUBLISHED"}

\* valid_quality_evaluation.
QualityEvaluation(e) ==
  /\ e.stage = "QUALITY_EVALUATED" /\ e.execution = "ANALYZING"
  /\ Latest.stage = "EVIDENCE_FROZEN"
  /\ Names(e.artifacts) = {"collection", "data_quality"}
  /\ Collected # {} /\ Named(e.artifacts, "collection") = Collected
  /\ StagedPacket = {}
  /\ e.artifacts \subseteq staged

\* valid_preparation_failure.
PreparationFailure(e) ==
  /\ e.stage = "PREPARATION_FAILED"
  /\ \/ Latest.stage \in {"EVIDENCE_FROZEN", "QUALITY_EVALUATED"} /\ Packetless
     \/ Latest.stage \in {"AWAITING_SYNTHESIS", "VALIDATING"} /\ MissedWithPacket
  /\ e.execution = Latest.execution /\ e.quality = "FAIL"
  /\ Reason # {}
  /\ e.artifacts = Latest.artifacts \cup Reason
  /\ e.artifacts \subseteq staged

\* validation_artifacts: one recorded attempt on the packet.
AttemptArtifacts(e) ==
  /\ Names(e.artifacts) \subseteq {"research_packet", "reduced_report", "attempt"}
  /\ Cardinality(Named(e.artifacts, "attempt")) = 1

PacketOnly(e) ==
  Names(e.artifacts) \in {{"research_packet"}, {"research_packet", "reduced_report"}}

Synthesis(e) ==
  /\ e.stage = "AWAITING_SYNTHESIS"
  /\ Latest.stage \in {"EVIDENCE_FROZEN", "QUALITY_EVALUATED"}
  /\ ~(Latest.stage = "QUALITY_EVALUATED" /\ e.quality = "FAIL")
  /\ PacketOnly(e)

\* At most three recorded attempts.
Validation(e) ==
  /\ e.stage = "VALIDATING"
  /\ Latest.stage \in {"AWAITING_SYNTHESIS", "VALIDATING"}
  /\ \/ PacketOnly(e)
     \/ AttemptArtifacts(e) /\ Cardinality(Of("VALIDATING")) < 3

ValidatedPublication(e) ==
  /\ e.stage = "PUBLISHED"
  /\ Latest.stage = "VALIDATING"
  /\ AttemptArtifacts(e)
  /\ e.artifacts = Latest.artifacts

ReducedPublication(e) ==
  /\ e.stage = "PUBLISHED"
  /\ Latest.stage \in {"AWAITING_SYNTHESIS", "VALIDATING"}
  /\ Named(Latest.artifacts, "reduced_report") # {}
  /\ Names(e.artifacts) = Names(Latest.artifacts) \cup {"reduced_reason"}
  /\ Latest.artifacts \subseteq e.artifacts

\* valid_retry: work on the packet, always the frozen one.
PacketWork(e) ==
  /\ \/ Synthesis(e)
     \/ Validation(e)
     \/ ValidatedPublication(e)
     \/ ReducedPublication(e)
  /\ e.execution = e.stage /\ e.quality = Latest.quality
  /\ e.artifacts \subseteq staged
  /\ Named(e.artifacts, "research_packet") = StagedPacket
  /\ StagedPacket # {} /\ FrozenPacket \subseteq StagedPacket
  /\ Named(Latest.artifacts, "reduced_report") \subseteq e.artifacts

\* Before the cutoff anything but a publication is accepted.
\* Mutant: after the cutoff too.
AcceptsAnything(e) ==
  /\ Writable
  /\ e.stage = "PUBLISHED" => OperationalPublication(e) \/ PacketWork(e)
  /\ cutoff # None => e.cut = cutoff

Accepts(e) ==
  /\ Writable
  /\ cutoff = None => (e.stage = "PUBLISHED" => OperationalPublication(e))
  /\ cutoff # None =>
       /\ Len(log) > 0
       /\ e.cut = cutoff
       /\ \/ Freeze(e)
          \/ QualityEvaluation(e)
          \/ PacketWork(e)
          \/ OperationalPublication(e)
          \/ PreparationFailure(e)

\* stage_artifact: a name keeps its first bytes; an attempt's files are named
\* by their hash.
\* Mutant: the same bytes are refused too.
StageableOnce(a) == Writable /\ (a[1] = "attempt" \/ Named(staged, a[1]) = {})

Stageable(a) == Writable /\ (a[1] = "attempt" \/ Named(staged, a[1]) \subseteq {a})

=============================================================================
