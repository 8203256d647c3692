----------------------------- MODULE RunLifecycle -----------------------------
(***************************************************************************)
(* One premarket run, from its allocation to its publication, worked on by *)
(* the services of application/: preparers execute prepare_research_packet *)
(* (premarket_preparation.py and the services it calls), hosts validate    *)
(* and publish briefs (publication_service.py).  They share nothing but    *)
(* the record of CheckpointLog: each loads it without the run lock,        *)
(* decides, and later stages artifacts and appends checkpoints, each under *)
(* the lock for that one write.  Most appends compare the length of the    *)
(* log with the one loaded (checkpoint_if_current), two do not.            *)
(*                                                                         *)
(* Every action is one load or one durable write with the decisions that   *)
(* follow it.  A call that raises and a call that returns both leave the   *)
(* process idle and the record as it is; a caller may always call again.   *)
(***************************************************************************)
EXTENDS CheckpointLog

CONSTANTS Preparer, Host,  \* processes inside each kind of call
          TimedOut,        \* the collections in which a provider hit its deadline
          Drafts,          \* the briefs a model may write
          Valid,           \* those the deterministic validation accepts
          Renderable,      \* of these, the ones whose sections name only their own claims
          CrashPoints,     \* the steps before which a process may die
          MaxFaults        \* crashes and calendar outages explored

ASSUME ProcessAssumption == Preparer \cap Host = {}
ASSUME DataAssumption ==
  /\ TimedOut \subseteq Collections
  /\ Valid \subseteq Drafts /\ Renderable \subseteq Valid /\ None \notin Drafts
ASSUME FaultAssumption == MaxFaults \in Nat

VARIABLES window,   \* what resolve_run_window makes of the time: open, late or closed
          overdue,  \* the run's deadline has passed
          pc,       \* where each process is in its call
          job,      \* the local variables of that call
          faults    \* crashes and outages so far

vars == <<created, log, staged, cutoff, bundle, window, overdue, pc, job, faults>>

Process == Preparer \cup Host

FailureReasons == {"MISSED_WINDOW", "DEADLINE_EXCEEDED", "MARKET_CALENDAR_UNAVAILABLE", "QUALITY"}
ReducedReasons == {"SYNTHESIS_UNAVAILABLE", "SYNTHESIS_TIMEOUT", "VALIDATION_REPAIR_EXHAUSTED"}

Steps == {"idle", "allocate", "config", "dispatch", "prior", "stage_prior", "bind_prior", "collect", "fetch",
          "bind_collection", "freeze", "seal_freeze", "quality", "stage_quality", "bind_quality",
          "packet", "load_packet", "stage_packet", "stage_reduced", "bind_packet",
          "reload", "fail", "bind_failure", "report", "stage_report", "bind_report",
          "stage_attempt", "bind_attempt", "publish", "bind_brief", "stage_reason", "bind_reduced", "publish_bundle"}

\* Locals: the length of the log and the cutoff as loaded, the collection, the
\* quality, the reason and the draft the call works with.
Locals == [seen : Nat, cut : Collections \cup {None}, item : Collections \cup {None},
           quality : {"PASS", "FAIL"}, reason : FailureReasons \cup ReducedReasons \cup {"none"},
           draft : Drafts \cup {None}]
Fresh == [seen |-> 0, cut |-> None, item |-> None, quality |-> "PASS",
          reason |-> "none", draft |-> None]

Artifacts ==
  {<<"prior">>}
  \cup {<<name, c>> : name \in {"collection", "research_packet", "reduced_report"}, c \in Collections}
  \cup {<<"data_quality", q>> : q \in {"PASS", "FAIL"}}
  \cup {<<"operational_reason", r>> : r \in FailureReasons}
  \cup {<<"reduced_reason", r>> : r \in ReducedReasons}
  \cup {<<"attempt", d, k>> : d \in Drafts, k \in 1..3}

Checkpoints == [stage : Stages, execution : ExecutionStatuses, quality : {"PASS", "FAIL"},
                cut : Collections \cup {None}, artifacts : SUBSET Artifacts]

\* A bundle: the path that composed it, what it is about and its context.
Bundles == [kind : {"synthesized", "reduced", "operational"},
            about : Drafts \cup ReducedReasons \cup FailureReasons,
            cut : Collections \cup {None}, quality : {"PASS", "FAIL"}]

Init ==
  /\ created = FALSE
  /\ log = <<>>
  /\ staged = {}
  /\ cutoff = None
  /\ bundle = None
  /\ window = "open"
  /\ overdue = FALSE
  /\ pc = [p \in Process |-> "idle"]
  /\ job = [p \in Process |-> Fresh]
  /\ faults = 0

-----------------------------------------------------------------------------
(* Calls and the run lock *)

GoTo(p, step) == pc' = [pc EXCEPT ![p] = step]

\* Go on with changed locals.
Continue(p, step, locals) == GoTo(p, step) /\ job' = [job EXCEPT ![p] = locals]

Finish(p) == Continue(p, "idle", Fresh)

\* Locals after load: the checkpoints and the cutoff it returned.
Loaded(p) == [job[p] EXCEPT !.seen = Len(log), !.cut = cutoff]

\* The last checkpoint the call has loaded.  The log only grows.
Seen(p) == log[job[p].seen]

\* freeze_evidence writes two files inside one locked section.
Unlocked == \A p \in Process : pc[p] # "seal_freeze"

\* checkpoint_if_current.
\* Mutant: the checkpoint is appended whatever was appended since.
WhateverFollowed(p) == TRUE

Current(p) == Len(log) = job[p].seen

\* Append checkpoint e, if admitted, and load the run again; or raise.
Bind(p, admitted, e, step) ==
  /\ Unlocked
  /\ \/ /\ admitted /\ Accepts(e)
        /\ log' = Append(log, e)
        /\ Continue(p, step, IF step = "idle" THEN Fresh
                             ELSE [job[p] EXCEPT !.seen = Len(log) + 1, !.cut = cutoff])
     \/ /\ ~(admitted /\ Accepts(e))
        /\ Finish(p)
        /\ UNCHANGED log
  /\ UNCHANGED <<created, staged, cutoff, bundle, window, overdue, faults>>

\* Stage artifact a, or raise.
Stage(p, a, step) ==
  /\ Unlocked
  /\ \/ /\ Stageable(a)
        /\ staged' = staged \cup {a}
        /\ GoTo(p, step)
        /\ UNCHANGED job
     \/ /\ ~Stageable(a)
        /\ Finish(p)
        /\ UNCHANGED staged
  /\ UNCHANGED <<created, log, cutoff, bundle, window, overdue, faults>>

envVars == <<window, overdue, faults>>

-----------------------------------------------------------------------------
(* prepare_premarket_run: resolve the window, find or allocate the run *)

\* A published run is returned, a closed window recorded: nothing changes.
Prepare(p) ==
  /\ pc[p] = "idle" /\ bundle = None
  /\ \/ created /\ Continue(p, "dispatch", Loaded(p))
     \/ ~created /\ window # "closed" /\ GoTo(p, "allocate") /\ UNCHANGED job
  /\ UNCHANGED <<recordVars, envVars>>

\* allocate_revision returns the context another call created meanwhile.
Allocate(p) ==
  /\ pc[p] = "allocate" /\ Unlocked
  /\ created' = TRUE
  /\ GoTo(p, "config")
  /\ UNCHANGED <<log, staged, cutoff, bundle, job, envVars>>

\* Not compared with what was loaded.
FreezeConfiguration(p) ==
  /\ pc[p] = "config"
  /\ Bind(p, TRUE, Checkpoint("CONFIG_FROZEN", "CREATED", "PASS", None, {}), "dispatch")

-----------------------------------------------------------------------------
(* prepare_research_packet: what is left to do for the loaded run *)

FailWith(p, reason) ==
  Continue(p, "fail", [Fresh EXCEPT !.seen = job[p].seen, !.cut = job[p].cut, !.reason = reason])

\* checkpoints[-1] of a run without a checkpoint raises; so do a failed run
\* without its reason and a data quality that its checkpoint does not bind.
Dispatch(p) ==
  LET now == IF bundle = None THEN staged ELSE {}
      QualityBound == Named(now, "data_quality") \subseteq Seen(p).artifacts
      Failed == Seen(p).stage \in {"PUBLISHED", "PREPARATION_FAILED"}
      Synthesizing == Seen(p).stage \in {"AWAITING_SYNTHESIS", "VALIDATING"}
  IN /\ pc[p] = "dispatch" /\ Unlocked
     /\ \/ window = "closed" /\ Finish(p)
        \/ window # "closed" /\ job[p].seen = 0 /\ Finish(p)
        \/ window = "late" /\ job[p].seen > 0 /\ FailWith(p, "MISSED_WINDOW")
        \/ /\ window = "open" /\ job[p].seen > 0
           /\ \/ \E a \in Named(now, "research_packet") :
                   Continue(p, "load_packet", [job[p] EXCEPT !.item = a[2]])
              \/ /\ Named(now, "research_packet") = {}
                 /\ \/ \E a \in Named(now, "operational_reason") :
                         /\ ~Synthesizing /\ QualityBound
                         /\ FailWith(p, a[2])
                    \/ /\ Named(now, "operational_reason") = {}
                       /\ ~Synthesizing /\ ~Failed
                       /\ GoTo(p, "prior") /\ UNCHANGED job
                    \/ /\ \/ Synthesizing
                          \/ Failed /\ Named(now, "operational_reason") = {}
                          \/ Named(now, "operational_reason") # {} /\ ~QualityBound
                       /\ Finish(p)
     /\ UNCHANGED <<recordVars, envVars>>

Expire(p) == Continue(p, "reload", [Fresh EXCEPT !.reason = "DEADLINE_EXCEEDED"])

\* freeze_prior_research.
SelectPrior(p) ==
  LET Bound == \E i \in 1..Len(log) : <<"prior">> \in log[i].artifacts
      Selectable == /\ bundle = None /\ cutoff = None
                    /\ Of("EVIDENCE_COLLECTED") = {} /\ Named(staged, "collection") = {}
      Same == bundle = None /\ cutoff = job[p].cut
  IN /\ pc[p] = "prior" /\ Unlocked
     /\ \/ overdue /\ Expire(p)
        \/ ~overdue /\ Same /\ Bound /\ GoTo(p, "collect") /\ UNCHANGED job
        \/ ~overdue /\ Same /\ ~Bound /\ Selectable /\ Continue(p, "stage_prior", Loaded(p))
        \/ /\ ~overdue /\ ~(Same /\ (Bound \/ Selectable))
           /\ Finish(p)
     /\ UNCHANGED <<recordVars, envVars>>

StagePrior(p) == pc[p] = "stage_prior" /\ Stage(p, <<"prior">>, "bind_prior")

BindPrior(p) ==
  /\ pc[p] = "bind_prior"
  /\ Bind(p, Current(p),
          Checkpoint("CONFIG_FROZEN", Seen(p).execution, Seen(p).quality, None, {<<"prior">>}),
          "collect")

-----------------------------------------------------------------------------
(* collect_and_freeze_market_data_for_run *)

\* Frozen evidence is reloaded, a checkpointed or a staged collection reused.
Collect(p) ==
  /\ pc[p] = "collect"
  /\ \/ /\ bundle = None /\ cutoff # None
        /\ \E a \in Collected : Continue(p, "quality", [Loaded(p) EXCEPT !.item = a[2]])
     \/ /\ bundle = None /\ cutoff = None
        /\ \/ \E a \in Collected : Continue(p, "freeze", [Loaded(p) EXCEPT !.item = a[2]])
           \/ /\ Collected = {}
              /\ \/ \E a \in Named(staged, "collection") :
                      Continue(p, "bind_collection", [Loaded(p) EXCEPT !.item = a[2]])
                 \/ /\ Named(staged, "collection") = {}
                    /\ \E c \in Collections : Continue(p, "fetch", [Loaded(p) EXCEPT !.item = c])
     \/ (bundle # None \/ (cutoff # None /\ Collected = {})) /\ Finish(p)
  /\ UNCHANGED <<recordVars, envVars>>

Fetch(p) == pc[p] = "fetch" /\ Stage(p, <<"collection", job[p].item>>, "bind_collection")

BindCollection(p) ==
  /\ pc[p] = "bind_collection"
  /\ Bind(p, Current(p),
          Checkpoint("EVIDENCE_COLLECTED", Seen(p).execution, Seen(p).quality, None,
                     {<<"collection", job[p].item>>}),
          "freeze")

\* freeze_evidence, first file.
\* Mutant: a cutoff already set is set again.
Refreeze(p) ==
  /\ pc[p] = "freeze" /\ Unlocked
  /\ IF Writable
     THEN cutoff' = job[p].item /\ GoTo(p, "seal_freeze") /\ UNCHANGED job
     ELSE Finish(p) /\ UNCHANGED cutoff
  /\ UNCHANGED <<created, log, staged, bundle, envVars>>

FreezeEvidence(p) ==
  /\ pc[p] = "freeze" /\ Unlocked
  /\ IF Writable /\ cutoff = None
     THEN cutoff' = job[p].item /\ GoTo(p, "seal_freeze") /\ UNCHANGED job
     ELSE Finish(p) /\ UNCHANGED cutoff
  /\ UNCHANGED <<created, log, staged, bundle, envVars>>

\* Second file, in the same locked section, with the statuses then latest.
SealFreeze(p) ==
  LET e == Checkpoint("EVIDENCE_FROZEN", Latest.execution, Latest.quality, job[p].item, {})
  IN /\ pc[p] = "seal_freeze"
     /\ \/ /\ Accepts(e)
           /\ log' = Append(log, e)
           /\ Continue(p, "quality", [job[p] EXCEPT !.seen = Len(log) + 1, !.cut = cutoff])
        \/ ~Accepts(e) /\ Finish(p) /\ UNCHANGED log
     /\ UNCHANGED <<created, staged, cutoff, bundle, envVars>>

-----------------------------------------------------------------------------
(* checkpoint_collected_market_data_quality *)

\* What the call does with the quality it evaluated, staged or found bound.
AfterQuality(q) == IF q = "FAIL" THEN "fail" ELSE "packet"

WithQuality(p, q) ==
  [job[p] EXCEPT !.quality = q, !.reason = IF q = "FAIL" THEN "QUALITY" ELSE "none"]

\* The run must still be as the freeze returned it.  A staged result is used
\* again; otherwise the sources' health decides.
EvaluateQuality(p) ==
  LET Same == bundle = None /\ Current(p) /\ Collected # {}
      Stored == Named(staged, "data_quality")
  IN /\ pc[p] = "quality"
     /\ \/ (overdue \/ job[p].item \in TimedOut) /\ Expire(p)
        \/ /\ ~overdue /\ job[p].item \notin TimedOut
           /\ \/ /\ Same /\ Seen(p).stage = "QUALITY_EVALUATED"
                 /\ \E a \in Stored :
                      IF Seen(p).artifacts = Collected \cup Stored
                      THEN Continue(p, AfterQuality(a[2]), WithQuality(p, a[2]))
                      ELSE Finish(p)
              \/ /\ Same /\ Seen(p).stage = "EVIDENCE_FROZEN"
                 /\ \E q \in {"PASS", "FAIL"} :
                      /\ Stored \subseteq {<<"data_quality", q>>}
                      /\ Continue(p, "stage_quality", WithQuality(p, q))
              \/ /\ ~Same \/ Seen(p).stage \notin {"QUALITY_EVALUATED", "EVIDENCE_FROZEN"}
                 /\ Finish(p)
     /\ UNCHANGED <<recordVars, envVars>>

StageQuality(p) ==
  pc[p] = "stage_quality" /\ Stage(p, <<"data_quality", job[p].quality>>, "bind_quality")

BindQuality(p) ==
  /\ pc[p] = "bind_quality"
  /\ Bind(p, Current(p),
          Checkpoint("QUALITY_EVALUATED", "ANALYZING", job[p].quality, job[p].cut,
                     Collected \cup {<<"data_quality", job[p].quality>>}),
          AfterQuality(job[p].quality))

-----------------------------------------------------------------------------
(* build_research_packet and stage_research_packet *)

BuildPacket(p) ==
  /\ pc[p] = "packet"
  /\ \/ overdue /\ Expire(p)
     \/ ~overdue /\ GoTo(p, "load_packet") /\ UNCHANGED job
  /\ UNCHANGED <<recordVars, envVars>>

\* The packet's context: the frozen run, not failed.
LoadForPacket(p) ==
  LET Stageworthy ==
        /\ bundle = None /\ cutoff = job[p].item /\ Len(log) > 0
        /\ Latest.stage \in {"EVIDENCE_FROZEN", "QUALITY_EVALUATED",
                             "AWAITING_SYNTHESIS", "VALIDATING"}
        /\ Latest.quality = "PASS"
  IN /\ pc[p] = "load_packet"
     /\ \/ Stageworthy /\ Continue(p, "stage_packet", Loaded(p))
        \/ ~Stageworthy /\ Finish(p)
     /\ UNCHANGED <<recordVars, envVars>>

StagePacket(p) ==
  pc[p] = "stage_packet" /\ Stage(p, <<"research_packet", job[p].item>>, "stage_reduced")

StageReducedReport(p) ==
  pc[p] = "stage_reduced" /\ Stage(p, <<"reduced_report", job[p].item>>, "bind_packet")

\* A packet bound before is only verified.  The append is not compared with
\* what was loaded.
BindPacket(p) ==
  /\ pc[p] = "bind_packet"
  /\ IF Seen(p).stage \in {"AWAITING_SYNTHESIS", "VALIDATING"}
     THEN Finish(p) /\ UNCHANGED <<recordVars, envVars>>
     ELSE Bind(p, TRUE,
               Checkpoint("AWAITING_SYNTHESIS", "AWAITING_SYNTHESIS", "PASS", job[p].item,
                          {<<"research_packet", job[p].item>>, <<"reduced_report", job[p].item>>}),
               "idle")

-----------------------------------------------------------------------------
(* _operational_failure and publish_operational_report *)

\* The handler of a timeout or an outage reloads the run.
Reload(p) ==
  /\ pc[p] = "reload"
  /\ Continue(p, "fail", Loaded(p))
  /\ UNCHANGED <<recordVars, envVars>>

FailureReason(p) == <<"operational_reason", job[p].reason>>

Fail(p) ==
  /\ pc[p] = "fail"
  /\ IF Seen(p).quality = "FAIL"
     THEN GoTo(p, "report") /\ UNCHANGED <<recordVars, envVars, job>>
     ELSE Stage(p, FailureReason(p), "bind_failure")

BindFailure(p) ==
  /\ pc[p] = "bind_failure"
  /\ Bind(p, Current(p),
          [Seen(p) EXCEPT !.stage = "PREPARATION_FAILED", !.quality = "FAIL",
                          !.artifacts = @ \cup {FailureReason(p)}],
          "report")

\* publish_operational_report: the run is still the failed one it was called
\* for, and without a packet unless the window was missed.
Reportable(p) ==
  /\ bundle = None
  /\ cutoff = job[p].cut
  /\ Latest.quality = "FAIL"
  /\ \/ Packetless
     \/ /\ job[p].reason = "MISSED_WINDOW"
        /\ FrozenPacket # {} /\ FrozenPacket = StagedPacket

LoadForReport(p) ==
  LET Resumed == Latest.stage = "PUBLISHED" /\ FailureReason(p) \in Latest.artifacts \cap staged
      Started == /\ Latest.stage \in PreSynthesis \cup {"PREPARATION_FAILED"}
                 /\ Latest.execution = Seen(p).execution
  IN /\ pc[p] = "report"
     /\ \/ Reportable(p) /\ Resumed /\ Continue(p, "publish_bundle", Loaded(p))
        \/ Reportable(p) /\ Started /\ Continue(p, "stage_report", Loaded(p))
        \/ ~(Reportable(p) /\ (Resumed \/ Started)) /\ Finish(p)
     /\ UNCHANGED <<recordVars, envVars>>

StageReport(p) == pc[p] = "stage_report" /\ Stage(p, FailureReason(p), "bind_report")

BindReport(p) ==
  /\ pc[p] = "bind_report"
  /\ Bind(p, Current(p),
          Checkpoint("PUBLISHED", "PUBLISHED", "FAIL", job[p].cut,
                     Seen(p).artifacts \cup {FailureReason(p)}),
          "publish_bundle")

-----------------------------------------------------------------------------
(* validate_staged_brief *)

\* _staged_packet_hash: the packet is bound by the latest checkpoint.
Handed(stages) ==
  /\ Writable /\ Len(log) > 0
  /\ Latest.stage \in stages
  /\ StagedPacket # {} /\ Named(Latest.artifacts, "research_packet") = StagedPacket
  /\ StagedPacket = {<<"research_packet", cutoff>>}
  /\ Latest.quality = "PASS"

\* The recorded attempts of the first n checkpoints: draft and number.
AttemptsUpTo(n) ==
  UNION {Named(log[i].artifacts, "attempt") : i \in {j \in Of("VALIDATING") : j <= n}}
Attempts == AttemptsUpTo(Len(log))

\* The draft of the latest attempt.
LastDraft ==
  IF Attempts = {} THEN None
  ELSE (CHOOSE a \in Attempts : \A b \in Attempts : b[3] <= a[3])[2]

\* create_repair_context: an invalid attempt is repaired, at most twice.
\* Mutant: however often.
RepairableForever == LastDraft \notin Valid

Repairable == LastDraft \notin Valid /\ Cardinality(Attempts) < 3

\* The draft of the latest attempt only finds its report again; a valid one is
\* then published.
Validate(p, d) ==
  /\ pc[p] = "idle" /\ Handed({"AWAITING_SYNTHESIS", "VALIDATING"})
  /\ \/ /\ LastDraft # d /\ Repairable
        /\ Continue(p, "stage_attempt", [Loaded(p) EXCEPT !.draft = d])
     \/ /\ LastDraft = d /\ d \in Valid
        /\ GoTo(p, "publish") /\ UNCHANGED job
  /\ UNCHANGED <<recordVars, envVars>>

Attempt(p) == <<"attempt", job[p].draft, Cardinality(AttemptsUpTo(job[p].seen)) + 1>>

StageAttempt(p) == pc[p] = "stage_attempt" /\ Stage(p, Attempt(p), "bind_attempt")

BindAttempt(p) ==
  /\ pc[p] = "bind_attempt"
  /\ Bind(p, Current(p),
          Checkpoint("VALIDATING", "VALIDATING", "PASS", job[p].cut,
                     {Attempt(p)} \cup Named(Seen(p).artifacts, "research_packet")
                                  \cup Named(Seen(p).artifacts, "reduced_report")),
          IF job[p].draft \in Valid THEN "publish" ELSE "idle")

-----------------------------------------------------------------------------
(* publish_validated_brief *)

\* The report is rendered before anything is staged or bound, by a first call as
\* by one that resumes: of a valid draft that names a missing claim it raises.
LoadForBrief(p) ==
  LET Publishable == /\ Handed({"VALIDATING", "PUBLISHED"})
                     /\ LastDraft \in Valid /\ LastDraft \in Renderable
  IN /\ pc[p] = "publish"
     /\ \/ Publishable /\ Continue(p, IF Latest.stage = "PUBLISHED" THEN "publish_bundle"
                                      ELSE "bind_brief",
                                   [Loaded(p) EXCEPT !.draft = LastDraft])
        \/ ~Publishable /\ Finish(p)
     /\ UNCHANGED <<recordVars, envVars>>

BindBrief(p) ==
  /\ pc[p] = "bind_brief"
  /\ Bind(p, Current(p),
          Checkpoint("PUBLISHED", "PUBLISHED", "PASS", job[p].cut, Seen(p).artifacts),
          "publish_bundle")

-----------------------------------------------------------------------------
(* publish_reduced_report *)

ReducedReason(p) == <<"reduced_reason", job[p].reason>>

\* No recorded attempt is valid, and exhaustion is the reason exactly after
\* three of them.
\* Mutant: the recorded attempts are not looked at.
ReducibleAnyway(reason) == Handed({"AWAITING_SYNTHESIS", "VALIDATING", "PUBLISHED"})

Reducible(reason) ==
  /\ Handed({"AWAITING_SYNTHESIS", "VALIDATING", "PUBLISHED"})
  /\ Named(staged, "reduced_report") # {}
  /\ Named(staged, "reduced_report") \subseteq Latest.artifacts
  /\ \A a \in Attempts : a[2] \notin Valid
  /\ reason = "VALIDATION_REPAIR_EXHAUSTED" <=> Cardinality(Attempts) = 3

Reduce(p, reason) ==
  /\ pc[p] = "idle" /\ Reducible(reason)
  /\ \/ /\ Latest.stage = "PUBLISHED"
        /\ <<"reduced_reason", reason>> \in Latest.artifacts \cap staged
        /\ Continue(p, "publish_bundle", [Loaded(p) EXCEPT !.reason = reason])
     \/ /\ Latest.stage # "PUBLISHED"
        /\ Continue(p, "stage_reason", [Loaded(p) EXCEPT !.reason = reason])
  /\ UNCHANGED <<recordVars, envVars>>

StageReducedReason(p) == pc[p] = "stage_reason" /\ Stage(p, ReducedReason(p), "bind_reduced")

BindReduced(p) ==
  /\ pc[p] = "bind_reduced"
  /\ Bind(p, Current(p),
          Checkpoint("PUBLISHED", "PUBLISHED", "PASS", job[p].cut,
                     Seen(p).artifacts \cup {ReducedReason(p)}),
          "publish_bundle")

-----------------------------------------------------------------------------
(* publish_atomically.  Its own steps and failures are those of RunStore. *)

\* The bundle the call composed from the run it loaded and its final checkpoint.
Composed(p) ==
  [kind |-> IF job[p].draft # None THEN "synthesized"
            ELSE IF job[p].reason \in ReducedReasons THEN "reduced" ELSE "operational",
   about |-> IF job[p].draft # None THEN job[p].draft ELSE job[p].reason,
   cut |-> job[p].cut,
   quality |-> Seen(p).quality]

\* The staged run has the bundle's context and statuses.
\* Mutant: they are not compared.
MayPublishStale(p) == Writable

MayPublish(p) ==
  /\ Writable
  /\ Composed(p).cut = cutoff
  /\ Latest.execution = "PUBLISHED" /\ Latest.quality = Composed(p).quality
  /\ Latest.stage = "PUBLISHED" => Latest.artifacts \subseteq staged

PublishBundle(p) ==
  /\ pc[p] = "publish_bundle" /\ Unlocked
  /\ bundle' = IF MayPublish(p) THEN Composed(p) ELSE bundle
  /\ Finish(p)
  /\ UNCHANGED <<created, log, staged, cutoff, envVars>>

-----------------------------------------------------------------------------
(* Time, outages and crashes *)

WindowCloses ==
  /\ \/ window = "open" /\ window' = "late"
     \/ window = "late" /\ window' = "closed"
  /\ UNCHANGED <<recordVars, pc, job, overdue, faults>>

DeadlinePasses ==
  /\ created /\ ~overdue
  /\ overdue' = TRUE
  /\ UNCHANGED <<recordVars, pc, job, window, faults>>

\* The exchange calendar is unavailable while the window is resolved again, the
\* market data collected or the packet built.
Outage(p) ==
  /\ faults < MaxFaults
  /\ faults' = faults + 1
  /\ \/ /\ pc[p] = "dispatch" /\ job[p].seen > 0
        /\ FailWith(p, "MARKET_CALENDAR_UNAVAILABLE")
     \/ /\ pc[p] \in {"fetch", "packet"}
        /\ Continue(p, "reload", [Fresh EXCEPT !.reason = "MARKET_CALENDAR_UNAVAILABLE"])
  /\ UNCHANGED <<recordVars, window, overdue>>

\* The process dies, whatever it holds.
Crash(p) ==
  /\ pc[p] # "idle" /\ pc[p] \in CrashPoints
  /\ faults < MaxFaults
  /\ faults' = faults + 1
  /\ Finish(p)
  /\ UNCHANGED <<recordVars, window, overdue>>

-----------------------------------------------------------------------------
Preparation(p) ==
  \/ Prepare(p) \/ Allocate(p) \/ FreezeConfiguration(p) \/ Dispatch(p)
  \/ SelectPrior(p) \/ StagePrior(p) \/ BindPrior(p)
  \/ Collect(p) \/ Fetch(p) \/ BindCollection(p) \/ FreezeEvidence(p) \/ SealFreeze(p)
  \/ EvaluateQuality(p) \/ StageQuality(p) \/ BindQuality(p)
  \/ BuildPacket(p) \/ LoadForPacket(p) \/ StagePacket(p) \/ StageReducedReport(p) \/ BindPacket(p)
  \/ Reload(p) \/ Fail(p) \/ BindFailure(p)
  \/ LoadForReport(p) \/ StageReport(p) \/ BindReport(p)

Briefing(p) ==
  \/ StageAttempt(p) \/ BindAttempt(p)
  \/ LoadForBrief(p) \/ BindBrief(p)
  \/ StageReducedReason(p) \/ BindReduced(p)

Next ==
  \/ \E p \in Preparer : Preparation(p) \/ PublishBundle(p) \/ Outage(p) \/ Crash(p)
  \/ \E p \in Host :
       \/ \E d \in Drafts : Validate(p, d)
       \/ \E r \in ReducedReasons : Reduce(p, r)
       \/ Briefing(p) \/ PublishBundle(p) \/ Crash(p)
  \/ WindowCloses \/ DeadlinePasses

Spec == Init /\ [][Next]_vars

\* A preparer is invoked again until the run is over and every call goes on.  A
\* host that finds a packet tries again each way it has to publish: no invalid
\* draft is owed, nor one that cannot be rendered.
FairSpec ==
  /\ Spec
  /\ \A p \in Preparer : WF_vars(Preparation(p) \/ PublishBundle(p))
  /\ \A p \in Host :
       /\ WF_vars(Briefing(p) \/ PublishBundle(p))
       /\ \A d \in Renderable : SF_vars(Validate(p, d))
       /\ \A r \in ReducedReasons : SF_vars(Reduce(p, r))

-----------------------------------------------------------------------------
(* Properties *)

\* Every variable keeps its type; no attempt has a number above three.
TypeOK ==
  /\ created \in BOOLEAN
  /\ log \in Seq(Checkpoints)
  /\ staged \subseteq Artifacts
  /\ cutoff \in Collections \cup {None}
  /\ bundle = None \/ bundle \in Bundles
  /\ window \in {"open", "late", "closed"}
  /\ overdue \in BOOLEAN
  /\ pc \in [Process -> Steps]
  /\ job \in [Process -> Locals]
  /\ faults \in 0..MaxFaults

\* The evidence is frozen once: what was configured, selected and collected comes
\* before, without a cutoff, and whatever follows carries the cutoff, although
\* calls that began before the freeze go on appending.
EvidenceFrozenOnce ==
  \A i \in Of("EVIDENCE_FROZEN"), j \in 1..Len(log) :
    /\ j < i => log[j].cut = None
    /\ j > i => /\ log[j].cut = cutoff
               /\ log[j].stage \notin {"CONFIG_FROZEN", "EVIDENCE_COLLECTED", "EVIDENCE_FROZEN"}

\* Everything done with a run after its evidence froze is about that evidence:
\* the collection bound before the freeze, the packet and the published bundle,
\* however many calls collected, froze and published at the same time.
OneEvidence ==
  /\ cutoff # None =>
       /\ Collected = {<<"collection", cutoff>>}
       /\ StagedPacket \subseteq {<<"research_packet", cutoff>>}
       /\ \A i \in 1..Len(log) : log[i].cut \in {None, cutoff}
  /\ cutoff = None => StagedPacket = {}
  /\ bundle # None => bundle.cut = cutoff

\* The k-th validation checkpoint records attempt k, there are at most three,
\* and only the last one can be valid.
AttemptsInOrder ==
  /\ Cardinality(Of("VALIDATING")) <= 3
  /\ \A i \in Of("VALIDATING") : \E d \in Drafts :
       /\ Named(log[i].artifacts, "attempt")
            = {<<"attempt", d, Cardinality({j \in Of("VALIDATING") : j <= i})>>}
       /\ d \in Valid => \A j \in Of("VALIDATING") : j <= i

\* What is published is what the log says happened: a synthesized report is the
\* latest recorded attempt and valid, a reduced one has no valid attempt and
\* gives exhaustion as its reason exactly after three, an operational one is of
\* a failed run that has no packet unless its window was missed.  The three are
\* never mixed, whichever calls race for the run.
PublicationMatchesRecord ==
  bundle # None =>
    \E i \in Of("PUBLISHED") :
      /\ bundle.quality = log[i].quality
      /\ bundle.kind = "synthesized" =>
           /\ bundle.about = LastDraft /\ LastDraft \in Valid
           /\ Names(log[i].artifacts) \cap {"reduced_reason", "operational_reason"} = {}
      /\ bundle.kind = "reduced" =>
           /\ <<"reduced_reason", bundle.about>> \in log[i].artifacts
           /\ \A a \in Attempts : a[2] \notin Valid
           /\ bundle.about = "VALIDATION_REPAIR_EXHAUSTED" <=> Cardinality(Attempts) = 3
      /\ bundle.kind = "operational" =>
           /\ <<"operational_reason", bundle.about>> \in log[i].artifacts
           /\ bundle.quality = "FAIL"
           /\ FrozenPacket # {} => bundle.about = "MISSED_WINDOW"

\* Evidence of failed quality is never handed to a model, and a run whose
\* preparation failed after its evidence froze only publishes that failure.
FailureIsNeverSynthesized ==
  /\ (\E i \in Of("QUALITY_EVALUATED") : log[i].quality = "FAIL") => FrozenPacket = {}
  /\ (\E i \in Of("PREPARATION_FAILED") : log[i].cut # None) /\ bundle # None
       => bundle.kind = "operational"

\* Once the evidence is frozen, nothing follows the final checkpoint.
FinalCheckpointIsFinal ==
  [][cutoff # None /\ Len(log) > 0 /\ Latest.stage = "PUBLISHED" => log' = log]_vars

\* A run that was allocated is published, or its market date is over, however
\* often a process dies at a step a later call can resume from, unless the model
\* wrote the one kind of draft that ends neither way: a valid one that cannot be
\* rendered is never published, and neither repaired nor replaced by the reduced
\* report.  Calls alone finish every other run, those of three invalid drafts
\* included.
PreparedRunEnds ==
  created ~> (bundle # None \/ window = "closed" \/ LastDraft \in Valid \ Renderable)

-----------------------------------------------------------------------------
(* What the documents say and the code does not do *)

\* A run of FAIL quality publishes only an operational report (premarket design,
\* line 1037).  A failure recorded before the freeze does not stop a preparer
\* that began before it: QUALITY_EVALUATED sets the status back.
FailedRunIsNotSynthesized ==
  \A i \in Of("PREPARATION_FAILED"), j \in Of("AWAITING_SYNTHESIS") : j < i

=============================================================================
