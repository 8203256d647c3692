------------------------------ MODULE RunStore ------------------------------
(***************************************************************************)
(* The storage of one market date's premarket runs, as written by          *)
(* FileSystemRunRepository (adapters/filesystem.py): allocation of a       *)
(* revision, publication (bundle, report, rename, index, latest pointer),  *)
(* quarantine of a failed publication and its explicit recovery.           *)
(*                                                                         *)
(* Every operation runs under the date's run lock (a process lock and an   *)
(* flock on .run.lock), which the operating system releases when the       *)
(* process dies.  Each action below is one durable file-system step, so a  *)
(* crash or an OSError may fall between any two of them.                   *)
(*                                                                         *)
(* A run context (run.json) is an element of Runs; it contains its own     *)
(* run_id, so it belongs to one revision.  The bytes of a bundle or of a   *)
(* report, and their SHA-256, are abstracted to the run they are about:    *)
(* the services derive them from that run's final checkpoint alone.  The   *)
(* checkpoint log is abstracted to the phase of the directory: "sealed"    *)
(* once its last checkpoint is PUBLISHED.                                  *)
(***************************************************************************)
EXTENDS Naturals

CONSTANTS Proc,       \* operating-system processes that use the repository
          Runs,       \* the run contexts that can ever be created
          MaxRev,     \* the largest revision number explored
          MaxFaults,  \* crashes and OSErrors explored
          NoProc, NoRun

ASSUME ProcAssumption == NoProc \notin Proc
ASSUME RunsAssumption == NoRun \notin Runs
ASSUME RevAssumption == MaxRev \in Nat \ {0}
ASSUME FaultsAssumption == MaxFaults \in Nat

VARIABLES staging,  \* runs/<date>/.staging/<run_id>, by revision
          final,    \* runs/<date>/<run_id>
          orphan,   \* diagnostics/orphans/<date>/<run_id>
          index,    \* reports/<date>/index.json: revision -> receipt
          latest,   \* reports/<date>/latest.json, 0 while it does not exist
          lock,     \* holder of the run lock
          pc,       \* where each process is inside a locked operation
          job,      \* the local variables of that operation
          created,  \* history: the revision each run context was created for
          clock,    \* the next published_at the clock will give
          faults    \* history: crashes and OSErrors so far

diskVars == <<staging, final, orphan, index, latest>>
vars == <<staging, final, orphan, index, latest, lock, pc, job, created, clock, faults>>

Revs == 1..MaxRev
RunOrNone == Runs \cup {NoRun}

\* One run directory: whether it exists and has its final checkpoint, and what
\* run.json, bundle.json and report.md are about.
Dirs == [phase : {"absent", "open", "sealed"}, ctx : RunOrNone,
         bundle : RunOrNone, report : RunOrNone]
Absent == [phase |-> "absent", ctx |-> NoRun, bundle |-> NoRun, report |-> NoRun]
Opened == [phase |-> "open", ctx |-> NoRun, bundle |-> NoRun, report |-> NoRun]

\* An index entry: the hashed pair and published_at.
Receipts == [run : RunOrNone, at : Nat]
NoReceipt == [run |-> NoRun, at |-> 0]
NoIndex == [r \in Revs |-> NoReceipt]

Idle == [rev |-> 0, run |-> NoRun, payload |-> NoIndex]

Publishing == {"bundle", "report", "rename", "read", "index", "latest", "sync"}
Steps == {"idle", "mkdir", "context", "quarantine"} \cup Publishing

TypeOK ==
  /\ staging \in [Revs -> Dirs]
  /\ final \in [Revs -> Dirs]
  /\ orphan \in [Revs -> Dirs]
  /\ index \in [Revs -> Receipts]
  /\ latest \in 0..MaxRev
  /\ lock \in Proc \cup {NoProc}
  /\ pc \in [Proc -> Steps]
  /\ job \in [Proc -> [rev : 0..MaxRev, run : RunOrNone, payload : [Revs -> Receipts]]]
  /\ created \in [Runs -> 0..MaxRev]
  /\ clock \in Nat
  /\ faults \in 0..MaxFaults

Init ==
  /\ staging = [r \in Revs |-> Absent]
  /\ final = [r \in Revs |-> Absent]
  /\ orphan = [r \in Revs |-> Absent]
  /\ index = NoIndex
  /\ latest = 0
  /\ lock = NoProc
  /\ pc = [p \in Proc |-> "idle"]
  /\ job = [p \in Proc |-> Idle]
  /\ created = [c \in Runs |-> 0]
  /\ clock = 1
  /\ faults = 0

-----------------------------------------------------------------------------
(* What the repository reads *)

HasReceipt(r) == index[r].run # NoRun

\* _published_payloads: index entry present and both hashes match.
Visible(r) ==
  /\ final[r].phase # "absent"
  /\ HasReceipt(r)
  /\ final[r].bundle = index[r].run
  /\ final[r].report = index[r].run

\* _existing_revision_ids: the final and the staging directories, no others.
Existing == {r \in Revs : staging[r].phase # "absent" \/ final[r].phase # "absent"}

\* The largest element of a set of revisions, 0 for the empty set.
Newest(S) == IF S = {} THEN 0 ELSE CHOOSE m \in S : \A n \in S : n <= m

Entries(payload) == {r \in Revs : payload[r].run # NoRun}

-----------------------------------------------------------------------------
(* The run lock *)

\* Mutant: the operation does not wait for the lock.
EnterUnlocked(p, step, r, c) ==
  /\ pc[p] = "idle"
  /\ lock' = p
  /\ pc' = [pc EXCEPT ![p] = step]
  /\ job' = [job EXCEPT ![p] = [rev |-> r, run |-> c, payload |-> NoIndex]]

Enter(p, step, r, c) ==
  /\ lock = NoProc
  /\ pc[p] = "idle"
  /\ lock' = p
  /\ pc' = [pc EXCEPT ![p] = step]
  /\ job' = [job EXCEPT ![p] = [rev |-> r, run |-> c, payload |-> NoIndex]]

\* Mutant: the flock is not released.
LeaveHolding(p) ==
  /\ pc' = [pc EXCEPT ![p] = "idle"]
  /\ job' = [job EXCEPT ![p] = Idle]
  /\ UNCHANGED lock

Leave(p) ==
  /\ lock' = IF lock = p THEN NoProc ELSE lock
  /\ pc' = [pc EXCEPT ![p] = "idle"]
  /\ job' = [job EXCEPT ![p] = Idle]

GoTo(p, step) ==
  /\ pc' = [pc EXCEPT ![p] = step]
  /\ UNCHANGED lock

-----------------------------------------------------------------------------
(* allocate_revision *)

\* The revision a new run gets: 1 for a scheduled invocation when r1 does not
\* exist; the next number for a manual one, requested or not.  An invocation
\* that finds its run, or that is refused, changes nothing.
Allocatable(r) == \/ r = 1 /\ 1 \notin Existing
                  \/ r = Newest(Existing) + 1

Allocate(p, r) ==
  /\ Allocatable(r)
  /\ \E c \in Runs :
       /\ created[c] = 0
       /\ Enter(p, "mkdir", r, c)
  /\ UNCHANGED <<diskVars, created, clock, faults>>

\* _create_unlocked: the directory first ...
MakeStaging(p) ==
  /\ pc[p] = "mkdir"
  /\ staging' = [staging EXCEPT ![job[p].rev] = Opened]
  /\ GoTo(p, "context")
  /\ UNCHANGED <<final, orphan, index, latest, job, created, clock, faults>>

\* ... then run.json inside it.
WriteContext(p) ==
  /\ pc[p] = "context"
  /\ staging' = [staging EXCEPT ![job[p].rev].ctx = job[p].run]
  /\ created' = [created EXCEPT ![job[p].run] = job[p].rev]
  /\ Leave(p)
  /\ UNCHANGED <<final, orphan, index, latest, clock, faults>>

-----------------------------------------------------------------------------
(* The final checkpoint, appended by one atomic write under the lock *)

Seal(p, r) ==
  /\ lock = NoProc
  /\ pc[p] = "idle"
  /\ staging[r].ctx # NoRun
  /\ staging[r].phase # "sealed"
  /\ staging' = [staging EXCEPT ![r].phase = "sealed"]
  /\ UNCHANGED <<final, orphan, index, latest, lock, pc, job, created, clock, faults>>

-----------------------------------------------------------------------------
(* publish_atomically, with a bundle composed earlier for run c *)

\* Mutant: the bundle's context is not compared with the staged one.
MayPublishAnyBundle(r, c) ==
  final[r].phase = "absent" /\ staging[r].ctx # NoRun /\ staging[r].phase = "sealed"

MayPublish(r, c) ==
  /\ final[r].phase = "absent"
  /\ staging[r].ctx = c
  /\ staging[r].phase = "sealed"

Publish(p, r) ==
  /\ \E c \in Runs :
       /\ created[c] = r
       /\ MayPublish(r, c)
       /\ Enter(p, "bundle", r, c)
  /\ UNCHANGED <<diskVars, created, clock, faults>>

WriteBundle(p) ==
  /\ pc[p] = "bundle"
  /\ staging' = [staging EXCEPT ![job[p].rev].bundle = job[p].run]
  /\ GoTo(p, "report")
  /\ UNCHANGED <<final, orphan, index, latest, job, created, clock, faults>>

WriteReport(p) ==
  /\ pc[p] = "report"
  /\ staging' = [staging EXCEPT ![job[p].rev].report = job[p].run]
  /\ GoTo(p, "rename")
  /\ UNCHANGED <<final, orphan, index, latest, job, created, clock, faults>>

RenameToFinal(p) ==
  /\ pc[p] = "rename"
  /\ final' = [final EXCEPT ![job[p].rev] = staging[job[p].rev]]
  /\ staging' = [staging EXCEPT ![job[p].rev] = Absent]
  /\ GoTo(p, "read")
  /\ UNCHANGED <<orphan, index, latest, job, created, clock, faults>>

\* An index entry for other bytes under this revision stops the publication.
\* Mutant: the existing receipt is not compared.
NeverConflicting(r, c) == FALSE

Conflicting(r, c) == HasReceipt(r) /\ index[r].run # c

\* published_at: the clock for a first receipt, else the one already recorded.
\* Mutant: always the clock.
ReceiptFromClock(r, c) == [run |-> c, at |-> clock]

ReceiptFor(r, c) == [run |-> c, at |-> IF HasReceipt(r) THEN index[r].at ELSE clock]

ReadIndex(p) ==
  LET r == job[p].rev
      c == job[p].run
  IN /\ pc[p] = "read"
     /\ \/ /\ ~Conflicting(r, c)
           /\ job' = [job EXCEPT ![p].payload = [index EXCEPT ![r] = ReceiptFor(r, c)]]
           /\ clock' = IF HasReceipt(r) THEN clock ELSE clock + 1
           /\ GoTo(p, "index")
        \/ /\ Conflicting(r, c)
           /\ GoTo(p, "quarantine")
           /\ UNCHANGED <<job, clock>>
     /\ UNCHANGED <<diskVars, created, faults>>

WriteIndex(p) ==
  /\ pc[p] = "index"
  /\ index' = job[p].payload
  /\ GoTo(p, "latest")
  /\ UNCHANGED <<staging, final, orphan, latest, job, created, clock, faults>>

\* Mutant: the run just published, whatever its revision.
PointAtThisRun(p) == job[p].rev

\* max(index_payload) by revision.
PointAtNewest(p) == Newest(Entries(job[p].payload))

WriteLatest(p) ==
  /\ pc[p] = "latest"
  /\ latest' = PointAtNewest(p)
  /\ GoTo(p, "sync")
  /\ UNCHANGED <<staging, final, orphan, index, job, created, clock, faults>>

\* The directory fsync of the last write; the operation then returns.
Return(p) ==
  /\ pc[p] = "sync"
  /\ Leave(p)
  /\ UNCHANGED <<diskVars, created, clock, faults>>

-----------------------------------------------------------------------------
(* Failures *)

\* Mutant: an earlier orphan of the same revision is overwritten.
OrphanAlwaysFree(r) == TRUE

OrphanFree(r) == orphan[r].phase = "absent"

\* _quarantine_orphan, or its refusal, which leaves the final directory behind.
Quarantine(p) ==
  LET r == job[p].rev
  IN /\ pc[p] = "quarantine"
     /\ IF OrphanFree(r)
        THEN /\ orphan' = [orphan EXCEPT ![r] = final[r]]
             /\ final' = [final EXCEPT ![r] = Absent]
        ELSE UNCHANGED <<orphan, final>>
     /\ Leave(p)
     /\ UNCHANGED <<staging, index, latest, created, clock, faults>>

\* An OSError: before the rename it only ends the operation, after it the
\* publication is quarantined; in the quarantine it leaves the final directory.
Fault(p) ==
  /\ pc[p] # "idle"
  /\ faults < MaxFaults
  /\ faults' = faults + 1
  /\ IF pc[p] \in {"read", "index", "latest", "sync"}
     THEN GoTo(p, "quarantine") /\ UNCHANGED job
     ELSE Leave(p)
  /\ UNCHANGED <<diskVars, created, clock>>

\* The process dies; the operating system drops its flock.
Crash(p) ==
  /\ pc[p] # "idle"
  /\ faults < MaxFaults
  /\ faults' = faults + 1
  /\ Leave(p)
  /\ UNCHANGED <<diskVars, created, clock>>

-----------------------------------------------------------------------------
(* recover_interrupted_publication *)

\* Mutant: a staged rerun of the same revision does not stop the recovery.
RecoverableOverStaging(r) ==
  /\ ~Visible(r) /\ final[r].phase = "absent"
  /\ orphan[r].phase = "sealed"
  /\ orphan[r].bundle = orphan[r].ctx /\ orphan[r].report = orphan[r].ctx

Recoverable(r) ==
  /\ ~Visible(r)
  /\ staging[r].phase = "absent"
  /\ final[r].phase = "absent"
  /\ orphan[r].phase = "sealed"
  /\ orphan[r].bundle = orphan[r].ctx
  /\ orphan[r].report = orphan[r].ctx

\* The verified orphan returns to staging and is published again.
Recover(p, r) ==
  /\ Recoverable(r)
  /\ Enter(p, "bundle", r, orphan[r].bundle)
  /\ staging' = [staging EXCEPT ![r] = orphan[r]]
  /\ orphan' = [orphan EXCEPT ![r] = Absent]
  /\ UNCHANGED <<final, index, latest, created, clock, faults>>

-----------------------------------------------------------------------------
\* One locked step of an operation already under way.
Step(p) ==
  \/ MakeStaging(p) \/ WriteContext(p)
  \/ WriteBundle(p) \/ WriteReport(p) \/ RenameToFinal(p)
  \/ ReadIndex(p) \/ WriteIndex(p) \/ WriteLatest(p) \/ Return(p)
  \/ Quarantine(p)

Begin(p) == \E r \in Revs : Allocate(p, r) \/ Seal(p, r) \/ Publish(p, r) \/ Recover(p, r)

Next == \E p \in Proc : Begin(p) \/ Step(p) \/ Fault(p) \/ Crash(p)

Spec == Init /\ [][Next]_vars

\* A running process keeps executing its operation; nothing forces a caller to
\* begin one, and nothing forces a fault.
FairSpec == Spec /\ \A p \in Proc : WF_vars(Step(p))

-----------------------------------------------------------------------------
(* Properties *)

\* The run context in a directory was created for that directory's revision,
\* and a revision's three directories never hold the same run.
OneCopy ==
  \A r \in Revs :
    /\ \A d \in {staging[r], final[r], orphan[r]} : d.ctx # NoRun => created[d.ctx] = r
    /\ staging[r].ctx = NoRun \/ (staging[r].ctx # final[r].ctx /\ staging[r].ctx # orphan[r].ctx)
    /\ final[r].ctx = NoRun \/ final[r].ctx # orphan[r].ctx

\* No crash, failed write, quarantine or recovery loses the files of a run that
\* was created: they are in exactly one of staging, final and quarantine
\* (_quarantine_orphan and recover_interrupted_publication refuse to overwrite).
RunsKeptOnce ==
  /\ OneCopy
  /\ \A c \in Runs : created[c] # 0 =>
       c \in {staging[created[c]].ctx, final[created[c]].ctx, orphan[created[c]].ctx}

\* What readers are shown under a revision is the run stored in that directory,
\* created for that revision and finished: a bundle composed before the
\* revision was quarantined and allocated again is never shown.
ShownRunIsTheStoredRun ==
  \A r \in Revs : Visible(r) =>
    /\ index[r].run = final[r].ctx
    /\ created[final[r].ctx] = r
    /\ final[r].phase = "sealed"

\* A receipt, once in index.json, keeps its hashes and its published_at through
\* every later publication, failure and recovery on that date.
ReceiptsPermanent ==
  [][\A r \in Revs : HasReceipt(r) => index'[r] = index[r]]_vars

\* latest.json never moves back to an older revision, in whatever order the
\* revisions of a date are published.
LatestOnlyAdvances == [][latest' >= latest]_vars

\* A published revision that no running operation is publishing stays
\* published: only its own failed publication may withdraw it.
SettledStaysPublished ==
  [][\A r \in Revs :
       Visible(r) /\ (\A p \in Proc : pc[p] # "idle" => job[p].rev # r) => Visible(r)']_vars

\* The run lock is always given back: a locked operation ends, whichever of its
\* writes fail.
LockIsReleased == \A p \in Proc : lock = p ~> lock # p

\* What the date's publication record promises its readers (PublicationLedger),
\* implemented by the files.
Ledger == INSTANCE PublicationLedger
            WITH Revision <- Revs, Document <- Runs, None <- NoRun,
                 receipt <- index,
                 shown <- {r \in Revs : Visible(r)},
                 pointer <- latest
ImplementsLedger == Ledger!Spec

-----------------------------------------------------------------------------
(* The inductive invariant behind the properties above *)

\* Only the holder of the run lock is inside an operation.
LockInv == \A p \in Proc : pc[p] # "idle" => lock = p

Complete(d) ==
  /\ d.phase = "sealed" /\ d.ctx # NoRun
  /\ d.bundle = d.ctx /\ d.report = d.ctx

\* A revision is never both staged and final; what was renamed is complete.
DirInv ==
  \A r \in Revs :
    /\ staging[r].phase # "absent" => final[r] = Absent
    /\ staging[r].phase # "absent" \/ staging[r] = Absent
    /\ staging[r].phase = "sealed" => staging[r].ctx # NoRun
    /\ staging[r].bundle \in {NoRun, staging[r].ctx}
    /\ staging[r].report \in {NoRun, staging[r].ctx}
    /\ final[r] = Absent \/ Complete(final[r])
    /\ orphan[r] = Absent \/ Complete(orphan[r])

\* What the lock holder's local variables say of the files at each step.
JobOK(p, r, c) ==
  /\ r \in Revs /\ c \in Runs
  /\ pc[p] \in {"mkdir", "context"} =>
       created[c] = 0 /\ final[r].phase = "absent" /\ staging[r].ctx = NoRun
  /\ pc[p] = "mkdir" => staging[r].phase = "absent"
  /\ pc[p] = "context" => staging[r].phase # "absent"
  /\ pc[p] \in {"bundle", "report", "rename"} =>
       staging[r].ctx = c /\ staging[r].phase = "sealed"
  /\ pc[p] \in {"report", "rename"} => staging[r].bundle = c
  /\ pc[p] = "rename" => staging[r].report = c
  /\ pc[p] \in {"read", "index", "latest", "sync", "quarantine"} =>
       final[r].phase # "absent" /\ final[r].ctx = c
  /\ pc[p] = "index" =>
       /\ job[p].payload[r].run = c
       /\ HasReceipt(r) => job[p].payload[r] = index[r]
       /\ \A s \in Revs \ {r} : job[p].payload[s] = index[s]
  /\ pc[p] = "latest" => job[p].payload = index

JobInv == \A p \in Proc : pc[p] # "idle" => JobOK(p, job[p].rev, job[p].run)

\* A receipt names a run created for its revision; latest.json names a receipt.
IndexInv ==
  /\ \A r \in Revs : HasReceipt(r) => created[index[r].run] = r
  /\ latest = 0 \/ HasReceipt(latest)

\* The files and the local variables of the lock holder agree at every step of
\* every operation, whatever crashed or failed before it.
IInv == TypeOK /\ LockInv /\ DirInv /\ JobInv /\ IndexInv /\ RunsKeptOnce

-----------------------------------------------------------------------------
(* What the documents say and the code does not do *)

\* "The latest index is a pointer to the newest valid publication" (premarket
\* design 10.3), between operations.
LatestIsNewestPublication ==
  lock = NoProc => latest = Newest({r \in Revs : Visible(r)})

=============================================================================
