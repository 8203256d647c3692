--------------------------- MODULE RunStoreProofs ---------------------------
(***************************************************************************)
(* Proofs about RunStore, for every set of processes and run contexts,     *)
(* every MaxRev and every MaxFaults: the inductive invariant IInv, the     *)
(* safety properties that follow from it, and the refinement of            *)
(* PublicationLedger.                                                      *)
(***************************************************************************)
EXTENDS RunStore, FiniteSetTheorems, TLAPS

USE RevAssumption, ProcAssumption, RunsAssumption, FaultsAssumption

-----------------------------------------------------------------------------
(* The newest revision of a set exists *)

\* A non-empty set of revisions has a largest element: the strict supersets
\* {n \in S : m < n} of its elements are well-founded.
LEMMA MaxExists ==
  ASSUME NEW N \in Nat, NEW S, S \subseteq 1..N, S # {}
  PROVE  \E m \in S : \A n \in S : n <= m
<1> DEFINE Above(m) == {n \in S : m < n}
           T == {Above(m) : m \in S}
<1>0. \A n \in S : n \in Nat
  OBVIOUS
<1>1. IsFiniteSet(1..N)
  BY FS_Interval
<1>2. \A m \in S : Above(m) \in SUBSET (1..N) /\ IsFiniteSet(Above(m))
  BY <1>1, FS_Subset
<1>3. T \subseteq FiniteSubsetsOf(1..N)
  BY <1>2, Zenon DEF FiniteSubsetsOf
<1>4. T # {}
  OBVIOUS
<1> HIDE DEF T
<1>5. PICK x \in T : \A y \in T : ~ (<<y, x>> \in StrictSubsetOrdering(1..N))
  BY <1>3, <1>4, WFMin, FS_StrictSubsetOrderingWellFounded, Zenon
<1>6. PICK m \in S : x = Above(m)
  BY <1>5 DEF T
<1>7. ASSUME NEW n \in S, m < n PROVE FALSE
  <2>1. \A k \in Above(n) : k \in Above(m)
    <3>1. TAKE k \in Above(n)
    <3>2. k \in S /\ n < k
      BY <3>1
    <3>3. m < k
      BY <3>2, <1>7, <1>0
    <3>4. QED
      BY <3>2, <3>3
  <2>2. n \in Above(m) /\ n \notin Above(n)
    BY <1>7, <1>0
  <2> HIDE DEF Above
  <2>3. Above(n) \in SUBSET (1..N) /\ Above(m) \in SUBSET (1..N)
    BY <1>2
  <2>4. <<Above(n), x>> \in StrictSubsetOrdering(1..N)
    BY <2>1, <2>2, <2>3, <1>6 DEF StrictSubsetOrdering
  <2>5. QED
    BY <2>4, <1>5 DEF T
<1>8. QED
  BY <1>7, <1>0

\* Newest(S) is 0 for the empty set, else the largest element of S.
LEMMA NewestIsLargest ==
  ASSUME NEW S, S \subseteq Revs
  PROVE  /\ Newest(S) \in 0..MaxRev
         /\ S # {} => Newest(S) \in S
         /\ \A n \in S : n <= Newest(S)
<1>1. CASE S = {}
  BY <1>1 DEF Newest
<1>2. CASE S # {}
  <2>1. \E m \in S : \A n \in S : n <= m
    BY <1>2, MaxExists DEF Revs
  <2>2. Newest(S) = CHOOSE m \in S : \A n \in S : n <= m
    BY <1>2 DEF Newest
  <2>3. Newest(S) \in S /\ \A n \in S : n <= Newest(S)
    BY <2>1, <2>2
  <2>4. Newest(S) \in 0..MaxRev
    <3>1. Newest(S) \in Revs
      BY <2>3
    <3> HIDE DEF Newest
    <3>2. QED
      BY <3>1 DEF Revs
  <2>5. QED
    BY <2>3, <2>4
<1>3. QED
  BY <1>1, <1>2

-----------------------------------------------------------------------------
(* The run lock: one operation at a time *)

\* While nobody holds the lock, every process is idle.
LEMMA NobodyInside ==
  ASSUME LockInv, lock = NoProc
  PROVE  \A q \in Proc : pc[q] = "idle"
BY DEF LockInv

\* While p is inside an operation, every other process is idle.
LEMMA OthersIdle ==
  ASSUME LockInv, NEW p \in Proc, pc[p] # "idle"
  PROVE  /\ lock = p
         /\ \A q \in Proc \ {p} : pc[q] = "idle"
BY DEF LockInv

\* After Leave the lock is free and nobody is inside an operation.
LEMMA LeaveFrees ==
  ASSUME TypeOK, LockInv, NEW p \in Proc, pc[p] # "idle", Leave(p)
  PROVE  /\ lock' \in Proc \cup {NoProc}
         /\ pc' \in [Proc -> Steps]
         /\ job' \in [Proc -> [rev : 0..MaxRev, run : RunOrNone, payload : [Revs -> Receipts]]]
         /\ LockInv'
         /\ JobInv'
<1>1. \A q \in Proc : pc'[q] = "idle"
  BY OthersIdle DEF Leave, TypeOK
<1>2. Idle \in [rev : 0..MaxRev, run : RunOrNone, payload : [Revs -> Receipts]]
  BY DEF Idle, NoIndex, NoReceipt, RunOrNone, Receipts
<1>3. QED
  BY <1>1, <1>2 DEF Leave, TypeOK, LockInv, JobInv, Steps

\* Entering an operation leaves every other process idle and sets the locals.
LEMMA EnterAlone ==
  ASSUME TypeOK, LockInv, NEW p \in Proc, NEW r \in Revs, NEW c \in Runs,
         NEW step \in Steps \ {"idle"}, Enter(p, step, r, c)
  PROVE  /\ lock' \in Proc \cup {NoProc}
         /\ pc' \in [Proc -> Steps]
         /\ job' \in [Proc -> [rev : 0..MaxRev, run : RunOrNone, payload : [Revs -> Receipts]]]
         /\ pc'[p] = step /\ job'[p].rev = r /\ job'[p].run = c
         /\ \A q \in Proc \ {p} : pc'[q] = "idle"
         /\ LockInv'
<1>1. [rev |-> r, run |-> c, payload |-> NoIndex]
        \in [rev : 0..MaxRev, run : RunOrNone, payload : [Revs -> Receipts]]
  BY DEF NoIndex, NoReceipt, RunOrNone, Receipts, Revs
<1>2. \A q \in Proc \ {p} : pc'[q] = "idle"
  BY NobodyInside DEF Enter, TypeOK
<1>3. pc'[p] = step /\ job'[p].rev = r /\ job'[p].run = c
  BY DEF Enter, TypeOK
<1>4. lock' = p
  BY DEF Enter
<1>5. pc' \in [Proc -> Steps]
  BY DEF Enter, TypeOK
<1>6. job' \in [Proc -> [rev : 0..MaxRev, run : RunOrNone, payload : [Revs -> Receipts]]]
  BY <1>1 DEF Enter, TypeOK
<1>7. QED
  BY <1>2, <1>3, <1>4, <1>5, <1>6 DEF LockInv

\* A step inside an operation keeps the lock and every other process idle.
LEMMA GoToAlone ==
  ASSUME TypeOK, LockInv, NEW p \in Proc, pc[p] # "idle",
         NEW step \in Steps \ {"idle"}, GoTo(p, step)
  PROVE  /\ lock' \in Proc \cup {NoProc}
         /\ pc' \in [Proc -> Steps]
         /\ pc'[p] = step
         /\ \A q \in Proc \ {p} : pc'[q] = "idle"
         /\ LockInv'
<1>1. pc'[p] = step /\ pc' \in [Proc -> Steps]
  BY DEF GoTo, TypeOK
<1>2. \A q \in Proc \ {p} : pc'[q] = "idle"
  BY OthersIdle DEF GoTo, TypeOK
<1>3. QED
  BY <1>1, <1>2, OthersIdle DEF GoTo, TypeOK, LockInv

-----------------------------------------------------------------------------
(* Every action preserves the inductive invariant *)

LEMMA InitIInv == Init => IInv
<1> SUFFICES ASSUME Init PROVE IInv
  OBVIOUS
<1>1. TypeOK
  BY DEF Init, TypeOK, Absent, Dirs, RunOrNone, NoIndex, NoReceipt, Receipts, Idle, Steps
<1>2. LockInv /\ JobInv
  BY DEF Init, LockInv, JobInv
<1>3. DirInv
  BY DEF Init, DirInv, Absent
<1>4. IndexInv
  BY DEF Init, IndexInv, HasReceipt, NoIndex, NoReceipt
<1>5. RunsKeptOnce
  BY DEF Init, RunsKeptOnce, OneCopy, Absent
<1>6. QED
  BY <1>1, <1>2, <1>3, <1>4, <1>5 DEF IInv

\* The parts of the invariant about files and receipts, while those stay as
\* they are.
LEMMA FilesUnchanged ==
  ASSUME IInv, UNCHANGED <<diskVars, created>>
  PROVE  DirInv' /\ IndexInv' /\ RunsKeptOnce'
BY DEF IInv, diskVars, DirInv, Complete, IndexInv, HasReceipt, RunsKeptOnce, OneCopy

LEMMA AllocateStep ==
  ASSUME IInv, NEW p \in Proc, NEW r \in Revs, Allocate(p, r)
  PROVE  IInv'
<1>1. PICK c \in Runs : created[c] = 0 /\ Enter(p, "mkdir", r, c)
  BY DEF Allocate
<1>2. UNCHANGED <<diskVars, created, clock, faults>>
  BY DEF Allocate
<1>3. TypeOK /\ LockInv /\ DirInv /\ "mkdir" \in Steps \ {"idle"}
  BY DEF IInv, Steps
<1>4. TypeOK' /\ LockInv'
  BY <1>1, <1>2, <1>3, EnterAlone DEF TypeOK, diskVars
<1>5. pc'[p] = "mkdir" /\ job'[p].rev = r /\ job'[p].run = c
      /\ \A q \in Proc \ {p} : pc'[q] = "idle"
  BY <1>1, <1>3, EnterAlone
<1>6. staging[r].phase = "absent" /\ final[r].phase = "absent"
  <2>1. r \notin Existing
    <3>1. CASE r = 1 /\ 1 \notin Existing
      BY <3>1
    <3>2. CASE r = Newest(Existing) + 1
      <4>1. Existing \subseteq Revs
        BY DEF Existing
      <4>2. \A n \in Existing : n <= Newest(Existing)
        BY <4>1, NewestIsLargest
      <4>3. Newest(Existing) \in Nat
        BY <4>1, NewestIsLargest
      <4> HIDE DEF Newest, Existing
      <4>4. QED
        BY <3>2, <4>2, <4>3
    <3>3. QED
      BY <3>1, <3>2 DEF Allocate, Allocatable
  <2>2. QED
    BY <2>1 DEF Existing
<1>7. staging[r].ctx = NoRun
  BY <1>3, <1>6 DEF DirInv, Absent
<1>8. JobInv'
  <2>1. JobOK(p, r, c)'
    BY <1>1, <1>2, <1>5, <1>6, <1>7 DEF JobOK, diskVars
  <2>2. QED
    BY <2>1, <1>5 DEF JobInv
<1>9. QED
  BY <1>2, <1>4, <1>8, FilesUnchanged DEF IInv

\* Inside an operation, the lock holder's locals are a revision and a run.
LEMMA JobLocals ==
  ASSUME IInv, NEW p \in Proc, pc[p] # "idle"
  PROVE  \E r \in Revs, c \in Runs :
           job[p].rev = r /\ job[p].run = c /\ JobOK(p, r, c)
BY DEF IInv, JobInv, JobOK

LEMMA MakeStagingStep ==
  ASSUME IInv, NEW p \in Proc, MakeStaging(p)
  PROVE  IInv'
<1>1. TypeOK /\ LockInv /\ DirInv /\ IndexInv /\ RunsKeptOnce /\ pc[p] = "mkdir"
  BY DEF IInv, MakeStaging
<1>2. PICK r \in Revs, c \in Runs : job[p].rev = r /\ job[p].run = c /\ JobOK(p, r, c)
  BY <1>1, JobLocals
<1>3. /\ staging' = [staging EXCEPT ![r] = Opened]
      /\ UNCHANGED <<final, orphan, index, latest, job, created, clock, faults>>
  BY <1>2 DEF MakeStaging
<1>4. created[c] = 0 /\ final[r] = Absent /\ staging[r] = Absent
  BY <1>1, <1>2 DEF JobOK, DirInv, Complete
<1>5. /\ lock' \in Proc \cup {NoProc} /\ pc' \in [Proc -> Steps] /\ pc'[p] = "context"
      /\ LockInv' /\ \A q \in Proc \ {p} : pc'[q] = "idle"
  BY <1>1, GoToAlone DEF MakeStaging, Steps
<1>6. staging' \in [Revs -> Dirs] /\ staging'[r] = Opened
      /\ \A s \in Revs \ {r} : staging'[s] = staging[s]
  BY <1>1, <1>3 DEF TypeOK, Dirs, RunOrNone, Opened
<1>7. TypeOK'
  BY <1>1, <1>3, <1>5, <1>6 DEF TypeOK
<1>8. DirInv'
  BY <1>1, <1>3, <1>4, <1>6 DEF DirInv, Absent, Opened, Complete
<1>9. JobInv'
  <2>1. JobOK(p, r, c)'
    BY <1>3, <1>4, <1>5, <1>6 DEF JobOK, Opened, Absent
  <2>2. QED
    BY <2>1, <1>2, <1>3, <1>5 DEF JobInv
<1>10. IndexInv'
  BY <1>1, <1>3 DEF IndexInv, HasReceipt
<1>11. RunsKeptOnce'
  BY <1>1, <1>3, <1>4, <1>6 DEF RunsKeptOnce, OneCopy, TypeOK, Opened, Absent
<1>12. QED
  BY <1>5, <1>7, <1>8, <1>9, <1>10, <1>11 DEF IInv

LEMMA WriteContextStep ==
  ASSUME IInv, NEW p \in Proc, WriteContext(p)
  PROVE  IInv'
<1>1. TypeOK /\ LockInv /\ DirInv /\ IndexInv /\ RunsKeptOnce /\ pc[p] = "context"
  BY DEF IInv, WriteContext
<1>2. PICK r \in Revs, c \in Runs : job[p].rev = r /\ job[p].run = c /\ JobOK(p, r, c)
  BY <1>1, JobLocals
<1>3. /\ staging' = [staging EXCEPT ![r].ctx = c]
      /\ created' = [created EXCEPT ![c] = r]
      /\ Leave(p)
      /\ UNCHANGED <<final, orphan, index, latest, clock, faults>>
  BY <1>2 DEF WriteContext
<1>4. /\ created[c] = 0 /\ final[r] = Absent
      /\ staging[r].phase = "open" /\ staging[r].ctx = NoRun
      /\ staging[r].bundle = NoRun /\ staging[r].report = NoRun
  BY <1>1, <1>2 DEF JobOK, DirInv, TypeOK, Dirs
<1>5. /\ staging' \in [Revs -> Dirs]
      /\ staging'[r].ctx = c /\ staging'[r].phase = "open"
      /\ staging'[r].bundle = NoRun /\ staging'[r].report = NoRun
      /\ \A s \in Revs \ {r} : staging'[s] = staging[s]
  BY <1>1, <1>3, <1>4 DEF TypeOK, Dirs, RunOrNone
<1>6. /\ created' \in [Runs -> 0..MaxRev] /\ created'[c] = r
      /\ \A d \in Runs \ {c} : created'[d] = created[d]
  BY <1>1, <1>3 DEF TypeOK, Revs
<1>7. TypeOK' /\ LockInv' /\ JobInv'
  BY <1>1, <1>3, <1>5, <1>6, LeaveFrees DEF TypeOK
<1>8. DirInv'
  BY <1>1, <1>3, <1>4, <1>5 DEF DirInv, Complete, Absent
<1>9. IndexInv'
  <2>1. ASSUME NEW s \in Revs, HasReceipt(s) PROVE index[s].run \in Runs \ {c}
    BY <1>1, <1>4, <2>1 DEF IndexInv, HasReceipt, TypeOK, Receipts, RunOrNone, Revs
  <2>2. QED
    BY <1>1, <1>3, <1>6, <2>1 DEF IndexInv, HasReceipt
<1>10. RunsKeptOnce'
  <2>1. ASSUME NEW s \in Revs
        PROVE  c \notin {staging[s].ctx, final[s].ctx, orphan[s].ctx}
    BY <1>1, <1>4 DEF RunsKeptOnce, OneCopy, Revs
  <2>2. OneCopy'
    BY <1>1, <1>3, <1>4, <1>5, <1>6, <2>1
       DEF RunsKeptOnce, OneCopy, TypeOK, Dirs, RunOrNone, Absent
  <2>3. \A d \in Runs : created'[d] # 0 =>
          d \in {staging'[created'[d]].ctx, final'[created'[d]].ctx, orphan'[created'[d]].ctx}
    BY <1>1, <1>3, <1>4, <1>5, <1>6 DEF RunsKeptOnce, TypeOK, Revs
  <2>4. QED
    BY <2>2, <2>3 DEF RunsKeptOnce
<1>11. QED
  BY <1>7, <1>8, <1>9, <1>10 DEF IInv

LEMMA SealStep ==
  ASSUME IInv, NEW p \in Proc, NEW r \in Revs, Seal(p, r)
  PROVE  IInv'
<1>1. TypeOK /\ LockInv /\ DirInv /\ IndexInv /\ RunsKeptOnce
  BY DEF IInv
<1>2. /\ staging[r].ctx # NoRun /\ staging[r].phase # "sealed"
      /\ staging' = [staging EXCEPT ![r].phase = "sealed"]
      /\ UNCHANGED <<final, orphan, index, latest, lock, pc, job, created, clock, faults>>
  BY DEF Seal
<1>3. /\ staging' \in [Revs -> Dirs]
      /\ staging'[r].phase = "sealed" /\ staging'[r].ctx = staging[r].ctx
      /\ staging'[r].bundle = staging[r].bundle /\ staging'[r].report = staging[r].report
      /\ \A s \in Revs \ {r} : staging'[s] = staging[s]
  <2>1. staging \in [Revs -> Dirs] /\ staging[r] \in Dirs
    BY <1>1 DEF TypeOK
  <2>2. [staging[r] EXCEPT !.phase = "sealed"]
          = [phase |-> "sealed", ctx |-> staging[r].ctx,
             bundle |-> staging[r].bundle, report |-> staging[r].report]
    BY <2>1 DEF Dirs
  <2>3. staging'[r] = [staging[r] EXCEPT !.phase = "sealed"]
    BY <1>2, <2>1
  <2>4. staging'[r] \in Dirs
    BY <2>1, <2>2, <2>3 DEF Dirs
  <2>5. QED
    BY <1>2, <2>1, <2>2, <2>3, <2>4
<1>4. TypeOK' /\ LockInv'
  BY <1>1, <1>2, <1>3 DEF TypeOK, LockInv
<1>5. JobInv'
  BY <1>1, <1>2, NobodyInside DEF Seal, JobInv
<1>6. staging[r].phase # "absent" /\ final[r] = Absent
  BY <1>1, <1>2 DEF DirInv, Absent
<1>7. DirInv'
  BY <1>1, <1>2, <1>3, <1>6 DEF DirInv, Complete
<1>8. IndexInv'
  BY <1>1, <1>2 DEF IndexInv, HasReceipt
<1>9. \A s \in Revs : staging'[s].ctx = staging[s].ctx
  BY <1>3
<1>10. RunsKeptOnce'
  <2>1. OneCopy'
    BY <1>1, <1>2, <1>9 DEF RunsKeptOnce, OneCopy
  <2>2. QED
    BY <1>1, <1>2, <1>9, <2>1 DEF RunsKeptOnce, TypeOK, Revs
<1>11. QED
  BY <1>4, <1>5, <1>7, <1>8, <1>10 DEF IInv

LEMMA PublishStep ==
  ASSUME IInv, NEW p \in Proc, NEW r \in Revs, Publish(p, r)
  PROVE  IInv'
<1>1. PICK c \in Runs : MayPublish(r, c) /\ Enter(p, "bundle", r, c)
  BY DEF Publish
<1>2. UNCHANGED <<diskVars, created, clock, faults>>
  BY DEF Publish
<1>3. TypeOK /\ LockInv /\ "bundle" \in Steps \ {"idle"}
  BY DEF IInv, Steps, Publishing
<1>4. TypeOK' /\ LockInv'
  BY <1>1, <1>2, <1>3, EnterAlone DEF TypeOK, diskVars
<1>5. pc'[p] = "bundle" /\ job'[p].rev = r /\ job'[p].run = c
      /\ \A q \in Proc \ {p} : pc'[q] = "idle"
  BY <1>1, <1>3, EnterAlone
<1>6. JobInv'
  <2>1. JobOK(p, r, c)'
    BY <1>1, <1>2, <1>5 DEF JobOK, MayPublish, diskVars
  <2>2. QED
    BY <2>1, <1>5 DEF JobInv
<1>7. QED
  BY <1>2, <1>4, <1>6, FilesUnchanged DEF IInv

LEMMA WriteBundleStep ==
  ASSUME IInv, NEW p \in Proc, WriteBundle(p)
  PROVE  IInv'
<1>1. TypeOK /\ LockInv /\ DirInv /\ IndexInv /\ RunsKeptOnce /\ pc[p] = "bundle"
  BY DEF IInv, WriteBundle
<1>2. PICK r \in Revs, c \in Runs : job[p].rev = r /\ job[p].run = c /\ JobOK(p, r, c)
  BY <1>1, JobLocals
<1>3. /\ staging' = [staging EXCEPT ![r].bundle = c]
      /\ UNCHANGED <<final, orphan, index, latest, job, created, clock, faults>>
  BY <1>2 DEF WriteBundle
<1>4. staging[r].ctx = c /\ staging[r].phase = "sealed"
  BY <1>1, <1>2 DEF JobOK
<1>5. /\ lock' \in Proc \cup {NoProc} /\ pc' \in [Proc -> Steps] /\ pc'[p] = "report"
      /\ LockInv' /\ \A q \in Proc \ {p} : pc'[q] = "idle"
  BY <1>1, GoToAlone DEF WriteBundle, Steps, Publishing
<1>6. /\ staging' \in [Revs -> Dirs]
      /\ staging'[r].phase = "sealed" /\ staging'[r].ctx = c
      /\ staging'[r].bundle = c /\ staging'[r].report = staging[r].report
      /\ \A s \in Revs \ {r} : staging'[s] = staging[s]
  <2>1. staging \in [Revs -> Dirs] /\ staging[r] \in Dirs
    BY <1>1 DEF TypeOK
  <2>2. [staging[r] EXCEPT !.bundle = c]
          = [phase |-> staging[r].phase, ctx |-> staging[r].ctx,
             bundle |-> c, report |-> staging[r].report]
    BY <2>1 DEF Dirs
  <2>3. staging'[r] = [staging[r] EXCEPT !.bundle = c]
    BY <1>3, <2>1
  <2>4. staging'[r] \in Dirs
    BY <2>1, <2>2, <2>3 DEF Dirs, RunOrNone
  <2>5. QED
    BY <1>3, <1>4, <2>1, <2>2, <2>3, <2>4
<1>7. TypeOK'
  BY <1>1, <1>3, <1>5, <1>6 DEF TypeOK
<1>8. DirInv'
  BY <1>1, <1>3, <1>4, <1>6 DEF DirInv, Complete
<1>9. JobInv'
  <2>1. JobOK(p, r, c)'
    BY <1>5, <1>6 DEF JobOK
  <2>2. QED
    BY <2>1, <1>2, <1>3, <1>5 DEF JobInv
<1>10. IndexInv'
  BY <1>1, <1>3 DEF IndexInv, HasReceipt
<1>11. RunsKeptOnce'
  <2>1. \A s \in Revs : staging'[s].ctx = staging[s].ctx
    BY <1>4, <1>6
  <2>2. OneCopy'
    BY <1>1, <1>3, <2>1 DEF RunsKeptOnce, OneCopy
  <2>3. QED
    BY <1>1, <1>3, <2>1, <2>2 DEF RunsKeptOnce, TypeOK, Revs
<1>12. QED
  BY <1>5, <1>7, <1>8, <1>9, <1>10, <1>11 DEF IInv

LEMMA WriteReportStep ==
  ASSUME IInv, NEW p \in Proc, WriteReport(p)
  PROVE  IInv'
<1>1. TypeOK /\ LockInv /\ DirInv /\ IndexInv /\ RunsKeptOnce /\ pc[p] = "report"
  BY DEF IInv, WriteReport
<1>2. PICK r \in Revs, c \in Runs : job[p].rev = r /\ job[p].run = c /\ JobOK(p, r, c)
  BY <1>1, JobLocals
<1>3. /\ staging' = [staging EXCEPT ![r].report = c]
      /\ UNCHANGED <<final, orphan, index, latest, job, created, clock, faults>>
  BY <1>2 DEF WriteReport
<1>4. staging[r].ctx = c /\ staging[r].phase = "sealed" /\ staging[r].bundle = c
  BY <1>1, <1>2 DEF JobOK
<1>5. /\ lock' \in Proc \cup {NoProc} /\ pc' \in [Proc -> Steps] /\ pc'[p] = "rename"
      /\ LockInv' /\ \A q \in Proc \ {p} : pc'[q] = "idle"
  BY <1>1, GoToAlone DEF WriteReport, Steps, Publishing
<1>6. /\ staging' \in [Revs -> Dirs]
      /\ staging'[r].phase = "sealed" /\ staging'[r].ctx = c
      /\ staging'[r].bundle = c /\ staging'[r].report = c
      /\ \A s \in Revs \ {r} : staging'[s] = staging[s]
  <2>1. staging \in [Revs -> Dirs] /\ staging[r] \in Dirs
    BY <1>1 DEF TypeOK
  <2>2. [staging[r] EXCEPT !.report = c]
          = [phase |-> staging[r].phase, ctx |-> staging[r].ctx,
             bundle |-> staging[r].bundle, report |-> c]
    BY <2>1 DEF Dirs
  <2>3. staging'[r] = [staging[r] EXCEPT !.report = c]
    BY <1>3, <2>1
  <2>4. staging'[r] \in Dirs
    BY <2>1, <2>2, <2>3 DEF Dirs, RunOrNone
  <2>5. QED
    BY <1>3, <1>4, <2>1, <2>2, <2>3, <2>4
<1>7. TypeOK'
  BY <1>1, <1>3, <1>5, <1>6 DEF TypeOK
<1>8. DirInv'
  BY <1>1, <1>3, <1>4, <1>6 DEF DirInv, Complete
<1>9. JobInv'
  <2>1. JobOK(p, r, c)'
    BY <1>5, <1>6 DEF JobOK
  <2>2. QED
    BY <2>1, <1>2, <1>3, <1>5 DEF JobInv
<1>10. IndexInv'
  BY <1>1, <1>3 DEF IndexInv, HasReceipt
<1>11. RunsKeptOnce'
  <2>1. \A s \in Revs : staging'[s].ctx = staging[s].ctx
    BY <1>4, <1>6
  <2>2. OneCopy'
    BY <1>1, <1>3, <2>1 DEF RunsKeptOnce, OneCopy
  <2>3. QED
    BY <1>1, <1>3, <2>1, <2>2 DEF RunsKeptOnce, TypeOK, Revs
<1>12. QED
  BY <1>5, <1>7, <1>8, <1>9, <1>10, <1>11 DEF IInv

LEMMA RenameToFinalStep ==
  ASSUME IInv, NEW p \in Proc, RenameToFinal(p)
  PROVE  IInv'
<1>1. TypeOK /\ LockInv /\ DirInv /\ IndexInv /\ RunsKeptOnce /\ pc[p] = "rename"
  BY DEF IInv, RenameToFinal
<1>2. PICK r \in Revs, c \in Runs : job[p].rev = r /\ job[p].run = c /\ JobOK(p, r, c)
  BY <1>1, JobLocals
<1>3. /\ final' = [final EXCEPT ![r] = staging[r]]
      /\ staging' = [staging EXCEPT ![r] = Absent]
      /\ UNCHANGED <<orphan, index, latest, job, created, clock, faults>>
  BY <1>2 DEF RenameToFinal
<1>4. Complete(staging[r]) /\ staging[r].ctx = c
  BY <1>1, <1>2 DEF JobOK, Complete
<1>5. final[r] = Absent
  BY <1>1, <1>4 DEF DirInv, Complete
<1>6. /\ lock' \in Proc \cup {NoProc} /\ pc' \in [Proc -> Steps] /\ pc'[p] = "read"
      /\ LockInv' /\ \A q \in Proc \ {p} : pc'[q] = "idle"
  BY <1>1, GoToAlone DEF RenameToFinal, Steps, Publishing
<1>7. /\ staging' \in [Revs -> Dirs] /\ staging'[r] = Absent
      /\ \A s \in Revs \ {r} : staging'[s] = staging[s]
  BY <1>1, <1>3 DEF TypeOK, Dirs, RunOrNone, Absent
<1>8. /\ final' \in [Revs -> Dirs] /\ final'[r] = staging[r]
      /\ \A s \in Revs \ {r} : final'[s] = final[s]
  BY <1>1, <1>3 DEF TypeOK
<1>9. TypeOK'
  BY <1>1, <1>3, <1>6, <1>7, <1>8 DEF TypeOK
<1>10. DirInv'
  BY <1>1, <1>3, <1>4, <1>7, <1>8 DEF DirInv, Complete, Absent
<1>11. JobInv'
  <2>1. JobOK(p, r, c)'
    BY <1>4, <1>6, <1>8 DEF JobOK, Complete
  <2>2. QED
    BY <2>1, <1>2, <1>3, <1>6 DEF JobInv
<1>12. IndexInv'
  BY <1>1, <1>3 DEF IndexInv, HasReceipt
<1>13. RunsKeptOnce'
  <2>1. OneCopy'
    BY <1>1, <1>3, <1>5, <1>7, <1>8 DEF RunsKeptOnce, OneCopy, Absent
  <2>2. ASSUME NEW d \in Runs, created[d] # 0
        PROVE  d \in {staging'[created[d]].ctx, final'[created[d]].ctx, orphan'[created[d]].ctx}
    <3>1. created[d] \in Revs
      BY <1>1, <2>2 DEF TypeOK, Revs
    <3>2. CASE created[d] = r
      BY <1>1, <1>3, <1>5, <1>7, <1>8, <2>2, <3>2 DEF RunsKeptOnce, Absent
    <3>3. CASE created[d] # r
      BY <1>1, <1>3, <1>7, <1>8, <2>2, <3>1, <3>3 DEF RunsKeptOnce
    <3>4. QED
      BY <3>2, <3>3
  <2>3. QED
    BY <1>3, <2>1, <2>2 DEF RunsKeptOnce
<1>14. QED
  BY <1>6, <1>9, <1>10, <1>11, <1>12, <1>13 DEF IInv

\* The index entry a publication writes is a receipt for its run, and the
\* recorded one when there is one.
LEMMA ReceiptIsStable ==
  ASSUME TypeOK, NEW r \in Revs, NEW c \in Runs, ~Conflicting(r, c)
  PROVE  /\ ReceiptFor(r, c) \in Receipts /\ ReceiptFor(r, c).run = c
         /\ HasReceipt(r) => ReceiptFor(r, c) = index[r]
<1>1. index[r] \in Receipts
  BY DEF TypeOK
<1>2. ReceiptFor(r, c) \in Receipts /\ ReceiptFor(r, c).run = c
  BY <1>1 DEF ReceiptFor, TypeOK, Receipts, RunOrNone
<1>3. ASSUME HasReceipt(r) PROVE ReceiptFor(r, c) = index[r]
  <2>1. index[r].run = c
    BY <1>3 DEF Conflicting
  <2>2. index[r] = [run |-> index[r].run, at |-> index[r].at]
    BY <1>1 DEF Receipts
  <2>3. QED
    BY <1>3, <2>1, <2>2 DEF ReceiptFor
<1>4. QED
  BY <1>2, <1>3

LEMMA ReadIndexStep ==
  ASSUME IInv, NEW p \in Proc, ReadIndex(p)
  PROVE  IInv'
<1>1. TypeOK /\ LockInv /\ pc[p] = "read" /\ job[p].rev \in Revs
  BY DEF IInv, ReadIndex, JobInv, JobOK
<1>2. PICK r \in Revs, c \in Runs : job[p].rev = r /\ job[p].run = c /\ JobOK(p, r, c)
  BY <1>1, JobLocals
<1>3. final[r].phase # "absent" /\ final[r].ctx = c
  BY <1>1, <1>2 DEF JobOK
<1>4. UNCHANGED <<diskVars, created, faults>>
  BY DEF ReadIndex
<1>5. CASE /\ ~Conflicting(r, c)
           /\ job' = [job EXCEPT ![p].payload = [index EXCEPT ![r] = ReceiptFor(r, c)]]
           /\ clock' = IF HasReceipt(r) THEN clock ELSE clock + 1
           /\ GoTo(p, "index")
  <2> DEFINE payload == [index EXCEPT ![r] = ReceiptFor(r, c)]
  <2>1. /\ payload \in [Revs -> Receipts] /\ payload[r].run = c
        /\ HasReceipt(r) => payload[r] = index[r]
        /\ \A s \in Revs \ {r} : payload[s] = index[s]
    BY <1>1, <1>5, ReceiptIsStable DEF TypeOK
  <2> HIDE DEF payload
  <2>2. /\ job' \in [Proc -> [rev : 0..MaxRev, run : RunOrNone, payload : [Revs -> Receipts]]]
        /\ job'[p].rev = r /\ job'[p].run = c /\ job'[p].payload = payload
    <3>1. /\ job' = [job EXCEPT ![p].payload = payload]
          /\ job \in [Proc -> [rev : 0..MaxRev, run : RunOrNone, payload : [Revs -> Receipts]]]
      BY <1>1, <1>5 DEF payload, TypeOK
    <3>2. [job[p] EXCEPT !.payload = payload]
            = [rev |-> job[p].rev, run |-> job[p].run, payload |-> payload]
      BY <3>1
    <3>3. job'[p] = [rev |-> r, run |-> c, payload |-> payload]
      BY <3>1, <3>2, <1>2
    <3>4. QED
      BY <3>1, <3>2, <3>3, <2>1 DEF RunOrNone, Revs
  <2>3. /\ lock' \in Proc \cup {NoProc} /\ pc' \in [Proc -> Steps] /\ pc'[p] = "index"
        /\ LockInv' /\ \A q \in Proc \ {p} : pc'[q] = "idle"
    BY <1>1, <1>5, GoToAlone DEF Steps, Publishing
  <2>4. TypeOK'
    BY <1>1, <1>4, <1>5, <2>2, <2>3 DEF TypeOK, diskVars
  <2>5. JobOK(p, r, c)'
    BY <1>3, <1>4, <2>1, <2>2, <2>3 DEF JobOK, diskVars, HasReceipt
  <2>6. JobInv'
    BY <2>2, <2>3, <2>5 DEF JobInv
  <2>7. QED
    BY <1>4, <2>3, <2>4, <2>6, FilesUnchanged DEF IInv
<1>6. CASE Conflicting(r, c) /\ GoTo(p, "quarantine") /\ UNCHANGED <<job, clock>>
  <2>1. /\ lock' \in Proc \cup {NoProc} /\ pc' \in [Proc -> Steps] /\ pc'[p] = "quarantine"
        /\ LockInv' /\ \A q \in Proc \ {p} : pc'[q] = "idle"
    BY <1>1, <1>6, GoToAlone DEF Steps
  <2>2. TypeOK'
    BY <1>1, <1>4, <1>6, <2>1 DEF TypeOK, diskVars
  <2>3. JobOK(p, r, c)'
    BY <1>3, <1>4, <2>1 DEF JobOK, diskVars
  <2>4. JobInv'
    BY <1>2, <1>6, <2>1, <2>3 DEF JobInv
  <2>5. QED
    BY <1>4, <2>1, <2>2, <2>4, FilesUnchanged DEF IInv
<1>7. QED
  BY <1>2, <1>5, <1>6 DEF ReadIndex

LEMMA WriteIndexStep ==
  ASSUME IInv, NEW p \in Proc, WriteIndex(p)
  PROVE  IInv'
<1>1. TypeOK /\ LockInv /\ DirInv /\ IndexInv /\ RunsKeptOnce /\ pc[p] = "index"
  BY DEF IInv, WriteIndex
<1>2. PICK r \in Revs, c \in Runs : job[p].rev = r /\ job[p].run = c /\ JobOK(p, r, c)
  BY <1>1, JobLocals
<1>3. /\ index' = job[p].payload
      /\ UNCHANGED <<staging, final, orphan, latest, job, created, clock, faults>>
  BY DEF WriteIndex
<1>4. /\ final[r].phase # "absent" /\ final[r].ctx = c /\ index'[r].run = c
      /\ HasReceipt(r) => index'[r] = index[r]
      /\ \A s \in Revs \ {r} : index'[s] = index[s]
  BY <1>1, <1>2, <1>3 DEF JobOK
<1>5. created[c] = r
  BY <1>1, <1>4 DEF RunsKeptOnce, OneCopy
<1>6. /\ lock' \in Proc \cup {NoProc} /\ pc' \in [Proc -> Steps] /\ pc'[p] = "latest"
      /\ LockInv' /\ \A q \in Proc \ {p} : pc'[q] = "idle"
  BY <1>1, GoToAlone DEF WriteIndex, Steps, Publishing
<1>7. TypeOK'
  BY <1>1, <1>3, <1>6 DEF TypeOK
<1>8. DirInv' /\ RunsKeptOnce'
  BY <1>1, <1>3 DEF DirInv, Complete, RunsKeptOnce, OneCopy
<1>9. JobInv'
  <2>1. JobOK(p, r, c)'
    BY <1>2, <1>3, <1>4, <1>6 DEF JobOK
  <2>2. QED
    BY <2>1, <1>2, <1>3, <1>6 DEF JobInv
<1>10. IndexInv'
  <2>1. \A s \in Revs : HasReceipt(s) => HasReceipt(s)'
    BY <1>1, <1>2, <1>4 DEF HasReceipt
  <2>2. latest' = 0 \/ HasReceipt(latest)'
    BY <1>1, <1>3, <2>1 DEF IndexInv, TypeOK, HasReceipt, Revs
  <2>3. \A s \in Revs : HasReceipt(s)' => created'[index'[s].run] = s
    BY <1>1, <1>3, <1>4, <1>5 DEF IndexInv, HasReceipt
  <2>4. QED
    BY <2>2, <2>3 DEF IndexInv, HasReceipt
<1>11. QED
  BY <1>6, <1>7, <1>8, <1>9, <1>10 DEF IInv

\* latest.json is written with the newest revision that has a receipt.
LEMMA NewestEntry ==
  ASSUME IInv, NEW p \in Proc, pc[p] = "latest"
  PROVE  /\ PointAtNewest(p) \in 0..MaxRev
         /\ PointAtNewest(p) = 0 \/ HasReceipt(PointAtNewest(p))
         /\ PointAtNewest(p) >= latest
<1>1. job[p].payload = index /\ latest \in 0..MaxRev /\ (latest = 0 \/ HasReceipt(latest))
  BY DEF IInv, JobInv, JobOK, TypeOK, IndexInv
<1> DEFINE E == Entries(job[p].payload)
<1>2. E \subseteq Revs /\ \A r \in Revs : r \in E <=> HasReceipt(r)
  BY <1>1 DEF Entries, HasReceipt
<1>3. PointAtNewest(p) = Newest(E)
  BY DEF PointAtNewest
<1> HIDE DEF E
<1>4. /\ Newest(E) \in 0..MaxRev
      /\ E # {} => Newest(E) \in E
      /\ \A n \in E : n <= Newest(E)
  BY <1>2, NewestIsLargest
<1>5. E = {} => Newest(E) = 0
  BY DEF Newest
<1>6. Newest(E) >= latest
  <2>1. CASE latest = 0
    BY <1>4, <2>1
  <2>2. CASE latest # 0
    <3>1. latest \in E
      BY <1>1, <1>2, <2>2 DEF Revs
    <3>2. QED
      BY <3>1, <1>1, <1>4
  <2>3. QED
    BY <2>1, <2>2
<1>7. QED
  BY <1>2, <1>3, <1>4, <1>5, <1>6

LEMMA WriteLatestStep ==
  ASSUME IInv, NEW p \in Proc, WriteLatest(p)
  PROVE  IInv'
<1>1. TypeOK /\ LockInv /\ DirInv /\ IndexInv /\ RunsKeptOnce /\ pc[p] = "latest"
  BY DEF IInv, WriteLatest
<1>2. PICK r \in Revs, c \in Runs : job[p].rev = r /\ job[p].run = c /\ JobOK(p, r, c)
  BY <1>1, JobLocals
<1>3. /\ latest' = PointAtNewest(p)
      /\ UNCHANGED <<staging, final, orphan, index, job, created, clock, faults>>
  BY DEF WriteLatest
<1>4. latest' \in 0..MaxRev /\ (latest' = 0 \/ HasReceipt(latest'))
  BY <1>1, <1>3, NewestEntry
<1>5. /\ lock' \in Proc \cup {NoProc} /\ pc' \in [Proc -> Steps] /\ pc'[p] = "sync"
      /\ LockInv' /\ \A q \in Proc \ {p} : pc'[q] = "idle"
  BY <1>1, GoToAlone DEF WriteLatest, Steps, Publishing
<1>6. TypeOK'
  BY <1>1, <1>3, <1>4, <1>5 DEF TypeOK
<1>7. DirInv' /\ RunsKeptOnce'
  BY <1>1, <1>3 DEF DirInv, Complete, RunsKeptOnce, OneCopy
<1>8. JobInv'
  <2>1. JobOK(p, r, c)'
    BY <1>1, <1>2, <1>3, <1>5 DEF JobOK
  <2>2. QED
    BY <2>1, <1>2, <1>3, <1>5 DEF JobInv
<1>9. IndexInv'
  BY <1>1, <1>3, <1>4 DEF IndexInv, HasReceipt
<1>10. QED
  BY <1>5, <1>6, <1>7, <1>8, <1>9 DEF IInv

\* A step that only ends the operation: the last fsync, a fault before the
\* rename or in the quarantine, the death of the process.
LEMMA LeaveOnlyStep ==
  ASSUME IInv, NEW p \in Proc, pc[p] # "idle", Leave(p),
         UNCHANGED <<diskVars, created, clock>>, faults' \in 0..MaxFaults
  PROVE  IInv'
<1>1. TypeOK /\ LockInv
  BY DEF IInv
<1>2. TypeOK' /\ LockInv' /\ JobInv'
  BY <1>1, LeaveFrees DEF TypeOK, diskVars
<1>3. QED
  BY <1>2, FilesUnchanged DEF IInv

LEMMA ReturnStep ==
  ASSUME IInv, NEW p \in Proc, Return(p)
  PROVE  IInv'
BY LeaveOnlyStep DEF Return, IInv, TypeOK

LEMMA CrashStep ==
  ASSUME IInv, NEW p \in Proc, Crash(p)
  PROVE  IInv'
<1>1. faults' \in 0..MaxFaults
  BY DEF Crash, IInv, TypeOK
<1>2. QED
  BY <1>1, LeaveOnlyStep DEF Crash

LEMMA FaultStep ==
  ASSUME IInv, NEW p \in Proc, Fault(p)
  PROVE  IInv'
<1>1. /\ TypeOK /\ LockInv /\ pc[p] # "idle" /\ faults' \in 0..MaxFaults
      /\ UNCHANGED <<diskVars, created, clock>>
  BY DEF Fault, IInv, TypeOK
<1>2. CASE pc[p] \in {"read", "index", "latest", "sync"}
  <2>1. PICK r \in Revs, c \in Runs : job[p].rev = r /\ job[p].run = c /\ JobOK(p, r, c)
    BY <1>1, JobLocals
  <2>2. GoTo(p, "quarantine") /\ UNCHANGED job
    BY <1>2 DEF Fault
  <2>3. /\ lock' \in Proc \cup {NoProc} /\ pc' \in [Proc -> Steps] /\ pc'[p] = "quarantine"
        /\ LockInv' /\ \A q \in Proc \ {p} : pc'[q] = "idle"
    BY <1>1, <2>2, GoToAlone DEF Steps
  <2>4. TypeOK'
    BY <1>1, <2>2, <2>3 DEF TypeOK, diskVars
  <2>5. JobOK(p, r, c)'
    BY <1>1, <1>2, <2>1, <2>3 DEF JobOK, diskVars
  <2>6. JobInv'
    BY <2>1, <2>2, <2>3, <2>5 DEF JobInv
  <2>7. QED
    BY <1>1, <2>3, <2>4, <2>6, FilesUnchanged DEF IInv
<1>3. CASE pc[p] \notin {"read", "index", "latest", "sync"}
  BY <1>1, <1>3, LeaveOnlyStep DEF Fault
<1>4. QED
  BY <1>2, <1>3

LEMMA QuarantineStep ==
  ASSUME IInv, NEW p \in Proc, Quarantine(p)
  PROVE  IInv'
<1>1. TypeOK /\ LockInv /\ DirInv /\ IndexInv /\ RunsKeptOnce /\ pc[p] = "quarantine"
  BY DEF IInv, Quarantine
<1>2. PICK r \in Revs, c \in Runs : job[p].rev = r /\ job[p].run = c /\ JobOK(p, r, c)
  BY <1>1, JobLocals
<1>3. Leave(p) /\ UNCHANGED <<staging, index, latest, created, clock, faults>>
  BY DEF Quarantine
<1>4. CASE OrphanFree(r)
  <2>1. /\ orphan' = [orphan EXCEPT ![r] = final[r]]
        /\ final' = [final EXCEPT ![r] = Absent]
    BY <1>2, <1>4 DEF Quarantine
  <2>2. Complete(final[r]) /\ orphan[r] = Absent /\ staging[r] = Absent
    BY <1>1, <1>2, <1>4 DEF JobOK, DirInv, OrphanFree, Complete, Absent
  <2>3. /\ orphan' \in [Revs -> Dirs] /\ orphan'[r] = final[r]
        /\ \A s \in Revs \ {r} : orphan'[s] = orphan[s]
    BY <1>1, <2>1 DEF TypeOK
  <2>4. /\ final' \in [Revs -> Dirs] /\ final'[r] = Absent
        /\ \A s \in Revs \ {r} : final'[s] = final[s]
    BY <1>1, <2>1 DEF TypeOK, Dirs, RunOrNone, Absent
  <2>5. TypeOK' /\ LockInv' /\ JobInv'
    BY <1>1, <1>3, <2>3, <2>4, LeaveFrees DEF TypeOK
  <2>6. DirInv'
    BY <1>1, <1>3, <2>2, <2>3, <2>4 DEF DirInv, Complete, Absent
  <2>7. IndexInv'
    BY <1>1, <1>3 DEF IndexInv, HasReceipt
  <2>8. OneCopy'
    BY <1>1, <1>3, <2>2, <2>3, <2>4 DEF RunsKeptOnce, OneCopy, Absent
  <2>9. ASSUME NEW d \in Runs, created[d] # 0
        PROVE  d \in {staging'[created[d]].ctx, final'[created[d]].ctx, orphan'[created[d]].ctx}
    <3>1. created[d] \in Revs
      BY <1>1, <2>9 DEF TypeOK, Revs
    <3>2. CASE created[d] = r
      BY <1>1, <1>3, <2>2, <2>3, <2>4, <2>9, <3>2 DEF RunsKeptOnce, Absent
    <3>3. CASE created[d] # r
      BY <1>1, <1>3, <2>3, <2>4, <2>9, <3>1, <3>3 DEF RunsKeptOnce
    <3>4. QED
      BY <3>2, <3>3
  <2>10. QED
    BY <1>3, <2>5, <2>6, <2>7, <2>8, <2>9 DEF IInv, RunsKeptOnce
<1>5. CASE ~OrphanFree(r)
  BY <1>1, <1>2, <1>3, <1>5, LeaveOnlyStep DEF Quarantine, diskVars, TypeOK
<1>6. QED
  BY <1>4, <1>5

LEMMA RecoverStep ==
  ASSUME IInv, NEW p \in Proc, NEW r \in Revs, Recover(p, r)
  PROVE  IInv'
<1>0. PICK c \in RunOrNone : c = orphan[r].ctx
  BY DEF IInv, TypeOK, Dirs
<1>1. TypeOK /\ LockInv /\ DirInv /\ IndexInv /\ RunsKeptOnce
  BY DEF IInv
<1>2. /\ Complete(orphan[r]) /\ staging[r] = Absent /\ final[r] = Absent
      /\ c \in Runs /\ orphan[r].bundle = c
  BY <1>0, <1>1 DEF Recover, Recoverable, DirInv, Complete, Absent, RunOrNone
<1>3. /\ Enter(p, "bundle", r, c)
      /\ staging' = [staging EXCEPT ![r] = orphan[r]]
      /\ orphan' = [orphan EXCEPT ![r] = Absent]
      /\ UNCHANGED <<final, index, latest, created, clock, faults>>
  BY <1>2 DEF Recover
<1>4. "bundle" \in Steps \ {"idle"}
  BY DEF Steps, Publishing
<1>5. /\ lock' \in Proc \cup {NoProc} /\ pc' \in [Proc -> Steps]
      /\ job' \in [Proc -> [rev : 0..MaxRev, run : RunOrNone, payload : [Revs -> Receipts]]]
      /\ pc'[p] = "bundle" /\ job'[p].rev = r /\ job'[p].run = c
      /\ LockInv' /\ \A q \in Proc \ {p} : pc'[q] = "idle"
  BY <1>1, <1>2, <1>3, <1>4, EnterAlone
<1>6. /\ staging' \in [Revs -> Dirs] /\ staging'[r] = orphan[r]
      /\ \A s \in Revs \ {r} : staging'[s] = staging[s]
  BY <1>1, <1>3 DEF TypeOK
<1>7. /\ orphan' \in [Revs -> Dirs] /\ orphan'[r] = Absent
      /\ \A s \in Revs \ {r} : orphan'[s] = orphan[s]
  BY <1>1, <1>3 DEF TypeOK, Dirs, RunOrNone, Absent
<1>8. TypeOK'
  BY <1>1, <1>3, <1>5, <1>6, <1>7 DEF TypeOK
<1>9. DirInv'
  BY <1>1, <1>2, <1>3, <1>6, <1>7 DEF DirInv, Complete, Absent
<1>10. JobInv'
  <2>1. staging'[r].ctx = c /\ staging'[r].phase = "sealed"
    BY <1>0, <1>2, <1>6 DEF Complete
  <2>2. JobOK(p, r, c)'
    BY <1>2, <1>5, <2>1 DEF JobOK
  <2>3. QED
    BY <2>2, <1>5 DEF JobInv
<1>11. IndexInv'
  BY <1>1, <1>3 DEF IndexInv, HasReceipt
<1>12. OneCopy'
  BY <1>1, <1>2, <1>3, <1>6, <1>7 DEF RunsKeptOnce, OneCopy, Absent
<1>13. ASSUME NEW d \in Runs, created[d] # 0
       PROVE  d \in {staging'[created[d]].ctx, final'[created[d]].ctx, orphan'[created[d]].ctx}
  <2>1. created[d] \in Revs
    BY <1>1, <1>13 DEF TypeOK, Revs
  <2>2. CASE created[d] = r
    BY <1>1, <1>2, <1>3, <1>6, <1>7, <1>13, <2>2 DEF RunsKeptOnce, Absent
  <2>3. CASE created[d] # r
    BY <1>1, <1>3, <1>6, <1>7, <1>13, <2>1, <2>3 DEF RunsKeptOnce
  <2>4. QED
    BY <2>2, <2>3
<1>14. QED
  BY <1>3, <1>5, <1>8, <1>9, <1>10, <1>11, <1>12, <1>13 DEF IInv, RunsKeptOnce

LEMMA NextIInv == IInv /\ [Next]_vars => IInv'
<1> SUFFICES ASSUME IInv, [Next]_vars PROVE IInv'
  OBVIOUS
<1>1. ASSUME NEW p \in Proc, Begin(p) PROVE IInv'
  BY <1>1, AllocateStep, SealStep, PublishStep, RecoverStep DEF Begin
<1>2. ASSUME NEW p \in Proc, Step(p) PROVE IInv'
  BY <1>2, MakeStagingStep, WriteContextStep, WriteBundleStep, WriteReportStep,
     RenameToFinalStep, ReadIndexStep, WriteIndexStep, WriteLatestStep, ReturnStep,
     QuarantineStep DEF Step
<1>3. CASE UNCHANGED vars
  <2>1. TypeOK' /\ LockInv' /\ JobInv'
    <3>1. TypeOK'
      BY <1>3 DEF IInv, vars, TypeOK
    <3>2. LockInv'
      BY <1>3 DEF IInv, vars, LockInv
    <3>3. JobInv'
      BY <1>3 DEF IInv, vars, JobInv, JobOK, HasReceipt
    <3>4. QED
      BY <3>1, <3>2, <3>3
  <2>2. QED
    BY <1>3, <2>1, FilesUnchanged DEF IInv, vars, diskVars
<1>4. QED
  BY <1>1, <1>2, <1>3, FaultStep, CrashStep DEF Next

-----------------------------------------------------------------------------
(* The theorems *)

\* The files, the receipts and the lock holder's locals agree in every state
\* of every execution of the repository's operations, crashes and failed
\* writes included.
THEOREM Invariance == Spec => []IInv
<1>1. Init => IInv
  BY InitIInv
<1>2. IInv /\ [Next]_vars => IInv'
  BY NextIInv
<1>3. QED
  BY <1>1, <1>2, PTL DEF Spec

\* Every variable keeps its type.
THEOREM TypeCorrectness == Spec => []TypeOK
<1>1. IInv => TypeOK
  BY DEF IInv
<1>2. QED
  BY <1>1, Invariance, PTL

\* No crash, failed write, quarantine or recovery loses or duplicates the files
\* of a run that was created (_quarantine_orphan, recover_interrupted_publication).
THEOREM NothingLost == Spec => []RunsKeptOnce
<1>1. IInv => RunsKeptOnce
  BY DEF IInv
<1>2. QED
  BY <1>1, Invariance, PTL

\* What a reader is shown under a revision (_published_payloads) is the finished
\* run stored there, created for that revision.
LEMMA VisibleIsStored == IInv => ShownRunIsTheStoredRun
BY DEF IInv, DirInv, Complete, Absent, RunsKeptOnce, OneCopy, Visible, HasReceipt,
       ShownRunIsTheStoredRun

THEOREM ShownIsStored == Spec => []ShownRunIsTheStoredRun
BY VisibleIsStored, Invariance, PTL

\* Only WriteIndex changes the index, and it keeps every receipt.
LEMMA StepKeepsReceipts ==
  ASSUME IInv, [Next]_vars
  PROVE  \A r \in Revs : HasReceipt(r) => index'[r] = index[r]
<1>1. ASSUME NEW p \in Proc, WriteIndex(p)
      PROVE  \A r \in Revs : HasReceipt(r) => index'[r] = index[r]
  <2>1. PICK s \in Revs, c \in Runs : job[p].rev = s /\ job[p].run = c /\ JobOK(p, s, c)
    BY <1>1, JobLocals DEF WriteIndex
  <2>2. QED
    BY <1>1, <2>1 DEF WriteIndex, JobOK
<1>2. ASSUME NEW p \in Proc, Step(p), ~WriteIndex(p) PROVE index' = index
  BY <1>2 DEF Step, MakeStaging, WriteContext, WriteBundle, WriteReport, RenameToFinal,
              ReadIndex, WriteLatest, Return, Quarantine, diskVars
<1>3. ASSUME NEW p \in Proc, Begin(p) \/ Fault(p) \/ Crash(p) PROVE index' = index
  BY <1>3 DEF Begin, Allocate, Seal, Publish, Recover, Fault, Crash, diskVars
<1>4. CASE UNCHANGED vars
  BY <1>4 DEF vars
<1>5. QED
  BY <1>1, <1>2, <1>3, <1>4 DEF Next

\* A receipt keeps its hashes and its time for ever.
THEOREM ReceiptsArePermanent == Spec => ReceiptsPermanent
<1>1. IInv /\ [Next]_vars => [\A r \in Revs : HasReceipt(r) => index'[r] = index[r]]_vars
  BY StepKeepsReceipts
<1>2. QED
  BY <1>1, Invariance, PTL DEF Spec, ReceiptsPermanent

\* Only WriteLatest changes the latest pointer, to the newest receipt.
LEMMA StepAdvancesLatest ==
  ASSUME IInv, [Next]_vars
  PROVE  latest' >= latest
<1>0. latest \in Nat
  BY DEF IInv, TypeOK
<1>1. ASSUME NEW p \in Proc, WriteLatest(p) PROVE latest' >= latest
  BY <1>1, NewestEntry DEF WriteLatest
<1>2. ASSUME NEW p \in Proc, Step(p), ~WriteLatest(p) PROVE latest' = latest
  BY <1>2 DEF Step, MakeStaging, WriteContext, WriteBundle, WriteReport, RenameToFinal,
              ReadIndex, WriteIndex, Return, Quarantine, diskVars
<1>3. ASSUME NEW p \in Proc, Begin(p) \/ Fault(p) \/ Crash(p) PROVE latest' = latest
  BY <1>3 DEF Begin, Allocate, Seal, Publish, Recover, Fault, Crash, diskVars
<1>4. CASE UNCHANGED vars
  BY <1>0, <1>4 DEF vars
<1>5. QED
  BY <1>0, <1>1, <1>2, <1>3, <1>4 DEF Next

\* The latest pointer never moves back.
THEOREM LatestAdvances == Spec => LatestOnlyAdvances
<1>1. IInv /\ [Next]_vars => [latest' >= latest]_vars
  BY StepAdvancesLatest
<1>2. QED
  BY <1>1, Invariance, PTL DEF Spec, LatestOnlyAdvances

\* Only the operation publishing a revision may withdraw it.
LEMMA StepKeepsSettled ==
  ASSUME IInv, [Next]_vars, NEW r \in Revs, Visible(r),
         \A p \in Proc : pc[p] # "idle" => job[p].rev # r
  PROVE  Visible(r)'
<1>1. index'[r] = index[r]
  BY StepKeepsReceipts DEF Visible
<1>2. final'[r] = final[r]
  <2>1. final \in [Revs -> Dirs]
    BY DEF IInv, TypeOK
  <2>2. ASSUME NEW p \in Proc, RenameToFinal(p) PROVE final'[r] = final[r]
    BY <2>1, <2>2 DEF RenameToFinal
  <2>3. ASSUME NEW p \in Proc, Quarantine(p) PROVE final'[r] = final[r]
    BY <2>1, <2>3 DEF Quarantine
  <2>4. ASSUME NEW p \in Proc, Step(p), ~RenameToFinal(p), ~Quarantine(p)
        PROVE  final' = final
    BY <2>4 DEF Step, MakeStaging, WriteContext, WriteBundle, WriteReport, WriteLatest,
                ReadIndex, WriteIndex, Return, diskVars
  <2>5. ASSUME NEW p \in Proc, Begin(p) \/ Fault(p) \/ Crash(p) PROVE final' = final
    BY <2>5 DEF Begin, Allocate, Seal, Publish, Recover, Fault, Crash, diskVars
  <2>6. CASE UNCHANGED vars
    BY <2>6 DEF vars
  <2>7. QED
    BY <2>2, <2>3, <2>4, <2>5, <2>6 DEF Next
<1>3. QED
  BY <1>1, <1>2 DEF Visible, HasReceipt

\* A published revision stays visible through everything done to other
\* revisions of its date.
THEOREM SettledIsKept == Spec => SettledStaysPublished
<1>1. IInv /\ [Next]_vars =>
        [\A r \in Revs :
           Visible(r) /\ (\A p \in Proc : pc[p] # "idle" => job[p].rev # r) => Visible(r)']_vars
  BY StepKeepsSettled
<1>2. QED
  BY <1>1, Invariance, PTL DEF Spec, SettledStaysPublished

-----------------------------------------------------------------------------
(* The files implement the publication ledger *)

LEMMA InitLedger == Init => Ledger!Init
BY DEF Init, Ledger!Init, Visible, HasReceipt, Absent, NoIndex, NoReceipt

\* A step that leaves the final directories, the index and the pointer alone.
LEMMA LedgerStutter ==
  ASSUME UNCHANGED <<final, index, latest>>
  PROVE  UNCHANGED Ledger!vars
BY DEF Ledger!vars, Visible, HasReceipt

\* The rename shows again a publication that already has its receipt.
LEMMA RenameIsShowAgain ==
  ASSUME IInv, NEW p \in Proc, RenameToFinal(p)
  PROVE  [Ledger!Next]_(Ledger!vars)
<1>1. TypeOK /\ DirInv /\ pc[p] = "rename"
  BY DEF IInv, RenameToFinal
<1>2. PICK r \in Revs, c \in Runs : job[p].rev = r /\ job[p].run = c /\ JobOK(p, r, c)
  BY <1>1, JobLocals
<1>3. /\ final' = [final EXCEPT ![r] = staging[r]]
      /\ UNCHANGED <<index, latest>>
  BY <1>2 DEF RenameToFinal
<1>4. final[r] = Absent /\ staging[r].phase = "sealed"
      /\ staging[r].bundle = c /\ staging[r].report = c
  BY <1>1, <1>2 DEF JobOK, DirInv
<1>5. /\ final'[r] = staging[r]
      /\ \A s \in Revs \ {r} : final'[s] = final[s]
  BY <1>1, <1>3 DEF TypeOK
<1>6. \A s \in Revs \ {r} : Visible(s)' <=> Visible(s)
  BY <1>3, <1>5 DEF Visible, HasReceipt
<1>7. ~Visible(r)
  BY <1>4 DEF Visible, Absent
<1>8. CASE Visible(r)'
  <2>1. {s \in Revs : Visible(s)}' = {s \in Revs : Visible(s)} \cup {r}
    BY <1>6, <1>8
  <2>2. Ledger!Issued(r)
    BY <1>3, <1>8 DEF Visible, HasReceipt, Ledger!Issued
  <2>3. Ledger!ShowAgain(r)
    BY <1>3, <1>7, <2>1, <2>2 DEF Ledger!ShowAgain
  <2>4. QED
    BY <2>3 DEF Ledger!Next
<1>9. CASE ~Visible(r)'
  <2>1. {s \in Revs : Visible(s)}' = {s \in Revs : Visible(s)}
    BY <1>6, <1>7, <1>9
  <2>2. QED
    BY <1>3, <2>1 DEF Ledger!vars
<1>10. QED
  BY <1>8, <1>9

\* The index write issues a receipt and makes its revision visible.
LEMMA WriteIndexIsIssue ==
  ASSUME IInv, NEW p \in Proc, WriteIndex(p)
  PROVE  [Ledger!Next]_(Ledger!vars)
<1>1. TypeOK /\ DirInv /\ pc[p] = "index"
  BY DEF IInv, WriteIndex
<1>2. PICK r \in Revs, c \in Runs : job[p].rev = r /\ job[p].run = c /\ JobOK(p, r, c)
  BY <1>1, JobLocals
<1>3. index' = job[p].payload /\ UNCHANGED <<final, latest>>
  BY DEF WriteIndex
<1>4. /\ index \in [Revs -> Receipts] /\ index' \in [Revs -> Receipts]
      /\ index'[r].run = c
      /\ HasReceipt(r) => index'[r] = index[r]
      /\ \A s \in Revs \ {r} : index'[s] = index[s]
  BY <1>1, <1>2, <1>3 DEF JobOK, TypeOK
<1>5. Complete(final[r]) /\ final[r].ctx = c
  BY <1>1, <1>2 DEF JobOK, DirInv, Absent
<1>6. CASE HasReceipt(r)
  <2>1. index' = index
    BY <1>4, <1>6
  <2>2. QED
    BY <1>3, <2>1, LedgerStutter
<1>7. CASE ~HasReceipt(r)
  <2>1. Visible(r)' /\ \A s \in Revs \ {r} : Visible(s)' <=> Visible(s)
    BY <1>3, <1>4, <1>5 DEF Visible, HasReceipt, Complete
  <2>2. {s \in Revs : Visible(s)}' = {s \in Revs : Visible(s)} \cup {r}
    BY <2>1
  <2>3. index' = [index EXCEPT ![r] = [run |-> c, at |-> index'[r].at]]
    <3>1. index'[r] = [run |-> c, at |-> index'[r].at]
      BY <1>4 DEF Receipts
    <3>2. QED
      BY <1>4, <3>1
  <2>4. ~Ledger!Issued(r)
    BY <1>7 DEF HasReceipt, Ledger!Issued
  <2>5. Ledger!Issue(r)
    BY <1>3, <2>2, <2>3, <2>4 DEF Ledger!Issue
  <2>6. QED
    BY <2>5 DEF Ledger!Next
<1>8. QED
  BY <1>6, <1>7

LEMMA WriteLatestIsAdvance ==
  ASSUME IInv, NEW p \in Proc, WriteLatest(p)
  PROVE  [Ledger!Next]_(Ledger!vars)
<1>1. pc[p] = "latest" /\ latest' = PointAtNewest(p) /\ UNCHANGED <<final, index>>
  BY DEF WriteLatest
<1>2. latest \in 0..MaxRev /\ latest' \in 0..MaxRev /\ latest' >= latest
      /\ (latest' = 0 \/ HasReceipt(latest'))
  BY <1>1, NewestEntry DEF IInv, TypeOK
<1>3. CASE latest' = latest
  BY <1>1, <1>3, LedgerStutter
<1>4. CASE latest' # latest
  <2>1. latest' \in Revs /\ latest' > latest /\ HasReceipt(latest')
    BY <1>2, <1>4 DEF Revs
  <2>2. {s \in Revs : Visible(s)}' = {s \in Revs : Visible(s)}
    BY <1>1 DEF Visible, HasReceipt
  <2>3. Ledger!Advance(latest')
    BY <1>1, <2>1, <2>2 DEF Ledger!Advance, Ledger!Issued, HasReceipt
  <2>4. QED
    BY <2>1, <2>3 DEF Ledger!Next
<1>5. QED
  BY <1>3, <1>4

\* A quarantine withdraws the revision, when it was visible.
LEMMA QuarantineIsWithdraw ==
  ASSUME IInv, NEW p \in Proc, Quarantine(p)
  PROVE  [Ledger!Next]_(Ledger!vars)
<1>1. TypeOK /\ pc[p] = "quarantine" /\ UNCHANGED <<index, latest>>
  BY DEF IInv, Quarantine
<1>2. PICK r \in Revs, c \in Runs : job[p].rev = r /\ job[p].run = c /\ JobOK(p, r, c)
  BY <1>1, JobLocals
<1>3. CASE final' = final
  BY <1>1, <1>3, LedgerStutter
<1>4. CASE final' = [final EXCEPT ![r] = Absent]
  <2>1. final'[r] = Absent /\ \A s \in Revs \ {r} : final'[s] = final[s]
    BY <1>1, <1>4 DEF TypeOK
  <2>2. ~Visible(r)' /\ \A s \in Revs \ {r} : Visible(s)' <=> Visible(s)
    BY <1>1, <2>1 DEF Visible, HasReceipt, Absent
  <2>3. {s \in Revs : Visible(s)}' = {s \in Revs : Visible(s)} \ {r}
    BY <2>2
  <2>4. CASE Visible(r)
    <3>1. Ledger!Withdraw(r)
      BY <1>1, <2>3, <2>4 DEF Ledger!Withdraw
    <3>2. QED
      BY <3>1 DEF Ledger!Next
  <2>5. CASE ~Visible(r)
    <3>1. {s \in Revs : Visible(s)}' = {s \in Revs : Visible(s)}
      BY <2>3, <2>5
    <3>2. QED
      BY <1>1, <3>1 DEF Ledger!vars
  <2>6. QED
    BY <2>4, <2>5
<1>5. QED
  BY <1>2, <1>3, <1>4 DEF Quarantine

LEMMA StepLedger == IInv /\ [Next]_vars => [Ledger!Next]_(Ledger!vars)
<1> SUFFICES ASSUME IInv, [Next]_vars PROVE [Ledger!Next]_(Ledger!vars)
  OBVIOUS
<1>1. ASSUME NEW p \in Proc, Step(p) PROVE [Ledger!Next]_(Ledger!vars)
  <2>1. CASE RenameToFinal(p) \/ WriteIndex(p) \/ WriteLatest(p) \/ Quarantine(p)
    BY <2>1, RenameIsShowAgain, WriteIndexIsIssue, WriteLatestIsAdvance, QuarantineIsWithdraw
  <2>2. CASE \/ MakeStaging(p) \/ WriteContext(p) \/ WriteBundle(p) \/ WriteReport(p)
             \/ ReadIndex(p) \/ Return(p)
    <3>1. UNCHANGED <<final, index, latest>>
      BY <2>2 DEF MakeStaging, WriteContext, WriteBundle, WriteReport, ReadIndex, Return, diskVars
    <3>2. QED
      BY <3>1, LedgerStutter
  <2>3. QED
    BY <1>1, <2>1, <2>2 DEF Step
<1>2. ASSUME NEW p \in Proc, Begin(p) \/ Fault(p) \/ Crash(p)
      PROVE  [Ledger!Next]_(Ledger!vars)
  <2>1. UNCHANGED <<final, index, latest>>
    BY <1>2 DEF Begin, Allocate, Seal, Publish, Recover, Fault, Crash, diskVars
  <2>2. QED
    BY <2>1, LedgerStutter
<1>3. CASE UNCHANGED vars
  <2>1. UNCHANGED <<final, index, latest>>
    BY <1>3 DEF vars
  <2>2. QED
    BY <2>1, LedgerStutter
<1>4. QED
  BY <1>1, <1>2, <1>3 DEF Next

\* The repository's files implement the publication ledger: whatever crashes or
\* fails, readers see receipts issued once, publications withdrawn and shown
\* again but never replaced, and a latest pointer that only advances.
THEOREM Refinement == Spec => ImplementsLedger
<1>1. Init => Ledger!Init
  BY InitLedger
<1>2. IInv /\ [Next]_vars => [Ledger!Next]_(Ledger!vars)
  BY StepLedger
<1>3. QED
  BY <1>1, <1>2, Invariance, PTL DEF Spec, ImplementsLedger, Ledger!Spec

=============================================================================
