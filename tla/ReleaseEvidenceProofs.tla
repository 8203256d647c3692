------------------------- MODULE ReleaseEvidenceProofs -------------------------
(***************************************************************************)
(* What is kept beside the runs.  The release gates never read stale       *)
(* evidence: for all collectors, sources, attempts and versions, with      *)
(* crashes and refused writes between any two steps of a collection.  And  *)
(* no later review rescues a scorecard, for all periods and records.       *)
(*                                                                         *)
(* The marker hides a source from its announcement to its conclusion, and  *)
(* what the watermark names at its conclusion is what was collected.  A    *)
(* collection whose marker is not written counts from the moment it takes  *)
(* the old watermark away; when the lock file is new no watermark counts   *)
(* yet, since a settled one needs a marker and a marker a lock file that   *)
(* can be parsed.                                                          *)
(***************************************************************************)
EXTENDS ReleaseEvidence, ShadowScorecard, WellFoundedInduction, TLAPS

Status == {"PENDING", "PASS", "FAIL"}
Place == {"idle", "opened", "locked", "announced", "invalidated", "collected",
          "identified", "stored", "settled"}
Receipt == [version : Version, success : BOOLEAN]

\* Where the source is announced and not yet concluded, and where it is marked.
Announced == {"announced", "invalidated", "collected", "identified", "stored", "settled"}
Marked == Announced \ {"announced"}
Locked == Announced \cup {"locked"}

Concluded(s) == watermark[s].status \in {"PASS", "FAIL"}
Marker(s) == lockFile.state = "valid" /\ s \in lockFile.pending

\* A reader finds nothing about the source.
Hidden(s) == lockFile.state # "valid" \/ s \in lockFile.pending \/ ~Concluded(s)

Creator(c) == collector[c].at = "opened" /\ collector[c].created

CollectorType == [at : Place, source : Source \cup {Nobody}, created : BOOLEAN, marked : BOOLEAN,
                  attempt : Nat, receipts : SUBSET Receipt, status : Status]

ReleaseTypeOK ==
  /\ lockFile \in [state : {"absent", "empty", "valid"}, pending : SUBSET Source]
  /\ holder \in Collector \cup {Nobody}
  /\ watermark \in [Source -> [status : Status \cup {"none", "torn"}, attempt : Nat]]
  /\ batch \in [Source -> [Attempt -> SUBSET Receipt]]
  /\ collector \in [Collector -> CollectorType]
  /\ latest \in [Source -> [open : BOOLEAN, receipts : SUBSET Receipt]]

(***************************************************************************)
(* The lock is exclusive, and the lock file has one creator, before whom   *)
(* no watermark is settled.                                                *)
(***************************************************************************)

LockOK ==
  \A c \in Collector :
    /\ collector[c].at # "idle" => collector[c].source \in Source
    /\ holder = c <=> collector[c].at \in Locked

CreationOK ==
  /\ \A c, d \in Collector : Creator(c) /\ Creator(d) => c = d
  /\ \A c \in Collector : Creator(c) => lockFile.state = "empty"
  /\ lockFile.state = "absent" \/ (\E c \in Collector : Creator(c)) => \A s \in Source : ~Concluded(s)

(***************************************************************************)
(* What the collector that holds the lock has reached.                     *)
(***************************************************************************)

AnnouncedOK(m, s) ==
  /\ m.at = "announced" => /\ m.marked => Marker(s)
                           /\ Screens(lockFile, s) => latest[s].open
  /\ m.at \in Marked => Marker(s) /\ latest[s].open

CollectedOK(m, s) ==
  /\ m.receipts # {} => m.attempt \in Attempt
  /\ m.status # "PENDING" => m.receipts # {}
  /\ m.at \in Marked \ {"settled"} => watermark[s].status = "PENDING"
  /\ m.at \in {"stored", "settled"} /\ m.status # "PENDING" => batch[s][m.attempt] = m.receipts
  /\ m.at = "settled" => watermark[s].status = m.status
  /\ m.at = "settled" /\ m.status # "PENDING" => watermark[s].attempt = m.attempt

WorkOK ==
  \A c \in Collector :
    /\ AnnouncedOK(collector[c], collector[c].source)
    /\ CollectedOK(collector[c], collector[c].source)

(***************************************************************************)
(* An open collection is hidden, and a concluded one is what can be read.  *)
(***************************************************************************)

EvidenceOK ==
  \A s \in Source :
    /\ Concluded(s) => watermark[s].attempt \in Attempt
    /\ latest[s].open => Hidden(s) /\ latest[s].receipts = {}
    /\ ~latest[s].open /\ Concluded(s) => batch[s][watermark[s].attempt] = latest[s].receipts

ReleaseInv == ReleaseTypeOK /\ LockOK /\ CreationOK /\ WorkOK /\ EvidenceOK

(***************************************************************************)
(* Operators                                                               *)
(***************************************************************************)

\* A job gives receipts of known versions, and a settled conclusion has one.
LEMMA ConclusionHasReceipts ==
  ASSUME NEW succeeded \in BOOLEAN,
         NEW job \in [Version -> {"running", "success", "failure", "broken"}]
  PROVE  /\ Receipts(job) \subseteq Receipt
         /\ Conclusion(succeeded, job) \in Status
         /\ Conclusion(succeeded, job) # "PENDING" => Receipts(job) # {}
<1>1. Receipts(job) \subseteq Receipt
  <2>1. \A v \in Version : [version |-> v, success |-> job[v] # "failure"] \in Receipt
    BY DEF Receipt
  <2> QED BY <2>1 DEF Receipts
<1>2. Conclusion(succeeded, job) \in Status
  BY DEF Conclusion, Status
<1>3. ASSUME Conclusion(succeeded, job) # "PENDING" PROVE Receipts(job) # {}
  <2>1. CASE \E r \in Receipts(job) : ~r.success
    BY <2>1
  <2>2. CASE \A v \in Version : job[v] = "success"
    <3>1. PICK v \in Version : TRUE
      BY CollectorAssumption
    <3>2. [version |-> v, success |-> job[v] # "failure"] \in Receipts(job)
      BY <3>1, <2>2 DEF Receipts
    <3> QED BY <3>2
  <2> QED BY <1>3, <2>1, <2>2 DEF Conclusion
<1> QED BY <1>1, <1>2, <1>3

\* Two collectors past flock are the same.
LEMMA LockIsExclusive ==
  ASSUME LockOK, NEW c \in Collector, NEW d \in Collector,
         collector[c].at \in Locked, collector[d].at \in Locked
  PROVE  c = d
BY DEF LockOK

\* A collector that may write is the creator of no file.
LEMMA LockedIsNoCreator ==
  ASSUME NEW c \in Collector, collector[c].at \in Locked
  PROVE  ~Creator(c)
BY DEF Locked, Announced, Creator

(***************************************************************************)
(* The steps                                                               *)
(***************************************************************************)

LEMMA InitInv == ReleaseInit => ReleaseInv
<1> SUFFICES ASSUME ReleaseInit PROVE ReleaseInv
  OBVIOUS
<1> USE DEF ReleaseInit, Idle, NoWatermark
<1>1. ReleaseTypeOK
  BY DEF ReleaseTypeOK, CollectorType, Place, Status
<1>2. LockOK
  BY CollectorAssumption DEF LockOK, Locked, Announced
<1>3. CreationOK
  BY DEF CreationOK, Creator, Concluded
<1>4. WorkOK
  BY DEF WorkOK, AnnouncedOK, CollectedOK, Announced, Marked
<1>5. EvidenceOK
  BY DEF EvidenceOK, Hidden, Concluded
<1> QED BY <1>1, <1>2, <1>3, <1>4, <1>5 DEF ReleaseInv

LEMMA StutterKeepsInv ==
  ASSUME ReleaseInv, UNCHANGED releaseVars
  PROVE  ReleaseInv'
BY DEF ReleaseInv, releaseVars, ReleaseTypeOK, CollectorType, LockOK, CreationOK, WorkOK, EvidenceOK, Creator, Concluded,
       Hidden, AnnouncedOK, CollectedOK, Marker

LEMMA OpenLockKeepsInv ==
  ASSUME ReleaseInv, NEW c \in Collector, NEW s \in Source, OpenLock(c, s)
  PROVE  ReleaseInv'
<1> USE DEF ReleaseInv, OpenLock, Idle
<1>1. ReleaseTypeOK'
  BY DEF ReleaseTypeOK, CollectorType, Place, Status
<1>2. LockOK'
  BY DEF ReleaseTypeOK, CollectorType, LockOK, Locked, Announced
<1>3. CreationOK'
  <2>1. \A d \in Collector : Creator(d)' => Creator(d) \/ (d = c /\ lockFile.state = "absent")
    BY DEF ReleaseTypeOK, CollectorType, Creator
  <2>2. lockFile.state = "absent" => \A d \in Collector : ~Creator(d)
    BY DEF CreationOK
  <2>3. lockFile'.state = "empty" \/ lockFile' = lockFile
    BY DEF ReleaseTypeOK, CollectorType
  <2>4. \A d \in Collector : Creator(d)' => lockFile'.state = "empty"
    BY <2>1, <2>2, <2>3 DEF CreationOK, ReleaseTypeOK, CollectorType
  <2>5. lockFile'.state = "absent" \/ (\E d \in Collector : Creator(d)')
          => \A t \in Source : ~Concluded(t)
    BY <2>1, <2>3 DEF CreationOK
  <2> QED BY <2>1, <2>2, <2>4, <2>5 DEF CreationOK, Concluded
<1>4. WorkOK'
  BY DEF ReleaseTypeOK, CollectorType, WorkOK, AnnouncedOK, CollectedOK, Announced, Marked, Marker, Screens
<1>5. EvidenceOK'
  BY DEF ReleaseTypeOK, CollectorType, EvidenceOK, Hidden, Concluded
<1> QED BY <1>1, <1>2, <1>3, <1>4, <1>5

LEMMA AcquireKeepsInv ==
  ASSUME ReleaseInv, NEW c \in Collector, Acquire(c)
  PROVE  ReleaseInv'
<1> USE DEF ReleaseInv, Acquire, Goto
<1>1. ReleaseTypeOK'
  <2>1. "locked" \in Place
    BY DEF Place
  <2>2. lockFile' \in [state : {"absent", "empty", "valid"}, pending : SUBSET Source]
    BY DEF ReleaseTypeOK, CollectorType
  <2>3. [collector[c] EXCEPT !.at = "locked"] \in CollectorType
    <3>1. collector[c] \in CollectorType
      BY DEF ReleaseTypeOK
    <3> QED BY ONLY <2>1, <3>1 DEF CollectorType
  <2>4. collector' \in [Collector -> CollectorType]
    BY <2>3 DEF ReleaseTypeOK
  <2>5. holder' \in Collector \cup {Nobody}
    OBVIOUS
  <2> QED BY <2>2, <2>4, <2>5 DEF ReleaseTypeOK
<1>2. LockOK'
  BY CollectorAssumption DEF ReleaseTypeOK, CollectorType, LockOK, Locked, Announced
<1>a. \A d \in Collector : collector[d].at \notin Locked
  BY CollectorAssumption DEF LockOK
<1>b. Creator(c) \/ lockFile' = lockFile
  BY DEF Creator
<1>c. Creator(c) => \A d \in Collector \ {c} : ~Creator(d)
  BY DEF CreationOK
<1>3. CreationOK'
  <2>1. \A d \in Collector : Creator(d)' => Creator(d) /\ d # c
    BY DEF ReleaseTypeOK, CollectorType, Creator
  <2> QED BY <2>1, <1>b, <1>c DEF CreationOK, Concluded
<1>4. WorkOK'
  <2>1. \A d \in Collector : /\ collector'[d].at \notin Announced
                             /\ collector'[d] = [collector[d] EXCEPT !.at = collector'[d].at]
    BY <1>a DEF ReleaseTypeOK, CollectorType, Announced, Locked
  <2> QED BY <2>1 DEF ReleaseTypeOK, CollectorType, WorkOK, AnnouncedOK, CollectedOK, Announced, Marked
<1>5. EvidenceOK'
  <2>1. Creator(c) => \A s \in Source : ~Concluded(s)
    BY DEF CreationOK
  <2> QED BY <2>1, <1>b DEF EvidenceOK, Hidden, Concluded
<1> QED BY <1>1, <1>2, <1>3, <1>4, <1>5

\* What UpdatePending may leave behind, whether or not it reports a failure.
LEMMA UpdatePendingEffect ==
  ASSUME ReleaseTypeOK, NEW pending \in SUBSET Source, NEW ok \in BOOLEAN, UpdatePending(pending, ok)
  PROVE  /\ lockFile' \in [state : {"absent", "empty", "valid"}, pending : SUBSET Source]
         /\ lockFile.state # "valid" => lockFile' = lockFile
         /\ lockFile'.state \in {lockFile.state, "empty"}
         /\ lockFile'.state = "valid" => lockFile'.pending = pending \/ lockFile' = lockFile
         /\ ok => lockFile'.state = "valid" /\ lockFile'.pending = pending
BY DEF ReleaseTypeOK, CollectorType, UpdatePending

LEMMA AnnounceKeepsInv ==
  ASSUME ReleaseInv, NEW c \in Collector, Announce(c)
  PROVE  ReleaseInv'
<1> USE DEF ReleaseInv
<1> DEFINE s == collector[c].source
<1>0. /\ collector[c].at = "locked" /\ s \in Source
      /\ \A d \in Collector \ {c} : collector[d].at \notin Locked
  BY LockIsExclusive DEF Announce, LockOK, Locked
<1>1. PICK ok \in BOOLEAN :
        /\ UpdatePending(lockFile.pending \cup {s}, ok)
        /\ collector' = [collector EXCEPT ![c].at = "announced", ![c].marked = ok]
  BY DEF Announce
<1>2. /\ IF Screens(lockFile', s) THEN latest' = [latest EXCEPT ![s] = [open |-> TRUE, receipts |-> {}]]
                                  ELSE latest' = latest
      /\ UNCHANGED <<holder, watermark, batch>>
  BY DEF Announce, Begin
<1>3. /\ lockFile' \in [state : {"absent", "empty", "valid"}, pending : SUBSET Source]
      /\ lockFile.state # "valid" => lockFile' = lockFile
      /\ lockFile'.state \in {lockFile.state, "empty"}
      /\ lockFile'.state = "valid" => \/ lockFile'.pending = lockFile.pending \cup {s}
                                      \/ lockFile' = lockFile
      /\ ok => lockFile'.state = "valid" /\ lockFile'.pending = lockFile.pending \cup {s}
  <2>1. lockFile.pending \cup {s} \in SUBSET Source
    BY <1>0 DEF ReleaseTypeOK, CollectorType
  <2> QED BY <1>1, <2>1, UpdatePendingEffect
<1>4. ReleaseTypeOK'
  <2>1. "announced" \in Place
    BY DEF Place
  <2>2. [open |-> TRUE, receipts |-> {}] \in [open : BOOLEAN, receipts : SUBSET Receipt]
    OBVIOUS
  <2>3. latest' \in [Source -> [open : BOOLEAN, receipts : SUBSET Receipt]]
    <3>1. latest \in [Source -> [open : BOOLEAN, receipts : SUBSET Receipt]]
      BY DEF ReleaseTypeOK
    <3>2. CASE Screens(lockFile', s)
      BY <1>0, <1>2, <2>2, <3>1, <3>2
    <3>3. CASE ~Screens(lockFile', s)
      BY <1>2, <3>1, <3>3
    <3> QED BY <3>2, <3>3
  <2>4. [collector[c] EXCEPT !.at = "announced", !.marked = ok] \in CollectorType
    <3>1. collector[c] \in CollectorType
      BY DEF ReleaseTypeOK
    <3> QED BY <1>1, <2>1, <3>1 DEF CollectorType
  <2>5. collector' \in [Collector -> CollectorType]
    BY <1>1, <2>4 DEF ReleaseTypeOK, CollectorType
  <2> QED BY <1>2, <1>3, <2>3, <2>5 DEF ReleaseTypeOK, CollectorType
<1>5. LockOK'
  BY <1>0, <1>1, <1>2 DEF ReleaseTypeOK, CollectorType, LockOK, Locked, Announced
<1>6. CreationOK'
  <2>1. \A d \in Collector : Creator(d)' => Creator(d)
    BY <1>1 DEF ReleaseTypeOK, CollectorType, Creator
  <2> QED BY <2>1, <1>2, <1>3 DEF CreationOK, Concluded
<1>7. WorkOK'
  <2>1. ASSUME NEW d \in Collector \ {c} PROVE (AnnouncedOK(collector[d], collector[d].source)
                                            /\ CollectedOK(collector[d], collector[d].source))'
    BY <2>1, <1>0, <1>1 DEF ReleaseTypeOK, CollectorType, WorkOK, AnnouncedOK, CollectedOK, Announced, Marked, Locked
  <2>2. AnnouncedOK(collector[c], s)'
    <3>1. collector'[c].at = "announced" /\ collector'[c].marked = ok
      BY <1>1 DEF ReleaseTypeOK, CollectorType
    <3>2. ok => Marker(s)'
      BY <1>0, <1>1, <1>3, <3>1 DEF ReleaseTypeOK, CollectorType, Marker
    <3>3. Screens(lockFile', s) => latest'[s].open
      BY <1>0, <1>2 DEF ReleaseTypeOK
    <3> QED BY <1>1, <3>1, <3>2, <3>3 DEF ReleaseTypeOK, CollectorType, AnnouncedOK, Marked, Announced
  <2>3. CollectedOK(collector[c], s)'
    BY <1>0, <1>1, <1>2 DEF ReleaseTypeOK, CollectorType, WorkOK, CollectedOK, Marked, Announced
  <2> QED BY <2>1, <2>2, <2>3 DEF WorkOK
<1>8. EvidenceOK'
  <2>1. ASSUME NEW t \in Source, t # s PROVE latest'[t] = latest[t] /\ (Hidden(t) => Hidden(t)')
    <3>1. latest'[t] = latest[t]
      BY <1>0, <1>2, <2>1 DEF ReleaseTypeOK
    <3> QED BY <1>2, <1>3, <2>1, <3>1 DEF Hidden, Concluded
  <2>2. CASE Screens(lockFile', s)
    <3>1. latest' = [latest EXCEPT ![s] = [open |-> TRUE, receipts |-> {}]]
      BY <1>2, <2>2
    <3>2. latest'[s].open /\ latest'[s].receipts = {}
      BY <1>0, <3>1 DEF ReleaseTypeOK
    <3>3. Hidden(s)' /\ collector'[c].source = s
      <4>1. collector'[c].source = s
        BY <1>1 DEF ReleaseTypeOK, CollectorType
      <4> QED BY <2>2, <4>1 DEF Screens, Hidden
    <3>4. ASSUME NEW t \in Source
          PROVE (/\ Concluded(t) => watermark[t].attempt \in Attempt
                 /\ latest[t].open => Hidden(t) /\ latest[t].receipts = {}
                 /\ ~latest[t].open /\ Concluded(t) => batch[t][watermark[t].attempt] = latest[t].receipts)'
      <4>1. CASE t = s
        BY <1>2, <3>2, <3>3, <4>1 DEF EvidenceOK, Concluded
      <4>2. CASE t # s
        BY <1>2, <2>1, <4>2 DEF EvidenceOK, Concluded
      <4> QED BY <4>1, <4>2
    <3> QED BY <3>4 DEF EvidenceOK
  <2>3. CASE ~Screens(lockFile', s)
    <3>1. latest' = latest /\ lockFile' = lockFile
      BY <1>2, <1>3, <2>3 DEF Screens
    <3> QED BY <1>2, <3>1 DEF EvidenceOK, Hidden, Concluded
  <2> QED BY <2>2, <2>3
<1> QED BY <1>4, <1>5, <1>6, <1>7, <1>8

(***************************************************************************)
(* What the steps between the announcement and the conclusion share: they  *)
(* leave the lock file and the announcements alone, and touch the files of *)
(* the announced source only.                                              *)
(***************************************************************************)

\* The files of the other sources.
OthersKept(s) == \A t \in Source \ {s} : watermark'[t] = watermark[t] /\ batch'[t] = batch[t]

FilesTyped ==
  /\ watermark' \in [Source -> [status : Status \cup {"none", "torn"}, attempt : Nat]]
  /\ batch' \in [Source -> [Attempt -> SUBSET Receipt]]

LEMMA OthersKeepWork ==
  ASSUME ReleaseInv, NEW c \in Collector, collector[c].at \in Locked,
         NEW m, collector' = [collector EXCEPT ![c] = m],
         NEW d \in Collector \ {c}
  PROVE  /\ (AnnouncedOK(collector[d], collector[d].source))'
         /\ (CollectedOK(collector[d], collector[d].source))'
<1>1. collector[d].at \notin Locked /\ collector'[d] = collector[d]
  BY LockIsExclusive DEF ReleaseInv, ReleaseTypeOK, CollectorType
<1> QED
  BY <1>1 DEF ReleaseInv, WorkOK, AnnouncedOK, CollectedOK, Announced, Marked, Locked

\* The history keeps what it says of a source, or a collection of it begins.
KeptOrBegun(s) == \/ latest'[s] = latest[s]
                  \/ latest'[s] = [open |-> TRUE, receipts |-> {}] /\ ~Concluded(s)'

HistoryTyped == latest' \in [Source -> [open : BOOLEAN, receipts : SUBSET Receipt]]

LEMMA HistoryKept ==
  ASSUME ReleaseTypeOK, UNCHANGED latest
  PROVE  HistoryTyped /\ \A s \in Source : KeptOrBegun(s)
BY DEF ReleaseTypeOK, HistoryTyped, KeptOrBegun

\* A collection that ends before its conclusion, by a refusal or by a crash.
LEMMA LeaveKeepsInv ==
  ASSUME ReleaseInv, NEW c \in Collector, collector[c].at \in Locked,
         Leave(c), UNCHANGED lockFile, FilesTyped, HistoryTyped,
         \A s \in Source : /\ KeptOrBegun(s)
                           /\ watermark'[s] = watermark[s] \/ ~Concluded(s)'
                           /\ batch'[s] = batch[s] \/ latest[s].open
  PROVE  ReleaseInv'
<1> USE DEF ReleaseInv, Leave
<1>1. ReleaseTypeOK'
  BY DEF ReleaseTypeOK, CollectorType, FilesTyped, HistoryTyped, Idle, Place, Status
<1>2. LockOK'
  BY LockIsExclusive, CollectorAssumption DEF ReleaseTypeOK, CollectorType, LockOK, Locked, Announced, Idle
<1>3. CreationOK'
  <2>1. \A d \in Collector : Creator(d)' => Creator(d)
    BY DEF ReleaseTypeOK, CollectorType, Creator, Idle
  <2> QED BY <2>1 DEF CreationOK, Concluded
<1>4. WorkOK'
  <2>1. ASSUME NEW d \in Collector \ {c} PROVE /\ (AnnouncedOK(collector[d], collector[d].source))'
                                            /\ (CollectedOK(collector[d], collector[d].source))'
    BY OthersKeepWork
  <2>2. collector'[c] = Idle
    BY DEF ReleaseTypeOK, CollectorType
  <2>3. AnnouncedOK(Idle, Idle.source)' /\ CollectedOK(Idle, Idle.source)'
    BY DEF AnnouncedOK, CollectedOK, Announced, Marked, Idle
  <2>4. (AnnouncedOK(collector[c], collector[c].source))' /\ (CollectedOK(collector[c], collector[c].source))'
    BY <2>2, <2>3 DEF AnnouncedOK, CollectedOK, Marker
  <2> QED BY <2>1, <2>4 DEF WorkOK
<1>5. EvidenceOK'
  <2>1. ASSUME NEW s \in Source
        PROVE (/\ Concluded(s) => watermark[s].attempt \in Attempt
               /\ latest[s].open => Hidden(s) /\ latest[s].receipts = {}
               /\ ~latest[s].open /\ Concluded(s) => batch[s][watermark[s].attempt] = latest[s].receipts)'
    <3>1. Concluded(s)' => watermark'[s] = watermark[s] /\ Concluded(s)
      BY <2>1 DEF Concluded
    <3>2. CASE latest'[s] = latest[s]
      BY <2>1, <3>1, <3>2 DEF EvidenceOK, Hidden
    <3>3. CASE latest'[s] = [open |-> TRUE, receipts |-> {}] /\ ~Concluded(s)'
      BY <3>3 DEF Hidden
    <3> QED BY <2>1, <3>2, <3>3 DEF KeptOrBegun
  <2> QED BY <2>1 DEF EvidenceOK
<1> QED BY <1>1, <1>2, <1>3, <1>4, <1>5

\* A collection that goes on behind its marker.
LEMMA MoveKeepsInv ==
  ASSUME ReleaseInv, NEW c \in Collector, collector[c].at \in Announced,
         NEW m \in CollectorType, m.source = collector[c].source, m.at \in Marked,
         collector' = [collector EXCEPT ![c] = m],
         UNCHANGED <<lockFile, holder, latest>>, FilesTyped,
         Marker(m.source), OthersKept(m.source), CollectedOK(m, m.source)',
         Concluded(m.source)' => watermark'[m.source].attempt \in Attempt
  PROVE  ReleaseInv'
<1> USE DEF ReleaseInv
<1>0. m.source \in Source /\ collector[c].at # "idle" /\ collector[c].at \in Locked
  BY DEF LockOK, Announced, Locked
<1>a. latest[m.source].open
  BY DEF WorkOK, AnnouncedOK, Announced, Marked, Marker, Screens
<1>1. ReleaseTypeOK'
  BY DEF ReleaseTypeOK, CollectorType, FilesTyped
<1>2. LockOK'
  BY <1>0 DEF ReleaseTypeOK, CollectorType, LockOK, Locked, Announced, Marked
<1>3. CreationOK'
  <2>1. \A d \in Collector : Creator(d)' => Creator(d)
    BY DEF ReleaseTypeOK, CollectorType, Creator, Marked, Announced
  <2>2. lockFile.state = "valid"
    BY DEF Marker
  <2> QED BY <2>1, <2>2 DEF CreationOK
<1>4. WorkOK'
  <2>1. ASSUME NEW d \in Collector \ {c} PROVE /\ (AnnouncedOK(collector[d], collector[d].source))'
                                            /\ (CollectedOK(collector[d], collector[d].source))'
    BY <1>0, OthersKeepWork
  <2>2. collector'[c] = m
    BY DEF ReleaseTypeOK, CollectorType
  <2>3. latest[m.source].open
    BY <1>a
  <2>4. (AnnouncedOK(collector[c], collector[c].source))'
    BY <2>2, <2>3 DEF AnnouncedOK, Marker, Marked
  <2>5. (CollectedOK(collector[c], collector[c].source))'
    BY <2>2 DEF CollectedOK
  <2> QED BY <2>1, <2>4, <2>5 DEF WorkOK
<1>5. EvidenceOK'
  <2>1. latest[m.source].open /\ latest[m.source].receipts = {}
    BY <1>0, <1>a DEF EvidenceOK
  <2>2. ASSUME NEW t \in Source \ {m.source} PROVE watermark'[t] = watermark[t] /\ batch'[t] = batch[t]
    BY DEF OthersKept
  <2>3. Hidden(m.source)'
    BY DEF Marker, Hidden
  <2>4. ASSUME NEW t \in Source
        PROVE (/\ Concluded(t) => watermark[t].attempt \in Attempt
               /\ latest[t].open => Hidden(t) /\ latest[t].receipts = {}
               /\ ~latest[t].open /\ Concluded(t) => batch[t][watermark[t].attempt] = latest[t].receipts)'
    <3>1. CASE t = m.source
      BY <3>1, <2>1, <2>3
    <3>2. CASE t # m.source
      BY <3>2, <2>2 DEF EvidenceOK, Hidden, Concluded
    <3> QED BY <3>1, <3>2
  <2> QED BY <2>4 DEF EvidenceOK
<1> QED BY <1>1, <1>2, <1>3, <1>4, <1>5

(***************************************************************************)
(* The steps of a collection, one by one                                   *)
(***************************************************************************)

LEMMA RefusalIsTyped ==
  ASSUME ReleaseTypeOK, NEW s \in Source, NEW status \in Status, WatermarkRefused(s, status)
  PROVE  /\ watermark' \in [Source -> [status : Status \cup {"none", "torn"}, attempt : Nat]]
         /\ \A t \in Source : watermark'[t] = watermark[t] \/ ~Concluded(t)'
  BY DEF ReleaseTypeOK, WatermarkRefused, NoWatermark, Concluded

\* A collection begins, if at all, where the watermark changes.
BegunIfChanged(s) == UNCHANGED latest \/ (watermark'[s] # watermark[s] /\ Begin(s))

\* A watermark is replaced and the collection goes on, or it leaves, having
\* replaced a watermark by no settled one.
LEMMA StoreKeepsInv ==
  ASSUME ReleaseInv, NEW c \in Collector, NEW status \in Status, NEW from \in Announced,
         NEW to \in Marked, NEW on \in BOOLEAN, StoreWatermark(c, status, from, to, on),
         status # "PENDING" => from = "stored" /\ to = "settled" /\ on,
         to = "settled" => status = collector[c].status,
         on => Marker(collector[c].source),
         to \in {"stored", "settled"} => from = "stored",
         BegunIfChanged(collector[c].source)
  PROVE  ReleaseInv'
<1> USE DEF ReleaseInv
<1>a. PICK me, s : me = collector[c] /\ s = me.source
  OBVIOUS
<1>b. PICK m : m = [me EXCEPT !.at = to]
  OBVIOUS
<1>0. /\ me.at = from /\ me \in CollectorType /\ s \in Source
      /\ me.at \in Locked /\ UNCHANGED <<lockFile, batch>>
      /\ from \in Place /\ to \in Place
  <2>1. me.at = from /\ UNCHANGED <<lockFile, batch>>
    BY <1>a DEF StoreWatermark
  <2>2. me \in CollectorType
    BY <1>a DEF ReleaseTypeOK
  <2>3. from \in Place /\ to \in Place /\ me.at \in Locked /\ me.at # "idle"
    BY <2>1 DEF Place, Locked, Marked, Announced
  <2>4. s \in Source
    BY <1>a, <2>3 DEF LockOK
  <2> QED BY <2>1, <2>2, <2>3, <2>4
<1>c. BegunIfChanged(s)
  BY <1>a
<1>d. HistoryTyped /\ \A t \in Source \ {s} : latest'[t] = latest[t]
  <2>1. [open |-> TRUE, receipts |-> {}] \in [open : BOOLEAN, receipts : SUBSET Receipt]
    OBVIOUS
  <2>2. latest \in [Source -> [open : BOOLEAN, receipts : SUBSET Receipt]]
    BY DEF ReleaseTypeOK
  <2>3. CASE latest' = latest
    BY <2>2, <2>3 DEF HistoryTyped
  <2>4. CASE latest' = [latest EXCEPT ![s] = [open |-> TRUE, receipts |-> {}]]
    BY <1>0, <2>1, <2>2, <2>4 DEF HistoryTyped
  <2> QED BY <1>c, <2>3, <2>4 DEF BegunIfChanged, Begin
<1>1. CASE /\ watermark' = [watermark EXCEPT ![s] = [status |-> status, attempt |-> me.attempt]]
           /\ on /\ Goto(c, to) /\ UNCHANGED holder
  <2>1. m \in CollectorType /\ m.at = to /\ m.source = s
    BY <1>0, <1>a, <1>b DEF CollectorType
  <2>2. collector' = [collector EXCEPT ![c] = m]
    BY <1>1, <1>a, <1>b DEF Goto
  <2>3. FilesTyped
    BY <1>0, <1>1 DEF FilesTyped, ReleaseTypeOK, CollectorType
  <2>4. OthersKept(s)
    BY <1>0, <1>1 DEF OthersKept, ReleaseTypeOK
  <2>5. watermark'[s] = [status |-> status, attempt |-> me.attempt]
    BY <1>0, <1>1 DEF ReleaseTypeOK
  <2>6. CollectedOK(me, s)
    BY <1>a DEF WorkOK
  <2>7. CollectedOK(m, s)'
    <3>1. /\ m.at = to /\ m.attempt = me.attempt /\ m.receipts = me.receipts /\ m.status = me.status
          /\ me.status \in Status
      BY <1>0, <1>b DEF CollectorType
    <3>2. me.receipts # {} => me.attempt \in Attempt
      BY <2>6 DEF CollectedOK
    <3>3. me.status # "PENDING" => me.receipts # {}
      BY <2>6 DEF CollectedOK
    <3>4. to # "settled" => status = "PENDING"
      OBVIOUS
    <3>5. to \in {"stored", "settled"} /\ me.status # "PENDING" => batch[s][me.attempt] = me.receipts
      BY <1>0, <2>6 DEF CollectedOK
    <3>6. to = "settled" => status = me.status
      BY <1>a
    <3> QED BY <1>0, <2>5, <3>1, <3>2, <3>3, <3>4, <3>5, <3>6 DEF CollectedOK
  <2>8. Concluded(s)' => watermark'[s].attempt \in Attempt
    BY <1>0, <1>a, <2>5, <2>6 DEF Concluded, CollectedOK, Status
  <2>9. latest' = latest
    <3>1. latest[s].open
      BY <1>0, <1>1, <1>a DEF WorkOK, AnnouncedOK, Announced, Marked, Marker, Screens
    <3>2. latest[s] = [open |-> TRUE, receipts |-> {}]
      BY <1>0, <3>1 DEF EvidenceOK, ReleaseTypeOK
    <3>3. latest \in [Source -> [open : BOOLEAN, receipts : SUBSET Receipt]]
      BY DEF ReleaseTypeOK
    <3>4. [latest EXCEPT ![s] = [open |-> TRUE, receipts |-> {}]] = latest
      BY <1>0, <3>2, <3>3
    <3> QED BY <1>c, <3>4 DEF BegunIfChanged, Begin
  <2> QED BY <1>0, <1>1, <1>a, <2>1, <2>2, <2>3, <2>4, <2>7, <2>8, <2>9, MoveKeepsInv
<1>2. CASE /\ watermark' = [watermark EXCEPT ![s] = [status |-> status, attempt |-> me.attempt]]
           /\ ~on /\ Leave(c)
  <2>1. FilesTyped
    BY <1>0, <1>2 DEF FilesTyped, ReleaseTypeOK, CollectorType
  <2>2. \A t \in Source : watermark'[t] = watermark[t] \/ ~Concluded(t)'
    BY <1>0, <1>2 DEF ReleaseTypeOK, Concluded
  <2>3. \A t \in Source : KeptOrBegun(t)
    BY <1>0, <1>c, <1>d, <2>2 DEF KeptOrBegun, BegunIfChanged, Begin, ReleaseTypeOK
  <2> QED BY <1>0, <1>2, <1>a, <1>d, <2>1, <2>2, <2>3, LeaveKeepsInv
<1>3. CASE WatermarkRefused(s, status) /\ Leave(c)
  <2>1. FilesTyped /\ \A t \in Source : watermark'[t] = watermark[t] \/ ~Concluded(t)'
    BY <1>0, <1>3, RefusalIsTyped DEF FilesTyped, ReleaseTypeOK
  <2>2. \A t \in Source : KeptOrBegun(t)
    BY <1>0, <1>c, <1>d, <2>1 DEF KeptOrBegun, BegunIfChanged, Begin, ReleaseTypeOK
  <2> QED BY <1>0, <1>3, <1>a, <1>d, <2>1, <2>2, LeaveKeepsInv
<1> QED BY <1>1, <1>2, <1>3, <1>a DEF StoreWatermark

LEMMA InvalidateKeepsInv ==
  ASSUME ReleaseInv, NEW c \in Collector, Invalidate(c)
  PROVE  ReleaseInv'
<1>1. collector[c].at = "announced" /\ collector[c] \in CollectorType
  BY DEF Invalidate, StoreWatermark, ReleaseInv, ReleaseTypeOK
<1>2. collector[c].marked \in BOOLEAN /\ (collector[c].marked => Marker(collector[c].source))
  BY <1>1 DEF ReleaseInv, WorkOK, AnnouncedOK, CollectorType
<1>3. BegunIfChanged(collector[c].source)
  BY DEF Invalidate, BegunIfChanged
<1> QED BY <1>2, <1>3, StoreKeepsInv DEF Invalidate, Announced, Marked, Status

LEMMA IdentifyKeepsInv ==
  ASSUME ReleaseInv, NEW c \in Collector, Identify(c)
  PROVE  ReleaseInv'
<1>1. collector[c].at = "collected"
  BY DEF Identify, StoreWatermark
<1>2. Marker(collector[c].source)
  BY <1>1 DEF ReleaseInv, WorkOK, AnnouncedOK, Announced, Marked
<1>3. BegunIfChanged(collector[c].source)
  BY DEF Identify, BegunIfChanged
<1> QED BY <1>2, <1>3, StoreKeepsInv DEF Identify, Announced, Marked, Status

LEMMA ReadActionsKeepsInv ==
  ASSUME ReleaseInv, NEW c \in Collector, ReadActions(c)
  PROVE  ReleaseInv'
<1> USE DEF ReleaseInv
<1>a. PICK me, s : me = collector[c] /\ s = me.source
  OBVIOUS
<1>0. /\ me.at = "invalidated" /\ me \in CollectorType /\ s \in Source
      /\ me.at \in Locked /\ me.at \in Announced /\ Marker(s) /\ CollectedOK(me, s)
      /\ UNCHANGED <<lockFile, watermark, batch, latest>> /\ FilesTyped /\ OthersKept(s)
  BY <1>a DEF ReadActions, ReleaseTypeOK, LockOK, Locked, Announced, Marked, FilesTyped, OthersKept,
         WorkOK, AnnouncedOK
<1>1. CASE Leave(c)
  BY <1>0, <1>1, <1>a, HistoryKept, LeaveKeepsInv
<1>2. ASSUME NEW m \in CollectorType, m.at = "collected", m.source = s, UNCHANGED holder,
             collector' = [collector EXCEPT ![c] = m],
             m.receipts # {} => m.attempt \in Attempt, m.status # "PENDING" => m.receipts # {}
      PROVE  ReleaseInv'
  <2>1. CollectedOK(m, s)'
    BY <1>0, <1>2 DEF CollectedOK, Marked, Announced
  <2>2. m.at \in Marked
    BY <1>2 DEF Marked, Announced
  <2>3. ~Concluded(s)'
    BY <1>0 DEF CollectedOK, Marked, Announced, Concluded
  <2> QED BY <1>0, <1>2, <1>a, <2>1, <2>2, <2>3, MoveKeepsInv
<1>3. CASE Goto(c, "collected") /\ UNCHANGED holder
  <2>1. [me EXCEPT !.at = "collected"] \in CollectorType
    BY <1>0 DEF CollectorType, Place
  <2> QED BY <1>0, <1>2, <1>3, <1>a, <2>1 DEF Goto, CollectedOK, CollectorType
<1>4. ASSUME NEW a \in Attempt, NEW succeeded \in BOOLEAN,
             NEW job \in [Version -> {"running", "success", "failure", "broken"}],
             collector' = [collector EXCEPT
                 ![c].at = "collected", ![c].attempt = a,
                 ![c].receipts = Receipts(job),
                 ![c].status = Conclusion(succeeded, job)],
             UNCHANGED holder
      PROVE  ReleaseInv'
  <2> DEFINE m == [me EXCEPT !.at = "collected", !.attempt = a, !.receipts = Receipts(job),
                             !.status = Conclusion(succeeded, job)]
  <2>1. /\ Receipts(job) \subseteq Receipt /\ Conclusion(succeeded, job) \in Status
        /\ Conclusion(succeeded, job) # "PENDING" => Receipts(job) # {}
    BY <1>4, ConclusionHasReceipts
  <2>2. m \in CollectorType
    BY <1>0, <1>4, <2>1, CollectorAssumption DEF CollectorType, Place
  <2>3. collector' = [collector EXCEPT ![c] = m]
    BY <1>4, <1>a
  <2>4. /\ m.at = "collected" /\ m.source = s /\ m.attempt = a
        /\ m.receipts = Receipts(job) /\ m.status = Conclusion(succeeded, job)
    BY <1>0, <1>a DEF CollectorType
  <2> HIDE DEF m
  <2> QED BY <1>2, <1>4, <2>1, <2>2, <2>3, <2>4
<1> QED BY <1>1, <1>3, <1>4 DEF ReadActions

LEMMA StoreReceiptsKeepsInv ==
  ASSUME ReleaseInv, NEW c \in Collector, StoreReceipts(c)
  PROVE  ReleaseInv'
<1> USE DEF ReleaseInv
<1>a. PICK me, s : me = collector[c] /\ s = me.source
  OBVIOUS
<1>b. PICK m : m = [me EXCEPT !.at = "stored"]
  OBVIOUS
<1> DEFINE new == [batch EXCEPT ![s][me.attempt] = me.receipts]
<1>0. /\ me.at = "identified" /\ me \in CollectorType /\ s \in Source
      /\ me.at \in Locked /\ me.at \in Announced /\ Marker(s) /\ CollectedOK(me, s)
      /\ latest[s].open /\ UNCHANGED <<lockFile, watermark, latest>>
  BY <1>a DEF StoreReceipts, ReleaseTypeOK, LockOK, Locked, Announced, Marked, WorkOK, AnnouncedOK
<1>1. /\ m \in CollectorType /\ m.at = "stored" /\ m.source = s /\ m.at \in Marked
      /\ m.status = me.status /\ m.receipts = me.receipts /\ m.attempt = me.attempt
  <2>1. m \in CollectorType
    BY <1>0, <1>b DEF CollectorType, Place
  <2>2. m.at = "stored" /\ m.source = s
    BY <1>0, <1>a, <1>b DEF CollectorType
  <2>3. m.status = me.status /\ m.receipts = me.receipts /\ m.attempt = me.attempt
    BY <1>0, <1>b DEF CollectorType
  <2> QED BY <2>1, <2>2, <2>3 DEF Marked, Announced
<1>2. ASSUME batch' \in {batch, new} PROVE FilesTyped /\ OthersKept(s)
  <2>1. me.receipts \in SUBSET Receipt
    BY <1>0 DEF CollectorType
  <2>2. [batch[s] EXCEPT ![me.attempt] = me.receipts] \in [Attempt -> SUBSET Receipt]
    BY <1>0, <2>1 DEF ReleaseTypeOK
  <2>3. new \in [Source -> [Attempt -> SUBSET Receipt]]
    BY <1>0, <2>2 DEF ReleaseTypeOK
  <2>4. \A t \in Source \ {s} : new[t] = batch[t]
    BY <1>0 DEF ReleaseTypeOK
  <2> HIDE DEF new
  <2>5. FilesTyped
    BY <1>0, <1>2, <2>3 DEF FilesTyped, ReleaseTypeOK
  <2> QED BY <1>0, <1>2, <2>4, <2>5 DEF OthersKept
<1>3. CASE Leave(c) /\ batch' \in {batch, new}
  <2>1. FilesTyped /\ \A t \in Source : batch'[t] = batch[t] \/ latest[t].open
    BY <1>0, <1>2, <1>3 DEF OthersKept
  <2> QED BY <1>0, <1>a, <1>3, <2>1, HistoryKept, LeaveKeepsInv
<1>4. CASE /\ Goto(c, "stored") /\ UNCHANGED holder /\ batch' \in {batch, new}
           /\ me.receipts # {} => batch'[s][me.attempt] = me.receipts
  <2>1. FilesTyped /\ OthersKept(s)
    BY <1>2, <1>4
  <2>2. collector' = [collector EXCEPT ![c] = m]
    BY <1>4, <1>a, <1>b DEF Goto
  <2>3. CollectedOK(m, s)'
    BY <1>0, <1>1, <1>4 DEF CollectedOK, Marked, Announced
  <2>4. ~Concluded(s)'
    BY <1>0 DEF CollectedOK, Marked, Announced, Concluded
  <2>5. /\ Marker(m.source) /\ OthersKept(m.source) /\ CollectedOK(m, m.source)'
        /\ Concluded(m.source)' => watermark'[m.source].attempt \in Attempt
    BY <1>0, <1>1, <2>1, <2>3, <2>4
  <2>6. collector[c].at \in Announced /\ m.source = collector[c].source
    BY <1>0, <1>1, <1>a
  <2>7. UNCHANGED <<lockFile, holder, latest>>
    BY <1>0, <1>4
  <2> QED BY <1>1, <2>1, <2>2, <2>5, <2>6, <2>7, MoveKeepsInv
<1>5. me.receipts # {} => new[s][me.attempt] = me.receipts
  BY <1>0 DEF CollectedOK, ReleaseTypeOK
<1>6. \/ /\ Goto(c, "stored") /\ UNCHANGED holder /\ batch' \in {batch, new}
         /\ me.receipts # {} => batch'[s][me.attempt] = me.receipts
      \/ Leave(c) /\ batch' \in {batch, new}
  <2>1. CASE me.receipts = {}
    BY <1>a, <2>1 DEF StoreReceipts
  <2>2. CASE me.receipts # {}
    BY <1>a, <1>5, <2>2 DEF StoreReceipts
  <2> QED BY <2>1, <2>2
<1> QED BY <1>3, <1>4, <1>6

LEMMA SettleKeepsInv ==
  ASSUME ReleaseInv, NEW c \in Collector, Settle(c)
  PROVE  ReleaseInv'
<1> USE DEF ReleaseInv
<1>a. PICK me, s : me = collector[c] /\ s = me.source
  OBVIOUS
<1>0. /\ me.at = "stored" /\ me \in CollectorType /\ s \in Source
      /\ me.at \in Announced /\ Marker(s) /\ CollectedOK(me, s)
  BY <1>a DEF Settle, StoreWatermark, ReleaseTypeOK, LockOK, Announced, Marked, WorkOK, AnnouncedOK
<1>1. CASE /\ me.status # "PENDING" /\ StoreWatermark(c, me.status, "stored", "settled", TRUE)
           /\ UNCHANGED latest
  <2>1. me.status \in Status
    BY <1>0 DEF CollectorType
  <2>2. BegunIfChanged(s)
    BY <1>1 DEF BegunIfChanged
  <2> QED BY <1>0, <1>a, <1>1, <2>1, <2>2, StoreKeepsInv DEF Announced, Marked
<1>2. CASE /\ me.status = "PENDING" /\ Goto(c, "settled")
           /\ UNCHANGED <<lockFile, holder, watermark, batch, latest>>
  <2>a. PICK m : m = [me EXCEPT !.at = "settled"]
    OBVIOUS
  <2>1. m \in CollectorType
    BY <1>0, <2>a DEF CollectorType, Place
  <2>2. m.at = "settled" /\ m.source = s /\ m.at \in Marked
    BY <1>0, <1>a, <2>a DEF CollectorType, Marked, Announced
  <2>3. m.status = me.status /\ m.receipts = me.receipts /\ m.attempt = me.attempt
    BY <1>0, <2>a DEF CollectorType
  <2>4. FilesTyped /\ OthersKept(s)
    BY <1>2 DEF FilesTyped, OthersKept, ReleaseTypeOK
  <2>5. collector' = [collector EXCEPT ![c] = m]
    BY <1>2, <1>a, <2>a DEF Goto
  <2>6. watermark[s].status = "PENDING"
    BY <1>0 DEF CollectedOK, Marked, Announced
  <2>7. CollectedOK(m, s)'
    BY <1>0, <1>2, <2>2, <2>3, <2>6 DEF CollectedOK, Marked, Announced
  <2>8. ~Concluded(s)'
    BY <1>2, <2>6 DEF Concluded
  <2> QED BY <1>0, <1>2, <1>a, <2>1, <2>2, <2>4, <2>5, <2>7, <2>8, MoveKeepsInv
<1> QED BY <1>1, <1>2, <1>a DEF Settle

LEMMA ConcludeKeepsInv ==
  ASSUME ReleaseInv, NEW c \in Collector, Conclude(c)
  PROVE  ReleaseInv'
<1> USE DEF ReleaseInv
<1>a. PICK me, s : me = collector[c] /\ s = me.source
  OBVIOUS
<1>0. /\ me.at = "settled" /\ me \in CollectorType /\ s \in Source
      /\ me.at \in Locked /\ latest[s].open /\ Marker(s) /\ CollectedOK(me, s)
      /\ Leave(c) /\ UNCHANGED <<watermark, batch>>
  BY <1>a DEF Conclude, ReleaseTypeOK, LockOK, Locked, Announced, Marked, WorkOK, AnnouncedOK
<1>1. /\ lockFile' \in [state : {"absent", "empty", "valid"}, pending : SUBSET Source]
      /\ lockFile'.state \in {"valid", "empty"}
      /\ lockFile'.state = "valid" => lockFile'.pending = lockFile.pending \ {s} \/ lockFile' = lockFile
      /\ Screens(lockFile', s) \/ lockFile'.pending = lockFile.pending \ {s}
  <2>1. PICK ok \in BOOLEAN : UpdatePending(lockFile.pending \ {s}, ok)
    BY <1>a DEF Conclude
  <2>2. lockFile.pending \ {s} \in SUBSET Source
    BY DEF ReleaseTypeOK
  <2>3. lockFile.state = "valid"
    BY <1>0 DEF Marker
  <2>4. /\ lockFile' \in [state : {"absent", "empty", "valid"}, pending : SUBSET Source]
        /\ lockFile'.state \in {lockFile.state, "empty"}
        /\ lockFile'.state = "valid" => lockFile'.pending = lockFile.pending \ {s} \/ lockFile' = lockFile
    BY <2>1, <2>2, UpdatePendingEffect
  <2> QED BY <1>0, <2>3, <2>4 DEF Screens, Marker
<1>b. PICK concluded : concluded = [open |-> FALSE,
                                    receipts |-> IF me.status = "PENDING" THEN {} ELSE me.receipts]
  OBVIOUS
<1>2. latest' = IF Screens(lockFile', s) THEN latest ELSE [latest EXCEPT ![s] = concluded]
  BY <1>a, <1>b DEF Conclude
<1>3. ReleaseTypeOK'
  <2>1. concluded \in [open : BOOLEAN, receipts : SUBSET Receipt]
    BY <1>0, <1>b DEF CollectorType
  <2>2. latest' \in [Source -> [open : BOOLEAN, receipts : SUBSET Receipt]]
    BY <1>0, <1>2, <2>1 DEF ReleaseTypeOK
  <2>3. collector' \in [Collector -> CollectorType] /\ holder' \in Collector \cup {Nobody}
    BY <1>0 DEF Leave, ReleaseTypeOK, CollectorType, Idle, Place, Status
  <2> QED BY <1>0, <1>1, <2>2, <2>3 DEF ReleaseTypeOK
<1>4. LockOK'
  BY <1>0, <1>a, LockIsExclusive, CollectorAssumption
  DEF Leave, ReleaseTypeOK, CollectorType, LockOK, Locked, Announced, Idle
<1>5. CreationOK'
  <2>1. \A d \in Collector : Creator(d)' => Creator(d)
    BY <1>0 DEF Leave, ReleaseTypeOK, CollectorType, Creator, Idle
  <2>2. \A d \in Collector : ~Creator(d)
    BY <1>0 DEF CreationOK, Marker
  <2> QED BY <1>1, <2>1, <2>2 DEF CreationOK
<1>6. WorkOK'
  <2>1. ASSUME NEW d \in Collector \ {c} PROVE /\ (AnnouncedOK(collector[d], collector[d].source))'
                                            /\ (CollectedOK(collector[d], collector[d].source))'
    <3>1. collector' = [collector EXCEPT ![c] = Idle]
      BY <1>0 DEF Leave
    <3>2. collector[d].at \notin Locked /\ collector'[d] = collector[d]
      BY <1>0, <1>a, <3>1, LockIsExclusive DEF ReleaseTypeOK
    <3> QED BY <3>2 DEF WorkOK, AnnouncedOK, CollectedOK, Announced, Marked, Locked
  <2>2. collector'[c] = Idle
    BY <1>0 DEF Leave, ReleaseTypeOK
  <2>3. (AnnouncedOK(collector[c], collector[c].source))' /\ (CollectedOK(collector[c], collector[c].source))'
    BY <2>2 DEF AnnouncedOK, CollectedOK, Announced, Marked, Idle
  <2> QED BY <2>1, <2>3 DEF WorkOK
<1>7. EvidenceOK'
  <2>1. ASSUME NEW t \in Source, t # s
        PROVE (/\ Concluded(t) => watermark[t].attempt \in Attempt
               /\ latest[t].open => Hidden(t) /\ latest[t].receipts = {}
               /\ ~latest[t].open /\ Concluded(t) => batch[t][watermark[t].attempt] = latest[t].receipts)'
    <3>1. latest'[t] = latest[t] /\ watermark'[t] = watermark[t] /\ batch'[t] = batch[t]
      BY <1>0, <1>2, <2>1 DEF ReleaseTypeOK
    <3>2. Hidden(t) => Hidden(t)'
      BY <1>0, <1>1, <2>1 DEF Hidden, Marker, Concluded
    <3> QED BY <3>1, <3>2 DEF EvidenceOK, Concluded
  <2>2. /\ Concluded(s)' => watermark'[s].attempt \in Attempt
        /\ latest'[s].open => Hidden(s)' /\ latest'[s].receipts = {}
    <3>1. Concluded(s)' => watermark'[s].attempt \in Attempt
      BY <1>0 DEF EvidenceOK, Concluded
    <3>2. CASE Screens(lockFile', s)
      BY <1>0, <1>2, <3>1, <3>2 DEF EvidenceOK, Hidden, Screens
    <3>3. CASE ~Screens(lockFile', s)
      BY <1>0, <1>2, <1>b, <3>1, <3>3 DEF ReleaseTypeOK
    <3> QED BY <3>2, <3>3
  <2>3. ASSUME ~latest'[s].open, Concluded(s)'
        PROVE  batch'[s][watermark'[s].attempt] = latest'[s].receipts
    <3>1. latest'[s] = concluded
      BY <1>0, <1>2, <2>3 DEF ReleaseTypeOK
    <3>2. /\ me.status \in {"PASS", "FAIL"} /\ watermark[s].attempt = me.attempt
          /\ batch[s][me.attempt] = me.receipts
      BY <1>0, <2>3 DEF CollectedOK, Concluded
    <3> QED BY <1>0, <1>b, <3>1, <3>2
  <2> QED BY <2>1, <2>2, <2>3 DEF EvidenceOK
<1> QED BY <1>3, <1>4, <1>5, <1>6, <1>7

LEMMA CrashKeepsInv ==
  ASSUME ReleaseInv, NEW c \in Collector, Crash(c)
  PROVE  ReleaseInv'
<1> USE DEF ReleaseInv
<1>0. /\ collector' = [collector EXCEPT ![c] = Idle]
      /\ holder' = IF holder = c THEN Nobody ELSE holder
      /\ UNCHANGED <<lockFile, watermark, batch, latest>>
  BY DEF Crash
<1>1. CASE collector[c].at \in Locked
  <2>1. Leave(c)
    BY <1>0, <1>1 DEF Leave, LockOK
  <2>2. FilesTyped
    BY <1>0 DEF FilesTyped, ReleaseTypeOK
  <2> QED BY <1>0, <1>1, <2>1, <2>2, HistoryKept, LeaveKeepsInv
<1>2. CASE collector[c].at \notin Locked
  <2>0. holder' = holder
    BY <1>0, <1>2 DEF LockOK
  <2>1. ReleaseTypeOK'
    BY <1>0, <2>0 DEF ReleaseTypeOK, CollectorType, Idle, Place, Status
  <2>2. LockOK'
    BY <1>0, <1>2, <2>0 DEF LockOK, ReleaseTypeOK, Locked, Announced, Idle
  <2>3. CreationOK'
    <3>1. \A d \in Collector : Creator(d)' => Creator(d)
      BY <1>0 DEF ReleaseTypeOK, Creator, Idle
    <3> QED BY <1>0, <3>1 DEF CreationOK, Concluded
  <2>4. WorkOK'
    BY <1>0 DEF ReleaseTypeOK, WorkOK, AnnouncedOK, CollectedOK, Announced, Marked, Idle, Marker
  <2>5. EvidenceOK'
    BY <1>0 DEF EvidenceOK, Hidden, Concluded
  <2> QED BY <2>1, <2>2, <2>3, <2>4, <2>5
<1> QED BY <1>1, <1>2

(***************************************************************************)
(* Theorems                                                                *)
(***************************************************************************)

LEMMA NextKeepsInv ==
  ASSUME ReleaseInv, [ReleaseNext]_releaseVars
  PROVE  ReleaseInv'
BY StutterKeepsInv, OpenLockKeepsInv, AcquireKeepsInv, AnnounceKeepsInv, InvalidateKeepsInv,
   ReadActionsKeepsInv, IdentifyKeepsInv, StoreReceiptsKeepsInv, SettleKeepsInv, ConcludeKeepsInv,
   CrashKeepsInv DEF ReleaseNext

\* Wherever a collector dies or is refused a write, the marker before the
\* truncation included: a collection that a file shows is hidden while it is
\* open, and the batch and the watermark of its source are what the last such
\* collection concluded (main of scripts/collect_release_evidence.py).
THEOREM ReleaseInvariance == ReleaseSpec => []ReleaseInv
<1>1. ReleaseInit => ReleaseInv
  BY InitInv
<1>2. ReleaseInv /\ [ReleaseNext]_releaseVars => ReleaseInv'
  BY NextKeepsInv
<1> QED BY <1>1, <1>2, PTL DEF ReleaseSpec

\* What list_receipts returns comes from the last collection of the source that
\* a file shows, and only when it has concluded, whichever steps of other
\* collections came between and wherever they ended. A collection shows once its
\* marker is in the lock file, the lock file is unreadable, or it has changed the
\* status; refused all three, it leaves the earlier result as it was.
THEOREM StaleEvidenceStaysUnread == ReleaseSpec => []StaleEvidenceIsNeverRead
<1>1. ASSUME ReleaseInv PROVE StaleEvidenceIsNeverRead
  <2>1. ASSUME NEW s \in Source, ListReceipts(s) # {}
        PROVE ~latest[s].open /\ ListReceipts(s) = latest[s].receipts
    <3>1. /\ lockFile.state = "valid" /\ s \notin lockFile.pending /\ Concluded(s)
          /\ ListReceipts(s) = batch[s][watermark[s].attempt]
      BY <2>1 DEF ListReceipts, Concluded
    <3> QED BY <1>1, <3>1 DEF ReleaseInv, EvidenceOK, Hidden
  <2> QED BY <2>1 DEF StaleEvidenceIsNeverRead
<1> QED BY <1>1, ReleaseInvariance, PTL

(***************************************************************************)
(* The scorecard: records                                                  *)
(***************************************************************************)

RecordsOK ==
  /\ runs \in Seq([day : ShadowDay, kind : RunKind])
  /\ feedback \in Seq([run : Nat, kind : ReviewKind])

LEMMA RecordsStayOK == EvidenceSpec => []RecordsOK
<1>1. EvidenceInit => RecordsOK
  BY DEF EvidenceInit, RecordsOK
<1>2. ASSUME RecordsOK, [EvidenceNext]_evidence PROVE RecordsOK'
  <2>1. CASE StoreRun
    BY <1>2, <2>1 DEF RecordsOK, StoreRun
  <2>2. CASE RecordFeedback
    <3>1. PICK r \in DOMAIN runs, kind \in ReviewKind :
            feedback' = Append(feedback, [run |-> r, kind |-> kind])
      BY <2>2 DEF RecordFeedback
    <3>2. r \in Nat
      BY <1>2, <3>1 DEF RecordsOK
    <3>3. [run |-> r, kind |-> kind] \in [run : Nat, kind : ReviewKind]
      BY <3>1, <3>2
    <3> QED BY <1>2, <2>2, <3>1, <3>3 DEF RecordsOK, RecordFeedback
  <2>3. CASE UNCHANGED <<runs, feedback>>
    BY <1>2, <2>3 DEF RecordsOK
  <2> QED BY <1>2, <2>1, <2>2, <2>3 DEF EvidenceNext, RecordObservation, CollectReceipts, evidence
<1> QED BY <1>1, <1>2, PTL DEF EvidenceSpec

(***************************************************************************)
(* First elements                                                          *)
(***************************************************************************)

LEMMA LeastExists ==
  ASSUME NEW S \in SUBSET Nat, S # {}
  PROVE  \E x \in S : \A y \in S : x <= y
<1>1. PICK x \in S : \A y \in S : <<y, x>> \notin OpToRel(<, Nat)
  BY WFMin, NatLessThanWellFounded
<1>2. \A y \in S : ~(y < x)
  BY <1>1 DEF OpToRel
<1> QED BY <1>2

LEMMA MinIsFirst ==
  ASSUME NEW S \in SUBSET Nat, S # {}
  PROVE  Min(S) \in S /\ \A y \in S : Min(S) <= y
BY LeastExists DEF Min

LEMMA LaterIsNotFirst ==
  ASSUME NEW S \in SUBSET Nat, S # {}, NEW T \in SUBSET Nat, S \subseteq T,
         \A x \in S, y \in T \ S : x < y
  PROVE  Min(T) = Min(S)
<1>1. PICK m : m = Min(S)
  OBVIOUS
<1>2. PICK n : n = Min(T)
  OBVIOUS
<1>3. m \in S /\ m \in Nat /\ \A y \in S : m <= y
  BY <1>1, MinIsFirst
<1>4. n \in T /\ n \in Nat /\ \A y \in T : n <= y
  <2>1. T # {}
    OBVIOUS
  <2> QED BY <1>2, <2>1, MinIsFirst
<1>5. n <= m
  BY <1>3, <1>4
<1>6. n \in S
  BY <1>3, <1>4, <1>5
<1>7. m <= n
  BY <1>3, <1>6
<1> QED BY <1>1, <1>2, <1>3, <1>4, <1>5, <1>7

(***************************************************************************)
(* One more review                                                         *)
(***************************************************************************)

\* The report of a day is a run of that day.
LEMMA SelectedRunIsOfTheDay ==
  ASSUME RecordsOK, NEW day
  PROVE  SelectedRun(day) \in Nat /\ (SelectedRun(day) # 0 => runs[SelectedRun(day)].day = day)
<1>1. Publications(day) \in SUBSET Nat /\ 0 \notin Publications(day)
  BY DEF RecordsOK, Publications
<1>2. CASE Publications(day) = {}
  BY <1>2 DEF SelectedRun
<1>3. CASE Publications(day) # {}
  <2>1. SelectedRun(day) \in Publications(day)
    BY <1>1, <1>3, MinIsFirst DEF SelectedRun
  <2> QED BY <1>1, <2>1 DEF Publications
<1> QED BY <1>2, <1>3

\* What the gates share, before and after.
Shared ==
  /\ Current' = Current /\ (\A day : CurrentOf(day)' = CurrentOf(day) /\ Verdict(day)' = Verdict(day))
  /\ EligibleDays' = EligibleDays /\ (CompleteDays' <=> CompleteDays)
  /\ \A day : SelectedRun(day)' = SelectedRun(day)
  /\ ReportDays' = ReportDays /\ ValidDays' = ValidDays

LEMMA SharedStays ==
  ASSUME UNCHANGED <<runs, observations, receipts>>
  PROVE  Shared
<1>1. Current' = Current
  BY DEF Current
<1>2. ASSUME NEW day PROVE CurrentOf(day)' = CurrentOf(day)
  BY <1>1 DEF CurrentOf
<1>3. ASSUME NEW day PROVE Verdict(day)' = Verdict(day)
  BY <1>2 DEF Verdict
<1>4. EligibleDays' = EligibleDays /\ (CompleteDays' <=> CompleteDays)
  BY <1>3 DEF EligibleDays, CompleteDays
<1>5. ASSUME NEW day PROVE SelectedRun(day)' = SelectedRun(day)
  <2>1. Publications(day)' = Publications(day)
    BY DEF Publications
  <2> QED BY <2>1 DEF SelectedRun
<1>6. ReportDays' = ReportDays
  BY <1>4, <1>5 DEF ReportDays
<1>7. ValidDays' = ValidDays
  BY <1>3, <1>5 DEF ValidDays
<1> QED BY <1>1, <1>2, <1>3, <1>4, <1>5, <1>6, <1>7 DEF Shared

\* Gates that look at no review.
LEMMA GatesWithoutReviews ==
  ASSUME UNCHANGED <<runs, observations, receipts>>
  PROVE  /\ DayGate' = DayGate /\ TimelyGate' = TimelyGate /\ DurationGate' = DurationGate
         /\ SafetyGate' = SafetyGate /\ CorrectnessGate' = CorrectnessGate
         /\ FailureOperationsGate' = FailureOperationsGate
         /\ (Loads' <=> Loads) /\ (Personal' <=> Personal)
<1>0. Shared
  BY SharedStays
<1>1. DayGate' = DayGate
  BY <1>0 DEF DayGate, Shared
<1>2. TimelyGate' = TimelyGate
  BY <1>0 DEF TimelyGate, Shared
<1>3. DurationGate' = DurationGate
  BY DEF DurationGate, OfRank
<1>4. SafetyGate' = SafetyGate
  BY <1>0 DEF SafetyGate, Shared
<1>5. CorrectnessGate' = CorrectnessGate
  BY DEF CorrectnessGate
<1>6. FailureOperationsGate' = FailureOperationsGate
  BY <1>0 DEF FailureOperationsGate, Shared
<1>7. (Loads' <=> Loads) /\ (Personal' <=> Personal)
  BY DEF Loads, Personal
<1> QED BY <1>1, <1>2, <1>3, <1>4, <1>5, <1>6, <1>7

\* A review of a report that has a complete one.
LaterReview(day) ==
  /\ day \in ReviewedDays /\ UNCHANGED <<runs, observations, receipts>>
  /\ \E kind \in ReviewKind : feedback' = Append(feedback, [run |-> SelectedRun(day), kind |-> kind])

\* It is the last of the reviews of its report.
LEMMA ReviewIsAppended ==
  ASSUME RecordsOK, NEW day, LaterReview(day)
  PROVE  /\ Len(feedback) \in Nat /\ DOMAIN feedback = 1..Len(feedback)
         /\ \A d : d # day /\ SelectedRun(d) # 0 =>
               ReviewsOf(SelectedRun(d))' = ReviewsOf(SelectedRun(d))
         /\ \A d : \A f \in ReviewsOf(SelectedRun(d)) :
               f \in 1..Len(feedback) /\ feedback'[f] = feedback[f]
         /\ \A d : ReviewsOf(SelectedRun(d)) \subseteq ReviewsOf(SelectedRun(d))'
         /\ ReviewsOf(SelectedRun(day))' \subseteq
               ReviewsOf(SelectedRun(day)) \cup {Len(feedback) + 1}
<1>1. PICK kind \in ReviewKind :
        feedback' = Append(feedback, [run |-> SelectedRun(day), kind |-> kind])
  BY DEF LaterReview
<1>2. Len(feedback) \in Nat /\ DOMAIN feedback = 1..Len(feedback)
  BY DEF RecordsOK
<1>3. /\ DOMAIN feedback' = 1..(Len(feedback) + 1)
      /\ \A f \in 1..Len(feedback) : feedback'[f] = feedback[f]
      /\ feedback'[Len(feedback) + 1].run = SelectedRun(day)
  BY <1>1 DEF RecordsOK
<1>4. \A d : SelectedRun(d)' = SelectedRun(d)
  BY SharedStays DEF LaterReview, Shared
<1>5. \A d : d # day /\ SelectedRun(d) # 0 => SelectedRun(d) # SelectedRun(day)
  BY SelectedRunIsOfTheDay
<1>6. \A d : ReviewsOf(SelectedRun(d))' =
              {f \in 1..(Len(feedback) + 1) : feedback'[f].run = SelectedRun(d)}
  BY <1>3, <1>4 DEF ReviewsOf
<1>7. \A d : ReviewsOf(SelectedRun(d)) = {f \in 1..Len(feedback) : feedback[f].run = SelectedRun(d)}
  BY <1>2 DEF ReviewsOf
<1>8. \A f \in 1..(Len(feedback) + 1) : f \in 1..Len(feedback) \/ f = Len(feedback) + 1
  BY <1>2
<1>9. \A f \in 1..Len(feedback) : f \in 1..(Len(feedback) + 1)
  BY <1>2
<1>10. ASSUME NEW d, d # day, SelectedRun(d) # 0
       PROVE  ReviewsOf(SelectedRun(d))' = ReviewsOf(SelectedRun(d))
  <2>1. SelectedRun(d) # SelectedRun(day)
    BY <1>5, <1>10
  <2>2. \A f \in 1..(Len(feedback) + 1) :
          feedback'[f].run = SelectedRun(d) => f \in 1..Len(feedback)
    BY <1>3, <1>8, <2>1
  <2>3. ReviewsOf(SelectedRun(d))' \subseteq ReviewsOf(SelectedRun(d))
    BY <1>3, <1>6, <1>7, <2>2
  <2>4. ReviewsOf(SelectedRun(d)) \subseteq ReviewsOf(SelectedRun(d))'
    BY <1>3, <1>6, <1>7, <1>9
  <2> QED BY <2>3, <2>4
<1>11. ASSUME NEW d PROVE ReviewsOf(SelectedRun(d)) \subseteq ReviewsOf(SelectedRun(d))'
  BY <1>3, <1>6, <1>7, <1>9
<1>12. ReviewsOf(SelectedRun(day))' \subseteq ReviewsOf(SelectedRun(day)) \cup {Len(feedback) + 1}
  BY <1>3, <1>6, <1>7, <1>8
<1> QED BY <1>2, <1>3, <1>7, <1>10, <1>11, <1>12

\* The complete review that stands for a day stays the first.
LEMMA FirstReviewStays ==
  ASSUME RecordsOK, NEW day, LaterReview(day)
  PROVE  ReviewedDays' = ReviewedDays /\ DailyFeedback' = DailyFeedback
<1>1. Shared /\ day \in ReviewedDays
  BY SharedStays DEF LaterReview
<1>2. \A d : CompleteReviews(d) \in SUBSET Nat
  BY DEF CompleteReviews, ReviewsOf, RecordsOK
<1>3. ASSUME NEW d, SelectedRun(d) # 0, d # day
      PROVE  CompleteReviews(d)' = CompleteReviews(d)
  <2>1. /\ ReviewsOf(SelectedRun(d))' = ReviewsOf(SelectedRun(d))
        /\ \A f \in ReviewsOf(SelectedRun(d)) : feedback'[f] = feedback[f]
    BY <1>3, ReviewIsAppended
  <2> QED BY <2>1 DEF CompleteReviews
<1>4. /\ CompleteReviews(day) \subseteq CompleteReviews(day)'
      /\ CompleteReviews(day)' \subseteq CompleteReviews(day) \cup {Len(feedback) + 1}
  <2>1. /\ ReviewsOf(SelectedRun(day)) \subseteq ReviewsOf(SelectedRun(day))'
        /\ ReviewsOf(SelectedRun(day))' \subseteq ReviewsOf(SelectedRun(day)) \cup {Len(feedback) + 1}
        /\ \A f \in ReviewsOf(SelectedRun(day)) : feedback'[f] = feedback[f]
    BY ReviewIsAppended
  <2> QED BY <2>1 DEF CompleteReviews
<1>5. CompleteReviews(day) # {} /\ CompleteReviews(day)' # {}
  BY <1>1, <1>4 DEF ReviewedDays
<1>6. Min(CompleteReviews(day)') = Min(CompleteReviews(day))
  <2>1. PICK S, T, n : S = CompleteReviews(day) /\ T = CompleteReviews(day)' /\ n = Len(feedback)
    OBVIOUS
  <2>2. n \in Nat /\ \A f \in S : f \in 1..n
    BY <2>1, ReviewIsAppended DEF CompleteReviews
  <2>3. S \in SUBSET Nat /\ S # {} /\ S \subseteq T /\ T \subseteq S \cup {n + 1}
    BY <1>2, <1>4, <1>5, <2>1
  <2>4. T \in SUBSET Nat /\ \A x \in S, y \in T \ S : x < y
    BY <2>2, <2>3
  <2> QED BY <2>1, <2>3, <2>4, LaterIsNotFirst
<1>7. \A d \in ReportDays : SelectedRun(d) # 0
  BY DEF ReportDays
<1>8. ReviewedDays' = ReviewedDays
  BY <1>1, <1>3, <1>5, <1>7 DEF ReviewedDays, Shared
<1>9. ASSUME NEW d \in ReviewedDays
      PROVE  (feedback[Min(CompleteReviews(d))].kind)' = feedback[Min(CompleteReviews(d))].kind
  <2>1. Min(CompleteReviews(d))' = Min(CompleteReviews(d))
    <3>1. CASE d = day
      BY <1>6, <3>1
    <3>2. CASE d # day
      BY <1>3, <1>7, <3>2 DEF ReviewedDays
    <3> QED BY <3>1, <3>2
  <2>2. Min(CompleteReviews(d)) \in CompleteReviews(d)
    BY <1>2, MinIsFirst DEF ReviewedDays
  <2>3. Min(CompleteReviews(d)) \in ReviewsOf(SelectedRun(d))
    BY <2>2 DEF CompleteReviews
  <2>4. feedback'[Min(CompleteReviews(d))] = feedback[Min(CompleteReviews(d))]
    BY <2>3, ReviewIsAppended
  <2> QED BY <2>1, <2>4
<1> QED BY <1>8, <1>9 DEF DailyFeedback

\* The executive gate counts every review: what a later one says can only be
\* one more mismatch.
LEMMA ExecutiveIsNotRescued ==
  ASSUME RecordsOK, NEW day, LaterReview(day), ExecutiveGate' = "PASS"
  PROVE  ExecutiveGate = "PASS"
<1> DEFINE Said(d) == {feedback[f].kind.identified : f \in ReviewsOf(SelectedRun(d))}
           Noted(d) == {observations[o].note.identified :
                          o \in {p \in CurrentOf(d) : observations[p].run = SelectedRun(d)}}
<1>1. Shared /\ day \in ReviewedDays
  BY SharedStays DEF LaterReview
<1>2. \A d : Noted(d)' = Noted(d)
  BY <1>1 DEF Shared, LaterReview
<1>3. ASSUME NEW d PROVE Said(d) \subseteq Said(d)'
  <2>1. \A f \in ReviewsOf(SelectedRun(d)) :
          f \in ReviewsOf(SelectedRun(d))' /\ feedback'[f] = feedback[f]
    BY ReviewIsAppended
  <2> QED BY <2>1
<1>4. ASSUME NEW d \in ReportDays, d # day PROVE Said(d)' = Said(d)
  <2>1. SelectedRun(d) # 0
    BY <1>4 DEF ReportDays
  <2>2. /\ ReviewsOf(SelectedRun(d))' = ReviewsOf(SelectedRun(d))
        /\ \A f \in ReviewsOf(SelectedRun(d)) : feedback'[f] = feedback[f]
    BY <1>4, <2>1, ReviewIsAppended
  <2> QED BY <2>2
<1>5. Said(day) \ {"none"} # {}
  <2>1. PICK f : f \in CompleteReviews(day)
    BY <1>1 DEF ReviewedDays
  <2>2. f \in ReviewsOf(SelectedRun(day)) /\ feedback[f].kind.identified # "none"
    BY <2>1 DEF CompleteReviews
  <2> QED BY <2>2
<1>6. ReportDays' = ReportDays
  BY <1>1 DEF Shared
<1>7. /\ ~(\E d \in ReportDays' : "wrong" \in (Said(d)' \union Noted(d)') \ {"none"})
      /\ ReportDays' # {}
      /\ \A d \in ReportDays' : (Said(d)' \union Noted(d)') \ {"none"} # {}
  BY DEF ExecutiveGate, Settled
<1> HIDE DEF Said, Noted
<1>8. /\ ~(\E d \in ReportDays : "wrong" \in (Said(d) \union Noted(d)) \ {"none"})
      /\ ReportDays # {}
      /\ \A d \in ReportDays : (Said(d) \union Noted(d)) \ {"none"} # {}
  BY <1>2, <1>3, <1>4, <1>5, <1>6, <1>7
<1> USE DEF Said, Noted
<1> QED BY <1>8 DEF ExecutiveGate, Settled

LEMMA ReviewRescuesNothing ==
  ASSUME RecordsOK, NEW day, LaterReview(day)
  PROVE  /\ \A g \in DOMAIN Gates \ {"evidence"} : Gates'[g] = "PASS" => Gates[g] = "PASS"
         /\ GraduationReady' /\ ~GraduationReady => Gates.evidence # "PASS"
<1>1. /\ DayGate' = DayGate /\ TimelyGate' = TimelyGate /\ DurationGate' = DurationGate
      /\ SafetyGate' = SafetyGate /\ CorrectnessGate' = CorrectnessGate
      /\ FailureOperationsGate' = FailureOperationsGate
      /\ (Loads' <=> Loads) /\ (Personal' <=> Personal)
  BY GatesWithoutReviews DEF LaterReview
<1>2. ReportDays' = ReportDays /\ ValidDays' = ValidDays
  BY SharedStays DEF LaterReview, Shared
<1>3. DailyFeedback' = DailyFeedback
  BY FirstReviewStays
<1>4. /\ ReviewTimeGate(ReportDays, DailyFeedback)' = ReviewTimeGate(ReportDays, DailyFeedback)
      /\ UsefulnessGate(ReportDays, DailyFeedback)' = UsefulnessGate(ReportDays, DailyFeedback)
  BY <1>2, <1>3
<1>5. ExecutiveGate' = "PASS" => ExecutiveGate = "PASS"
  BY ExecutiveIsNotRescued
<1>6. \A g \in DOMAIN Gates \ {"evidence"} : Gates'[g] = "PASS" => Gates[g] = "PASS"
  BY <1>1, <1>4, <1>5 DEF Gates
<1>7. ASSUME GraduationReady', Gates.evidence = "PASS" PROVE GraduationReady
  <2>1. /\ Loads /\ Personal /\ Cardinality(ValidDays) >= MinimumDays
        /\ \A g \in DOMAIN Gates' : Gates'[g] = "PASS"
    BY <1>1, <1>2, <1>7 DEF GraduationReady
  <2>2. DOMAIN Gates' = DOMAIN Gates
    BY DEF Gates
  <2>3. \A g \in DOMAIN Gates : Gates[g] = "PASS"
    BY <1>6, <1>7, <2>1, <2>2
  <2> QED BY <2>1, <2>3 DEF GraduationReady
<1> QED BY <1>6, <1>7

\* Whatever was recorded before, a further review of a report that has a
\* complete one passes no gate that did not pass, but the one for citations
\* (shadow_scorecard.py:231-263, 388-535).
THEOREM ReviewsNeverRescue == EvidenceSpec => LaterReviewsCannotRescue
<1> DEFINE Kept ==
      \A day \in ReviewedDays :
        (Len(feedback') > Len(feedback) /\ feedback'[Len(feedback')].run = SelectedRun(day))
        => /\ \A g \in DOMAIN Gates \ {"evidence"} : Gates'[g] = "PASS" => Gates[g] = "PASS"
           /\ (GraduationReady' /\ ~GraduationReady) => Gates.evidence # "PASS"
<1>1. ASSUME RecordsOK, [EvidenceNext]_evidence PROVE Kept
  <2> SUFFICES ASSUME NEW day \in ReviewedDays, Len(feedback') > Len(feedback),
                      feedback'[Len(feedback')].run = SelectedRun(day)
               PROVE  LaterReview(day)
    BY <1>1, ReviewRescuesNothing
  <2>0. feedback \in Seq([run : Nat, kind : ReviewKind])
    BY <1>1 DEF RecordsOK
  <2>1. feedback' # feedback
    BY <2>0
  <2>2. RecordFeedback
    BY <1>1, <2>1 DEF EvidenceNext, StoreRun, RecordObservation, CollectReceipts, evidence
  <2>3. PICK r \in DOMAIN runs, kind \in ReviewKind :
          /\ feedback' = Append(feedback, [run |-> r, kind |-> kind])
          /\ UNCHANGED <<runs, observations, receipts>>
    BY <2>2 DEF RecordFeedback
  <2>4. feedback'[Len(feedback')] = [run |-> r, kind |-> kind]
    <3>1. r \in Nat
      BY <1>1 DEF RecordsOK
    <3>2. [run |-> r, kind |-> kind] \in [run : Nat, kind : ReviewKind]
      BY <3>1
    <3> QED BY <2>0, <2>3, <3>2
  <2>5. r = SelectedRun(day)
    BY <2>4
  <2> QED BY <2>3, <2>5 DEF LaterReview
<1>2. RecordsOK /\ [EvidenceNext]_evidence => [Kept]_evidence
  BY <1>1
<1> QED BY RecordsStayOK, <1>2, PTL DEF EvidenceSpec, LaterReviewsCannotRescue

=============================================================================
