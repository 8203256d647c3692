---------------------------- MODULE ReleaseEvidence ----------------------------
(***************************************************************************)
(* The collector of release evidence and the reader the release gates use. *)
(*                                                                         *)
(* scripts/collect_release_evidence.py reads one commit's GitHub Actions   *)
(* run and leaves three kinds of file in the private evaluation root: the  *)
(* lock file, whose content is the set of sources a collection is pending  *)
(* for; one immutable batch of receipts per attempt of the run; and one    *)
(* watermark per source, naming the attempt that counts and its status.    *)
(* A collector holds the lock file exclusively from its first write to its *)
(* last and may die, or be refused a write, anywhere between them; a       *)
(* reader (adapters/shadow_evidence.py) holds it shared for a whole read.  *)
(* GitHub is external: what it answers is any run and any jobs.            *)
(***************************************************************************)
EXTENDS Naturals

CONSTANTS
    Collector,     \* processes that may run the script
    Source,        \* (commit, tree) identities evidence is collected for
    Attempt,       \* attempts of a workflow run
    Version,       \* the Python versions of the CI matrix
    Nobody         \* not a collector: the lock is free

ASSUME CollectorAssumption ==
    Nobody \notin Collector /\ Attempt \subseteq Nat \ {0} /\ Version # {}

VARIABLES
    lockFile,      \* the lock file: its state and the sources marked pending
    holder,        \* the collector that holds the lock exclusively, or Nobody
    watermark,     \* per source, the status file
    batch,         \* per source and attempt, the receipts stored, {} for no file
    collector,     \* per collector, where it is in main()
    latest         \* per source, what the last collection that any file shows
                   \* concluded: a history variable, no file of the program

releaseVars == <<lockFile, holder, watermark, batch, collector, latest>>

Idle == [at |-> "idle", source |-> Nobody, created |-> FALSE, marked |-> FALSE,
         attempt |-> 0, receipts |-> {}, status |-> "PENDING"]

NoWatermark == [status |-> "none", attempt |-> 0]

ReleaseInit ==
    /\ lockFile = [state |-> "absent", pending |-> {}]
    /\ holder = Nobody
    /\ watermark = [s \in Source |-> NoWatermark]
    /\ batch = [s \in Source |-> [a \in Attempt |-> {}]]
    /\ collector = [c \in Collector |-> Idle]
    /\ latest = [s \in Source |-> [open |-> FALSE, receipts |-> {}]]

--------------------------------------------------------------------------------
(* What one reading of GitHub amounts to.                                     *)

\* A completed job gives a receipt for its checks; "broken" is a job that
\* failed outside them.
Receipts(job) ==
    {[version |-> v, success |-> job[v] # "failure"] :
        v \in {w \in Version : job[w] # "running"}}

\* ReleaseCollection.status: a failed step settles it, and a matrix that is
\* not complete and successful leaves it open.
Conclusion(succeeded, job) ==
    IF \E r \in Receipts(job) : ~r.success THEN "FAIL"
    ELSE IF succeeded /\ \A v \in Version : job[v] = "success" THEN "PASS"
    ELSE "PENDING"

ListReceiptsUnderMarker(s) ==
    IF watermark[s].status \in {"PASS", "FAIL"}
    THEN batch[s][watermark[s].attempt] ELSE {}

\* list_receipts: nothing while the lock file is missing, unreadable or marks
\* the source, nor under a PENDING, missing or unreadable watermark.
ListReceipts(s) ==
    IF /\ lockFile.state = "valid"
       /\ s \notin lockFile.pending
       /\ watermark[s].status \in {"PASS", "FAIL"}
    THEN batch[s][watermark[s].attempt]
    ELSE {}

--------------------------------------------------------------------------------
(* main().                                                                    *)

Goto(c, at) == collector' = [collector EXCEPT ![c].at = at]

Leave(c) ==
    /\ collector' = [collector EXCEPT ![c] = Idle]
    /\ holder' = Nobody

\* The lock file is opened, or created empty by exactly one collector.
OpenLock(c, s) ==
    /\ collector[c].at = "idle"
    /\ collector' = [collector EXCEPT
           ![c] = [Idle EXCEPT !.at = "opened", !.source = s,
                               !.created = (lockFile.state = "absent")]]
    /\ lockFile' = IF lockFile.state = "absent"
                   THEN [lockFile EXCEPT !.state = "empty"] ELSE lockFile
    /\ UNCHANGED <<holder, watermark, batch, latest>>

\* flock(LOCK_EX); the collector that created the file also initialises it.
Acquire(c) ==
    /\ collector[c].at = "opened"
    /\ holder = Nobody
    /\ holder' = c
    /\ Goto(c, "locked")
    /\ lockFile' = IF collector[c].created
                   THEN [state |-> "valid", pending |-> {}] ELSE lockFile
    /\ UNCHANGED <<watermark, batch, latest>>

\* _update_release_evidence_pending_source: seek, read, truncate, write, fsync.
\* A content it cannot parse is left alone, and so is any content when a step
\* before the truncation is refused; a refused write leaves the file empty, a
\* refused fsync leaves it written.
UpdatePending(pending, ok) ==
    \/ /\ ~ok
       /\ lockFile' = lockFile
    \/ /\ lockFile.state = "valid"
       /\ lockFile' = [state |-> "valid", pending |-> pending]
    \/ /\ lockFile.state = "valid"
       /\ ~ok
       /\ lockFile' = [state |-> "empty", pending |-> {}]

\* A collection of the source has begun that a file shows.
Begin(s) == latest' = [latest EXCEPT ![s] = [open |-> TRUE, receipts |-> {}]]

\* The lock file hides the source from readers.
Screens(file, s) == file.state # "valid" \/ s \in file.pending

\* The source is marked pending; a failure is remembered and passed over.
Announce(c) ==
    LET s == collector[c].source
    IN  /\ collector[c].at = "locked"
        /\ \E ok \in BOOLEAN :
               /\ UpdatePending(lockFile.pending \union {s}, ok)
               /\ collector' = [collector EXCEPT ![c].at = "announced", ![c].marked = ok]
        /\ IF Screens(lockFile', s) THEN Begin(s) ELSE UNCHANGED latest
        /\ UNCHANGED <<holder, watermark, batch>>

\* _store_collection_watermark gives up: the old status was not removed, or was
\* removed and not replaced, or a PENDING one was half rewritten in its place.
WatermarkRefused(s, status) ==
    \/ watermark' = watermark
    \/ watermark' = [watermark EXCEPT ![s] = NoWatermark]
    \/ /\ status = "PENDING"
       /\ watermark[s].status # "none"
       /\ watermark' = [watermark EXCEPT ![s].status = "torn"]

StoreWatermark(c, status, from, to, on) ==
    LET s == collector[c].source
    IN  /\ collector[c].at = from
        /\ \/ /\ watermark' = [watermark EXCEPT
                      ![s] = [status |-> status, attempt |-> collector[c].attempt]]
              /\ IF on THEN Goto(c, to) /\ UNCHANGED holder ELSE Leave(c)
           \/ /\ WatermarkRefused(s, status)
              /\ Leave(c)
        /\ UNCHANGED <<lockFile, batch>>

\* The first PENDING watermark; without the marker the collection ends here. One
\* that is refused the marker and this watermark too has changed no file.
Invalidate(c) ==
    LET s == collector[c].source
    IN  /\ StoreWatermark(c, "PENDING", "announced", "invalidated", collector[c].marked)
        /\ IF watermark'[s] # watermark[s] THEN Begin(s) ELSE UNCHANGED latest

\* collect_release_evidence: an unreadable API ends the collection; a run that
\* is missing or incomplete is a collection without receipts; the run and its
\* jobs are two requests, and may be of different attempts.
ReadActions(c) ==
    /\ collector[c].at = "invalidated"
    /\ \/ /\ Leave(c)
       \/ /\ Goto(c, "collected")
          /\ UNCHANGED holder
       \/ \E a \in Attempt, succeeded \in BOOLEAN,
             job \in [Version -> {"running", "success", "failure", "broken"}] :
          /\ collector' = [collector EXCEPT
                 ![c].at = "collected", ![c].attempt = a,
                 ![c].receipts = Receipts(job),
                 ![c].status = Conclusion(succeeded, job)]
          /\ UNCHANGED holder
    /\ UNCHANGED <<lockFile, watermark, batch, latest>>

\* The second PENDING watermark carries the attempt.
Identify(c) ==
    /\ StoreWatermark(c, "PENDING", "collected", "identified", TRUE)
    /\ UNCHANGED latest

\* _store_receipts: a batch is written once, and one already there must match.
StoreReceipts(c) ==
    LET me  == collector[c]
        old == batch[me.source][me.attempt]
    IN  /\ me.at = "identified"
        /\ IF me.receipts = {} THEN Goto(c, "stored") /\ UNCHANGED <<holder, batch>>
           ELSE \/ /\ old = me.receipts
                   /\ Goto(c, "stored")
                   /\ UNCHANGED <<holder, batch>>
                \/ /\ old = {}
                   /\ batch' = [batch EXCEPT ![me.source][me.attempt] = me.receipts]
                   /\ (Goto(c, "stored") /\ UNCHANGED holder) \/ Leave(c)
                \/ /\ old # me.receipts
                   /\ Leave(c)
                   /\ UNCHANGED batch
        /\ UNCHANGED <<lockFile, watermark, latest>>

\* A settled collection moves the watermark; an unsettled one leaves PENDING.
Settle(c) ==
    \/ /\ collector[c].status # "PENDING"
       /\ StoreWatermark(c, collector[c].status, "stored", "settled", TRUE)
       /\ UNCHANGED latest
    \/ /\ collector[c].at = "stored"
       /\ collector[c].status = "PENDING"
       /\ Goto(c, "settled")
       /\ UNCHANGED <<lockFile, holder, watermark, batch, latest>>

\* The marker is cleared, and the collection has concluded if it is.
Conclude(c) ==
    LET s == collector[c].source
    IN  /\ collector[c].at = "settled"
        /\ \E ok \in BOOLEAN : UpdatePending(lockFile.pending \ {s}, ok)
        /\ latest' = IF Screens(lockFile', s) THEN latest
                     ELSE [latest EXCEPT ![s] =
                              [open |-> FALSE,
                               receipts |-> IF collector[c].status = "PENDING"
                                            THEN {} ELSE collector[c].receipts]]
        /\ Leave(c)
        /\ UNCHANGED <<watermark, batch>>

\* The process dies: the kernel drops its lock, the files stay as they are.
Crash(c) ==
    /\ collector[c].at # "idle"
    /\ collector' = [collector EXCEPT ![c] = Idle]
    /\ holder' = IF holder = c THEN Nobody ELSE holder
    /\ UNCHANGED <<lockFile, watermark, batch, latest>>

ReleaseNext ==
    \E c \in Collector :
        \/ \E s \in Source : OpenLock(c, s)
        \/ Acquire(c)
        \/ Announce(c)
        \/ Invalidate(c)
        \/ ReadActions(c)
        \/ Identify(c)
        \/ StoreReceipts(c)
        \/ Settle(c)
        \/ Conclude(c)
        \/ Crash(c)

ReleaseSpec == ReleaseInit /\ [][ReleaseNext]_releaseVars

--------------------------------------------------------------------------------
\* Receipts can be read only from the last collection of the source that a file
\* shows, and only once it has concluded: a collection that leaves its marker,
\* empties the lock file or takes away the old status hides every earlier
\* result, however far it comes and whatever it is refused afterwards (main's
\* marker, watermark and batch protocol against list_receipts). One that is
\* refused the marker before the truncation, and then both ways to invalidate
\* the status, shows nowhere: the earlier result stays readable, as what its own
\* collection concluded. A read needs the lock, so it happens while nobody holds
\* it.
StaleEvidenceIsNeverRead ==
    holder = Nobody =>
        \A s \in Source :
            ListReceipts(s) # {} => ~latest[s].open /\ ListReceipts(s) = latest[s].receipts

================================================================================
