---- MODULE EventEvidence ----
(***************************************************************************)
(* Event evidence of one symbol: the SEC, news, macro-calendar and company *)
(* adapters read in turn, merged by CompositeEventProvider                 *)
(* (adapters/events.py) and judged by assess_event_risk (domain/events.py).*)
(* A source answers a failure or rows with an event time and a publication *)
(* time; texts, URLs and identifiers are left out.                         *)
(***************************************************************************)
EXTENDS Integers, Sequences, FiniteSets, SequencesExt

CONSTANTS
    ReadingOrder,     \* the sources in the order they are read
    MacroSource,      \* those that are macro calendars; all required
    Materiality,      \* the configured materiality of each macro calendar
    WindowStart, WindowEnd,   \* start and end of the requested window
    Cutoff,           \* cutoff_at
    PlanExpiry,       \* plan_expires_at
    Outages,          \* bound: the read failures that occur
    NoTime,           \* a time the row does not carry
    LastInstant,      \* bound: the clock stops there
    EventTime,        \* bound: the event times rows carry
    MaxRows           \* bound: rows in one answer of each source

(* The failures an HTTP exchange or a payload can end in.                  *)
ReadFailure == {"PERMISSION_DENIED", "PROVIDER_UNAVAILABLE", "DEADLINE_EXCEEDED",
                "INVALID_RESPONSE"}

ASSUME EventAssumption ==
    /\ ReadingOrder \in Seq(Range(ReadingOrder)) /\ IsInjective(ReadingOrder)
    /\ MacroSource = Range(ReadingOrder) \ {"sec", "news", "ir"}
    /\ MaxRows \in [Range(ReadingOrder) \ {"ir"} -> Nat]
    /\ WindowStart < WindowEnd /\ Cutoff < PlanExpiry /\ NoTime \notin Int
    /\ Outages \subseteq ReadFailure
    /\ Materiality \in [MacroSource -> {"LOW", "MEDIUM", "HIGH", "UNKNOWN"}]

VARIABLES
    now,        \* the clock every adapter samples when it starts
    unread,     \* the sources still to be read, in order
    items,      \* the evidence and events collected so far
    health,     \* what each source reported: "available" or an error code
    assessed    \* the EventAssessment status, or "none"

eventVars == <<now, unread, items, health, assessed>>

Sources == Range(ReadingOrder)
Times == 0..LastInstant
Row == [event : EventTime, published : Times \cup {NoTime}, formed : {"yes"}]
          \cup {[event |-> 0, published |-> NoTime, formed |-> "no"]}
Answer(s) == BoundedSeq(Row, MaxRows[s])

EventInit ==
    /\ now = 0 /\ unread = ReadingOrder /\ items = {} /\ assessed = "none"
    /\ health = [s \in Sources |-> "unread"]

Turn(s) == unread # <<>> /\ Head(unread) = s
InWindow(time) == WindowStart <= time /\ time < WindowEnd
Known(time) == time # NoTime /\ time <= Cutoff /\ time <= now

(* An item carries the instant it was retrieved and what an event record   *)
(* of it says; "none" is evidence without an event.                        *)
Item(s, row, verified, materiality) ==
    [source |-> s, event |-> row.event, published |-> row.published, retrieved |-> now,
     verified |-> verified, materiality |-> materiality]

Report(s, code, kept) ==
    /\ health' = [health EXCEPT ![s] = code]
    /\ items' = items \cup kept
    /\ unread' = Tail(unread)
    /\ UNCHANGED <<now, assessed>>

(* What every adapter does before its request, and when the request fails. *)
Refused(s) ==
    /\ Turn(s)
    /\ \/ now > Cutoff /\ Report(s, "EVIDENCE_CUTOFF_VIOLATION", {})
       \/ now <= Cutoff /\ \E code \in Outages : Report(s, code, {})

(* SecEdgarAdapter: one malformed material row voids the answer; a row of  *)
(* the future is dropped, and the source then reported unavailable.        *)
SecKept(rows) == {r \in Range(rows) : r.formed = "yes" /\ Known(r.event) /\ Known(r.published)}
CollectSec ==
    /\ Turn("sec") /\ now <= Cutoff
    /\ \E rows \in Answer("sec") :
         CASE \E r \in Range(rows) : r.formed = "no" \/ r.published = NoTime ->
                Report("sec", "PROVIDER_SCHEMA_DRIFT", {})
           [] OTHER ->
                Report("sec",
                       IF Range(rows) # SecKept(rows) THEN "EVIDENCE_CUTOFF_VIOLATION"
                       ELSE "available",
                       {Item("sec", r, TRUE, "HIGH") : r \in {q \in SecKept(rows) : InWindow(q.event)}})

(* AlpacaNewsDiscoveryAdapter: discovery only, never verified; what is     *)
(* newer than the retrieval but not than the cutoff is silently skipped.   *)
NewsKept(rows) == {r \in Range(rows) : /\ r.formed = "yes" /\ InWindow(r.event)
                                       /\ Known(r.event) /\ Known(r.published)}
CollectNews ==
    /\ Turn("news") /\ now <= Cutoff
    /\ \E rows \in Answer("news") :
         LET bad == {r \in Range(rows) : r.formed = "no" \/ r.published = NoTime}
             late == {r \in Range(rows) \ bad : r.event > Cutoff \/ r.published > Cutoff}
         IN Report("news",
                   IF late # {} THEN "EVIDENCE_CUTOFF_VIOLATION"
                   ELSE IF bad # {} THEN "INVALID_RESPONSE" ELSE "available",
                   {Item("news", r, FALSE, "UNKNOWN") : r \in NewsKept(rows)})

(* MacroCalendarAdapter, one calendar: rows are read in order, and the     *)
(* first row that is malformed or published too late ends the page; what   *)
(* earlier rows gave is kept.                                              *)
(* Mutant: a publication after the retrieval passes, if before the cutoff. *)
MacroTooLate(row) == row.formed = "no" \/ (row.published # NoTime /\ row.published > Cutoff)

MacroBad(row) == row.formed = "no" \/ (row.published # NoTime /\ ~Known(row.published))

MacroRead(rows) == IF \E i \in DOMAIN rows : MacroBad(rows[i])
                   THEN SubSeq(rows, 1, SelectInSeq(rows, MacroBad) - 1) ELSE rows

MacroVerdict(rows) ==
    CASE MacroRead(rows) = rows -> "available"
      [] OTHER -> LET row == rows[Len(MacroRead(rows)) + 1]
                  IN IF row.formed = "yes" /\ row.published > Cutoff
                     THEN "EVIDENCE_CUTOFF_VIOLATION" ELSE "INVALID_RESPONSE"
CollectMacro(s) ==
    /\ s \in MacroSource /\ Turn(s) /\ now <= Cutoff
    /\ \E rows \in Answer(s) :
         Report(s, MacroVerdict(rows),
                {Item(s, r, TRUE, Materiality[s]) :
                   r \in {q \in Range(MacroRead(rows)) : InWindow(q.event)}})

(* CompanyIrAdapter, one page: content without a time is unverified        *)
(* evidence; a page that names the company makes a verified event.         *)
CollectIr ==
    /\ Turn("ir") /\ now <= Cutoff
    /\ \/ Report("ir", "CONFIGURATION_INVALID", {})
       \/ \E row \in Row, named \in BOOLEAN :
            CASE row.formed = "no" -> Report("ir", "available", {Item("ir", row, FALSE, "none")})
              [] row.formed = "yes" /\ row.published # NoTime /\ ~Known(row.published) ->
                   Report("ir", "EVIDENCE_CUTOFF_VIOLATION", {})
              [] OTHER ->
                   Report("ir", "available",
                          IF ~InWindow(row.event) THEN {}
                          ELSE {Item("ir", row, named, IF named THEN "HIGH" ELSE "UNKNOWN")})

(* CompositeEventProvider: a provider that raises loses its collection and *)
(* is reported under its own name, as not required.  A provider reads its  *)
(* sources one after another; the macro provider loses every calendar.     *)
ProviderRaises(group) ==
    /\ unread # <<>> /\ Head(unread) \in group
    /\ unread' = SubSeq(unread, SelectLastInSeq(unread, LAMBDA s : s \in group) + 1, Len(unread))
    /\ health' = [s \in Sources |-> IF s \in group THEN "INTERNAL_ERROR" ELSE health[s]]
    /\ items' = {i \in items : i.source \notin group}
    /\ UNCHANGED <<now, assessed>>

Events == {i \in items : i.materiality # "none"}
TypeOf(s) == IF s \in MacroSource THEN "macro" ELSE s
Rivals(e) == {f \in Events : TypeOf(f.source) = TypeOf(e.source) /\ f.event = e.event}
Rank(m) == CASE m = "UNKNOWN" -> 0 [] m = "LOW" -> 1 [] m = "MEDIUM" -> 2 [] m = "HIGH" -> 3

(* One record per type and time: verified if any is, the gravest           *)
(* materiality, in conflict when its records compete.                      *)
Merge(e) ==
    LET group == Rivals(e)
    IN [verified |-> \E f \in group : f.verified,
        materiality |-> (CHOOSE f \in group : \A g \in group :
                           Rank(g.materiality) <= Rank(f.materiality)).materiality,
        conflict |-> Cardinality({<<f.verified, f.materiality>> : f \in group}) > 1,
        retrieved |-> {f.retrieved : f \in group}]
Merged == {Merge(e) : e \in Events}

Conservative == {"MEDIUM", "HIGH", "UNKNOWN"}
MacroHealth == {health[s] : s \in {t \in MacroSource : health[t] # "INTERNAL_ERROR"}}

(* assess_event_risk: its blocking gates, then its warnings.  A conflict   *)
(* is resolved only by a projection that ranks one side higher.            *)
(* Mutant: only calendars that reported a failure block.                   *)
BlocksOnReport(resolved, policy) ==
    \/ \E code \in MacroHealth : code # "available"
    \/ \E e \in Merged : /\ e.materiality \in Conservative
                          /\ \/ e.conflict /\ ~resolved
                             \/ ~e.verified /\ policy = "BLOCKED"

Blocks(resolved, policy) ==
    \/ MacroHealth = {}
    \/ \E code \in MacroHealth : code # "available"
    \/ \E e \in Merged :
         \/ e.conflict /\ e.materiality \in Conservative /\ ~resolved
         \/ \E t \in e.retrieved : t > Cutoff
         \/ ~e.verified /\ e.materiality \in Conservative /\ policy = "BLOCKED"

Warns == \E e \in Merged : ~e.verified /\ e.materiality \in Conservative

Assess ==
    /\ unread = <<>> /\ assessed = "none"
    /\ \E resolved \in BOOLEAN, policy \in {"REVIEW_REQUIRED", "BLOCKED"} :
         assessed' = IF Blocks(resolved, policy) THEN "BLOCKED"
                     ELSE IF Warns THEN "REVIEW_REQUIRED" ELSE "DRAFT"
    /\ UNCHANGED <<now, unread, items, health>>

EventTick == /\ unread # <<>> /\ now < LastInstant /\ now' = now + 1
             /\ UNCHANGED <<unread, items, health, assessed>>

EventNext ==
    \/ \E s \in Sources : Refused(s) \/ CollectMacro(s)
    \/ CollectSec \/ CollectNews \/ CollectIr
    \/ \E group \in {{"sec"}, {"news"}, {"ir"}, MacroSource} : ProviderRaises(group)
    \/ Assess \/ EventTick

EventSpec == EventInit /\ [][EventNext]_eventVars

-----------------------------------------------------------------------------

\* Whatever a provider serves and however long the reading takes, no
\* evidence was published, or retrieved, after the evidence cutoff, nor
\* published after its own retrieval (sec.py:254-262, alpaca_news.py:184-190,
\* macro.py:180-188, company_ir.py:193-197).
NoEvidenceFromTheFuture ==
    \A i \in items :
      /\ i.retrieved <= Cutoff
      /\ i.published # NoTime => i.published <= Cutoff /\ i.published <= i.retrieved

\* A plan is only drafted on event evidence when every required macro
\* calendar was read to its end: an outage, a late row or a provider that
\* raised half-way never ends as "no events", and nothing unverified is left
\* (events.py:44-69, 107-112; domain/events.py:73-95, 165-230).
DraftMeansCalendarsWereRead ==
    assessed = "DRAFT" =>
      /\ \A s \in MacroSource : health[s] = "available"
      /\ \A e \in Events : e.verified \/ e.materiality \notin Conservative
====
