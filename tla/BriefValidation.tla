---------------------------- MODULE BriefValidation ----------------------------
(***************************************************************************)
(* A brief from its draft to its Markdown report (domain/validation.py,    *)
(* application/report_renderer.py).                                        *)
(*                                                                         *)
(* A model writes claims about a frozen packet: claims cite evidence and   *)
(* metrics, support one another, state numbers, and are placed in the      *)
(* report's sections.  The validator lists what is wrong with the draft; a *)
(* draft without an issue is rendered.  Attempts and repairs are those of  *)
(* RunLifecycle.                                                           *)
(*                                                                         *)
(* A text is what the validator's regular expressions find in it: the kinds*)
(* of prohibited words, numbers, units and URLs; "says" identifies it.     *)
(***************************************************************************)
EXTENDS Integers, Sequences, FiniteSets, FiniteSetsExt, SequencesExt

CONSTANTS
    Packet,           \* the frozen research packet
    ExecutiveSections, DetailedSections,  \* required sections, in order
    Affected,         \* the sections a disabled capability limits
    Frame,            \* what a draft is besides claims, narratives and warnings
    ClaimForm,        \* claims a model may write
    SizeField,        \* the field names with "siz" in them
    Placement,        \* sections it may put them in
    NarrativeForm,    \* plan narratives it may write
    Warning,          \* texts of data warnings it may write
    MaxParts,         \* bound of the checker on what it writes into a draft
    Nothing           \* None

\* The outcome of a call that raises.
Raised == [raised |-> TRUE]

\* What the types of a draft and of a packet demand: sections in an order, one of
\* four claim types, a claim in every narrative, metrics made from evidence of the
\* packet; and a required section that discloses.
ASSUME BriefAssumption ==
    /\ Nothing \notin {{}, Raised}
    /\ "position_size" \in SizeField /\ {"suggested_units", Nothing} \intersect SizeField = {}
    /\ \A f \in Frame : /\ f.executive \in Seq(Range(f.executive))
                        /\ f.detailed \in Seq(Range(f.detailed))
    /\ \A c \in ClaimForm : c.type \in {"FACT", "CALCULATION", "INFERENCE", "HYPOTHESIS"}
    /\ \A n \in NarrativeForm : Range(n.claims) # {}
    /\ \A m \in Range(Packet.metrics) : m.inputs \subseteq DOMAIN Packet.evidence
    /\ {"warnings", "quality"} \intersect (Range(ExecutiveSections) \union Range(DetailedSections)) # {}

VARIABLES
    draft,            \* the ResearchBriefDraft, Nothing before it is begun
    issues,           \* what the validator found, Nothing before it looked
    report            \* the rendered report, Raised or Nothing

briefVars == <<draft, issues, report>>

Sections(d) == d.executive \o d.detailed
Placements(d) == UNION {Range(s.claims) : s \in Range(Sections(d))}

--------------------------------------------------------------------------------
(* The claim graph.                                                           *)

\* The claims by id; of claims with one id the first.
ById(d) ==
    [id \in {c.id : c \in Range(d.claims)} |->
        d.claims[Min({i \in DOMAIN d.claims : d.claims[i].id = id})]]

\* The claims among the given ones or below them in the graph: the smallest set of
\* them that no support leads out of. The code collects it with a list of pending ids.
Closure(claims, ids) ==
    {id \in DOMAIN claims :
        \A T \in SUBSET DOMAIN claims :
            /\ ids \intersect DOMAIN claims \subseteq T
            /\ \A t \in T : claims[t].supports \intersect DOMAIN claims \subseteq T
            => id \in T}

\* Mutant: a validator that looks at one claim at a time.
SelfSupporting(claims) == {id \in DOMAIN claims : id \in claims[id].supports}

\* visit(), a depth-first walk from every claim, meets a claim it is still below
\* exactly when some claim supports itself, directly or through others.
Cyclic(claims) == {id \in DOMAIN claims : id \in Closure(claims, claims[id].supports)}

Issue(code, broken) == IF broken THEN {code} ELSE {}

\* _claim_graph
GraphIssues(d) ==
    Issue("duplicate claim id",
          \E i, j \in DOMAIN d.claims : i # j /\ d.claims[i].id = d.claims[j].id)
    \union Issue("missing support",
                 \E c \in Range(d.claims) : ~(c.supports \subseteq DOMAIN ById(d)))
    \union Issue("cycle", Cyclic(ById(d)) # {})

ReachableSources(claims, c) ==
    c.evidence \union UNION {claims[id].evidence : id \in Closure(claims, c.supports)}

--------------------------------------------------------------------------------
(* What a claim may cite, and the numbers it may state.  A number is an       *)
(* amount and the places it is written with; Decimal equality is that of the  *)
(* amounts.                                                                   *)

FieldSupported(c, e) == c.field # Nothing /\ c.field \in DOMAIN e.fields

\* _evidence_relevant: subject, field and time. The two ends of the time may be
\* met by different times of the item.
EvidenceRelevant(c, e) ==
    /\ c.subject # Nothing =>
           (IF e.instrument # Nothing THEN e.instrument ELSE e.about) = c.subject
    /\ FieldSupported(c, e)
    /\ c.start # Nothing => \E t \in e.times : t >= c.start
    /\ c.end # Nothing => \E t \in e.times : t <= c.end

\* _decimal_values: the numbers in the leaves of a structured value, in its numbers
\* and its texts; True and False are no numbers.
DecimalValues(value) == UNION {leaf.amounts : leaf \in {l \in value : l.is # "flag"}}

PlanNumericBinding(c, p) ==
    IF c.field \in {"position_size", "suggested_units"}
    THEN IF p.units = Nothing THEN {} ELSE {<<p.units, "shares">>}
    ELSE {p.bound[field] : field \in {c.field} \intersect DOMAIN p.bound}

\* The amounts and units a claim is bound to by itself: the evidence it reaches,
\* the metrics and the plan it names.
EvidenceBindings(claims, c) ==
    LET sources == {Packet.evidence[id] :
                       id \in ReachableSources(claims, c) \intersect DOMAIN Packet.evidence}
        supported == {e \in sources : FieldSupported(c, e) /\ e.fields[c.field].unit # Nothing}
    IN  UNION {DecimalValues(e.fields[c.field].value) \X {e.fields[c.field].unit} :
                   e \in supported}

MetricBindings(c) ==
    LET measured == {Packet.metrics[id] : id \in c.metrics \intersect DOMAIN Packet.metrics}
    IN  {<<m.value.amount, m.unit>> :
            m \in {n \in measured : n.value # Nothing /\ n.name = c.field}}

OwnBindings(claims, c) ==
    EvidenceBindings(claims, c) \union MetricBindings(c)
    \union UNION {PlanNumericBinding(c, Packet.plans[id]) :
                     id \in {c.plan} \intersect DOMAIN Packet.plans}

\* _numeric_bindings: also what supporting claims of the same field and unit are
\* bound to, through claims of that field and unit only.
NumericBindings(claims, c) ==
    LET alike == {id \in DOMAIN claims : claims[id].field = c.field /\ claims[id].unit = c.unit}
        inherited == Closure([id \in alike |-> claims[id]], c.supports)
    IN  OwnBindings(claims, c) \union UNION {OwnBindings(claims, claims[id]) : id \in inherited}

--------------------------------------------------------------------------------
(* The issues of a single claim, in the order of _validate_claims.            *)

\* Mutant: only citations are looked up.
UnknownCited(c) == c.evidence \ DOMAIN Packet.evidence

\* Ids of evidence or counter-evidence that the packet does not have.
UnknownEvidence(c) == (c.evidence \union Range(c.counter)) \ DOMAIN Packet.evidence

\* References, and the basis each type of claim needs.
BasisIssues(d, c) ==
    LET placed == UNION {Range(s.claims) : s \in Range(Sections(d) \o d.narratives)}
    IN  Issue("unreachable claim", c.id \notin placed)
        \union Issue("unknown evidence", UnknownEvidence(c) # {})
        \union Issue("unknown metric", ~(c.metrics \subseteq DOMAIN Packet.metrics))
        \union Issue("unsupported claim",
                     \/ c.type = "FACT" /\ c.evidence = {}
                     \/ c.type = "CALCULATION" /\ c.metrics = {}
                     \/ c.type \in {"INFERENCE", "HYPOTHESIS"}
                            /\ c.supports \union c.evidence \union c.metrics = {})
        \union Issue("counter-evidence omitted",
                     /\ c.type = "HYPOTHESIS"
                     /\ c.counter = <<>> \/ c.invalidation = Nothing \/ c.expires = Nothing)

\* A claim about a plan repeats what the plan says of itself.
PlanIssues(c) ==
    IF c.plan \notin DOMAIN Packet.plans
    THEN Issue("unsupported claim", c.plan # Nothing)
         \union Issue("blocked plan overclaim",
                      c.planStatus \in {"BLOCKED", "EXPIRED"} /\ "actionable" \in c.text.words)
    ELSE LET p == Packet.plans[c.plan]
         IN  Issue("invalid plan state", c.planStatus # p.status)
             \union Issue("counter-evidence omitted", c.counter # p.counter)
             \union Issue("expiry or invalidation missing",
                          c.invalidation # p.invalidation \/ c.expires # p.expires)
             \union Issue("unsupported sizing",
                          /\ c.field \in SizeField
                          /\ \/ p.units = Nothing
                             \/ c.value = Nothing
                             \/ c.value.amount # p.units)
             \union Issue("blocked plan overclaim",
                          p.status \in {"BLOCKED", "EXPIRED"} /\ "actionable" \in c.text.words)

\* A calculation reaches the inputs of its metrics and states their exact value.
CalculationIssues(claims, c) ==
    LET metrics == {Packet.metrics[id] : id \in c.metrics \intersect DOMAIN Packet.metrics}
        inputs == UNION {m.inputs : m \in metrics}
    IN  IF c.type # "CALCULATION" THEN {}
        ELSE Issue("metric input omitted", ~(inputs \subseteq ReachableSources(claims, c)))
             \union Issue("deterministic value mismatch",
                          \E m \in metrics : \/ m.value = Nothing \/ c.value = Nothing
                                             \/ m.value # c.value
                                             \/ m.unit # c.unit)

\* Cited evidence is relevant and of the strongest authority the packet has.
CitationIssues(c) ==
    LET relevant == {e \in Range(Packet.evidence) : EvidenceRelevant(c, e)}
        cited == {Packet.evidence[id] : id \in c.evidence \intersect DOMAIN Packet.evidence}
        counter == {Packet.evidence[id] :
                       id \in Range(c.counter) \intersect DOMAIN Packet.evidence}
    IN  Issue("irrelevant citation",
              \/ /\ c.type # "CALCULATION"
                 /\ \E e \in cited : e \notin relevant \/ \E s \in relevant : s.tier < e.tier
              \/ /\ c.subject # Nothing
                 /\ \E e \in counter : e.instrument \notin {Nothing, c.subject})

SingleExchange ==
    "single_exchange" \in {e.coverage : e \in Range(Packet.evidence)} \union Packet.snapshots

\* Prohibited words, overclaimed coverage, URLs that are not cited.
TextIssues(c) ==
    LET cited == {Packet.evidence[id].url : id \in c.evidence \intersect DOMAIN Packet.evidence}
    IN  Issue("imperative", "imperative" \in c.text.words)
        \union Issue("coverage overclaim", "full market" \in c.text.words /\ SingleExchange)
        \union Issue("unsupported claim", ~(c.text.urls \subseteq cited))

\* A number is bound to its source, has its unit in the text, and is written
\* everywhere in the text as the claim states it.
NumberIssues(claims, c) ==
    Issue("deterministic value mismatch",
          \/ /\ c.text.numbers # {} \/ c.value # Nothing
             /\ \/ c.value = Nothing \/ c.unit = Nothing
                \/ <<c.value.amount, c.unit>> \notin NumericBindings(claims, c)
                \/ c.unit \notin c.text.units
          \/ \E n \in c.text.numbers : n # c.value)

ClaimIssues(d, c) ==
    BasisIssues(d, c) \union PlanIssues(c) \union CalculationIssues(ById(d), c)
    \union CitationIssues(c) \union TextIssues(c) \union NumberIssues(ById(d), c)

--------------------------------------------------------------------------------
(* The issues of the draft as a whole.                                        *)

\* A narrative repeats the texts of its claims, all of them about its plan.
Repeats(claims, n) == n.text = [i \in DOMAIN n.claims |-> claims[n.claims[i]].text]

NarrativeIssue(claims, n) ==
    (IF ~(Range(n.claims) \subseteq DOMAIN claims) THEN {"missing narrative claim"}
     ELSE Issue("unsupported narrative",
                ~Repeats(claims, n) \/ \E id \in Range(n.claims) : claims[id].plan # n.plan))
    \union Issue("unsupported narrative", n.plan \notin DOMAIN Packet.plans)
    \union Issue("imperative", \E t \in Range(n.text) : "imperative" \in t.words)

NarrativeIssues(d) == UNION {NarrativeIssue(ById(d), n) : n \in Range(d.narratives)}

\* A data warning repeats a gate's message or a claim.
WarningIssues(d) ==
    LET known == Packet.gates \union {c.text : c \in Range(d.claims)}
    IN  Issue("unsupported warning", ~(d.warnings \subseteq known))
        \union Issue("imperative", \E w \in d.warnings : "imperative" \in w.words)

\* Every candidate is in the dashboard with its status, every excluded symbol
\* among the exclusions with one of its reasons.
CoverageIssues(d) ==
    LET claims == ById(d)
        InSection(name) ==
            UNION {{claims[id] : id \in Range(s.claims) \intersect DOMAIN claims} :
                       s \in {t \in Range(d.detailed) : t.section = name}}
        Represented(symbol, states, name) ==
            \E c \in InSection(name), state \in states :
                c.subject = symbol /\ c.text.says = <<symbol, state>>
    IN  Issue("watchlist coverage missing",
              \/ \E x \in Packet.candidates : ~Represented(x.symbol, {x.status}, "dashboard")
              \/ \E x \in Packet.exclusions : ~Represented(x.symbol, x.reasons, "exclusions"))

\* Identity, statuses, the exact sections in their order, and exactly the
\* disabled capabilities with their reasons.
FrameIssues(d) ==
    LET Names(sections) == [i \in DOMAIN sections |-> sections[i].section]
    IN  Issue("run id mismatch", d.run # Packet.run)
        \union Issue("status overclaim", d.statuses # Packet.statuses)
        \union Issue("required sections", \/ Names(d.executive) # ExecutiveSections
                                          \/ Names(d.detailed) # DetailedSections)
        \union Issue("disabled capability omitted",
                     ~(DOMAIN Packet.disabled \subseteq {x.capability : x \in Range(d.explanations)}))
        \union Issue("invalid capability state",
                     \/ \E i, j \in DOMAIN d.explanations :
                            i # j /\ d.explanations[i].capability = d.explanations[j].capability
                     \/ \E x \in Range(d.explanations) :
                            \/ x.capability \notin DOMAIN Packet.disabled
                            \/ x.reasons # Packet.disabled[x.capability])

\* validate_research_brief
Issues(d) ==
    FrameIssues(d) \union GraphIssues(d) \union NarrativeIssues(d) \union WarningIssues(d)
    \union UNION {ClaimIssues(d, c) : c \in Range(d.claims)} \union CoverageIssues(d)

--------------------------------------------------------------------------------
(* Rendering.                                                                 *)

\* _claim_line and its context lines.
ClaimLine(c) ==
    [claim |-> c.id, cites |-> c.evidence \union c.metrics, counter |-> Range(c.counter),
     status |-> c.planStatus, invalidation |-> c.invalidation, expires |-> c.expires]

\* _plan_narrative_lines: a narrative cites what its claims rest on.
NarrativeLine(claims, n) ==
    [plan |-> n.plan, text |-> n.text,
     cites |-> UNION {claims[id].evidence \union claims[id].metrics :
                         id \in Closure(claims, Range(n.claims))},
     context |-> {ClaimLine(claims[id]) : id \in Range(n.claims)}]

\* A section of the report: what limits it, its claims, and what is disclosed
\* in the sections that list warnings, disabled capabilities and narratives.
RenderedSection(d, s) ==
    LET claims == ById(d)
    IN  [section |-> s.section,
         limitations |-> {x \in DOMAIN Packet.disabled : s.section \in Affected[x]},
         lines |-> [i \in DOMAIN s.claims |-> ClaimLine(claims[s.claims[i]])],
         warnings |-> IF s.section = "warnings" THEN d.warnings ELSE {},
         disabled |-> IF s.section \in {"warnings", "quality"} 
                     THEN {x.capability : x \in Range(d.explanations)} ELSE {},
         narratives |-> IF s.section = "plans"
                        THEN [i \in DOMAIN d.narratives |-> NarrativeLine(claims, d.narratives[i])]
                        ELSE <<>>]

\* Ids below the given ones, those without a claim included.
Named(claims, ids) == ids \union UNION {claims[id].supports : id \in Closure(claims, ids)}

\* The claims the renderer looks up. It raises where the draft has no such claim:
\* the validator looks at those of narratives and of supports only.
LookedUp(d) ==
    Placements(d) \union UNION {Named(ById(d), Range(n.claims)) : n \in Range(d.narratives)}

Rendered(d) == [i \in DOMAIN Sections(d) |-> RenderedSection(d, Sections(d)[i])]

--------------------------------------------------------------------------------
(* The draft's way.                                                           *)

BriefInit ==
    /\ draft = Nothing
    /\ issues = Nothing
    /\ report = Nothing

\* The model begins with the run, the statuses, the sections and the disclosures.
WriteFrame ==
    /\ draft = Nothing
    /\ \E f \in Frame :
           draft' = [run |-> f.run, statuses |-> f.statuses, executive |-> f.executive,
                     detailed |-> f.detailed, explanations |-> f.explanations,
                     claims |-> <<>>, narratives |-> <<>>, warnings |-> {}]
    /\ UNCHANGED <<issues, report>>

Writing ==
    /\ draft # Nothing
    /\ issues = Nothing
    /\ Len(draft.claims) + Len(draft.narratives) + Cardinality(draft.warnings) < MaxParts

\* Puts an id at the end of a section's claims.
Placed(sections, name, id) ==
    [i \in DOMAIN sections |->
        IF sections[i].section = name
        THEN [sections[i] EXCEPT !.claims = Append(@, id)] ELSE sections[i]]

\* The model writes a claim and places it, or forgets to. Claims are written in
\* the order of their ids; no check depends on it.
WriteClaim ==
    /\ Writing
    /\ \E c \in ClaimForm, name \in Placement :
           /\ \A b \in Range(draft.claims) : b.id <= c.id
           /\ draft' = [draft EXCEPT !.claims = Append(@, c),
                                     !.executive = Placed(@, name, c.id),
                                     !.detailed = Placed(@, name, c.id)]
    /\ UNCHANGED <<issues, report>>

WriteNarrative ==
    /\ Writing
    /\ \E n \in NarrativeForm : draft' = [draft EXCEPT !.narratives = Append(@, n)]
    /\ UNCHANGED <<issues, report>>

WriteWarning ==
    /\ Writing
    /\ \E w \in Warning : draft' = [draft EXCEPT !.warnings = @ \union {w}]
    /\ UNCHANGED <<issues, report>>

ValidateBrief ==
    /\ draft # Nothing
    /\ issues = Nothing
    /\ issues' = Issues(draft)
    /\ UNCHANGED <<draft, report>>

\* render_markdown_report, which validates again and finds the same.
Render ==
    /\ issues = {}
    /\ report = Nothing
    /\ report' = IF LookedUp(draft) \subseteq DOMAIN ById(draft)
                 THEN [sections |-> Rendered(draft)] ELSE Raised
    /\ UNCHANGED <<draft, issues>>

BriefNext ==
    WriteFrame \/ WriteClaim \/ WriteNarrative \/ WriteWarning \/ ValidateBrief \/ Render

BriefSpec == BriefInit /\ [][BriefNext]_briefVars

--------------------------------------------------------------------------------
\* What the packet has: the sources behind a claim, and every number it gives for
\* a field in a unit.
SourcesBehind(c) ==
    LET claims == ById(draft)
    IN  UNION {(claims[id].evidence \intersect DOMAIN Packet.evidence) \union
               (claims[id].metrics \intersect DOMAIN Packet.metrics) :
                   id \in Closure(claims, {c.id})}

InPacket(field, amount, unit) ==
    \/ \E e \in Range(Packet.evidence) :
           /\ field \in DOMAIN e.fields
           /\ e.fields[field].unit = unit
           /\ amount \in DecimalValues(e.fields[field].value)
    \/ \E m \in Range(Packet.metrics) :
           m.name = field /\ m.unit = unit /\ m.value # Nothing /\ m.value.amount = amount
    \/ \E p \in Range(Packet.plans) :
           \/ field \in DOMAIN p.bound /\ p.bound[field] = <<amount, unit>>
           \/ field \in {"position_size", "suggested_units"} /\ <<p.units, "shares">> = <<amount, unit>>

\* Whatever a report says rests on its packet: every claim shown leads through the
\* claims that support it to evidence or metrics of the packet, and the numbers in
\* it are numbers the packet gives for that field and unit (_validate_claims checks
\* one claim at a time; _claim_graph alone knows of cycles); a plan's narrative
\* cites sources, shows the plan's own status and its counter-evidence; every
\* disabled capability is disclosed.
ReportIsGrounded ==
    report \notin {Nothing, Raised} =>
        /\ \A s \in Range(report.sections) :
              /\ \A i \in DOMAIN s.lines :
                    LET c == ById(draft)[s.lines[i].claim]
                    IN  /\ SourcesBehind(c) # {}
                        /\ \A n \in c.text.numbers \union ({c.value} \ {Nothing}) :
                              InPacket(c.field, n.amount, c.unit)
              /\ \A n \in Range(s.narratives) :
                    /\ n.cites # {}
                    /\ \A line \in n.context :
                          /\ line.status = Packet.plans[n.plan].status
                          /\ line.counter = Range(Packet.plans[n.plan].counter)
        /\ \A x \in DOMAIN Packet.disabled : \E s \in Range(report.sections) : x \in s.disabled

================================================================================
