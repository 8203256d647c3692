------------------------------ MODULE BriefProofs ------------------------------
(***************************************************************************)
(* What holds of a brief and of its review sample, for all packets, claims,*)
(* narratives and sections.                                                *)
(*                                                                         *)
(* The validator looks at one claim at a time.  That every claim leads to  *)
(* sources of the packet follows because the claim graph is finite and     *)
(* has no circle: among the claims below one, take the one with the fewest *)
(* below it.                                                               *)
(*                                                                         *)
(* The sampler keeps one state per key.  That it loses nothing by it       *)
(* follows because candidates that two sets do not share decide between    *)
(* them before and after one more candidate joins both.                    *)
(***************************************************************************)
EXTENDS CitationSampling, FiniteSetTheorems, SequenceTheorems, WellFoundedInduction, TLAPS

LEMMA LeastExists ==
  ASSUME NEW S \in SUBSET Nat, S # {}
  PROVE  \E x \in S : \A y \in S : x <= y
<1>1. PICK x \in S : \A y \in S : <<y, x>> \notin OpToRel(<, Nat)
  BY WFMin, NatLessThanWellFounded
<1>2. \A y \in S : ~(y < x)
  BY <1>1 DEF OpToRel
<1> QED BY <1>2

(***************************************************************************)
(* The claim graph                                                         *)
(***************************************************************************)

\* A set of claims no support leads out of.
SupportsWithin(claims, T) == \A t \in T : claims[t].supports \intersect DOMAIN claims \subseteq T

LEMMA ClosureIsLeast ==
  ASSUME NEW claims, NEW ids
  PROVE  /\ Closure(claims, ids) \subseteq DOMAIN claims
         /\ ids \intersect DOMAIN claims \subseteq Closure(claims, ids)
         /\ SupportsWithin(claims, Closure(claims, ids))
         /\ \A T \in SUBSET DOMAIN claims :
               ids \intersect DOMAIN claims \subseteq T /\ SupportsWithin(claims, T)
               => Closure(claims, ids) \subseteq T
<1>1. /\ Closure(claims, ids) \subseteq DOMAIN claims
      /\ ids \intersect DOMAIN claims \subseteq Closure(claims, ids)
  BY DEF Closure
<1>2. \A T \in SUBSET DOMAIN claims :
        ids \intersect DOMAIN claims \subseteq T /\ SupportsWithin(claims, T)
        => Closure(claims, ids) \subseteq T
  BY DEF Closure, SupportsWithin
<1>3. SupportsWithin(claims, Closure(claims, ids))
  <2> SUFFICES ASSUME NEW t \in Closure(claims, ids),
                      NEW s \in claims[t].supports \intersect DOMAIN claims
               PROVE  s \in Closure(claims, ids)
    BY DEF SupportsWithin
  <2> SUFFICES ASSUME NEW T \in SUBSET DOMAIN claims,
                      ids \intersect DOMAIN claims \subseteq T, SupportsWithin(claims, T)
               PROVE  s \in T
    BY DEF Closure, SupportsWithin
  <2>1. t \in T
    BY <1>2
  <2> QED BY <2>1 DEF SupportsWithin
<1> QED BY <1>1, <1>2, <1>3

\* What is below a claim of a closed set is in the set.
LEMMA ClosureStaysWithin ==
  ASSUME NEW claims, NEW K \in SUBSET DOMAIN claims, SupportsWithin(claims, K),
         NEW k \in K
  PROVE  Closure(claims, claims[k].supports) \subseteq K
BY ClosureIsLeast DEF SupportsWithin

\* In a finite graph without a circle every closed set has a claim without supports.
LEMMA SomeClaimRestsOnNone ==
  ASSUME NEW claims, IsFiniteSet(DOMAIN claims), Cyclic(claims) = {},
         NEW K \in SUBSET DOMAIN claims, K # {}, SupportsWithin(claims, K)
  PROVE  \E k \in K : claims[k].supports \intersect DOMAIN claims = {}
<1> DEFINE Below(k) == Closure(claims, claims[k].supports)
           Sizes == {Cardinality(Below(k)) : k \in K}
<1>1. \A k \in K : IsFiniteSet(Below(k)) /\ Cardinality(Below(k)) \in Nat
  BY ClosureIsLeast, FS_Subset, FS_CardinalityType
<1>2. PICK n \in Sizes : \A m \in Sizes : n <= m
  <2>1. Sizes \in SUBSET Nat /\ Sizes # {}
    BY <1>1
  <2> HIDE DEF Sizes
  <2> QED BY <2>1, LeastExists
<1>3. PICK k \in K : n = Cardinality(Below(k))
  BY <1>2
<1>4. ASSUME NEW s \in claims[k].supports \intersect DOMAIN claims PROVE FALSE
  <2>1. s \in Below(k) /\ s \in K /\ Below(k) \subseteq DOMAIN claims
    BY <1>4, ClosureIsLeast DEF SupportsWithin
  <2>2. Below(s) \subseteq Below(k)
    BY <2>1, ClosureIsLeast, ClosureStaysWithin
  <2>3. s \notin Below(s)
    BY <1>4 DEF Cyclic
  <2>4. PICK a, b : a = Below(s) /\ b = Below(k)
    OBVIOUS
  <2>5. /\ IsFiniteSet(a) /\ IsFiniteSet(b) /\ Cardinality(a) \in Nat /\ Cardinality(b) \in Nat
        /\ a \in SUBSET b /\ a # b
        /\ Cardinality(b) <= Cardinality(a)
    BY <1>1, <1>2, <1>3, <2>1, <2>2, <2>3, <2>4
  <2>6. Cardinality(a) <= Cardinality(b) /\ (Cardinality(b) = Cardinality(a) => b = a)
    BY <2>5, FS_Subset
  <2> QED BY <2>5, <2>6
<1> QED BY <1>4

(***************************************************************************)
(* A draft the validator finds nothing wrong with                          *)
(***************************************************************************)

DraftOK(d) ==
  /\ d = [run |-> d.run, statuses |-> d.statuses, executive |-> d.executive,
          detailed |-> d.detailed, explanations |-> d.explanations, claims |-> d.claims,
          narratives |-> d.narratives, warnings |-> d.warnings]
  /\ d.executive \in Seq(Range(d.executive)) /\ d.detailed \in Seq(Range(d.detailed))
  /\ d.claims \in Seq(ClaimForm) /\ d.narratives \in Seq(NarrativeForm)

LEMMA IssueIsRaised ==
  ASSUME NEW code, NEW broken, Issue(code, broken) = {}
  PROVE  ~broken
BY DEF Issue

\* The claims by id are finitely many claims of the draft, each under its id.
LEMMA ClaimsById ==
  ASSUME NEW d, DraftOK(d)
  PROVE  /\ IsFiniteSet(DOMAIN ById(d))
         /\ \A id \in DOMAIN ById(d) : /\ ById(d)[id] \in Range(d.claims)
                                       /\ ById(d)[id] \in ClaimForm
                                       /\ ById(d)[id].id = id
<1>1. PICK n \in Nat : d.claims \in [1..n -> ClaimForm]
  BY LenProperties DEF DraftOK
<1>2. Range(d.claims) = {d.claims[i] : i \in 1..n} /\ Range(d.claims) \subseteq ClaimForm
  BY <1>1 DEF Range
<1>3. DOMAIN ById(d) = {c.id : c \in Range(d.claims)}
  BY DEF ById
<1>4. IsFiniteSet(DOMAIN ById(d))
  <2>1. DOMAIN ById(d) = {d.claims[i].id : i \in 1..n}
    BY <1>2, <1>3
  <2>2. [i \in 1..n |-> d.claims[i].id] \in Surjection(1..n, DOMAIN ById(d))
    BY <2>1 DEF Surjection
  <2> QED BY <2>2, FS_NatSurjection DEF ExistsSurjection
<1>5. ASSUME NEW id \in DOMAIN ById(d)
      PROVE  /\ ById(d)[id] \in Range(d.claims) /\ ById(d)[id] \in ClaimForm
             /\ ById(d)[id].id = id
  <2> DEFINE At == {i \in DOMAIN d.claims : d.claims[i].id = id}
  <2>1. At # {} /\ At \in SUBSET Nat
    BY <1>1, <1>2, <1>3, <1>5
  <2>2. PICK i \in At : \A j \in At : i <= j
    <3> HIDE DEF At
    <3> QED BY <2>1, LeastExists
  <2>3. Min(At) \in At
    <3> HIDE DEF At
    <3> QED BY <2>2 DEF Min
  <2>4. ById(d)[id] = d.claims[Min(At)]
    BY <1>3, <1>5 DEF ById
  <2> HIDE DEF ById
  <2> QED BY <1>1, <1>2, <2>3, <2>4
<1> QED BY <1>4, <1>5

LEMMA ValidDraft ==
  ASSUME NEW d, Issues(d) = {}
  PROVE  /\ Cyclic(ById(d)) = {}
         /\ \A i, j \in DOMAIN d.claims : i # j => d.claims[i].id # d.claims[j].id
         /\ \A c \in Range(d.claims) : c.supports \subseteq DOMAIN ById(d) /\ ClaimIssues(d, c) = {}
         /\ \A n \in Range(d.narratives) : NarrativeIssue(ById(d), n) = {}
         /\ FrameIssues(d) = {}
<1>1. /\ GraphIssues(d) = {} /\ NarrativeIssues(d) = {} /\ FrameIssues(d) = {}
      /\ \A c \in Range(d.claims) : ClaimIssues(d, c) = {}
  BY Zenon DEF Issues
<1>2. /\ Issue("duplicate claim id",
               \E i, j \in DOMAIN d.claims : i # j /\ d.claims[i].id = d.claims[j].id) = {}
      /\ Issue("missing support", \E c \in Range(d.claims) : ~(c.supports \subseteq DOMAIN ById(d))) = {}
      /\ Issue("cycle", Cyclic(ById(d)) # {}) = {}
  BY <1>1, Zenon DEF GraphIssues
<1>3. \A n \in Range(d.narratives) : NarrativeIssue(ById(d), n) = {}
  BY <1>1 DEF NarrativeIssues
<1> QED BY <1>1, <1>2, <1>3, IssueIsRaised

\* What the validator demands of each claim.
Sound(d, c) ==
  /\ c.evidence \subseteq DOMAIN Packet.evidence /\ c.metrics \subseteq DOMAIN Packet.metrics
  /\ Range(c.counter) \subseteq DOMAIN Packet.evidence
  /\ c.type = "FACT" => c.evidence # {}
  /\ c.type = "CALCULATION" => c.metrics # {}
  /\ c.type \in {"INFERENCE", "HYPOTHESIS"} => c.supports \union c.evidence \union c.metrics # {}
  /\ c.plan \in DOMAIN Packet.plans => /\ c.planStatus = Packet.plans[c.plan].status
                                       /\ c.counter = Packet.plans[c.plan].counter
  /\ \A n \in c.text.numbers \union ({c.value} \ {Nothing}) :
        n = c.value /\ <<c.value.amount, c.unit>> \in NumericBindings(ById(d), c)

LEMMA ValidClaim ==
  ASSUME NEW d, NEW c, ClaimIssues(d, c) = {}
  PROVE  Sound(d, c)
<1>1. BasisIssues(d, c) = {} /\ PlanIssues(c) = {} /\ NumberIssues(ById(d), c) = {}
  BY Zenon DEF ClaimIssues
<1>2. /\ UnknownEvidence(c) = {} /\ c.metrics \subseteq DOMAIN Packet.metrics
      /\ ~(\/ c.type = "FACT" /\ c.evidence = {}
           \/ c.type = "CALCULATION" /\ c.metrics = {}
           \/ c.type \in {"INFERENCE", "HYPOTHESIS"}
                  /\ c.supports \union c.evidence \union c.metrics = {})
  <2>1. /\ Issue("unknown evidence", UnknownEvidence(c) # {}) = {}
        /\ Issue("unknown metric", ~(c.metrics \subseteq DOMAIN Packet.metrics)) = {}
        /\ Issue("unsupported claim",
                 \/ c.type = "FACT" /\ c.evidence = {}
                 \/ c.type = "CALCULATION" /\ c.metrics = {}
                 \/ c.type \in {"INFERENCE", "HYPOTHESIS"}
                        /\ c.supports \union c.evidence \union c.metrics = {}) = {}
    BY <1>1, Zenon DEF BasisIssues
  <2> QED BY <2>1, IssueIsRaised, Zenon
<1>3. ASSUME c.plan \in DOMAIN Packet.plans
      PROVE  /\ c.planStatus = Packet.plans[c.plan].status
             /\ c.counter = Packet.plans[c.plan].counter
  <2>1. /\ Issue("invalid plan state", c.planStatus # Packet.plans[c.plan].status) = {}
        /\ Issue("counter-evidence omitted", c.counter # Packet.plans[c.plan].counter) = {}
    BY <1>1, <1>3, Zenon DEF PlanIssues
  <2> QED BY <2>1, IssueIsRaised, Zenon
<1>4. ASSUME NEW n \in c.text.numbers \union ({c.value} \ {Nothing})
      PROVE  n = c.value /\ <<c.value.amount, c.unit>> \in NumericBindings(ById(d), c)
  <2>1. ~ \/ /\ c.text.numbers # {} \/ c.value # Nothing
             /\ \/ c.value = Nothing \/ c.unit = Nothing
                \/ <<c.value.amount, c.unit>> \notin NumericBindings(ById(d), c)
                \/ c.unit \notin c.text.units
          \/ \E m \in c.text.numbers : m # c.value
    BY <1>1, IssueIsRaised, Zenon DEF NumberIssues
  <2> QED BY <1>4, <2>1
<1> QED BY <1>2, <1>3, <1>4 DEF Sound, UnknownEvidence

(***************************************************************************)
(* What a valid draft rests on                                             *)
(***************************************************************************)

LEMMA SomeClaimHasASource ==
  ASSUME NEW d, DraftOK(d), Issues(d) = {},
         NEW K \in SUBSET DOMAIN ById(d), K # {}, SupportsWithin(ById(d), K)
  PROVE  \E k \in K : (ById(d)[k].evidence \intersect DOMAIN Packet.evidence)
                      \union (ById(d)[k].metrics \intersect DOMAIN Packet.metrics) # {}
<1>1. PICK claims : claims = ById(d)
  OBVIOUS
<1>2. PICK k \in K : claims[k].supports \intersect DOMAIN claims = {}
  BY <1>1, ClaimsById, ValidDraft, SomeClaimRestsOnNone
<1>3. PICK c : c = claims[k]
  OBVIOUS
<1>4. c \in Range(d.claims) /\ c \in ClaimForm
  BY <1>1, <1>3, ClaimsById
<1>5. c.supports \subseteq DOMAIN claims /\ ClaimIssues(d, c) = {}
  BY <1>1, <1>4, ValidDraft
<1>6. Sound(d, c)
  BY <1>5, ValidClaim
<1>7. c.supports = {}
  BY <1>2, <1>3, <1>5
<1>8. c.type \in {"FACT", "CALCULATION", "INFERENCE", "HYPOTHESIS"}
  BY <1>4, BriefAssumption
<1>9. c.evidence \union c.metrics # {}
  BY <1>6, <1>7, <1>8 DEF Sound
<1>10. c.evidence \subseteq DOMAIN Packet.evidence /\ c.metrics \subseteq DOMAIN Packet.metrics
  BY <1>6 DEF Sound
<1> QED BY <1>1, <1>3, <1>9, <1>10

LEMMA SourcesBelow ==
  ASSUME NEW d, DraftOK(d), Issues(d) = {},
         NEW ids, ids \intersect DOMAIN ById(d) # {}
  PROVE  UNION {(ById(d)[id].evidence \intersect DOMAIN Packet.evidence) \union
                (ById(d)[id].metrics \intersect DOMAIN Packet.metrics) :
                   id \in Closure(ById(d), ids)} # {}
<1>1. PICK K : K = Closure(ById(d), ids)
  OBVIOUS
<1>2. K \in SUBSET DOMAIN ById(d) /\ K # {} /\ SupportsWithin(ById(d), K)
  BY <1>1, ClosureIsLeast
<1>3. PICK k \in K : (ById(d)[k].evidence \intersect DOMAIN Packet.evidence)
                     \union (ById(d)[k].metrics \intersect DOMAIN Packet.metrics) # {}
  BY <1>2, SomeClaimHasASource
<1> QED BY <1>1, <1>3

LEMMA OwnBindingsAreInPacket ==
  ASSUME NEW claims, NEW c, NEW a, NEW u, <<a, u>> \in OwnBindings(claims, c)
  PROVE  InPacket(c.field, a, u)
<1>1. \/ \E e \in Range(Packet.evidence) :
            /\ FieldSupported(c, e)
            /\ <<a, u>> \in DecimalValues(e.fields[c.field].value) \X {e.fields[c.field].unit}
      \/ \E m \in Range(Packet.metrics) :
            m.value # Nothing /\ m.name = c.field /\ <<a, u>> = <<m.value.amount, m.unit>>
      \/ c.plan \in DOMAIN Packet.plans /\ <<a, u>> \in PlanNumericBinding(c, Packet.plans[c.plan])
  <2>1. CASE <<a, u>> \in EvidenceBindings(claims, c)
    <3>1. PICK id, e :
              /\ id \in DOMAIN Packet.evidence /\ e = Packet.evidence[id] /\ FieldSupported(c, e)
              /\ <<a, u>> \in DecimalValues(e.fields[c.field].value) \X {e.fields[c.field].unit}
      BY <2>1 DEF EvidenceBindings
    <3>2. e \in Range(Packet.evidence)
      BY <3>1 DEF Range
    <3> QED BY <3>1, <3>2
  <2>2. CASE <<a, u>> \in MetricBindings(c)
    <3>1. PICK id, m :
              /\ id \in DOMAIN Packet.metrics /\ m = Packet.metrics[id] /\ m.value # Nothing /\ m.name = c.field
              /\ <<a, u>> = <<m.value.amount, m.unit>>
      BY <2>2 DEF MetricBindings
    <3>2. m \in Range(Packet.metrics)
      BY <3>1 DEF Range
    <3> QED BY <3>1, <3>2
  <2>3. CASE <<a, u>> \in UNION {PlanNumericBinding(c, Packet.plans[id]) :
                                    id \in {c.plan} \intersect DOMAIN Packet.plans}
    BY <2>3, Zenon
  <2> QED BY <2>1, <2>2, <2>3, Zenon DEF OwnBindings
<1>2. CASE \E e \in Range(Packet.evidence) :
              /\ FieldSupported(c, e)
              /\ <<a, u>> \in DecimalValues(e.fields[c.field].value) \X {e.fields[c.field].unit}
  BY <1>2 DEF InPacket, FieldSupported
<1>3. CASE \E m \in Range(Packet.metrics) :
              m.value # Nothing /\ m.name = c.field /\ <<a, u>> = <<m.value.amount, m.unit>>
  BY <1>3 DEF InPacket
<1>4. CASE c.plan \in DOMAIN Packet.plans /\ <<a, u>> \in PlanNumericBinding(c, Packet.plans[c.plan])
  <2>1. PICK p : p \in Range(Packet.plans) /\ <<a, u>> \in PlanNumericBinding(c, p)
    BY <1>4 DEF Range
  <2>2. \/ c.field \in {"position_size", "suggested_units"} /\ <<a, u>> = <<p.units, "shares">>
        \/ c.field \in DOMAIN p.bound /\ <<a, u>> = p.bound[c.field]
    BY <2>1 DEF PlanNumericBinding
  <2> QED BY <2>1, <2>2 DEF InPacket
<1> QED BY <1>1, <1>2, <1>3, <1>4

LEMMA BindingsAreInPacket ==
  ASSUME NEW claims, NEW c, NEW a, NEW u, <<a, u>> \in NumericBindings(claims, c)
  PROVE  InPacket(c.field, a, u)
<1> DEFINE alike == {id \in DOMAIN claims : claims[id].field = c.field /\ claims[id].unit = c.unit}
<1>1. PICK graph : graph = [id \in alike |-> claims[id]]
  OBVIOUS
<1>2. \/ <<a, u>> \in OwnBindings(claims, c)
      \/ \E id \in Closure(graph, c.supports) : <<a, u>> \in OwnBindings(claims, claims[id])
  BY <1>1, Zenon DEF NumericBindings
<1>3. Closure(graph, c.supports) \subseteq alike
  BY <1>1, ClosureIsLeast
<1>4. CASE \E id \in Closure(graph, c.supports) : <<a, u>> \in OwnBindings(claims, claims[id])
  <2>1. PICK id \in alike : <<a, u>> \in OwnBindings(claims, claims[id])
    BY <1>3, <1>4
  <2>2. PICK b : b = claims[id]
    OBVIOUS
  <2>3. InPacket(b.field, a, u) /\ b.field = c.field
    BY <2>1, <2>2, OwnBindingsAreInPacket
  <2> QED BY <2>3
<1> QED BY <1>2, <1>4, OwnBindingsAreInPacket

\* The sections of a draft, executive first.
LEMMA SectionsOfDraft ==
  ASSUME NEW d, DraftOK(d)
  PROVE  /\ Range(Sections(d)) = Range(d.executive) \union Range(d.detailed)
         /\ \A i \in DOMAIN Sections(d) : Sections(d)[i] \in Range(Sections(d))
<1>1. PICK s, t : s = d.executive /\ t = d.detailed
  OBVIOUS
<1>2. PICK S : S = Range(s) \union Range(t)
  OBVIOUS
<1>3. s \in Seq(S) /\ t \in Seq(S)
  BY <1>1, <1>2, SeqMonotonic DEF DraftOK
<1>4. PICK m \in Nat, n \in Nat : m = Len(s) /\ n = Len(t)
  BY <1>3, LenProperties
<1>5. DOMAIN s = 1..m /\ DOMAIN t = 1..n
  BY <1>3, <1>4, LenProperties
<1>6. /\ s \o t \in Seq(S) /\ Len(s \o t) = m + n
      /\ \A i \in 1..(m + n) : (s \o t)[i] = IF i <= m THEN s[i] ELSE t[i - m]
  BY <1>3, <1>4, ConcatProperties
<1>7. DOMAIN (s \o t) = 1..(m + n)
  BY <1>6, LenProperties
<1>8. Range(s \o t) \subseteq S
  <2> SUFFICES ASSUME NEW i \in 1..(m + n) PROVE (s \o t)[i] \in S
    BY <1>7 DEF Range
  <2> QED BY <1>6, <1>7, LenProperties
<1>9. S \subseteq Range(s \o t)
  <2>1. ASSUME NEW i \in 1..m PROVE s[i] \in Range(s \o t)
    <3>1. i \in 1..(m + n) /\ (s \o t)[i] = s[i]
      BY <1>6
    <3> QED BY <1>7, <3>1 DEF Range
  <2>2. ASSUME NEW i \in 1..n PROVE t[i] \in Range(s \o t)
    <3>1. i + m \in 1..(m + n) /\ ~(i + m <= m) /\ (i + m) - m = i
      OBVIOUS
    <3>2. (s \o t)[i + m] = t[i]
      BY <1>6, <3>1
    <3> QED BY <1>7, <3>1, <3>2 DEF Range
  <2> QED BY <1>2, <1>5, <2>1, <2>2 DEF Range
<1>10. Range(Sections(d)) = S
  BY <1>1, <1>8, <1>9 DEF Sections
<1>11. \A i \in DOMAIN Sections(d) : Sections(d)[i] \in Range(Sections(d))
  BY DEF Range
<1> QED BY <1>1, <1>2, <1>10, <1>11

\* A claim shown in a report leads to sources, and its numbers are the packet's.
LEMMA ClaimIsGrounded ==
  ASSUME NEW d, DraftOK(d), Issues(d) = {}, d = draft,
         NEW id \in DOMAIN ById(d), NEW c, c = ById(d)[id]
  PROVE  /\ SourcesBehind(c) # {}
         /\ \A n \in c.text.numbers \union ({c.value} \ {Nothing}) :
               InPacket(c.field, n.amount, c.unit)
<1>1. c \in Range(d.claims) /\ c.id = id
  BY ClaimsById
<1>2. SourcesBehind(c) # {}
  <2>1. {c.id} \intersect DOMAIN ById(d) # {}
    BY <1>1
  <2> QED BY <2>1, SourcesBelow DEF SourcesBehind
<1>3. ClaimIssues(d, c) = {}
  BY <1>1, ValidDraft
<1>4. Sound(d, c)
  BY <1>3, ValidClaim
<1>5. ASSUME NEW n \in c.text.numbers \union ({c.value} \ {Nothing})
      PROVE  InPacket(c.field, n.amount, c.unit)
  <2>1. n = c.value /\ <<c.value.amount, c.unit>> \in NumericBindings(ById(d), c)
    BY <1>4 DEF Sound
  <2> QED BY <2>1, BindingsAreInPacket
<1> QED BY <1>2, <1>5

\* A narrative cites sources and shows its plan's own status and counter-evidence.
LEMMA NarrativeIsGrounded ==
  ASSUME NEW d, DraftOK(d), Issues(d) = {}, NEW n \in Range(d.narratives),
         NEW line, line = NarrativeLine(ById(d), n)
  PROVE  /\ line.cites # {}
         /\ \A shown \in line.context :
               /\ shown.status = Packet.plans[line.plan].status
               /\ shown.counter = Range(Packet.plans[line.plan].counter)
<1>1. PICK claims : claims = ById(d)
  OBVIOUS
<1>2. NarrativeIssue(claims, n) = {}
  BY <1>1, ValidDraft
<1>3. n.plan \in DOMAIN Packet.plans
  <2>1. Issue("unsupported narrative", n.plan \notin DOMAIN Packet.plans) = {}
    BY <1>2, Zenon DEF NarrativeIssue
  <2> QED BY <2>1, IssueIsRaised, Zenon
<1>4. Range(n.claims) \subseteq DOMAIN claims /\ \A id \in Range(n.claims) : claims[id].plan = n.plan
  <2>3. Range(n.claims) \subseteq DOMAIN claims
    BY <1>2 DEF NarrativeIssue
  <2>4. Issue("unsupported narrative",
              ~Repeats(claims, n) \/ \E id \in Range(n.claims) : claims[id].plan # n.plan) = {}
    BY <1>2, <2>3, Zenon DEF NarrativeIssue
  <2>5. ~ \E id \in Range(n.claims) : claims[id].plan # n.plan
    BY <2>4, IssueIsRaised, Zenon
  <2> QED BY <2>3, <2>5
<1>5. line.cites # {}
  <2>1. Range(n.claims) \intersect DOMAIN claims # {}
    <3>1. n \in NarrativeForm
      <4>1. PICK m \in Nat : d.narratives \in [1..m -> NarrativeForm]
        BY LenProperties DEF DraftOK
      <4> QED BY <4>1 DEF Range
    <3> QED BY <1>4, <3>1, BriefAssumption
  <2>2. UNION {(claims[id].evidence \intersect DOMAIN Packet.evidence) \union
               (claims[id].metrics \intersect DOMAIN Packet.metrics) :
                  id \in Closure(claims, Range(n.claims))} # {}
    BY <1>1, <2>1, SourcesBelow
  <2>3. UNION {claims[id].evidence \union claims[id].metrics :
                  id \in Closure(claims, Range(n.claims))} # {}
    BY <2>2
  <2> QED BY <1>1, <2>3 DEF NarrativeLine
<1>6. ASSUME NEW shown \in line.context
      PROVE  /\ shown.status = Packet.plans[line.plan].status
             /\ shown.counter = Range(Packet.plans[line.plan].counter)
  <2>1. line.plan = n.plan /\ line.context = {ClaimLine(claims[id]) : id \in Range(n.claims)}
    BY <1>1 DEF NarrativeLine
  <2>2. PICK id, c : id \in Range(n.claims) /\ c = claims[id] /\ shown = ClaimLine(c)
    BY <1>6, <2>1
  <2>3. c \in Range(d.claims) /\ c.plan = n.plan
    BY <1>1, <1>4, <2>2, ClaimsById
  <2>4. ClaimIssues(d, c) = {}
    BY <2>3, ValidDraft
  <2>5. c.planStatus = Packet.plans[n.plan].status /\ c.counter = Packet.plans[n.plan].counter
    <3>1. Sound(d, c)
      BY <2>4, ValidClaim
    <3> QED BY <1>3, <2>3, <3>1 DEF Sound
  <2>6. shown.status = c.planStatus /\ shown.counter = Range(c.counter)
    BY <2>2 DEF ClaimLine
  <2> QED BY <2>1, <2>5, <2>6
<1> QED BY <1>5, <1>6

\* Every disabled capability is explained, and a section that discloses is there.
LEMMA DisabledIsDisclosed ==
  ASSUME NEW d, DraftOK(d), Issues(d) = {}, NEW x \in DOMAIN Packet.disabled
  PROVE  \E s \in Range(Rendered(d)) : x \in s.disabled
<1>1. FrameIssues(d) = {}
  BY ValidDraft
<1>2. PICK names, detailed : /\ names = [i \in DOMAIN d.executive |-> d.executive[i].section]
                             /\ detailed = [i \in DOMAIN d.detailed |-> d.detailed[i].section]
  OBVIOUS
<1>3. PICK explained : explained = {y.capability : y \in Range(d.explanations)}
  OBVIOUS
<1>4. names = ExecutiveSections /\ detailed = DetailedSections
  <2>1. Issue("required sections", \/ names # ExecutiveSections \/ detailed # DetailedSections) = {}
    BY <1>1, <1>2, Zenon DEF FrameIssues
  <2> QED BY <2>1, IssueIsRaised, Zenon
<1>5. DOMAIN Packet.disabled \subseteq explained
  <2>1. Issue("disabled capability omitted", ~(DOMAIN Packet.disabled \subseteq explained)) = {}
    BY <1>1, <1>3, Zenon DEF FrameIssues
  <2> QED BY <2>1, IssueIsRaised, Zenon
<1>6. PICK s \in Range(d.executive) \union Range(d.detailed) : s.section \in {"warnings", "quality"}
  <2>1. PICK name \in {"warnings", "quality"} : name \in Range(names) \union Range(detailed)
    BY <1>4, BriefAssumption
  <2> QED BY <1>2, <2>1 DEF Range
<1>7. PICK i \in DOMAIN Sections(d) : s = Sections(d)[i]
  <2>1. s \in Range(Sections(d))
    BY SectionsOfDraft
  <2> QED BY <2>1 DEF Range
<1>8. PICK r : r = RenderedSection(d, s)
  OBVIOUS
<1>9. x \in r.disabled
  <2>1. r.disabled = explained
    BY <1>3, <1>6, <1>8 DEF RenderedSection
  <2> QED BY <1>5, <2>1
<1>10. r \in Range(Rendered(d))
  BY <1>7, <1>8 DEF Rendered, Range
<1> QED BY <1>9, <1>10

LEMMA RenderedIsGrounded ==
  ASSUME DraftOK(draft), Issues(draft) = {}, LookedUp(draft) \subseteq DOMAIN ById(draft),
         report = [sections |-> Rendered(draft)]
  PROVE  ReportIsGrounded
<1>1. report.sections = Rendered(draft)
  OBVIOUS
<1>2. ASSUME NEW r \in Range(Rendered(draft)), NEW i \in DOMAIN r.lines,
             NEW c, c = ById(draft)[r.lines[i].claim]
      PROVE  /\ SourcesBehind(c) # {}
             /\ \A n \in c.text.numbers \union ({c.value} \ {Nothing}) :
                   InPacket(c.field, n.amount, c.unit)
  <2>1. PICK s : s \in Range(Sections(draft)) /\ r = RenderedSection(draft, s)
    BY SectionsOfDraft DEF Rendered, Range
  <2>2. r.lines = [j \in DOMAIN s.claims |-> ClaimLine(ById(draft)[s.claims[j]])]
    BY <2>1 DEF RenderedSection
  <2>3. PICK id : id = s.claims[i]
    OBVIOUS
  <2>4. id \in Range(s.claims)
    BY <1>2, <2>2, <2>3 DEF Range
  <2>5. id \in DOMAIN ById(draft)
    BY <2>1, <2>4 DEF LookedUp, Placements
  <2>6. r.lines[i].claim = ById(draft)[id].id
    <3>1. r.lines[i] = ClaimLine(ById(draft)[id])
      BY <1>2, <2>2, <2>3
    <3>2. ClaimLine(ById(draft)[id]).claim = ById(draft)[id].id
      BY DEF ClaimLine
    <3> QED BY <3>1, <3>2
  <2>7. c = ById(draft)[id]
    BY <1>2, <2>5, <2>6, ClaimsById
  <2> QED BY <2>5, <2>7, ClaimIsGrounded
<1>3. ASSUME NEW r \in Range(Rendered(draft)), NEW line \in Range(r.narratives)
      PROVE  /\ line.cites # {}
             /\ \A shown \in line.context :
                   /\ shown.status = Packet.plans[line.plan].status
                   /\ shown.counter = Range(Packet.plans[line.plan].counter)
  <2>1. PICK s : s \in Range(Sections(draft)) /\ r = RenderedSection(draft, s)
    BY SectionsOfDraft DEF Rendered, Range
  <2>2. PICK claims : claims = ById(draft)
    OBVIOUS
  <2>3. r.narratives = IF s.section = "plans"
                       THEN [i \in DOMAIN draft.narratives |-> NarrativeLine(claims, draft.narratives[i])]
                       ELSE <<>>
    BY <2>1, <2>2 DEF RenderedSection
  <2>4. Range(<<>>) = {}
    BY DEF Range
  <2>5. PICK i \in DOMAIN draft.narratives : line = NarrativeLine(claims, draft.narratives[i])
    BY <1>3, <2>3, <2>4 DEF Range
  <2>6. PICK n : n = draft.narratives[i] /\ n \in Range(draft.narratives)
    BY <2>5 DEF Range
  <2>7. DraftOK(draft) /\ Issues(draft) = {} /\ line = NarrativeLine(ById(draft), n)
    BY <2>2, <2>5, <2>6
  <2> QED BY ONLY <2>6, <2>7, NarrativeIsGrounded
<1>4. \A x \in DOMAIN Packet.disabled : \E s \in Range(Rendered(draft)) : x \in s.disabled
  BY DisabledIsDisclosed
<1> QED BY <1>1, <1>2, <1>3, <1>4 DEF ReportIsGrounded

(***************************************************************************)
(* The inductive invariant: what is written while nobody has looked, then  *)
(* is looked at and shown as it is.                                        *)
(***************************************************************************)

ShownOf(d) ==
  IF LookedUp(d) \subseteq DOMAIN ById(d) THEN [sections |-> Rendered(d)] ELSE Raised

BriefInv ==
  /\ draft # Nothing => DraftOK(draft)
  /\ issues # Nothing => draft # Nothing /\ issues = Issues(draft)
  /\ report # Nothing => issues = {} /\ report = ShownOf(draft)

LEMMA PlacedIsSequence ==
  ASSUME NEW sections, sections \in Seq(Range(sections)), NEW name, NEW id,
         NEW placed, placed = Placed(sections, name, id)
  PROVE  placed \in Seq(Range(placed))
<1>1. PICK n \in Nat : DOMAIN sections = 1..n
  BY LenProperties
<1>2. DOMAIN placed = 1..n /\ placed = [i \in 1..n |-> placed[i]]
  BY <1>1 DEF Placed
<1>3. placed \in [1..n -> Range(placed)]
  BY <1>2 DEF Range
<1> QED BY <1>3, SeqDef

LEMMA WritingKeepsInv ==
  ASSUME BriefInv, NEW d, DraftOK(d), draft' = d, issues = Nothing, UNCHANGED <<issues, report>>
  PROVE  BriefInv'
<1>1. report = Nothing
  BY BriefAssumption DEF BriefInv
<1>2. DraftOK(draft')
  OBVIOUS
<1>3. (draft # Nothing => DraftOK(draft))'
  BY <1>2 DEF DraftOK
<1>4. issues' = Nothing /\ report' = Nothing
  BY <1>1
<1> QED BY <1>3, <1>4 DEF BriefInv

LEMMA BriefStepKeepsInv == BriefInv /\ [BriefNext]_briefVars => BriefInv'
<1> SUFFICES ASSUME BriefInv, [BriefNext]_briefVars PROVE BriefInv'
  OBVIOUS
<1>1. ASSUME WriteFrame PROVE BriefInv'
  <2>1. PICK f \in Frame :
           draft' = [run |-> f.run, statuses |-> f.statuses, executive |-> f.executive,
                     detailed |-> f.detailed, explanations |-> f.explanations,
                     claims |-> <<>>, narratives |-> <<>>, warnings |-> {}]
    BY <1>1 DEF WriteFrame
  <2>2. f.executive \in Seq(Range(f.executive)) /\ f.detailed \in Seq(Range(f.detailed))
    BY BriefAssumption
  <2>3. DraftOK(draft')
    BY <2>1, <2>2 DEF DraftOK
  <2>4. issues = Nothing
    BY <1>1 DEF WriteFrame, BriefInv
  <2> QED BY <1>1, <2>3, <2>4, WritingKeepsInv DEF WriteFrame
<1>2. ASSUME WriteClaim PROVE BriefInv'
  <2>1. PICK c \in ClaimForm, name \in Placement :
           draft' = [draft EXCEPT !.claims = Append(draft.claims, c),
                                  !.executive = Placed(draft.executive, name, c.id),
                                  !.detailed = Placed(draft.detailed, name, c.id)]
    BY <1>2 DEF WriteClaim
  <2>2. DraftOK(draft) /\ issues = Nothing /\ UNCHANGED <<issues, report>>
    BY <1>2 DEF WriteClaim, Writing, BriefInv
  <2>3. PICK e, l : e = Placed(draft.executive, name, c.id) /\ l = Placed(draft.detailed, name, c.id)
    OBVIOUS
  <2>4. e \in Seq(Range(e)) /\ l \in Seq(Range(l))
    BY <2>2, <2>3, PlacedIsSequence DEF DraftOK
  <2>5. Append(draft.claims, c) \in Seq(ClaimForm)
    BY <2>2 DEF DraftOK
  <2>6. DraftOK(draft')
    BY <2>1, <2>2, <2>3, <2>4, <2>5 DEF DraftOK
  <2> QED BY <2>2, <2>6, WritingKeepsInv
<1>3. ASSUME WriteNarrative PROVE BriefInv'
  <2>1. PICK n \in NarrativeForm :
           draft' = [draft EXCEPT !.narratives = Append(draft.narratives, n)]
    BY <1>3 DEF WriteNarrative
  <2>2. DraftOK(draft) /\ issues = Nothing /\ UNCHANGED <<issues, report>>
    BY <1>3 DEF WriteNarrative, Writing, BriefInv
  <2>3. Append(draft.narratives, n) \in Seq(NarrativeForm)
    BY <2>2 DEF DraftOK
  <2>4. DraftOK(draft')
    BY <2>1, <2>2, <2>3 DEF DraftOK
  <2> QED BY <2>2, <2>4, WritingKeepsInv
<1>4. ASSUME WriteWarning PROVE BriefInv'
  <2>1. PICK w \in Warning : draft' = [draft EXCEPT !.warnings = draft.warnings \union {w}]
    BY <1>4 DEF WriteWarning
  <2>2. DraftOK(draft) /\ issues = Nothing /\ UNCHANGED <<issues, report>>
    BY <1>4 DEF WriteWarning, Writing, BriefInv
  <2>3. DraftOK(draft')
    BY <2>1, <2>2 DEF DraftOK
  <2> QED BY <2>2, <2>3, WritingKeepsInv
<1>5. ASSUME ValidateBrief PROVE BriefInv'
  <2>1. draft' = draft /\ issues' = Issues(draft) /\ report' = report /\ draft # Nothing /\ issues = Nothing
    BY <1>5 DEF ValidateBrief
  <2>2. report' = Nothing
    BY <2>1, BriefAssumption DEF BriefInv
  <2>3. (issues # Nothing => draft # Nothing /\ issues = Issues(draft))'
    <3>1. Issues(draft)' = Issues(draft)
      BY <2>1 DEF Issues
    <3> QED BY <2>1, <3>1
  <2>4. (draft # Nothing => DraftOK(draft))'
    BY <2>1 DEF BriefInv, DraftOK
  <2> QED BY <2>2, <2>3, <2>4 DEF BriefInv
<1>6. ASSUME Render PROVE BriefInv'
  <2>1. draft' = draft /\ issues' = issues /\ issues = {} /\ report' = ShownOf(draft)
    BY <1>6 DEF Render, ShownOf
  <2> QED BY <2>1 DEF BriefInv, DraftOK
<1>7. ASSUME UNCHANGED briefVars PROVE BriefInv'
  BY <1>7 DEF briefVars, BriefInv, DraftOK
<1> QED BY <1>1, <1>2, <1>3, <1>4, <1>5, <1>6, <1>7 DEF BriefNext

\* What was validated and shown is the draft as it still is, for every packet and draft.
THEOREM BriefInvariance == BriefSpec => []BriefInv
<1>1. BriefInit => BriefInv
  BY DEF BriefInit, BriefInv
<1> QED BY <1>1, BriefStepKeepsInv, PTL DEF BriefSpec

\* Every claim of a report rests on the packet (validate_research_brief followed by
\* render_markdown_report), for any packet, claims, sections and narratives.
THEOREM ReportStaysGrounded == BriefSpec => []ReportIsGrounded
<1>1. BriefInv => ReportIsGrounded
  <2> SUFFICES ASSUME BriefInv, report \notin {Nothing, Raised} PROVE ReportIsGrounded
    BY DEF ReportIsGrounded
  <2>1. DraftOK(draft) /\ Issues(draft) = {}
    BY BriefAssumption DEF BriefInv
  <2>2. LookedUp(draft) \subseteq DOMAIN ById(draft) /\ report = [sections |-> Rendered(draft)]
    BY DEF BriefInv, ShownOf
  <2> QED BY <2>1, <2>2, RenderedIsGrounded
<1> QED BY <1>1, BriefInvariance, PTL

(***************************************************************************)
(* What is valid and shown can be reviewed                                 *)
(***************************************************************************)

\* A valid draft has the claims its narratives and its claims' supports name.
LEMMA NamedClaimsExist ==
  ASSUME NEW d, DraftOK(d), Issues(d) = {}, NEW ids, ids \subseteq DOMAIN ById(d)
  PROVE  Named(ById(d), ids) \subseteq DOMAIN ById(d)
<1>1. PICK claims : claims = ById(d)
  OBVIOUS
<1>2. \A id \in DOMAIN claims : claims[id].supports \subseteq DOMAIN claims
  BY <1>1, ClaimsById, ValidDraft
<1>3. Closure(claims, ids) \subseteq DOMAIN claims
  BY ClosureIsLeast
<1> QED BY <1>1, <1>2, <1>3 DEF Named

LEMMA NarratedClaimsExist ==
  ASSUME NEW d, DraftOK(d), Issues(d) = {}, NEW n \in Range(d.narratives)
  PROVE  Range(n.claims) \subseteq DOMAIN ById(d)
<1>1. NarrativeIssue(ById(d), n) = {}
  BY ValidDraft
<1> QED BY <1>1 DEF NarrativeIssue

LEMMA ValidIsLookedUp ==
  ASSUME NEW d, DraftOK(d), Issues(d) = {}, Placements(d) \subseteq DOMAIN ById(d)
  PROVE  LookedUp(d) \subseteq DOMAIN ById(d)
<1>1. \A n \in Range(d.narratives) : Named(ById(d), Range(n.claims)) \subseteq DOMAIN ById(d)
  BY NamedClaimsExist, NarratedClaimsExist
<1>2. SUFFICES ASSUME NEW id \in LookedUp(d) PROVE id \in DOMAIN ById(d)
  OBVIOUS
<1>3. id \in Placements(d) \/ \E n \in Range(d.narratives) : id \in Named(ById(d), Range(n.claims))
  BY <1>2 DEF LookedUp
<1> QED BY <1>1, <1>3

LEMMA ShownIsReviewable ==
  ASSUME NEW d, DraftOK(d), Issues(d) = {}, LookedUp(d) \subseteq DOMAIN ById(d)
  PROVE  ~Unreviewable(d)
<1>1. \A i, j \in DOMAIN d.claims : i # j => d.claims[i].id # d.claims[j].id
  BY ValidDraft
<1>2. ReachableIds(d) \subseteq DOMAIN ById(d)
  <2>1. Placements(d) \subseteq DOMAIN ById(d)
    BY DEF LookedUp
  <2>2. Narrated(d) \subseteq DOMAIN ById(d)
    BY NarratedClaimsExist DEF Narrated
  <2> QED BY <2>1, <2>2, NamedClaimsExist DEF ReachableIds
<1>3. ASSUME NEW id \in DOMAIN ById(d), NEW c, c = ById(d)[id]
      PROVE  /\ c.evidence \subseteq DOMAIN Packet.evidence
             /\ Range(c.counter) \subseteq DOMAIN Packet.evidence
             /\ c.metrics \subseteq DOMAIN Packet.metrics
  <2>1. ClaimIssues(d, c) = {}
    BY <1>3, ClaimsById, ValidDraft
  <2> QED BY <2>1, ValidClaim DEF Sound
<1>4. ASSUME NEW id \in DOMAIN ById(d)
      PROVE  EvidenceOf(ById(d), id) \subseteq DOMAIN Packet.evidence
  <2>1. PICK claims : claims = ById(d)
    OBVIOUS
  <2>2. \A c \in ClaimClosure(claims, id) :
           /\ c.evidence \subseteq DOMAIN Packet.evidence
           /\ Range(c.counter) \subseteq DOMAIN Packet.evidence
    BY <1>3, <2>1, ClosureIsLeast DEF ClaimClosure
  <2>3. \A m \in DOMAIN Packet.metrics : Packet.metrics[m].inputs \subseteq DOMAIN Packet.evidence
    BY BriefAssumption DEF Range
  <2> QED BY <2>1, <2>2, <2>3 DEF EvidenceOf
<1> QED BY <1>1, <1>2, <1>3, <1>4 DEF Unreviewable

(***************************************************************************)
(* The sampler's preference among sets of candidates                       *)
(***************************************************************************)

\* A finite set of candidates, each with a place of its own in the order of the hashes.
IsPool(E) ==
  /\ IsFiniteSet(E)
  /\ \A x \in E : /\ x.tie \in Nat /\ x.priority \in BOOLEAN /\ Nothing \notin x.tiers
                  /\ x.type \in Range(TypeOrder)
  /\ \A x, y \in E : x.tie = y.tie => x = y

\* The choice of A comes before that of B in _prefer.
Ahead(A, B) ==
  \/ PriorityCount(A) > PriorityCount(B)
  \/ PriorityCount(A) = PriorityCount(B) /\ TiesBefore(A, B)

LEMMA MinIsLeast ==
  ASSUME NEW S \in SUBSET Nat, S # {}
  PROVE  Min(S) \in S /\ \A k \in S : Min(S) <= k
<1>1. PICK x \in S : \A k \in S : x <= k
  BY LeastExists
<1> QED BY <1>1 DEF Min

\* Compared by their sorted hashes, the first candidate that is in one only decides.
LEMMA FirstDifferenceDecides ==
  ASSUME NEW E, IsPool(E), NEW A \in SUBSET E, NEW B \in SUBSET E
  PROVE  TiesBefore(A, B)
         <=> \E x \in A \ B : \A y \in E : y.tie < x.tie => (y \in A <=> y \in B)
<1> DEFINE ours == {x.tie : x \in A}
           theirs == {x.tie : x \in B}
           differing == (ours \ theirs) \union (theirs \ ours)
<1>1. TiesBefore(A, B) <=> differing # {} /\ Min(differing) \in ours
  BY DEF TiesBefore
<1>2. /\ \A y \in E : /\ y.tie \in Nat
                      /\ y.tie \in ours <=> y \in A
                      /\ y.tie \in theirs <=> y \in B
      /\ \A k \in differing : \E y \in E : k = y.tie
  BY DEF IsPool
<1>3. \A y \in E : y.tie \in differing <=> ~(y \in A <=> y \in B)
  BY <1>2
<1>4. differing \in SUBSET Nat
  BY <1>2
<1> HIDE DEF ours, theirs, differing
<1>5. ASSUME TiesBefore(A, B)
      PROVE  \E x \in A \ B : \A y \in E : y.tie < x.tie => (y \in A <=> y \in B)
  <2>1. differing # {} /\ Min(differing) \in ours
    BY <1>1, <1>5
  <2>2. Min(differing) \in differing /\ \A k \in differing : Min(differing) <= k
    BY <1>4, <2>1, MinIsLeast
  <2>3. PICK x \in E : Min(differing) = x.tie
    BY <1>2, <2>2
  <2>4. x \in A \ B
    BY <1>2, <1>3, <2>1, <2>2, <2>3
  <2>5. ASSUME NEW y \in E, y.tie < x.tie PROVE y \in A <=> y \in B
    <3>1. y.tie \notin differing
      BY <1>2, <2>2, <2>3, <2>5
    <3> QED BY <1>3, <3>1
  <2> QED BY <2>4, <2>5
<1>6. ASSUME NEW x \in A \ B, \A y \in E : y.tie < x.tie => (y \in A <=> y \in B)
      PROVE  TiesBefore(A, B)
  <2>1. x \in E /\ x.tie \in differing /\ x.tie \in Nat
    BY <1>2, <1>3
  <2>2. Min(differing) \in differing /\ Min(differing) <= x.tie
    BY <1>4, <2>1, MinIsLeast
  <2>3. PICK y \in E : Min(differing) = y.tie
    BY <1>2, <2>2
  <2>4. ~(y.tie < x.tie)
    BY <1>3, <1>6, <2>2, <2>3
  <2>5. Min(differing) = x.tie
    BY <1>2, <2>1, <2>2, <2>3, <2>4
  <2> QED BY <1>1, <1>2, <2>1, <2>5
<1> QED BY <1>5, <1>6

LEMMA PriorityCountIsNat ==
  ASSUME NEW E, IsPool(E), NEW A \in SUBSET E
  PROVE  /\ PriorityCount(A) \in Nat
         /\ \A x \in E \ A : PriorityCount(A \union {x})
                             = PriorityCount(A) + (IF x.priority THEN 1 ELSE 0)
<1>1. PICK C : C = {y \in A : y.priority}
  OBVIOUS
<1>2. IsFiniteSet(A) /\ IsFiniteSet(C) /\ Cardinality(C) \in Nat
  BY <1>1, FS_Subset, FS_CardinalityType DEF IsPool
<1>3. ASSUME NEW x \in E \ A
      PROVE  PriorityCount(A \union {x}) = PriorityCount(A) + (IF x.priority THEN 1 ELSE 0)
  <2>1. {y \in A \union {x} : y.priority} = IF x.priority THEN C \union {x} ELSE C
    BY <1>1
  <2>2. x \notin C
    BY <1>1
  <2>3. Cardinality(C \union {x}) = Cardinality(C) + 1
    BY <1>2, <2>2, FS_AddElement
  <2>4. PriorityCount(A) = Cardinality(C)
    BY <1>1 DEF PriorityCount
  <2>5. PriorityCount(A \union {x}) = Cardinality(IF x.priority THEN C \union {x} ELSE C)
    BY <2>1 DEF PriorityCount
  <2> QED BY <1>2, <2>3, <2>4, <2>5
<1> QED BY <1>1, <1>2, <1>3 DEF PriorityCount

LEMMA AheadIsAnOrder ==
  ASSUME NEW E, IsPool(E), NEW A \in SUBSET E, NEW B \in SUBSET E
  PROVE  /\ ~Ahead(A, A)
         /\ A = B \/ Ahead(A, B) \/ Ahead(B, A)
         /\ \A C \in SUBSET E : Ahead(A, B) /\ Ahead(B, C) => Ahead(A, C)
<1>1. \A x \in E : x.tie \in Nat
  BY DEF IsPool
<1>2. ~Ahead(A, A)
  BY PriorityCountIsNat, FirstDifferenceDecides DEF Ahead
<1>3. ASSUME A # B, ~TiesBefore(A, B) PROVE TiesBefore(B, A)
  <2> DEFINE D == {k \in Nat : \E x \in (A \ B) \union (B \ A) : k = x.tie}
  <2>1. D \in SUBSET Nat /\ D # {}
    BY <1>1, <1>3
  <2>2. PICK k \in D : \A l \in D : k <= l
    <3> HIDE DEF D
    <3> QED BY <2>1, LeastExists
  <2>3. PICK x \in (A \ B) \union (B \ A) : k = x.tie
    OBVIOUS
  <2>4. ASSUME NEW y \in E, y.tie < x.tie PROVE y \in A <=> y \in B
    <3>1. y.tie \notin D
      <4> HIDE DEF D
      <4> QED BY <1>1, <2>1, <2>2, <2>3, <2>4
    <3> QED BY <1>1, <3>1
  <2>5. x \notin A \ B
    BY <1>3, <2>4, FirstDifferenceDecides
  <2> QED BY <2>3, <2>4, <2>5, FirstDifferenceDecides
<1>4. A = B \/ Ahead(A, B) \/ Ahead(B, A)
  BY <1>3, PriorityCountIsNat DEF Ahead
<1>5. ASSUME NEW C \in SUBSET E, TiesBefore(A, B), TiesBefore(B, C) PROVE TiesBefore(A, C)
  <2>1. PICK x \in A \ B : \A y \in E : y.tie < x.tie => (y \in A <=> y \in B)
    BY <1>5, FirstDifferenceDecides
  <2>2. PICK z \in B \ C : \A y \in E : y.tie < z.tie => (y \in B <=> y \in C)
    BY <1>5, FirstDifferenceDecides
  <2>3. x \in E /\ z \in E /\ x.tie \in Nat /\ z.tie \in Nat /\ x.tie # z.tie
    BY <1>1, <2>1, <2>2 DEF IsPool
  <2>4. CASE x.tie < z.tie
    <3>1. x \in A \ C
      BY <2>1, <2>2, <2>3, <2>4
    <3>2. \A y \in E : y.tie < x.tie => y.tie < z.tie
      BY <1>1, <2>3, <2>4
    <3>3. \A y \in E : y.tie < x.tie => (y \in A <=> y \in C)
      BY <2>1, <2>2, <3>2
    <3> QED BY <3>1, <3>3, FirstDifferenceDecides
  <2>5. CASE z.tie < x.tie
    <3>1. z \in A \ C
      BY <2>1, <2>2, <2>3, <2>5
    <3>2. \A y \in E : y.tie < z.tie => y.tie < x.tie
      BY <1>1, <2>3, <2>5
    <3>3. \A y \in E : y.tie < z.tie => (y \in A <=> y \in C)
      BY <2>1, <2>2, <3>2
    <3> QED BY <3>1, <3>3, FirstDifferenceDecides
  <2> QED BY <2>3, <2>4, <2>5
<1>6. ASSUME NEW C \in SUBSET E, Ahead(A, B), Ahead(B, C) PROVE Ahead(A, C)
  <2>1. PriorityCount(A) \in Nat /\ PriorityCount(B) \in Nat /\ PriorityCount(C) \in Nat
    BY PriorityCountIsNat
  <2> QED BY <1>5, <1>6, <2>1 DEF Ahead
<1> QED BY <1>2, <1>4, <1>6

\* One more candidate keeps the order of two sets.
LEMMA AheadWithOneMore ==
  ASSUME NEW E, IsPool(E), NEW A \in SUBSET E, NEW B \in SUBSET E, Ahead(A, B),
         NEW x \in E \ (A \union B)
  PROVE  Ahead(A \union {x}, B \union {x})
<1>1. ASSUME TiesBefore(A, B) PROVE TiesBefore(A \union {x}, B \union {x})
  <2>1. PICK z \in A \ B : \A y \in E : y.tie < z.tie => (y \in A <=> y \in B)
    BY <1>1, FirstDifferenceDecides
  <2>2. PICK C, D : C = A \union {x} /\ D = B \union {x}
    OBVIOUS
  <2>3. C \in SUBSET E /\ D \in SUBSET E /\ z \in C \ D
    BY <2>1, <2>2
  <2>4. \A y \in E : y.tie < z.tie => (y \in C <=> y \in D)
    BY <2>1, <2>2
  <2>5. TiesBefore(C, D)
    BY <2>3, <2>4, FirstDifferenceDecides
  <2> QED BY <2>2, <2>5
<1>2. /\ PriorityCount(A) \in Nat /\ PriorityCount(B) \in Nat
      /\ PriorityCount(A \union {x}) = PriorityCount(A) + (IF x.priority THEN 1 ELSE 0)
      /\ PriorityCount(B \union {x}) = PriorityCount(B) + (IF x.priority THEN 1 ELSE 0)
  BY PriorityCountIsNat
<1> QED BY <1>1, <1>2 DEF Ahead

\* In a finite strict order there is one that nobody is above.
LEMMA SomeIsOnTop ==
  ASSUME NEW G, IsFiniteSet(G), G # {}, NEW above \in [G -> SUBSET G],
         \A a \in G : a \notin above[a] /\ \A b \in above[a] : above[b] \subseteq above[a]
  PROVE  \E m \in G : above[m] = {}
<1> DEFINE Sizes == {n \in Nat : \E a \in G : n = Cardinality(above[a])}
<1>1. \A a \in G : IsFiniteSet(above[a]) /\ Cardinality(above[a]) \in Nat
  BY FS_Subset, FS_CardinalityType
<1>2. PICK n \in Sizes : \A k \in Sizes : n <= k
  <2>1. Sizes \in SUBSET Nat /\ Sizes # {}
    BY <1>1
  <2> HIDE DEF Sizes
  <2> QED BY <2>1, LeastExists
<1>3. PICK m \in G : n = Cardinality(above[m])
  OBVIOUS
<1>4. ASSUME NEW b \in above[m] PROVE FALSE
  <2>1. PICK x, y : x = above[b] /\ y = above[m]
    OBVIOUS
  <2>2. x \in SUBSET y /\ x # y /\ b \in G
    BY <1>4, <2>1
  <2>3. /\ IsFiniteSet(y) /\ Cardinality(x) \in Nat /\ Cardinality(y) \in Nat
        /\ Cardinality(y) <= Cardinality(x)
    BY <1>1, <1>2, <1>3, <2>1, <2>2
  <2>4. Cardinality(x) <= Cardinality(y) /\ (Cardinality(y) = Cardinality(x) => y = x)
    BY <2>2, <2>3, FS_Subset
  <2> QED BY <2>2, <2>3, <2>4
<1> QED BY <1>4

(***************************************************************************)
(* The states of the selection                                             *)
(***************************************************************************)

\* The state that stands for a set of candidates.
StateOf(A) ==
  LET tiers == UNION {x.tiers : x \in A}
  IN  [chosen |-> A,
       anchor |-> IF Several(tiers) \/ tiers = {} THEN Nothing ELSE CHOOSE t \in tiers : TRUE,
       several |-> Several(tiers)]

LEMMA ExtendsToState ==
  ASSUME NEW E, IsPool(E), NEW A \in SUBSET E, NEW x \in E
  PROVE  Extend(StateOf(A), x) = StateOf(A \union {x})
<1>1. PICK T, U : T = UNION {y.tiers : y \in A} /\ U = x.tiers
  OBVIOUS
<1>2. UNION {y.tiers : y \in A \union {x}} = T \union U
  BY <1>1
<1>3. Nothing \notin T \union U
  BY <1>1 DEF IsPool
<1>4. PICK s : s = StateOf(A)
  OBVIOUS
<1>5. /\ s.chosen = A /\ s.several = Several(T)
      /\ s.anchor = IF Several(T) \/ T = {} THEN Nothing ELSE CHOOSE t \in T : TRUE
  BY <1>1, <1>4 DEF StateOf
<1>6. PICK all : all = U \union ({s.anchor} \ {Nothing})
  OBVIOUS
<1>7. s.several \/ Several(all) <=> Several(T \union U)
  <2>1. CASE Several(T)
    BY <2>1, <1>5 DEF Several
  <2>2. CASE T = {}
    BY <2>2, <1>5, <1>6 DEF Several
  <2>3. CASE ~Several(T) /\ T # {}
    <3>1. s.anchor \in T /\ T = {s.anchor}
      BY <2>3, <1>5 DEF Several
    <3>2. all = T \union U
      BY <1>3, <1>6, <3>1
    <3> QED BY <2>3, <3>2, <1>5
  <2> QED BY <2>1, <2>2, <2>3
<1>8. ~Several(T \union U) => all = T \union U
  <2>1. CASE T = {}
    BY <2>1, <1>5, <1>6
  <2>2. CASE ~Several(T) /\ T # {}
    <3>1. s.anchor \in T /\ T = {s.anchor}
      BY <2>2, <1>5 DEF Several
    <3> QED BY <1>3, <1>6, <3>1
  <2> QED BY <2>1, <2>2 DEF Several
<1>9. PICK tiers : tiers = ExtendTiers(s, U)
  OBVIOUS
<1>10. /\ tiers.several = (s.several \/ Several(all))
       /\ tiers.anchor = IF s.several \/ Several(all) \/ all = {} THEN Nothing
                         ELSE CHOOSE t \in all : TRUE
  BY <1>6, <1>9 DEF ExtendTiers
<1>11. /\ tiers.several = Several(T \union U)
       /\ tiers.anchor = IF Several(T \union U) \/ T \union U = {} THEN Nothing
                         ELSE CHOOSE t \in T \union U : TRUE
  <2>1. s.several \in BOOLEAN
    BY <1>5 DEF Several
  <2>2. Several(T \union U) \in BOOLEAN /\ Several(all) \in BOOLEAN
    BY DEF Several
  <2> QED BY <1>7, <1>8, <1>10, <2>1, <2>2
<1>12. Extend(s, x) = [chosen |-> A \union {x}, anchor |-> tiers.anchor, several |-> tiers.several]
  BY <1>1, <1>5, <1>9 DEF Extend
<1>13. StateOf(A \union {x}) = [chosen |-> A \union {x},
         anchor |-> IF Several(T \union U) \/ T \union U = {} THEN Nothing
                    ELSE CHOOSE t \in T \union U : TRUE,
         several |-> Several(T \union U)]
  BY <1>2 DEF StateOf
<1> QED BY <1>4, <1>11, <1>12, <1>13

TypesOf(A) == {y.type : y \in A}

\* What a key says of a set.
LEMMA KeysAgree ==
  ASSUME NEW A, NEW B, Key(StateOf(A)) = Key(StateOf(B)),
         NEW s, NEW t, s = StateOf(A), t = StateOf(B)
  PROVE  /\ s.chosen = A /\ t.chosen = B /\ Cardinality(A) = Cardinality(B)
         /\ TypesOf(A) = TypesOf(B)
         /\ s.anchor = t.anchor /\ s.several = t.several
<1>1. s.chosen = A /\ t.chosen = B
  BY DEF StateOf
<1>2. PICK a, b : a = TypesOf(A) /\ b = TypesOf(B)
  OBVIOUS
<1>3. PICK m, n : m = Cardinality(A) /\ n = Cardinality(B)
  OBVIOUS
<1>4. Key(s) = <<m, a, s.anchor, s.several>>
  BY <1>1, <1>2, <1>3 DEF Key, TypesOf
<1>5. Key(t) = <<n, b, t.anchor, t.several>>
  BY <1>1, <1>2, <1>3 DEF Key, TypesOf
<1>6. <<m, a, s.anchor, s.several>> = <<n, b, t.anchor, t.several>>
  BY <1>4, <1>5
<1>7. m = n /\ a = b /\ s.anchor = t.anchor /\ s.several = t.several
  BY ONLY <1>6
<1> QED BY <1>1, <1>2, <1>3, <1>7

\* Two sets of one key have one key after one more candidate.
LEMMA KeyWithOneMore ==
  ASSUME NEW E, IsPool(E), NEW A \in SUBSET E, NEW B \in SUBSET E,
         Key(StateOf(A)) = Key(StateOf(B)), NEW x \in E \ (A \union B)
  PROVE  Key(StateOf(A \union {x})) = Key(StateOf(B \union {x}))
<1>1. PICK s, t : s = StateOf(A) /\ t = StateOf(B)
  OBVIOUS
<1>2. s.chosen = A /\ t.chosen = B
  BY <1>1 DEF StateOf
<1>3. PICK a, b : a = TypesOf(A) /\ b = TypesOf(B)
  OBVIOUS
<1>4. Cardinality(A) = Cardinality(B) /\ a = b /\ s.anchor = t.anchor /\ s.several = t.several
  BY <1>1, <1>3, KeysAgree
<1>5. PICK tiers : tiers = ExtendTiers(s, x.tiers)
  OBVIOUS
<1>6. tiers = ExtendTiers(t, x.tiers)
  BY <1>4, <1>5 DEF ExtendTiers
<1>7. PICK C, D : C = A \union {x} /\ D = B \union {x}
  OBVIOUS
<1>8. /\ StateOf(C) = [chosen |-> C, anchor |-> tiers.anchor, several |-> tiers.several]
      /\ StateOf(D) = [chosen |-> D, anchor |-> tiers.anchor, several |-> tiers.several]
  <2>1. StateOf(C) = Extend(s, x) /\ StateOf(D) = Extend(t, x)
    BY <1>1, <1>7, ExtendsToState
  <2> QED BY <1>2, <1>5, <1>6, <1>7, <2>1 DEF Extend
<1>9. Cardinality(C) = Cardinality(D)
  <2>1. IsFiniteSet(A) /\ IsFiniteSet(B)
    BY FS_Subset DEF IsPool
  <2>2. Cardinality(C) = Cardinality(A) + 1 /\ Cardinality(D) = Cardinality(B) + 1
    BY <1>7, <2>1, FS_AddElement
  <2> QED BY <1>4, <2>2
<1>10. TypesOf(C) = TypesOf(D)
  <2>1. TypesOf(C) = a \union {x.type}
    BY <1>3, <1>7 DEF TypesOf
  <2>2. TypesOf(D) = b \union {x.type}
    BY <1>3, <1>7 DEF TypesOf
  <2> QED BY <1>4, <2>1, <2>2
<1>11. Key(StateOf(C)) = <<Cardinality(C), TypesOf(C), tiers.anchor, tiers.several>>
  BY <1>8 DEF Key, TypesOf
<1>12. Key(StateOf(D)) = <<Cardinality(D), TypesOf(D), tiers.anchor, tiers.several>>
  BY <1>8 DEF Key, TypesOf
<1> QED BY <1>7, <1>9, <1>10, <1>11, <1>12

\* The states stand for sets of at most size of the candidates in F, and one of each
\* key that no other such set is ahead of.
HoldsTheBest(states, F, size) ==
  /\ \A s \in states : \E A \in SUBSET F : s = StateOf(A) /\ Cardinality(A) <= size
  /\ \A A \in SUBSET F : Cardinality(A) <= size =>
        \E B \in SUBSET F : /\ StateOf(B) \in states /\ Key(StateOf(B)) = Key(StateOf(A))
                            /\ B = A \/ Ahead(B, A)

LEMMA AdvanceHoldsTheBest ==
  ASSUME NEW E, IsPool(E), NEW F \in SUBSET E, NEW x \in E \ F, NEW size \in Nat,
         NEW states, HoldsTheBest(states, F, size), NEW H, H = F \union {x}
  PROVE  HoldsTheBest(Advance(states, x, size), H, size)
<1>1. PICK grown : grown = states \union
                           {Extend(s, x) : s \in {t \in states : Cardinality(t.chosen) < size}}
  OBVIOUS
<1>2. PICK next : next = Advance(states, x, size)
  OBVIOUS
<1>3. next = {s \in grown : ~\E t \in grown : Key(t) = Key(s) /\ Prefer(t, s)}
  BY <1>1, <1>2 DEF Advance
<1>4. H \in SUBSET E /\ IsFiniteSet(E) /\ \A A \in SUBSET E : IsFiniteSet(A) /\ Cardinality(A) \in Nat
  BY FS_Subset, FS_CardinalityType DEF IsPool
<1>5. ASSUME NEW s \in grown PROVE \E A \in SUBSET H : s = StateOf(A) /\ Cardinality(A) <= size
  <2>1. CASE s \in states
    BY <2>1 DEF HoldsTheBest
  <2>2. CASE s \notin states
    <3>1. PICK t \in states : Cardinality(t.chosen) < size /\ s = Extend(t, x)
      BY <1>1, <2>2
    <3>2. PICK A \in SUBSET F : t = StateOf(A)
      BY DEF HoldsTheBest
    <3>3. t.chosen = A
      BY <3>2 DEF StateOf
    <3>4. s = StateOf(A \union {x})
      BY <3>1, <3>2, ExtendsToState
    <3>5. Cardinality(A \union {x}) = Cardinality(A) + 1
      BY <1>4, FS_AddElement
    <3>6. Cardinality(A \union {x}) <= size
      BY <1>4, <3>1, <3>3, <3>5
    <3> QED BY <3>4, <3>6
  <2> QED BY <2>1, <2>2
<1>6. ASSUME NEW A \in SUBSET H, Cardinality(A) <= size
      PROVE  \E B \in SUBSET H : /\ StateOf(B) \in grown /\ Key(StateOf(B)) = Key(StateOf(A))
                                 /\ B = A \/ Ahead(B, A)
  <2>1. CASE x \notin A
    <3>1. A \in SUBSET F
      BY <2>1
    <3> QED BY <1>1, <1>6, <3>1 DEF HoldsTheBest
  <2>2. CASE x \in A
    <3>1. PICK rest \in SUBSET F : rest = A \ {x} /\ A = rest \union {x}
      <4>1. A \ {x} \in SUBSET F /\ A = (A \ {x}) \union {x}
        BY <2>2
      <4> QED BY <4>1
    <3>2. Cardinality(A) = Cardinality(rest) + 1
      BY <1>4, <3>1, FS_AddElement
    <3>3. Cardinality(rest) <= size /\ Cardinality(rest) < size
      BY <1>4, <1>6, <3>1, <3>2
    <3>4. PICK B \in SUBSET F : /\ StateOf(B) \in states /\ Key(StateOf(B)) = Key(StateOf(rest))
                                /\ B = rest \/ Ahead(B, rest)
      BY <3>3 DEF HoldsTheBest
    <3>5. PICK t : t = StateOf(B)
      OBVIOUS
    <3>6. t.chosen = B /\ Cardinality(B) = Cardinality(rest)
      BY <3>4, <3>5, KeysAgree
    <3>7. Extend(t, x) \in grown
      BY <1>1, <3>3, <3>4, <3>5, <3>6
    <3>8. StateOf(B \union {x}) \in grown
      BY <3>5, <3>7, ExtendsToState
    <3>9. Key(StateOf(B \union {x})) = Key(StateOf(A))
      BY <3>1, <3>4, KeyWithOneMore
    <3>10. B \union {x} = A \/ Ahead(B \union {x}, A)
      BY <3>1, <3>4, AheadWithOneMore
    <3> QED BY <3>8, <3>9, <3>10
  <2> QED BY <2>1, <2>2
<1>7. ASSUME NEW B \in SUBSET H, StateOf(B) \in grown
      PROVE  \E M \in SUBSET H : /\ StateOf(M) \in next /\ Key(StateOf(M)) = Key(StateOf(B))
                                 /\ M = B \/ Ahead(M, B)
  <2>1. PICK G : G = {C \in SUBSET H : /\ StateOf(C) \in grown
                                       /\ Key(StateOf(C)) = Key(StateOf(B))
                                       /\ C = B \/ Ahead(C, B)}
    OBVIOUS
  <2>2. IsFiniteSet(G) /\ G # {} /\ B \in G
    <3>1. G \in SUBSET (SUBSET H)
      BY <2>1
    <3>2. IsFiniteSet(SUBSET H)
      BY <1>4, FS_SUBSET
    <3> QED BY <1>7, <2>1, <3>1, <3>2, FS_Subset
  <2>3. PICK above : above = [C \in G |-> {D \in G : Ahead(D, C)}]
    OBVIOUS
  <2>4. \A C \in G : C \in SUBSET E
    BY <1>4, <2>1
  <2>5. /\ above \in [G -> SUBSET G]
        /\ \A C \in G : C \notin above[C] /\ \A D \in above[C] : above[D] \subseteq above[C]
    BY <2>3, <2>4, AheadIsAnOrder
  <2>6. PICK M \in G : above[M] = {}
    BY <2>2, <2>5, SomeIsOnTop
  <2>7. ASSUME NEW t \in grown, Key(t) = Key(StateOf(M)), Prefer(t, StateOf(M)) PROVE FALSE
    <3>1. PICK D \in SUBSET H : t = StateOf(D)
      BY <1>5
    <3>2. PICK m : m = StateOf(M)
      OBVIOUS
    <3>3. t.chosen = D /\ m.chosen = M
      BY <3>1, <3>2 DEF StateOf
    <3>4. Ahead(D, M)
      BY <2>7, <3>2, <3>3 DEF Prefer, Ahead
    <3>5. D = B \/ Ahead(D, B)
      BY <1>4, <2>1, <2>4, <3>4, AheadIsAnOrder
    <3>6. D \in G
      BY <2>1, <2>7, <3>1, <3>5
    <3> QED BY <2>3, <2>6, <3>4, <3>6
  <2>8. StateOf(M) \in next
    BY <1>3, <2>1, <2>7
  <2> QED BY <2>1, <2>8
<1>8. \A s \in next : s \in grown
  BY <1>3
<1>9. ASSUME NEW A \in SUBSET H, Cardinality(A) <= size
      PROVE  \E M \in SUBSET H : /\ StateOf(M) \in next /\ Key(StateOf(M)) = Key(StateOf(A))
                                 /\ M = A \/ Ahead(M, A)
  <2>1. PICK B \in SUBSET H : /\ StateOf(B) \in grown /\ Key(StateOf(B)) = Key(StateOf(A))
                              /\ B = A \/ Ahead(B, A)
    BY <1>6, <1>9
  <2>2. PICK M \in SUBSET H : /\ StateOf(M) \in next /\ Key(StateOf(M)) = Key(StateOf(B))
                              /\ M = B \/ Ahead(M, B)
    BY <1>7, <2>1
  <2>3. M = A \/ Ahead(M, A)
    <3>1. A \in SUBSET E /\ B \in SUBSET E /\ M \in SUBSET E
      BY <1>4
    <3> QED BY <2>1, <2>2, <3>1, AheadIsAnOrder
  <2> QED BY <2>1, <2>2, <2>3
<1> QED BY <1>2, <1>5, <1>8, <1>9 DEF HoldsTheBest

(***************************************************************************)
(* All states: the recursive function satisfies its equation               *)
(***************************************************************************)

\* What one place of the brief makes of the states.
AfterPlace(p, n, states, size) ==
  IF n \in DOMAIN p THEN Advance(states, p[n], size) ELSE states

IsStates(g, D, p, size) ==
  g = [n \in D |-> IF n = 0 THEN {[chosen |-> {}, anchor |-> Nothing, several |-> FALSE]}
                   ELSE AfterPlace(p, n, g[n - 1], size)]

LEMMA StatesAreUnique ==
  ASSUME NEW p, NEW size, NEW m \in Nat, NEW n \in Nat, NEW g, NEW h,
         IsStates(g, 0..m, p, size), IsStates(h, 0..n, p, size)
  PROVE  \A k \in 0..m : k <= n => g[k] = h[k]
<1> DEFINE Bad == {k \in 0..m : k <= n /\ g[k] # h[k]}
<1> SUFFICES ASSUME Bad # {} PROVE FALSE
  OBVIOUS
<1>1. PICK k \in Bad : \A l \in Bad : k <= l
  <2>1. Bad \in SUBSET Nat
    OBVIOUS
  <2> HIDE DEF Bad
  <2> QED BY <2>1, LeastExists
<1>2. k \in 0..m /\ k \in 0..n /\ g[k] # h[k]
  OBVIOUS
<1>3. /\ k # 0 => g[k] = AfterPlace(p, k, g[k - 1], size) /\ h[k] = AfterPlace(p, k, h[k - 1], size)
      /\ k = 0 => g[k] = h[k]
  BY <1>2 DEF IsStates
<1>4. k # 0
  BY <1>2, <1>3
<1>5. g[k - 1] = h[k - 1]
  <2>1. k - 1 \in 0..m /\ k - 1 <= n /\ ~(k <= k - 1)
    BY <1>2, <1>4
  <2> QED BY <1>1, <2>1
<1> QED BY <1>2, <1>3, <1>4, <1>5

LEMMA StatesUpTo ==
  ASSUME NEW p, NEW size, NEW m \in Nat
  PROVE  \E g : IsStates(g, 0..m, p, size)
<1> DEFINE Bad == {n \in Nat : ~ \E g : IsStates(g, 0..n, p, size)}
           Empty == {[chosen |-> {}, anchor |-> Nothing, several |-> FALSE]}
<1>1. \E g : IsStates(g, 0..0, p, size)
  <2>1. PICK g : g = [n \in 0..0 |-> Empty]
    OBVIOUS
  <2>2. IsStates(g, 0..0, p, size)
    BY <2>1 DEF IsStates
  <2> QED BY <2>2
<1>2. ASSUME NEW n \in Nat, NEW g, IsStates(g, 0..n, p, size)
      PROVE  \E h : IsStates(h, 0..(n + 1), p, size)
  <2>1. PICK h : h = [k \in 0..(n + 1) |-> IF k = 0 THEN Empty ELSE AfterPlace(p, k, g[k - 1], size)]
    OBVIOUS
  <2>2. ASSUME NEW k \in 0..n PROVE h[k] = g[k]
    <3>1. k \in 0..(n + 1)
      OBVIOUS
    <3>2. g[k] = IF k = 0 THEN Empty ELSE AfterPlace(p, k, g[k - 1], size)
      BY <1>2 DEF IsStates
    <3>3. h[k] = IF k = 0 THEN Empty ELSE AfterPlace(p, k, g[k - 1], size)
      BY <2>1, <3>1
    <3> QED BY <3>2, <3>3
  <2>3. ASSUME NEW k \in 0..(n + 1), k # 0
        PROVE  g[k - 1] = h[k - 1]
    BY <2>2, <2>3
  <2>4. IsStates(h, 0..(n + 1), p, size)
    BY <2>1, <2>3 DEF IsStates
  <2> QED BY <2>4
<1>3. Bad = {}
  <2> SUFFICES ASSUME Bad # {} PROVE FALSE
    OBVIOUS
  <2>1. PICK n \in Bad : \A k \in Bad : n <= k
    BY LeastExists
  <2>2. n # 0 /\ n \in Nat
    BY <1>1
  <2>3. n - 1 \in Nat /\ ~(n <= n - 1) /\ (n - 1) + 1 = n
    BY <2>2
  <2>4. PICK g : IsStates(g, 0..(n - 1), p, size)
    BY <2>1, <2>3
  <2>5. \E h : IsStates(h, 0..((n - 1) + 1), p, size)
    BY <1>2, <2>3, <2>4
  <2> QED BY <2>1, <2>3, <2>5
<1> QED BY <1>3

LEMMA StatesExist ==
  ASSUME NEW p, NEW size
  PROVE  \E g : IsStates(g, Nat, p, size)
<1> DEFINE upto == [n \in Nat |-> CHOOSE g : IsStates(g, 0..n, p, size)]
           Empty == {[chosen |-> {}, anchor |-> Nothing, several |-> FALSE]}
           h == [n \in Nat |-> upto[n][n]]
<1>1. ASSUME NEW n \in Nat PROVE IsStates(upto[n], 0..n, p, size)
  BY StatesUpTo
<1> HIDE DEF upto
<1>2. ASSUME NEW n \in Nat
      PROVE  h[n] = IF n = 0 THEN Empty ELSE AfterPlace(p, n, h[n - 1], size)
  <2>1. h[n] = IF n = 0 THEN Empty ELSE AfterPlace(p, n, upto[n][n - 1], size)
    <3>1. PICK a : a = upto[n]
      OBVIOUS
    <3>2. IsStates(a, 0..n, p, size) /\ n \in 0..n
      BY <1>1, <3>1
    <3>3. a[n] = IF n = 0 THEN Empty ELSE AfterPlace(p, n, a[n - 1], size)
      BY <3>2 DEF IsStates
    <3> QED BY <3>1, <3>3
  <2>2. ASSUME n # 0 PROVE upto[n][n - 1] = h[n - 1]
    <3>1. PICK m \in Nat : m = n - 1
      BY <2>2
    <3>2. m \in 0..n /\ m <= m
      BY <3>1
    <3>3. PICK a, b : a = upto[n] /\ b = upto[m]
      OBVIOUS
    <3>4. IsStates(a, 0..n, p, size) /\ IsStates(b, 0..m, p, size)
      BY <1>1, <3>3
    <3>5. \A k \in 0..n : k <= m => a[k] = b[k]
      BY <3>4, StatesAreUnique
    <3>6. a[m] = b[m]
      BY <3>2, <3>5
    <3> QED BY <3>1, <3>3, <3>6
  <2> HIDE DEF h, Empty
  <2> QED BY <2>1, <2>2
<1>3. h = [n \in Nat |-> h[n]]
  OBVIOUS
<1> HIDE DEF h
<1>4. IsStates(h, Nat, p, size)
  BY <1>2, <1>3 DEF IsStates
<1> QED BY <1>4

LEMMA StatesSatisfy ==
  ASSUME NEW p, NEW size
  PROVE  IsStates(States(p, size), Nat, p, size)
<1> DEFINE Eq(g) == g = [n \in Nat |->
             IF n = 0 THEN {[chosen |-> {}, anchor |-> Nothing, several |-> FALSE]}
             ELSE IF n \in DOMAIN p THEN Advance(g[n - 1], p[n], size) ELSE g[n - 1]]
<1>1. \A g : Eq(g) <=> IsStates(g, Nat, p, size)
  BY DEF IsStates, AfterPlace
<1>2. States(p, size) = CHOOSE g : Eq(g)
  BY DEF States
<1> HIDE DEF Eq
<1>3. \E g : Eq(g)
  BY <1>1, StatesExist
<1>4. Eq(States(p, size))
  BY <1>2, <1>3
<1> QED BY <1>1, <1>4

\* The candidates up to a place.
UpTo(p, n) == {p[i] : i \in {j \in DOMAIN p : j <= n}}

LEMMA StatesHoldTheBest ==
  ASSUME NEW E, IsPool(E), NEW p, DOMAIN p \subseteq Nat \ {0}, \A i \in DOMAIN p : p[i] \in E,
         \A i, j \in DOMAIN p : p[i] = p[j] => i = j, NEW size \in Nat, NEW n \in Nat
  PROVE  HoldsTheBest(States(p, size)[n], UpTo(p, n), size)
<1>1. PICK g : g = States(p, size)
  OBVIOUS
<1>2. /\ g[0] = {[chosen |-> {}, anchor |-> Nothing, several |-> FALSE]}
      /\ \A k \in Nat \ {0} : g[k] = AfterPlace(p, k, g[k - 1], size)
  <2>1. IsStates(g, Nat, p, size)
    BY <1>1, StatesSatisfy
  <2> QED BY <2>1 DEF IsStates
<1>3. HoldsTheBest(g[0], UpTo(p, 0), size)
  <2>1. UpTo(p, 0) = {}
    BY DEF UpTo
  <2>2. StateOf({}) = [chosen |-> {}, anchor |-> Nothing, several |-> FALSE]
    <3>1. UNION {x.tiers : x \in {}} = {} /\ Several({}) = FALSE
      BY DEF Several
    <3> QED BY <3>1 DEF StateOf
  <2>3. g[0] = {StateOf({})}
    BY <1>2, <2>2
  <2>4. Cardinality({}) <= size
    BY FS_EmptySet
  <2> QED BY <2>1, <2>3, <2>4 DEF HoldsTheBest
<1>4. ASSUME NEW k \in Nat \ {0}, HoldsTheBest(g[k - 1], UpTo(p, k - 1), size)
      PROVE  HoldsTheBest(g[k], UpTo(p, k), size)
  <2>1. CASE k \in DOMAIN p
    <3>1. PICK F, H, x : F = UpTo(p, k - 1) /\ H = UpTo(p, k) /\ x = p[k]
      OBVIOUS
    <3>2. H = F \union {x}
      BY <2>1, <3>1 DEF UpTo
    <3>3. F \in SUBSET E /\ x \in E \ F
      BY <2>1, <3>1 DEF UpTo
    <3>4. HoldsTheBest(Advance(g[k - 1], x, size), H, size)
      BY <1>4, <3>1, <3>2, <3>3, AdvanceHoldsTheBest
    <3>5. g[k] = Advance(g[k - 1], x, size)
      BY <1>2, <2>1, <3>1 DEF AfterPlace
    <3> QED BY <3>1, <3>4, <3>5
  <2>2. CASE k \notin DOMAIN p
    <3>1. UpTo(p, k) = UpTo(p, k - 1)
      BY <2>2 DEF UpTo
    <3>2. g[k] = g[k - 1]
      BY <1>2, <2>2 DEF AfterPlace
    <3> QED BY <1>4, <3>1, <3>2
  <2> QED BY <2>1, <2>2
<1> DEFINE Bad == {k \in Nat : ~HoldsTheBest(g[k], UpTo(p, k), size)}
<1>5. Bad = {}
  <2> SUFFICES ASSUME Bad # {} PROVE FALSE
    OBVIOUS
  <2>1. PICK k \in Bad : \A l \in Bad : k <= l
    BY LeastExists
  <2>2. k \in Nat \ {0}
    BY <1>3
  <2>3. k - 1 \in Nat /\ ~(k <= k - 1)
    BY <2>2
  <2>4. HoldsTheBest(g[k - 1], UpTo(p, k - 1), size)
    BY <2>1, <2>3
  <2> QED BY <1>4, <2>1, <2>2, <2>4
<1> QED BY <1>1, <1>5

(***************************************************************************)
(* The selection                                                           *)
(***************************************************************************)

LEMMA SubsetOfSize ==
  ASSUME NEW E, IsFiniteSet(E), NEW n \in Nat, n <= Cardinality(E)
  PROVE  \E A \in SUBSET E : Cardinality(A) = n
<1>1. Cardinality(E) \in Nat
  BY FS_CardinalityType
<1>2. PICK f \in Bijection(1..Cardinality(E), E) : TRUE
  BY FS_CardinalityType DEF ExistsBijection
<1>3. f \in [1..Cardinality(E) -> E] /\ \A i, j \in 1..Cardinality(E) : f[i] = f[j] => i = j
  BY <1>2 DEF Bijection, Injection, IsInjective
<1>4. PICK A : A = {f[i] : i \in 1..n}
  OBVIOUS
<1>5. \A i \in 1..n : i \in 1..Cardinality(E)
  BY <1>1
<1>6. A \in SUBSET E
  BY <1>3, <1>4, <1>5
<1>7. PICK g : g = [i \in 1..n |-> f[i]]
  OBVIOUS
<1>8. g \in Bijection(1..n, A)
  <2>1. g \in [1..n -> A] /\ \A a \in A : \E i \in 1..n : g[i] = a
    BY <1>4, <1>7
  <2>2. \A i, j \in 1..n : g[i] = g[j] => i = j
    BY <1>3, <1>5, <1>7
  <2> QED BY <2>1, <2>2 DEF Bijection, Injection, Surjection, IsInjective
<1>9. IsFiniteSet(1..n) /\ Cardinality(1..n) = n
  BY FS_Interval
<1>10. Cardinality(A) = n
  BY <1>8, <1>9, FS_Bijection DEF ExistsBijection
<1> QED BY <1>6, <1>10

\* Better, of the sets the states stand for.
LEMMA BetterOfSets ==
  ASSUME NEW A, NEW B
  PROVE  Better(StateOf(A), StateOf(B)) <=>
           LET tiersOf(C) == IF StateOf(C).several THEN 1 ELSE 0
           IN  \/ Cardinality(TypesOf(A)) > Cardinality(TypesOf(B))
               \/ /\ Cardinality(TypesOf(A)) = Cardinality(TypesOf(B))
                  /\ \/ tiersOf(A) > tiersOf(B)
                     \/ tiersOf(A) = tiersOf(B) /\ Ahead(A, B)
<1>1. PICK s, t : s = StateOf(A) /\ t = StateOf(B)
  OBVIOUS
<1>2. s.chosen = A /\ t.chosen = B
  BY <1>1 DEF StateOf
<1>3. Better(s, t) <=> LET tiersOf(u) == IF u.several THEN 1 ELSE 0
                       IN  \/ Cardinality(TypesOf(A)) > Cardinality(TypesOf(B))
                           \/ /\ Cardinality(TypesOf(A)) = Cardinality(TypesOf(B))
                              /\ \/ tiersOf(s) > tiersOf(t)
                                 \/ tiersOf(s) = tiersOf(t) /\ Ahead(A, B)
  BY <1>2 DEF Better, Prefer, Ahead, TypesOf
<1> QED BY <1>1, <1>3

LEMMA TypesAreFinite ==
  ASSUME NEW A, IsFiniteSet(A)
  PROVE  Cardinality(TypesOf(A)) \in Nat
<1>1. PICK f : f = [x \in A |-> x.type]
  OBVIOUS
<1>2. f \in Surjection(A, TypesOf(A))
  BY <1>1 DEF Surjection, TypesOf
<1> QED BY <1>2, FS_Surjection, FS_CardinalityType

LEMMA BetterIsAnOrder ==
  ASSUME NEW E, IsPool(E), NEW A \in SUBSET E, NEW B \in SUBSET E, NEW C \in SUBSET E
  PROVE  /\ ~Better(StateOf(A), StateOf(A))
         /\ Better(StateOf(A), StateOf(B)) /\ Better(StateOf(B), StateOf(C))
            => Better(StateOf(A), StateOf(C))
<1>1. PICK a, b, c : /\ a = Cardinality(TypesOf(A)) /\ b = Cardinality(TypesOf(B))
                     /\ c = Cardinality(TypesOf(C))
  OBVIOUS
<1>2. a \in Nat /\ b \in Nat /\ c \in Nat
  <2>1. IsFiniteSet(A) /\ IsFiniteSet(B) /\ IsFiniteSet(C)
    BY FS_Subset DEF IsPool
  <2> QED BY <1>1, <2>1, TypesAreFinite
<1>3. PICK l, m, n : /\ l = (IF StateOf(A).several THEN 1 ELSE 0)
                     /\ m = (IF StateOf(B).several THEN 1 ELSE 0)
                     /\ n = (IF StateOf(C).several THEN 1 ELSE 0)
  OBVIOUS
<1>4. l \in Nat /\ m \in Nat /\ n \in Nat
  BY <1>3
<1>5. Better(StateOf(A), StateOf(A)) <=> a > a \/ (a = a /\ (l > l \/ (l = l /\ Ahead(A, A))))
  BY <1>1, <1>3, BetterOfSets
<1>6. Better(StateOf(A), StateOf(B)) <=> a > b \/ (a = b /\ (l > m \/ (l = m /\ Ahead(A, B))))
  BY <1>1, <1>3, BetterOfSets
<1>7. Better(StateOf(B), StateOf(C)) <=> b > c \/ (b = c /\ (m > n \/ (m = n /\ Ahead(B, C))))
  BY <1>1, <1>3, BetterOfSets
<1>8. Better(StateOf(A), StateOf(C)) <=> a > c \/ (a = c /\ (l > n \/ (l = n /\ Ahead(A, C))))
  BY <1>1, <1>3, BetterOfSets
<1>9. ~Ahead(A, A) /\ (Ahead(A, B) /\ Ahead(B, C) => Ahead(A, C))
  BY AheadIsAnOrder
<1> QED BY <1>2, <1>4, <1>5, <1>6, <1>7, <1>8, <1>9

\* A set of the same key that is ahead is no worse against anybody.
LEMMA SameKeyIsAsGood ==
  ASSUME NEW E, IsPool(E), NEW A \in SUBSET E, NEW B \in SUBSET E, NEW C \in SUBSET E,
         Key(StateOf(B)) = Key(StateOf(A)), B = A \/ Ahead(B, A),
         Better(StateOf(A), StateOf(C))
  PROVE  Better(StateOf(B), StateOf(C))
<1>1. PICK s, t, u : s = StateOf(A) /\ t = StateOf(B) /\ u = StateOf(C)
  OBVIOUS
<1>2. TypesOf(B) = TypesOf(A) /\ t.several = s.several
  BY <1>1, KeysAgree
<1>3. PICK a, c, l, n : /\ a = Cardinality(TypesOf(A)) /\ c = Cardinality(TypesOf(C))
                        /\ l = (IF s.several THEN 1 ELSE 0) /\ n = (IF u.several THEN 1 ELSE 0)
  OBVIOUS
<1>4. Better(s, u) <=> a > c \/ (a = c /\ (l > n \/ (l = n /\ Ahead(A, C))))
  BY <1>1, <1>3, BetterOfSets
<1>5. Better(t, u) <=> a > c \/ (a = c /\ (l > n \/ (l = n /\ Ahead(B, C))))
  BY <1>1, <1>2, <1>3, BetterOfSets
<1>6. Ahead(A, C) => Ahead(B, C)
  BY AheadIsAnOrder
<1> QED BY <1>1, <1>4, <1>5, <1>6

\* The selector's choice is as large as it may be and no other of its size is better.
LEMMA SelectedIsTheBest ==
  ASSUME NEW E, IsPool(E), NEW p, NEW last \in Nat, DOMAIN p \subseteq 1..last,
         E = Range(p), \A i, j \in DOMAIN p : p[i] = p[j] => i = j,
         NEW C, C = Selected(p, last)
  PROVE  /\ C \in SUBSET E /\ Cardinality(C) = Min({SampleSize, Cardinality(E)})
         /\ \A A \in SUBSET E : Cardinality(A) = Cardinality(C) => ~Better(StateOf(A), StateOf(C))
<1>0. E = {p[i] : i \in DOMAIN p}
  BY DEF Range
<1>1. IsFiniteSet(E) /\ Cardinality(E) \in Nat /\ Cardinality(DOMAIN p) = Cardinality(E)
  <2>1. IsFiniteSet(DOMAIN p)
    BY FS_Interval, FS_Subset
  <2>2. PICK f : f = [i \in DOMAIN p |-> p[i]]
    OBVIOUS
  <2>3. f \in Bijection(DOMAIN p, E)
    BY <1>0, <2>2 DEF Bijection, Injection, Surjection, IsInjective
  <2> QED BY <2>1, <2>3, FS_Bijection, FS_CardinalityType DEF ExistsBijection
<1>2. PICK size : size = Min({SampleSize, Cardinality(E)})
  OBVIOUS
<1>3. size \in Nat /\ size <= Cardinality(E)
  <2>1. {SampleSize, Cardinality(E)} \in SUBSET Nat
    BY <1>1, SamplingAssumption
  <2> QED BY <1>2, <2>1, MinIsLeast
<1>4. PICK states : states = States(p, size)[last]
  OBVIOUS
<1>5. HoldsTheBest(states, E, size)
  <2>1. UpTo(p, last) = E
    BY <1>0 DEF UpTo
  <2>2. DOMAIN p \subseteq Nat \ {0} /\ \A i \in DOMAIN p : p[i] \in E
    BY <1>0
  <2>3. HoldsTheBest(States(p, size)[last], UpTo(p, last), size)
    BY <1>3, <2>2, StatesHoldTheBest
  <2> QED BY <1>4, <2>1, <2>3
<1>6. PICK finalists : finalists = {s \in states : Cardinality(s.chosen) = size}
  OBVIOUS
<1>7. /\ \A s \in finalists : \E A \in SUBSET E : s = StateOf(A) /\ Cardinality(A) = size
      /\ \A A \in SUBSET E : Cardinality(A) = size =>
           \E B \in SUBSET E : /\ StateOf(B) \in finalists /\ Key(StateOf(B)) = Key(StateOf(A))
                               /\ B = A \/ Ahead(B, A)
  <2>1. ASSUME NEW s \in finalists PROVE \E A \in SUBSET E : s = StateOf(A) /\ Cardinality(A) = size
    <3>1. PICK A \in SUBSET E : s = StateOf(A)
      BY <1>5, <1>6 DEF HoldsTheBest
    <3>2. s.chosen = A
      BY <3>1 DEF StateOf
    <3> QED BY <1>6, <3>1, <3>2
  <2>2. ASSUME NEW A \in SUBSET E, Cardinality(A) = size
        PROVE  \E B \in SUBSET E : /\ StateOf(B) \in finalists /\ Key(StateOf(B)) = Key(StateOf(A))
                                   /\ B = A \/ Ahead(B, A)
    <3>1. PICK B \in SUBSET E : /\ StateOf(B) \in states /\ Key(StateOf(B)) = Key(StateOf(A))
                                /\ B = A \/ Ahead(B, A)
      BY <1>3, <1>5, <2>2 DEF HoldsTheBest
    <3>2. PICK t : t = StateOf(B)
      OBVIOUS
    <3>3. Cardinality(t.chosen) = size
      BY <2>2, <3>1, <3>2, KeysAgree
    <3> QED BY <1>6, <3>1, <3>2, <3>3
  <2> QED BY <2>1, <2>2
<1>8. \E s \in finalists : ~\E t \in finalists : Better(t, s)
  <2>1. PICK G : G = {A \in SUBSET E : StateOf(A) \in finalists}
    OBVIOUS
  <2>2. IsFiniteSet(G)
    <3>1. G \in SUBSET (SUBSET E)
      BY <2>1
    <3> QED BY <1>1, <3>1, FS_SUBSET, FS_Subset
  <2>3. G # {}
    <3>1. PICK A \in SUBSET E : Cardinality(A) = size
      BY <1>1, <1>3, SubsetOfSize
    <3> QED BY <1>7, <2>1, <3>1
  <2>4. PICK above : above = [A \in G |-> {B \in G : Better(StateOf(B), StateOf(A))}]
    OBVIOUS
  <2>5. /\ above \in [G -> SUBSET G]
        /\ \A A \in G : A \notin above[A] /\ \A B \in above[A] : above[B] \subseteq above[A]
    <3>1. \A A \in G : A \in SUBSET E
      BY <2>1
    <3>2. \A A \in G : ~Better(StateOf(A), StateOf(A))
      BY <3>1, BetterIsAnOrder
    <3>3. \A A, B, D \in G : Better(StateOf(A), StateOf(B)) /\ Better(StateOf(B), StateOf(D))
                             => Better(StateOf(A), StateOf(D))
      BY <3>1, BetterIsAnOrder
    <3> QED BY <2>4, <3>2, <3>3
  <2>6. PICK M \in G : above[M] = {}
    BY <2>2, <2>3, <2>5, SomeIsOnTop
  <2>7. ASSUME NEW t \in finalists, Better(t, StateOf(M)) PROVE FALSE
    <3>1. PICK B \in SUBSET E : t = StateOf(B)
      BY <1>7
    <3>2. B \in G
      BY <2>1, <3>1
    <3> QED BY <2>4, <2>6, <2>7, <3>1, <3>2
  <2> QED BY <2>1, <2>7
<1>9. PICK s : s = CHOOSE x \in finalists : ~\E t \in finalists : Better(t, x)
  OBVIOUS
<1>10. s \in finalists /\ ~\E t \in finalists : Better(t, s)
  BY <1>8, <1>9
<1>11. C = s.chosen
  BY <1>1, <1>2, <1>4, <1>6, <1>9 DEF Selected
<1>12. PICK D \in SUBSET E : s = StateOf(D) /\ Cardinality(D) = size
  BY <1>7, <1>10
<1>13. C = D
  BY <1>11, <1>12 DEF StateOf
<1>14. ASSUME NEW A \in SUBSET E, Cardinality(A) = size, Better(StateOf(A), StateOf(C)) PROVE FALSE
  <2>1. PICK B \in SUBSET E : /\ StateOf(B) \in finalists /\ Key(StateOf(B)) = Key(StateOf(A))
                              /\ B = A \/ Ahead(B, A)
    BY <1>7, <1>14
  <2>2. Better(StateOf(B), StateOf(C))
    BY <1>13, <1>14, <2>1, SameKeyIsAsGood
  <2> QED BY <1>10, <1>12, <1>13, <2>1, <2>2
<1> QED BY <1>2, <1>12, <1>13, <1>14

(***************************************************************************)
(* The review order                                                        *)
(***************************************************************************)

LEMMA ForemostIsOnePerType ==
  ASSUME NEW E, IsPool(E), NEW C \in SUBSET E, NEW x \in Foremost(C), NEW y \in Foremost(C),
         PlaceOf(x.type) = PlaceOf(y.type)
  PROVE  x = y
<1>1. x \in E /\ y \in E
  BY DEF Foremost
<1>2. TypeOrder[PlaceOf(x.type)] = x.type /\ TypeOrder[PlaceOf(y.type)] = y.type
  <2>1. x.type \in Range(TypeOrder) /\ y.type \in Range(TypeOrder)
    BY <1>1 DEF IsPool
  <2> QED BY <2>1 DEF Range, PlaceOf
<1>3. x.tie <= y.tie /\ y.tie <= x.tie /\ x.tie \in Nat /\ y.tie \in Nat
  BY <1>1, <1>2 DEF Foremost, IsPool
<1> QED BY <1>1, <1>3 DEF IsPool

LEMMA ReviewedBeforeIsAnOrder ==
  ASSUME NEW E, IsPool(E), NEW C \in SUBSET E
  PROVE  /\ \A x \in C : ~ReviewedBefore(C, x, x)
         /\ \A x, y \in C : x = y \/ ReviewedBefore(C, x, y) \/ ReviewedBefore(C, y, x)
         /\ \A x, y, z \in C : ReviewedBefore(C, x, y) /\ ReviewedBefore(C, y, z)
                               => ReviewedBefore(C, x, z)
<1>1. PICK first : first = Foremost(C)
  OBVIOUS
<1>2. PICK place : place = [x \in C |-> PlaceOf(x.type)]
  OBVIOUS
<1>3. PICK before : before = [x \in C |-> {y \in C : ReviewedBefore(C, y, x)}]
  OBVIOUS
<1>4. \A x, y \in C : y \in before[x]
        <=> \/ y \in first /\ x \notin first
            \/ y \in first /\ x \in first /\ place[y] < place[x]
            \/ /\ y \notin first /\ x \notin first
               /\ (y.priority /\ ~x.priority) \/ (y.priority = x.priority /\ y.tie < x.tie)
  BY <1>1, <1>2, <1>3 DEF ReviewedBefore
<1>5. \A x \in C : /\ place[x] \in Nat /\ x.tie \in Nat /\ x.priority \in BOOLEAN
  <2> SUFFICES ASSUME NEW x \in C PROVE place[x] \in Nat /\ x.tie \in Nat /\ x.priority \in BOOLEAN
    OBVIOUS
  <2>1. x.type \in Range(TypeOrder)
    BY DEF IsPool
  <2>2. PlaceOf(x.type) \in DOMAIN TypeOrder
    BY <2>1 DEF Range, PlaceOf
  <2> QED BY <1>2, <2>2, SamplingAssumption DEF IsPool
<1>6. \A x, y \in C : x \in first /\ y \in first /\ place[x] = place[y] => x = y
  BY <1>1, <1>2, ForemostIsOnePerType
<1>7. \A x, y \in C : x.tie = y.tie => x = y
  BY DEF IsPool
<1>8. \A x \in C : x \notin before[x]
  BY <1>4, <1>5
<1>9. \A x, y \in C : x = y \/ x \in before[y] \/ y \in before[x]
  BY <1>4, <1>5, <1>6, <1>7
<1>10. \A x, y, z \in C : x \in before[y] /\ y \in before[z] => x \in before[z]
  BY <1>4, <1>5
<1> QED BY <1>3, <1>8, <1>9, <1>10

\* The review order names every claim of the sample and no other.
LEMMA ReviewOrderIsComplete ==
  ASSUME NEW E, IsPool(E), NEW C \in SUBSET E, NEW order, order = ReviewOrder(C)
  PROVE  /\ order \in [1..Cardinality(C) -> C]
         /\ \A x \in C : \E i \in 1..Cardinality(C) : order[i] = x
<1>1. IsFiniteSet(C) /\ Cardinality(C) \in Nat
  BY FS_Subset, FS_CardinalityType DEF IsPool
<1>2. PICK n \in Nat : n = Cardinality(C)
  BY <1>1
<1>3. PICK before : before = [x \in C |-> {y \in C : ReviewedBefore(C, y, x)}]
  OBVIOUS
<1>4. /\ \A x \in C : before[x] \in SUBSET C /\ x \notin before[x]
      /\ \A x, y \in C : x = y \/ x \in before[y] \/ y \in before[x]
      /\ \A x, y \in C : y \in before[x] => before[y] \subseteq before[x]
      /\ \A x, y \in C : ReviewedBefore(C, y, x) <=> y \in before[x]
  BY <1>3, ReviewedBeforeIsAnOrder
<1>5. \A x \in C : IsFiniteSet(before[x]) /\ Cardinality(before[x]) \in Nat
  BY <1>1, <1>4, FS_Subset, FS_CardinalityType
<1>6. \A x, y \in C : y \in before[x] => Cardinality(before[y]) < Cardinality(before[x])
  <2> SUFFICES ASSUME NEW x \in C, NEW y \in C, y \in before[x]
               PROVE  Cardinality(before[y]) < Cardinality(before[x])
    OBVIOUS
  <2>1. PICK a, b : a = before[y] /\ b = before[x]
    OBVIOUS
  <2>2. a \in SUBSET b /\ a # b /\ IsFiniteSet(b) /\ Cardinality(a) \in Nat /\ Cardinality(b) \in Nat
    BY <1>4, <1>5, <2>1
  <2>3. Cardinality(a) <= Cardinality(b) /\ Cardinality(a) # Cardinality(b)
    BY <2>2, FS_Subset
  <2> QED BY <2>1, <2>2, <2>3
<1>7. \A x \in C : Cardinality(before[x]) < n
  <2> SUFFICES ASSUME NEW x \in C PROVE Cardinality(before[x]) < n
    OBVIOUS
  <2>1. before[x] \in SUBSET C /\ before[x] # C
    BY <1>4
  <2>2. Cardinality(before[x]) <= n /\ Cardinality(before[x]) # n
    BY <1>1, <1>2, <2>1, FS_Subset
  <2> QED BY <1>2, <1>5, <2>2
<1>8. PICK rank : rank = [x \in C |-> Cardinality(before[x]) + 1]
  OBVIOUS
<1>9. rank \in Injection(C, 1..n)
  <2>1. rank \in [C -> 1..n]
    BY <1>5, <1>7, <1>8
  <2>2. \A x, y \in C : rank[x] = rank[y] => x = y
    BY <1>4, <1>5, <1>6, <1>8
  <2> QED BY <2>1, <2>2 DEF Injection, IsInjective
<1>10. rank \in Surjection(C, 1..n)
  <2>1. IsFiniteSet(1..n) /\ Cardinality(1..n) = n
    BY FS_Interval
  <2> QED BY <1>2, <1>9, <2>1, FS_Injection
<1>11. \A i \in 1..n : \E x \in C : rank[x] = i
  BY <1>10 DEF Surjection
<1>12. PICK ranked : ranked = [i \in 1..n |-> CHOOSE x \in C : rank[x] = i]
  OBVIOUS
<1>13. /\ ranked \in [1..n -> C]
       /\ \A i \in 1..n : rank[ranked[i]] = i
  BY <1>11, <1>12
<1>14. ASSUME NEW i \in 1..n, NEW j \in 1..n, i < j
       PROVE  ReviewedBefore(C, ranked[i], ranked[j])
  <2>1. PICK x, y : x = ranked[i] /\ y = ranked[j]
    OBVIOUS
  <2>2. x \in C /\ y \in C /\ rank[x] = i /\ rank[y] = j
    BY <1>13, <2>1
  <2>3. x # y /\ y \notin before[x]
    BY <1>5, <1>6, <1>8, <1>14, <2>2
  <2> QED BY <1>4, <2>1, <2>2, <2>3
<1>15. /\ order \in [1..n -> C]
       /\ \A i, j \in 1..n : i < j => ReviewedBefore(C, order[i], order[j])
  <2> DEFINE Ordered(o) == \A i, j \in DOMAIN o : i < j => ReviewedBefore(C, o[i], o[j])
  <2>1. order = CHOOSE o \in [1..n -> C] : Ordered(o)
    BY <1>2 DEF ReviewOrder
  <2>2. Ordered(ranked)
    BY <1>13, <1>14
  <2> HIDE DEF Ordered
  <2>3. order \in [1..n -> C] /\ Ordered(order)
    BY <1>13, <2>1, <2>2
  <2> QED BY <2>3 DEF Ordered
<1>16. order \in Injection(1..n, C)
  <2>1. \A i, j \in 1..n : order[i] = order[j] => i = j
    <3> SUFFICES ASSUME NEW i \in 1..n, NEW j \in 1..n, order[i] = order[j], i # j PROVE FALSE
      OBVIOUS
    <3>1. i < j \/ j < i
      OBVIOUS
    <3>2. order[i] \in C /\ order[j] \in C /\ order[i] \notin before[order[i]]
      BY <1>4, <1>15
    <3> QED BY <1>4, <1>15, <3>1, <3>2
  <2> QED BY <1>15, <2>1 DEF Injection, IsInjective
<1>17. order \in Surjection(1..n, C)
  <2>1. Cardinality(1..n) = Cardinality(C)
    BY <1>2, FS_Interval
  <2> QED BY <1>1, <1>16, <2>1, FS_Injection
<1> QED BY <1>2, <1>15, <1>17 DEF Surjection

(***************************************************************************)
(* The sample of a valid brief                                             *)
(***************************************************************************)

LEMMA CandidatesArePool ==
  ASSUME NEW d, DraftOK(d), Issues(d) = {}, LookedUp(d) \subseteq DOMAIN ById(d),
         NEW tie \in Bijection(DOMAIN ById(d), 1..Cardinality(DOMAIN ById(d))),
         NEW p, p = Candidates(d, tie), NEW E, E = Range(p)
  PROVE  /\ DOMAIN p \subseteq 1..Len(d.claims) /\ Len(d.claims) \in Nat
         /\ \A i, j \in DOMAIN p : p[i] = p[j] => i = j
         /\ IsPool(E) /\ \A x, y \in E : x.id = y.id => x = y
<1>1. PICK claims : claims = ById(d)
  OBVIOUS
<1>2. Len(d.claims) \in Nat /\ d.claims \in [1..Len(d.claims) -> ClaimForm]
  BY LenProperties DEF DraftOK
<1>3. PICK n \in Nat : n = Len(d.claims)
  BY <1>2
<1>4. DOMAIN p = {i \in 1..n : d.claims[i].id \in ReachableIds(d)}
  BY <1>2, <1>3 DEF Candidates
<1>5. \A i \in DOMAIN p : p[i] = CandidateOf(d, d.claims[i], tie)
  BY DEF Candidates
<1>6. \A i \in DOMAIN p : /\ p[i].id = d.claims[i].id /\ p[i].type = d.claims[i].type
                          /\ p[i].tiers = AuthorityTiers(claims, d.claims[i].id)
                          /\ p[i].priority = IsPriorityClaim(d, d.claims[i])
                          /\ p[i].tie = tie[d.claims[i].id]
  BY <1>1, <1>5 DEF CandidateOf
<1>7. \A i, j \in 1..n : d.claims[i].id = d.claims[j].id => i = j
  BY <1>2, <1>3, ValidDraft
<1>8. /\ ReachableIds(d) \subseteq DOMAIN claims
      /\ \A id \in ReachableIds(d) : EvidenceOf(claims, id) \subseteq DOMAIN Packet.evidence
  BY <1>1, ShownIsReviewable DEF Unreviewable
<1>9. /\ \A id \in DOMAIN claims : tie[id] \in Nat
      /\ \A a, b \in DOMAIN claims : tie[a] = tie[b] => a = b
  BY <1>1 DEF Bijection, Injection, IsInjective
<1>10. E = {p[i] : i \in DOMAIN p}
  BY DEF Range
<1>11. \A i, j \in DOMAIN p : p[i].id = p[j].id \/ p[i].tie = p[j].tie => i = j
  BY <1>4, <1>6, <1>7, <1>8, <1>9
<1>12. IsFiniteSet(E)
  <2>1. IsFiniteSet(DOMAIN p)
    <3>1. DOMAIN p \in SUBSET (1..n) /\ IsFiniteSet(1..n)
      BY <1>4, FS_Interval
    <3> QED BY <3>1, FS_Subset
  <2>2. PICK f : f = [i \in DOMAIN p |-> p[i]]
    OBVIOUS
  <2>3. f \in Surjection(DOMAIN p, E)
    BY <1>10, <2>2 DEF Surjection
  <2> QED BY <2>1, <2>3, FS_Surjection
<1>13. ASSUME NEW i \in DOMAIN p
       PROVE  /\ p[i].tie \in Nat /\ p[i].priority \in BOOLEAN /\ Nothing \notin p[i].tiers
              /\ p[i].type \in Range(TypeOrder)
  <2>1. p[i].tie \in Nat
    BY <1>4, <1>6, <1>8, <1>9
  <2>2. p[i].priority \in BOOLEAN
    BY <1>6 DEF IsPriorityClaim
  <2>3. Nothing \notin p[i].tiers
    <3>1. PICK id : id = d.claims[i].id /\ id \in ReachableIds(d)
      BY <1>4
    <3>2. EvidenceOf(claims, id) \subseteq DOMAIN Packet.evidence
      BY <1>8, <3>1
    <3>3. \A e \in DOMAIN Packet.evidence : Packet.evidence[e].tier # Nothing
      BY SamplingAssumption DEF Range
    <3>4. Nothing \notin AuthorityTiers(claims, id)
      BY <3>2, <3>3 DEF AuthorityTiers
    <3> QED BY <1>6, <3>1, <3>4
  <2>4. p[i].type \in Range(TypeOrder)
    <3>1. d.claims[i] \in ClaimForm
      BY <1>2, <1>3, <1>4
    <3>2. d.claims[i].type \in {"FACT", "CALCULATION", "INFERENCE", "HYPOTHESIS"}
      BY <3>1, BriefAssumption
    <3> QED BY <1>6, <3>2, SamplingAssumption
  <2> QED BY <2>1, <2>2, <2>3, <2>4
<1>14. IsPool(E)
  BY <1>10, <1>11, <1>12, <1>13 DEF IsPool
<1> QED BY <1>3, <1>4, <1>10, <1>11, <1>14

\* The review contexts of an order, and the candidates they are about.
ContextsOf(d, order) == [i \in DOMAIN order |-> ContextOf(ById(d), order[i])]
TakenBy(all, contexts) == {x \in all : \E c \in Range(contexts) : c.claim = x.id}

\* A choice among candidates of which none of its size is better.
BestOf(all, taken) ==
  /\ Cardinality(taken) = Min({SampleSize, Cardinality(all)})
  /\ \A other \in SUBSET all :
        Cardinality(other) = Cardinality(taken) => ~Better(StateOf(other), StateOf(taken))

OrderOf(d, tie) == ReviewOrder(Selected(Candidates(d, tie), Len(d.claims)))
TakenOf(d, tie) == TakenBy(Range(Candidates(d, tie)), ContextsOf(d, OrderOf(d, tie)))

LEMMA SampleOfValidIsTheBest ==
  ASSUME NEW d, DraftOK(d), Issues(d) = {}, LookedUp(d) \subseteq DOMAIN ById(d),
         NEW tie \in Bijection(DOMAIN ById(d), 1..Cardinality(DOMAIN ById(d)))
  PROVE  BestOf(Range(Candidates(d, tie)), TakenOf(d, tie))
<1> SUFFICES ASSUME NEW order, order = ReviewOrder(Selected(Candidates(d, tie), Len(d.claims))),
                    NEW contexts, contexts = ContextsOf(d, order),
                    NEW all, all = Range(Candidates(d, tie)),
                    NEW taken, taken = TakenBy(all, contexts)
             PROVE  BestOf(all, taken)
  BY DEF TakenOf, OrderOf
<1>1. PICK p, last : p = Candidates(d, tie) /\ last = Len(d.claims)
  OBVIOUS
<1>2. /\ DOMAIN p \subseteq 1..last /\ last \in Nat
      /\ all = Range(p) /\ \A i, j \in DOMAIN p : p[i] = p[j] => i = j
      /\ IsPool(all) /\ \A x, y \in all : x.id = y.id => x = y
  BY <1>1, CandidatesArePool
<1>3. PICK C : C = Selected(p, last)
  OBVIOUS
<1>4. /\ C \in SUBSET all /\ Cardinality(C) = Min({SampleSize, Cardinality(all)})
      /\ \A A \in SUBSET all : Cardinality(A) = Cardinality(C) => ~Better(StateOf(A), StateOf(C))
  BY <1>2, <1>3, SelectedIsTheBest
<1>5. /\ order \in [1..Cardinality(C) -> C]
      /\ \A x \in C : \E i \in 1..Cardinality(C) : order[i] = x
  <2>1. order = ReviewOrder(C)
    BY <1>1, <1>3
  <2> QED BY <1>2, <1>4, <2>1, ReviewOrderIsComplete
<1>6. /\ DOMAIN contexts = 1..Cardinality(C)
      /\ \A i \in 1..Cardinality(C) : contexts[i].claim = order[i].id
  BY <1>5 DEF ContextsOf, ContextOf
<1>7. \A x \in all : x \in taken <=> \E i \in 1..Cardinality(C) : order[i].id = x.id
  <2>1. \A x : x \in taken <=> x \in all /\ \E c \in Range(contexts) : c.claim = x.id
    BY DEF TakenBy
  <2>2. Range(contexts) = {contexts[i] : i \in 1..Cardinality(C)}
    BY <1>6 DEF Range
  <2>3. ASSUME NEW x \in all, NEW c \in Range(contexts), c.claim = x.id
        PROVE  \E i \in 1..Cardinality(C) : order[i].id = x.id
    <3>1. PICK i \in 1..Cardinality(C) : c = contexts[i]
      BY <2>2
    <3> QED BY <1>6, <2>3, <3>1
  <2>4. ASSUME NEW x \in all, NEW i \in 1..Cardinality(C), order[i].id = x.id
        PROVE  \E c \in Range(contexts) : c.claim = x.id
    <3>1. contexts[i] \in Range(contexts) /\ contexts[i].claim = x.id
      BY <1>6, <2>2, <2>4
    <3> QED BY <3>1
  <2> QED BY <2>1, <2>3, <2>4
<1>8. taken = C
  <2>1. taken \subseteq all
    BY DEF TakenBy
  <2>2. \A x \in taken : x \in C
    <3> SUFFICES ASSUME NEW x \in taken PROVE x \in C
      OBVIOUS
    <3>1. PICK i \in 1..Cardinality(C) : order[i].id = x.id
      BY <1>7, <2>1
    <3>2. order[i] \in C
      BY <1>5
    <3> QED BY <1>2, <1>4, <2>1, <3>1, <3>2
  <2>3. \A x \in C : x \in taken
    <3> SUFFICES ASSUME NEW x \in C PROVE x \in taken
      OBVIOUS
    <3>1. PICK i \in 1..Cardinality(C) : order[i] = x
      BY <1>5
    <3> QED BY <1>4, <1>7, <3>1
  <2> QED BY <2>2, <2>3
<1> QED BY <1>4, <1>8 DEF BestOf

(***************************************************************************)
(* The published sample                                                    *)
(***************************************************************************)

SamplingInv ==
  /\ BriefInv
  /\ sample # Raised
  /\ sample # Nothing => report \notin {Nothing, Raised}
  /\ SampleIsTheBest

\* A set of candidates as the property compares it; an anchor makes no difference.
FilledOf(chosen) ==
  [chosen |-> chosen, anchor |-> Nothing, several |-> Several(UNION {x.tiers : x \in chosen})]

\* The comparison looks at the chosen candidates and at whether tiers are several.
LEMMA BetterIgnoresAnchors ==
  ASSUME NEW s, NEW t, NEW u, NEW v,
         s.chosen = u.chosen, s.several = u.several, t.chosen = v.chosen, t.several = v.several,
         Better(s, t)
  PROVE  Better(u, v)
<1>1. Prefer(s, t) <=> Prefer(u, v)
  BY DEF Prefer
<1>2. /\ {x.type : x \in s.chosen} = {x.type : x \in u.chosen}
      /\ {x.type : x \in t.chosen} = {x.type : x \in v.chosen}
  OBVIOUS
<1> QED BY <1>1, <1>2 DEF Better

LEMMA SampleStepIsTheBest ==
  ASSUME SamplingInv, Sample
  PROVE  sample' # Raised /\ SampleIsTheBest'
<1>1. UNCHANGED briefVars /\ report \notin {Nothing, Raised}
  BY DEF Sample
<1>2. DraftOK(draft) /\ Issues(draft) = {} /\ LookedUp(draft) \subseteq DOMAIN ById(draft)
  BY <1>1, BriefAssumption DEF SamplingInv, BriefInv, ShownOf
<1>3. ~Unreviewable(draft)
  BY <1>2, ShownIsReviewable
<1>4. PICK d : d = draft
  OBVIOUS
<1>5. PICK tie \in Bijection(DOMAIN ById(d), 1..Cardinality(DOMAIN ById(d))) :
         LET chosen == ReviewOrder(Selected(Candidates(d, tie), Len(d.claims)))
         IN  sample' = [ties |-> tie,
                        contexts |-> [i \in DOMAIN chosen |-> ContextOf(ById(d), chosen[i])]]
  BY <1>3, <1>4 DEF Sample
<1>6. PICK order : order = ReviewOrder(Selected(Candidates(d, tie), Len(d.claims)))
  OBVIOUS
<1>7. PICK contexts : contexts = ContextsOf(d, order)
  OBVIOUS
<1>8. sample' = [ties |-> tie, contexts |-> contexts]
  BY <1>5, <1>6, <1>7 DEF ContextsOf
<1>9. PICK all : all = Range(Candidates(d, tie))
  OBVIOUS
<1>10. PICK taken : taken = TakenBy(all, contexts)
  OBVIOUS
<1>11. /\ Cardinality(taken) = Min({SampleSize, Cardinality(all)})
       /\ \A other \in SUBSET all :
             Cardinality(other) = Cardinality(taken) => ~Better(StateOf(other), StateOf(taken))
  <2>1. DraftOK(d) /\ Issues(d) = {} /\ LookedUp(d) \subseteq DOMAIN ById(d)
    BY <1>2, <1>4
  <2>2. tie \in Bijection(DOMAIN ById(d), 1..Cardinality(DOMAIN ById(d)))
    OBVIOUS
  <2>3. BestOf(Range(Candidates(d, tie)), TakenOf(d, tie))
    BY ONLY <2>1, <2>2, SampleOfValidIsTheBest
  <2>4. all = Range(Candidates(d, tie)) /\ taken = TakenOf(d, tie)
    BY <1>6, <1>7, <1>9, <1>10 DEF TakenOf, OrderOf
  <2> QED BY <2>3, <2>4 DEF BestOf
<1>12. ASSUME NEW A, NEW B, Better(FilledOf(A), FilledOf(B))
       PROVE  Better(StateOf(A), StateOf(B))
  <2>1. ASSUME NEW D
        PROVE  FilledOf(D).chosen = StateOf(D).chosen /\ FilledOf(D).several = StateOf(D).several
    BY DEF FilledOf, StateOf
  <2> QED BY <1>12, <2>1, BetterIgnoresAnchors
<1>13. draft' = d
  BY <1>1, <1>4 DEF briefVars
<1>14. SampleIsTheBest'
  <2>1. sample'.ties = tie /\ sample'.contexts = contexts
    BY <1>8
  <2> QED BY <1>9, <1>10, <1>11, <1>12, <1>13, <2>1 DEF SampleIsTheBest, FilledOf, TakenBy
<1>15. sample' # Raised
  BY <1>8 DEF Raised
<1> QED BY <1>14, <1>15

LEMMA SamplingStepKeepsInv == SamplingInv /\ [SamplingNext]_samplingVars => SamplingInv'
<1> SUFFICES ASSUME SamplingInv, [SamplingNext]_samplingVars PROVE SamplingInv'
  OBVIOUS
<1>1. CASE BriefNext /\ UNCHANGED sample
  <2>1. BriefInv' /\ sample' # Raised
    BY <1>1, BriefStepKeepsInv DEF SamplingInv
  <2>2. sample = Nothing
    BY <1>1, BriefAssumption DEF SamplingInv, BriefInv, BriefNext, Writing, WriteFrame, WriteClaim,
       WriteNarrative, WriteWarning, ValidateBrief, Render
  <2>3. SampleIsTheBest'
    BY <1>1, <2>2 DEF SampleIsTheBest
  <2> QED BY <1>1, <2>1, <2>2, <2>3 DEF SamplingInv
<1>2. CASE Sample
  <2>1. BriefInv' /\ UNCHANGED report /\ report \notin {Nothing, Raised}
    BY <1>2, BriefStepKeepsInv DEF SamplingInv, Sample, briefVars
  <2> QED BY <1>2, <2>1, SampleStepIsTheBest DEF SamplingInv
<1>3. CASE UNCHANGED samplingVars
  <2>1. BriefInv' /\ UNCHANGED <<draft, report, sample>>
    BY <1>3, BriefStepKeepsInv DEF SamplingInv, samplingVars, briefVars
  <2>2. SampleIsTheBest'
    BY <2>1 DEF SamplingInv, SampleIsTheBest
  <2> QED BY <2>1, <2>2 DEF SamplingInv
<1> QED BY <1>1, <1>2, <1>3 DEF SamplingNext

\* The sampler is only asked about briefs the validator let through, refuses none of
\* them, and finds the best sample (build_citation_entailment_review_sample).
THEOREM SamplingInvariance == SamplingSpec => []SamplingInv
<1>1. SamplingInit => SamplingInv
  BY BriefAssumption DEF SamplingInit, BriefInit, BriefInv, SamplingInv, SampleIsTheBest
<1> QED BY <1>1, SamplingStepKeepsInv, PTL DEF SamplingSpec

\* For any brief, any hashes and any sample size, the dynamic program over the claims
\* (_select, _extend_tiers, _prefer) finds a sample no other of its size is better than.
THEOREM SampleStaysTheBest == SamplingSpec => []SampleIsTheBest
<1>1. SamplingInv => SampleIsTheBest
  BY DEF SamplingInv
<1> QED BY <1>1, SamplingInvariance, PTL

\* A valid brief fails to render for one reason only, and a rendered one never makes
\* the sampler raise (_reachable_claim_ids, _claim_closure, _authority_tiers), for any
\* packet whose metrics are made from its evidence.
THEOREM PublishedBriefStaysReviewable == SamplingSpec => []PublishedBriefIsReviewable
<1>1. SamplingInv => PublishedBriefIsReviewable
  <2> SUFFICES ASSUME SamplingInv, report = Raised
               PROVE  ~(Placements(draft) \subseteq DOMAIN ById(draft))
    BY DEF SamplingInv, PublishedBriefIsReviewable
  <2>1. DraftOK(draft) /\ Issues(draft) = {} /\ Raised = ShownOf(draft)
    BY BriefAssumption DEF SamplingInv, BriefInv
  <2>2. ~(LookedUp(draft) \subseteq DOMAIN ById(draft))
    BY <2>1 DEF ShownOf, Raised
  <2> QED BY <2>1, <2>2, ValidIsLookedUp
<1> QED BY <1>1, SamplingInvariance, PTL

=============================================================================
