---------------------------- MODULE CitationSampling ----------------------------
(***************************************************************************)
(* The claims of a published brief that a person reviews, and what is put  *)
(* beside them (evaluation/citation_sampling.py).                          *)
(*                                                                         *)
(* A sample has a fixed size; it covers as many claim types as possible,   *)
(* then two authority tiers if it can, then claims about plans and other   *)
(* conclusions; ties are broken by hashes, here an arbitrary order of the  *)
(* claims.  The selector is a dynamic program over the claims.             *)
(***************************************************************************)
EXTENDS BriefValidation

CONSTANTS
    SampleSize,       \* the most claims in a sample (5)
    PrioritySections, \* sections whose claims are conclusions
    TypeOrder         \* ClaimType in its order

\* Every type has its place; an authority tier is a number.
ASSUME SamplingAssumption ==
    /\ SampleSize \in Nat
    /\ {"FACT", "CALCULATION", "INFERENCE", "HYPOTHESIS"} \subseteq Range(TypeOrder)
    /\ DOMAIN TypeOrder \subseteq Nat
    /\ \A e \in Range(Packet.evidence) : e.tier # Nothing

VARIABLE sample       \* the review contexts, Raised or Nothing

samplingVars == <<briefVars, sample>>

--------------------------------------------------------------------------------
(* Candidates.                                                                *)

Narrated(d) == UNION {Range(n.claims) : n \in Range(d.narratives)}

\* _reachable_claim_ids, _claim_closure: raise where an id has no claim.
ReachableIds(d) == Named(ById(d), Placements(d) \union Narrated(d))

ClaimClosure(claims, id) == {claims[below] : below \in Closure(claims, {id})}

\* The evidence a claim and the claims below it are reviewed against.
EvidenceOf(claims, id) ==
    UNION {c.evidence \union Range(c.counter)
           \union UNION {Packet.metrics[m].inputs : m \in c.metrics \intersect DOMAIN Packet.metrics} :
               c \in ClaimClosure(claims, id)}

\* What the sampler refuses: ids that occur twice, and references to claims,
\* evidence or metrics that are not there.
Unreviewable(d) ==
    LET claims == ById(d)
    IN  \/ \E i, j \in DOMAIN d.claims : i # j /\ d.claims[i].id = d.claims[j].id
        \/ ~(ReachableIds(d) \subseteq DOMAIN claims)
        \/ \E id \in ReachableIds(d) :
               \/ ~(EvidenceOf(claims, id) \subseteq DOMAIN Packet.evidence)
               \/ ~(claims[id].metrics \subseteq DOMAIN Packet.metrics)

AuthorityTiers(claims, id) ==
    {Packet.evidence[e].tier : e \in EvidenceOf(claims, id)}

\* The claims of conclusions and narratives, with those below them.
ConclusionIds(d) ==
    LET conclusions == {s \in Range(Sections(d)) : s.section \in PrioritySections}
    IN  Closure(ById(d), Narrated(d) \union UNION {Range(s.claims) : s \in conclusions})

IsPriorityClaim(d, c) == c.plan # Nothing \/ c.id \in ConclusionIds(d)

\* The candidates at their places in the brief; "tie" orders the claims by hash.
CandidateOf(d, c, tie) ==
    [id |-> c.id, type |-> c.type, tiers |-> AuthorityTiers(ById(d), c.id),
     priority |-> IsPriorityClaim(d, c), tie |-> tie[c.id]]

Candidates(d, tie) ==
    [i \in {j \in DOMAIN d.claims : d.claims[j].id \in ReachableIds(d)} |->
        CandidateOf(d, d.claims[i], tie)]

--------------------------------------------------------------------------------
(* Selection.                                                                 *)

\* A state of the program: the candidates chosen, and whether they are of one
\* authority tier, of which, or of several. Its key is how many they are, of
\* which types, and that.
Key(s) == <<Cardinality(s.chosen), {x.type : x \in s.chosen}, s.anchor, s.several>>
PriorityCount(chosen) == Cardinality({x \in chosen : x.priority})

\* Sorted tie keys compared as tuples, for sets of one size.
TiesBefore(a, b) ==
    LET ours == {x.tie : x \in a}
        theirs == {x.tie : x \in b}
        differing == (ours \ theirs) \union (theirs \ ours)
    IN  differing # {} /\ Min(differing) \in ours

\* _prefer
Prefer(s, t) ==
    \/ PriorityCount(s.chosen) > PriorityCount(t.chosen)
    \/ /\ PriorityCount(s.chosen) = PriorityCount(t.chosen)
       /\ TiesBefore(s.chosen, t.chosen)

Several(tiers) == \E t, u \in tiers : t # u

\* Mutant: forgets the tier of what was chosen before.
ExtendLastTiers(s, tiers) == [anchor |-> Nothing, several |-> s.several \/ Several(tiers)]

\* _extend_tiers
ExtendTiers(s, tiers) ==
    LET all == tiers \union ({s.anchor} \ {Nothing})
        several == s.several \/ Several(all)
    IN  [anchor |-> IF several \/ all = {} THEN Nothing ELSE CHOOSE t \in all : TRUE,
         several |-> several]

Extend(s, x) ==
    LET tiers == ExtendTiers(s, x.tiers)
    IN  [chosen |-> s.chosen \union {x}, anchor |-> tiers.anchor, several |-> tiers.several]

\* The best state of each key, with and without one more candidate.
Advance(states, x, size) ==
    LET grown == states \union {Extend(s, x) : s \in {t \in states : Cardinality(t.chosen) < size}}
    IN  {s \in grown : ~\E t \in grown : Key(t) = Key(s) /\ Prefer(t, s)}

\* More types, then several tiers, then more conclusions, then the ties.
Better(s, t) ==
    LET Types(u) == Cardinality({x.type : x \in u.chosen})
        Tiers(u) == IF u.several THEN 1 ELSE 0
    IN  \/ Types(s) > Types(t)
        \/ /\ Types(s) = Types(t)
           /\ \/ Tiers(s) > Tiers(t)
              \/ Tiers(s) = Tiers(t) /\ Prefer(s, t)

\* The states after the first n places of the brief.
States(candidates, size) ==
    LET states[n \in Nat] ==
            IF n = 0 THEN {[chosen |-> {}, anchor |-> Nothing, several |-> FALSE]}
            ELSE IF n \in DOMAIN candidates THEN Advance(states[n - 1], candidates[n], size)
            ELSE states[n - 1]
    IN  states

\* _select, as the set of the selected candidates; "last" is the last place.
Selected(candidates, last) ==
    LET size == Min({SampleSize, Cardinality(DOMAIN candidates)})
        finalists == {s \in States(candidates, size)[last] : Cardinality(s.chosen) = size}
    IN  (CHOOSE s \in finalists : ~\E t \in finalists : Better(t, s)).chosen

\* The review order: the first claim of each type in the order of the types, then
\* the others, conclusions first.
Foremost(chosen) == {x \in chosen : \A y \in chosen : y.type = x.type => x.tie <= y.tie}
PlaceOf(type) == CHOOSE i \in DOMAIN TypeOrder : TypeOrder[i] = type

ReviewedBefore(chosen, x, y) ==
    \/ x \in Foremost(chosen) /\ y \notin Foremost(chosen)
    \/ {x, y} \subseteq Foremost(chosen) /\ PlaceOf(x.type) < PlaceOf(y.type)
    \/ /\ {x, y} \intersect Foremost(chosen) = {}
       /\ \/ x.priority /\ ~y.priority
          \/ x.priority = y.priority /\ x.tie < y.tie

ReviewOrder(chosen) ==
    CHOOSE order \in [1..Cardinality(chosen) -> chosen] :
        \A i, j \in DOMAIN order : i < j => ReviewedBefore(chosen, order[i], order[j])

\* build_citation_entailment_review_sample: a claim with all it rests on.
ContextOf(claims, x) ==
    LET closure == ClaimClosure(claims, x.id)
        metrics == UNION {c.metrics : c \in closure}
    IN  [claim |-> x.id,
         supporting |-> {c.id : c \in closure} \ {x.id},
         cited |-> UNION {c.evidence : c \in closure},
         counter |-> UNION {Range(c.counter) : c \in closure},
         metrics |-> metrics,
         inputs |-> UNION {Packet.metrics[m].inputs : m \in metrics},
         tiers |-> AuthorityTiers(claims, x.id)]

--------------------------------------------------------------------------------
SamplingInit == BriefInit /\ sample = Nothing

\* The published brief is sampled, with hashes in any order.
Sample ==
    /\ report \notin {Nothing, Raised}
    /\ sample = Nothing
    /\ \E tie \in Bijection(DOMAIN ById(draft), 1..Cardinality(DOMAIN ById(draft))) :
           LET chosen == ReviewOrder(Selected(Candidates(draft, tie), Len(draft.claims)))
           IN  sample' = IF Unreviewable(draft) THEN Raised
                         ELSE [ties |-> tie,
                               contexts |-> [i \in DOMAIN chosen |->
                                                ContextOf(ById(draft), chosen[i])]]
    /\ UNCHANGED briefVars

SamplingNext == (BriefNext /\ UNCHANGED sample) \/ Sample

SamplingSpec == SamplingInit /\ [][SamplingNext]_samplingVars

--------------------------------------------------------------------------------
\* What the validator lets through can be shown and reviewed: rendering fails for
\* one reason only, a section that names a claim the draft does not have
\* (validation.py:475 collects these ids and never looks them up), and no rendered
\* brief makes the sampler raise, whose checks are not the validator's.
PublishedBriefIsReviewable ==
    /\ report = Raised => ~(Placements(draft) \subseteq DOMAIN ById(draft))
    /\ sample # Raised

\* The dynamic program loses nothing by keeping one state per key: no other set of
\* as many claims covers more types, as many types with more tiers, as many of both
\* with more conclusions, or equals it in all of this and comes first by ties.
SampleIsTheBest ==
    sample \notin {Nothing, Raised} =>
        LET all == Range(Candidates(draft, sample.ties))
            taken == {x \in all : \E c \in Range(sample.contexts) : c.claim = x.id}
            Filled(chosen) == [chosen |-> chosen, anchor |-> Nothing,
                              several |-> Several(UNION {x.tiers : x \in chosen})]
        IN  /\ Cardinality(taken) = Min({SampleSize, Cardinality(all)})
            /\ \A other \in SUBSET all :
                  Cardinality(other) = Cardinality(taken) => ~Better(Filled(other), Filled(taken))

================================================================================
