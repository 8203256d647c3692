----------------------------- MODULE ResearchProofs -----------------------------
(***************************************************************************)
(* What the research of a run promises, for all symbols, calendars,        *)
(* prices, tokens, sources, candidates and policies: a market collection   *)
(* and its quality verdict, the event evidence of a symbol, a ranking and  *)
(* a setup assessment.                                                     *)
(*                                                                         *)
(* A symbol's bars come from one reading: the identity is read before the  *)
(* pages and kept, the pages end before the clock of the completion, and a *)
(* finished collection changes no more, so that the verdict given on it    *)
(* stays a verdict on what was collected.                                  *)
(*                                                                         *)
(* Every source is read at most once and reports once; a provider that     *)
(* raises takes back what its sources reported.  What an item says of its  *)
(* own reading is therefore decided when it is collected.                  *)
(***************************************************************************)
EXTENDS DataQuality, EventEvidence, CandidateRanking, SetupDetection, FiniteSetTheorems,
        SequenceTheorems, WellFoundedInduction, TLAPS

(***************************************************************************)
(* Sets of integers                                                        *)
(***************************************************************************)

LEMMA LeastExists ==
  ASSUME NEW S \in SUBSET Nat, S # {}
  PROVE  \E x \in S : \A y \in S : x <= y
<1>1. PICK x \in S : \A y \in S : <<y, x>> \notin OpToRel(<, Nat)
  BY WFMin, NatLessThanWellFounded
<1>2. \A y \in S : ~(y < x)
  BY <1>1 DEF OpToRel
<1> QED BY <1>2

\* Max chooses the greatest element of a set that has an upper bound.
LEMMA MaxIsGreatest ==
  ASSUME NEW S \in SUBSET Int, S # {}, NEW n \in Int, \A x \in S : x <= n
  PROVE  Max(S) \in S /\ \A y \in S : y <= Max(S)
<1> DEFINE D == {k \in Nat : n - k \in S}
<1>1. D \in SUBSET Nat /\ D # {}
  <2>1. PICK x \in S : TRUE
    OBVIOUS
  <2>2. n - x \in Nat /\ n - (n - x) = x
    BY <2>1
  <2> QED BY <2>2
<1>2. PICK k \in D : \A l \in D : k <= l
  BY <1>1, LeastExists
<1>3. \A y \in S : n - k >= y
  <2> SUFFICES ASSUME NEW y \in S PROVE n - k >= y
    OBVIOUS
  <2>1. n - y \in Nat /\ n - (n - y) = y
    OBVIOUS
  <2>2. n - y \in D
    BY <2>1
  <2>3. k <= n - y /\ k \in Nat /\ y \in Int
    BY <1>2, <2>2
  <2> HIDE DEF D
  <2> QED BY <2>3
<1>4. n - k \in S
  BY <1>2
<1> HIDE DEF D
<1> QED BY <1>3, <1>4 DEF Max

\* One element and no second.
LEMMA OneElement ==
  ASSUME NEW S, IsFiniteSet(S)
  PROVE  Cardinality(S) = 1 <=> S # {} /\ \A x, y \in S : x = y
<1>1. ASSUME Cardinality(S) = 1 PROVE S # {} /\ \A x, y \in S : x = y
  BY <1>1, FS_Singleton
<1>2. ASSUME S # {}, \A x, y \in S : x = y PROVE Cardinality(S) = 1
  <2>1. PICK x \in S : S = {x}
    BY <1>2
  <2> QED BY <2>1, FS_Singleton
<1> QED BY <1>1, <1>2

(***************************************************************************)
(* The collection                                                          *)
(***************************************************************************)

Stage == {"instruments", "bars", "normalize", "premarket", "complete", "done"}
Scope == {"none", "symbol", "request"}
Result == [kind : BarsFailure \cup RequestFailure \cup {"none", "bars", "price"}, at : Int,
           scope : Scope]

MarketTypeOK ==
  /\ slot \in Int /\ slot >= 4 * MarketDate + 1
  /\ stage \in Stage
  /\ identity \in [Symbol -> {"none", "known", "missing", "refused"}]
  /\ records \in SUBSET Record /\ IsFiniteSet(records)
  /\ bars \in [Symbol -> Result]
  /\ price \in [Symbol -> Result]

\* A result of bars is a failure of the symbol, of the request, or a history
\* that had ended when the pages were read.
BarsOK(s) ==
  IF bars[s].kind = "bars"
  THEN /\ identity[s] = "known"
       /\ CloseOf(CompletedThrough) <= bars[s].at /\ bars[s].at <= slot
  ELSE bars[s].kind # "none" /\ bars[s].scope \in {"symbol", "request"}

PriceOK(s) ==
  IF price[s].kind = "price"
  THEN /\ identity[s] = "known"
       /\ price[s].at <= slot /\ InPremarket(price[s].at)
  ELSE price[s].scope \in {"symbol", "request"}

StageOK ==
  /\ stage # "instruments" =>
       /\ Expected # {}
       /\ \A s \in Symbol : identity[s] # "none" /\ (identity[s] = "known" => s \in cache)
  /\ stage \in {"instruments", "bars", "normalize"} => \A s \in Symbol : bars[s] = None
  /\ stage \in {"premarket", "complete", "done"} => \A s \in Symbol : BarsOK(s)
  /\ stage \in {"complete", "done"} => \A s \in Symbol : PriceOK(s)

\* The verdict is one on the collection as it still is.
VerdictOK ==
  \/ quality = NoQuality
  \/ /\ stage = "done"
     /\ \E roles \in RoleSets, risk \in {"complete", "heat_unknown", "disabled"} :
          \E report \in Reports(roles) : quality = Evaluated(roles, report, risk)

MarketInv == MarketTypeOK /\ StageOK
ResearchInv == MarketInv /\ VerdictOK

\* The calendar's sessions before the market date end with the last completed.
LEMMA ExpectedSessions ==
  /\ MarketDate \in Int /\ 0 <= MarketDate
  /\ \A d \in Expected : d \in Int /\ d < MarketDate /\ 0 <= d
  /\ Expected # {} => CompletedThrough \in Expected /\ \A d \in Expected : d <= CompletedThrough
<1>1. MarketDate \in Int /\ 0 <= MarketDate
  BY MarketAssumption
<1>2. \A d \in Expected : d \in Int /\ d < MarketDate /\ 0 <= d
  BY <1>1, MarketAssumption DEF Expected, SessionsBefore
<1>3. ASSUME Expected # {} PROVE CompletedThrough \in Expected /\ \A d \in Expected : d <= CompletedThrough
  <2>1. Expected \in SUBSET Int /\ \A d \in Expected : d <= MarketDate
    BY <1>1, <1>2
  <2> QED BY <1>1, <1>3, <2>1, MaxIsGreatest DEF CompletedThrough
<1> QED BY <1>1, <1>2, <1>3

\* The tests of normalize_alpaca_daily_bars, in their order, amount to a
\* complete history: one well-formed bar a session, and nothing else.
LEMMA NormalizedIsComplete ==
  ASSUME MarketTypeOK, Expected # {}, NEW s \in Symbol
  PROVE  Normalized(s) = "bars" <=> CompleteHistory(s)
<1>0. /\ Of(s) \in SUBSET Record /\ \A r \in Of(s) : r.day \in Int /\ 0 <= r.day /\ r.day <= MarketDate
      /\ Days(s) \in SUBSET Int /\ \A d \in Days(s) : d <= MarketDate
  BY ExpectedSessions DEF MarketTypeOK, Of, Days, Record
<1>1. \A d : IsFiniteSet({r \in Of(s) : r.day = d})
  BY FS_Subset DEF MarketTypeOK, Of
<1>2. \A d : Cardinality({r \in Of(s) : r.day = d}) = 1 <=>
               /\ \E r \in Of(s) : r.day = d
               /\ \A q, r \in Of(s) : q.day = d /\ r.day = d => q = r
  <2> SUFFICES ASSUME NEW d
      PROVE Cardinality({r \in Of(s) : r.day = d}) = 1 <=>
               /\ \E r \in Of(s) : r.day = d
               /\ \A q, r \in Of(s) : q.day = d /\ r.day = d => q = r
    OBVIOUS
  <2> DEFINE S == {r \in Of(s) : r.day = d}
  <2>1. Cardinality(S) = 1 <=> S # {} /\ \A q, r \in S : q = r
    BY <1>1, OneElement
  <2> QED BY <2>1
<1>3. CompletedThrough \in Expected /\ \A d \in Expected : d \in Int /\ d <= CompletedThrough
  BY ExpectedSessions
<1>4. ASSUME Normalized(s) = "bars" PROVE CompleteHistory(s)
  <2>1. /\ \A r \in Of(s) : r.close # Malformed
        /\ ~Conflicts(s)
        /\ Days(s) \subseteq Expected
        /\ Expected \subseteq Days(s)
    BY <1>4 DEF Normalized
  <2>2. ASSUME NEW d \in Expected PROVE Cardinality({r \in Of(s) : r.day = d}) = 1
    <3>1. \E r \in Of(s) : r.day = d
      BY <2>1 DEF Days
    <3>2. \A q, r \in Of(s) : q.day = d /\ r.day = d => q = r
      BY <2>1 DEF Conflicts
    <3> QED BY <1>2, <3>1, <3>2
  <2> QED BY <2>1, <2>2 DEF CompleteHistory, Days
<1>5. ASSUME CompleteHistory(s) PROVE Normalized(s) = "bars"
  <2>1. \A d \in Expected : /\ \E r \in Of(s) : r.day = d
                            /\ \A q, r \in Of(s) : q.day = d /\ r.day = d => q = r
    BY <1>2, <1>5 DEF CompleteHistory
  <2>2. Days(s) = Expected
    BY <1>5, <2>1 DEF CompleteHistory, Days
  <2>3. Of(s) # {} /\ ~(\E r \in Of(s) : r.close = Malformed)
    BY <1>3, <1>5, <2>1 DEF CompleteHistory
  <2>4. ~Conflicts(s)
    BY <1>5, <2>1 DEF Conflicts, CompleteHistory
  <2>5. ~(\E d \in Days(s) : d > CompletedThrough)
    BY <1>3, <2>2
  <2>6. ~(Max(Days(s)) < CompletedThrough)
    BY <1>3, <2>2 DEF CompletedThrough
  <2> QED BY <2>2, <2>3, <2>4, <2>5, <2>6 DEF Normalized
<1> QED BY <1>4, <1>5

(***************************************************************************)
(* The steps of the collection                                             *)
(***************************************************************************)

LEMMA FailuresAreTyped ==
  /\ \A code \in RequestFailure : /\ AllFail(code) \in [Symbol -> Result]
                                  /\ \A s \in Symbol : /\ AllFail(code)[s].kind = code
                                                       /\ AllFail(code)[s].scope = "request"
  /\ AllFail("INVALID_REQUEST") \in [Symbol -> Result]
  /\ \A s \in Symbol : /\ AllFail("INVALID_REQUEST")[s].kind = "INVALID_REQUEST"
                       /\ AllFail("INVALID_REQUEST")[s].scope = "request"
  /\ \A code \in BarsFailure \cup RequestFailure :
       /\ Failed(code) \in Result /\ Failed(code).kind = code /\ Failed(code).scope = "symbol"
  /\ None \in Result /\ None.kind = "none"
BY DEF AllFail, Failed, Result, Scope, BarsFailure, RequestFailure, None

LEMMA MarketInitInv == MarketInit => MarketInv
<1> SUFFICES ASSUME MarketInit PROVE MarketInv
  OBVIOUS
<1>1. MarketTypeOK
  BY FailuresAreTyped, FS_EmptySet, ExpectedSessions DEF MarketInit, MarketTypeOK, Stage
<1>2. StageOK
  BY DEF MarketInit, StageOK
<1> QED BY <1>1, <1>2 DEF MarketInv

LEMMA FetchInstrumentsKeepsInv ==
  ASSUME MarketInv, FetchInstruments
  PROVE  MarketInv'
<1> USE DEF MarketInv, FetchInstruments
<1>1. PICK found \in SUBSET Symbol, answered \in BOOLEAN :
        /\ identity' = [s \in Symbol |-> IF s \in found THEN "known"
                                         ELSE IF answered THEN "missing" ELSE "refused"]
        /\ cache' = (cache \ Symbol) \cup found
  OBVIOUS
<1>2. MarketTypeOK'
  BY <1>1 DEF MarketTypeOK, Stage
<1>3. StageOK'
  BY <1>1 DEF StageOK
<1> QED BY <1>2, <1>3

LEMMA PageIsFinite ==
  ASSUME NEW page \in Page
  PROVE  IsFiniteSet(page) /\ page \in SUBSET Record
<1>1. CASE page = {}
  BY <1>1, FS_EmptySet
<1>2. ASSUME NEW q \in Record, NEW r \in Record, page = {q, r} PROVE IsFiniteSet(page) /\ page \in SUBSET Record
  <2>1. IsFiniteSet({q} \cup {r})
    BY FS_Singleton, FS_AddElement
  <2>2. page = {q} \cup {r}
    BY <1>2
  <2> QED BY <2>1, <2>2
<1>3. page = {} \/ \E q, r \in Record : page = {q, r}
  BY DEF Page
<1> QED BY <1>1, <1>2, <1>3

LEMMA ReadPageKeepsInv ==
  ASSUME MarketInv, ReadPage
  PROVE  MarketInv'
<1> USE DEF MarketInv
<1>0. stage = "bars" /\ UNCHANGED <<slot, cache, identity, price>>
  BY DEF ReadPage
<1>1. ASSUME NEW code \in RequestFailure, bars' = AllFail(code), stage' = "premarket", records' = {}
      PROVE MarketInv'
  <2>1. MarketTypeOK'
    BY <1>0, <1>1, FailuresAreTyped, FS_EmptySet DEF MarketTypeOK, Stage
  <2>2. \A s \in Symbol : BarsOK(s)'
    BY <1>1, FailuresAreTyped DEF BarsOK, RequestFailure
  <2> QED BY <1>0, <1>1, <2>1, <2>2 DEF StageOK
<1>2. ASSUME NEW page \in Page, records' = records \cup page, stage' \in {"bars", "normalize"}, bars' = bars
      PROVE MarketInv'
  <2>1. MarketTypeOK'
    BY <1>0, <1>2, PageIsFinite, FS_Union DEF MarketTypeOK, Stage
  <2> QED BY <1>0, <1>2, <2>1 DEF StageOK
<1>3. CASE \E code \in Refusal : bars' = AllFail(code) /\ stage' = "premarket" /\ records' = {}
  BY <1>1, <1>3, MarketAssumption
<1>4. CASE \E page \in Page :
             \/ stage' = "normalize" /\ records' = records \cup page /\ bars' = bars
             \/ \E token \in Token :
                  IF token \in tokens
                  THEN bars' = AllFail("PROVIDER_SCHEMA_DRIFT") /\ stage' = "premarket" /\ records' = {}
                  ELSE records' = records \cup page /\ stage' = stage /\ bars' = bars
  BY <1>0, <1>1, <1>2, <1>4 DEF RequestFailure
<1> QED BY <1>3, <1>4 DEF ReadPage

\* The clock has passed the last completed session when the pages are judged.
LEMMA SessionsAreOver ==
  ASSUME MarketTypeOK, Expected # {}
  PROVE  /\ CloseOf(CompletedThrough) <= slot
         /\ ~(CompletedThrough >= DayOf(slot))
<1>1. /\ CompletedThrough \in Int /\ CompletedThrough <= MarketDate - 1
      /\ MarketDate \in Int /\ slot \in Int /\ slot >= 4 * MarketDate + 1
  BY ExpectedSessions DEF MarketTypeOK
<1>2. CloseOf(CompletedThrough) <= slot
  BY <1>1 DEF CloseOf
<1>3. slot \div 4 >= MarketDate
  BY <1>1
<1> QED BY <1>1, <1>2, <1>3 DEF DayOf

LEMMA NormalizedBars ==
  ASSUME MarketInv, Normalize, NEW s \in Symbol
  PROVE  /\ bars' \in [Symbol -> Result]
         /\ bars'[s].kind # "none"
         /\ bars'[s].kind = "bars" <=>
              (\A r \in records : r.symbol \in Symbol) /\ Normalized(s) = "bars" /\ s \in Resolved
         /\ bars'[s].kind = "bars" => bars'[s].at = slot
         /\ bars'[s].kind # "bars" => bars'[s].scope \in {"symbol", "request"}
<1>0. stage = "normalize" /\ Expected # {} /\ slot \in Int
  BY DEF Normalize, MarketInv, StageOK, MarketTypeOK
<1>1. ~(CompletedThrough >= DayOf(slot))
  BY <1>0, SessionsAreOver DEF MarketInv
<1>2. CASE \E r \in records : r.symbol \notin Symbol
  BY <1>2, FailuresAreTyped DEF Normalize, RequestFailure
<1>3. CASE ~(\E r \in records : r.symbol \notin Symbol)
  <2>1. bars' = [t \in Symbol |->
                   IF Normalized(t) # "bars" THEN Failed(Normalized(t))
                   ELSE IF ~ResolveIdentity(t) THEN Failed("INVALID_REQUEST")
                   ELSE Success("bars", slot)]
    BY <1>1, <1>3 DEF Normalize
  <2>2. \A t \in Symbol : Normalized(t) \in BarsFailure \cup {"bars"}
    BY DEF Normalized, BarsFailure
  <2>3. Success("bars", slot) \in Result
    BY <1>0 DEF Success, Result, Scope
  <2>4. /\ Success("bars", slot).kind = "bars" /\ Success("bars", slot).at = slot
    BY DEF Success
  <2>5. \A t \in Symbol : Normalized(t) # "bars" =>
          /\ Failed(Normalized(t)) \in Result /\ Failed(Normalized(t)).kind = Normalized(t)
          /\ Failed(Normalized(t)).scope = "symbol" /\ Normalized(t) # "none"
    BY <2>2, FailuresAreTyped DEF BarsFailure
  <2>6. /\ Failed("INVALID_REQUEST") \in Result /\ Failed("INVALID_REQUEST").kind = "INVALID_REQUEST"
        /\ Failed("INVALID_REQUEST").scope = "symbol"
    BY FailuresAreTyped DEF BarsFailure
  <2>7. bars' \in [Symbol -> Result]
    BY <2>1, <2>3, <2>5, <2>6
  <2>8. bars'[s] = IF Normalized(s) # "bars" THEN Failed(Normalized(s))
                   ELSE IF ~ResolveIdentity(s) THEN Failed("INVALID_REQUEST")
                   ELSE Success("bars", slot)
    BY <2>1
  <2> QED BY <1>3, <2>4, <2>5, <2>6, <2>7, <2>8 DEF ResolveIdentity
<1> QED BY <1>2, <1>3

LEMMA NormalizeKeepsInv ==
  ASSUME MarketInv, Normalize
  PROVE  MarketInv'
<1> USE DEF MarketInv
<1>0. /\ stage = "normalize" /\ stage' = "premarket" /\ records' = {}
      /\ UNCHANGED <<slot, cache, identity, price>>
      /\ Expected # {} /\ slot \in Int
  BY DEF Normalize, StageOK, MarketTypeOK
<1>1. MarketTypeOK'
  <2>1. bars' \in [Symbol -> Result]
    <3>1. CASE Symbol = {}
      BY <3>1, MarketAssumption DEF Normalize, AllFail
    <3>2. CASE Symbol # {}
      BY <3>2, NormalizedBars
    <3> QED BY <3>1, <3>2
  <2> QED BY <1>0, <2>1, FS_EmptySet DEF MarketTypeOK, Stage
<1>2. ASSUME NEW s \in Symbol PROVE BarsOK(s)'
  <2>1. s \in Resolved => identity[s] = "known"
    BY DEF Resolved
  <2>2. CloseOf(CompletedThrough) <= slot
    BY <1>0, SessionsAreOver
  <2> QED BY <1>0, <2>1, <2>2, NormalizedBars DEF BarsOK
<1>3. StageOK'
  BY <1>0, <1>2 DEF StageOK
<1> QED BY <1>1, <1>3

LEMMA ObservationIsTrue ==
  ASSUME MarketTypeOK, NEW s \in Symbol, NEW item \in {NoTrade, BadTrade} \cup TradeSlot
  PROVE  /\ Observation(s, item) \in Result
         /\ Observation(s, item).kind = "price" =>
              /\ s \in Resolved
              /\ Observation(s, item).at <= slot /\ InPremarket(Observation(s, item).at)
         /\ Observation(s, item).kind # "price" => Observation(s, item).scope = "symbol"
<1>0. item \in Int /\ (item = NoTrade \/ item = BadTrade \/ item >= 0)
  BY MarketAssumption DEF NoTrade, BadTrade
<1>1. \A code \in {"PROVIDER_UNAVAILABLE", "PROVIDER_SCHEMA_DRIFT", "INVALID_REQUEST"} :
        Failed(code) \in Result /\ Failed(code).kind # "price" /\ Failed(code).scope = "symbol"
  BY FailuresAreTyped DEF BarsFailure, RequestFailure
<1>2. /\ Success("price", item) \in Result
      /\ Success("price", item).kind = "price" /\ Success("price", item).at = item
  BY <1>0 DEF Success, Result, Scope
<1>3. CASE item = NoTrade \/ item = BadTrade
  BY <1>1, <1>3 DEF Observation, NoTrade, BadTrade
<1>4. CASE item >= 0 /\ (item > slot \/ ~InPremarket(item))
  BY <1>1, <1>4 DEF Observation, NoTrade, BadTrade
<1>5. CASE item >= 0 /\ ~(item > slot \/ ~InPremarket(item))
  <2>1. Observation(s, item) = IF ResolveIdentity(s) THEN Success("price", item)
                               ELSE Failed("INVALID_REQUEST")
    BY <1>5 DEF Observation, NoTrade, BadTrade
  <2>2. item <= slot
    BY <1>0, <1>5 DEF MarketTypeOK
  <2> QED BY <1>1, <1>2, <1>5, <2>1, <2>2 DEF ResolveIdentity
<1> QED BY <1>0, <1>3, <1>4, <1>5

LEMMA FetchPremarketKeepsInv ==
  ASSUME MarketInv, FetchPremarket
  PROVE  MarketInv'
<1> USE DEF MarketInv
<1>0. /\ stage = "premarket" /\ stage' = "complete"
      /\ UNCHANGED <<slot, cache, identity, tokens, records, bars>>
  BY DEF FetchPremarket
<1>1. ASSUME price' \in [Symbol -> Result], \A s \in Symbol : PriceOK(s)'
      PROVE  MarketInv'
  <2>1. MarketTypeOK'
    BY <1>0, <1>1 DEF MarketTypeOK, Stage
  <2>2. \A s \in Symbol : BarsOK(s) => BarsOK(s)'
    BY <1>0 DEF BarsOK
  <2> QED BY <1>0, <1>1, <2>1, <2>2 DEF StageOK
<1>2. ASSUME NEW code \in Refusal, price' = AllFail(code) PROVE MarketInv'
  <2>0. code \in RequestFailure /\ code # "price"
    BY MarketAssumption DEF RequestFailure
  <2>1. price' \in [Symbol -> Result]
    BY <1>2, <2>0, FailuresAreTyped
  <2>2. \A s \in Symbol : price'[s].kind # "price" /\ price'[s].scope = "request"
    BY <1>2, <2>0, FailuresAreTyped
  <2> QED BY <1>1, <2>1, <2>2 DEF PriceOK
<1>3. ASSUME NEW item \in [Symbol -> {NoTrade, BadTrade} \cup TradeSlot],
             price' = [s \in Symbol |-> Observation(s, item[s])]
      PROVE  MarketInv'
  <2>1. \A s \in Symbol : item[s] \in {NoTrade, BadTrade} \cup TradeSlot
    BY <1>3
  <2>2. price' \in [Symbol -> Result]
    BY <1>3, <2>1, ObservationIsTrue
  <2>3. ASSUME NEW s \in Symbol PROVE PriceOK(s)'
    <3>1. price'[s] = Observation(s, item[s])
      BY <1>3
    <3>2. s \in Resolved => identity'[s] = "known"
      BY <1>0 DEF Resolved
    <3> QED BY <1>0, <2>1, <3>1, <3>2, ObservationIsTrue DEF PriceOK
  <2> QED BY <1>1, <2>2, <2>3
<1> QED BY <1>2, <1>3 DEF FetchPremarket

LEMMA CompleteKeepsInv ==
  ASSUME MarketInv, CompleteCollection
  PROVE  MarketInv'
BY DEF MarketInv, CompleteCollection, MarketTypeOK, StageOK, Stage, BarsOK, PriceOK

LEMMA MarketTickKeepsInv ==
  ASSUME MarketInv, MarketTick
  PROVE  MarketInv'
<1> USE DEF MarketInv, MarketTick
<1>1. MarketTypeOK'
  BY ExpectedSessions DEF MarketTypeOK
<1>2. ASSUME NEW s \in Symbol, BarsOK(s) PROVE BarsOK(s)'
  BY <1>2 DEF BarsOK, MarketTypeOK, Result
<1>3. ASSUME NEW s \in Symbol, PriceOK(s) PROVE PriceOK(s)'
  BY <1>3 DEF PriceOK, MarketTypeOK, Result
<1>4. StageOK'
  BY <1>2, <1>3 DEF StageOK
<1> QED BY <1>1, <1>4

LEMMA MarketStepKeepsInv ==
  ASSUME MarketInv, [MarketNext]_marketVars
  PROVE  MarketInv'
<1>1. CASE UNCHANGED marketVars
  BY <1>1 DEF MarketInv, marketVars, MarketTypeOK, StageOK, BarsOK, PriceOK
<1> QED BY <1>1, FetchInstrumentsKeepsInv, ReadPageKeepsInv, NormalizeKeepsInv, FetchPremarketKeepsInv,
           CompleteKeepsInv, MarketTickKeepsInv DEF MarketNext

\* Nothing moves after the completion.
LEMMA DoneIsDone ==
  ASSUME stage = "done"
  PROVE  ~MarketNext
BY DEF MarketNext, FetchInstruments, ReadPage, Normalize, FetchPremarket, CompleteCollection, MarketTick

(***************************************************************************)
(* The verdict                                                             *)
(***************************************************************************)

\* Every role takes a capability with it, and a mandatory one takes them all.
LEMMA RolesMatter ==
  ASSUME NEW roles \in RoleSets, NEW report, NEW risk
  PROVE  /\ HardFailure(roles, report) => GloballyDisabled(roles, report, risk) # {}
         /\ GlobalFailure => Capability \subseteq GloballyDisabled(roles, report, risk)
<1>1. Dependencies("market-data") = Capability
  BY DEF Dependencies, MandatoryRole
<1>2. GlobalFailure => Capability \subseteq GloballyDisabled(roles, report, risk)
  <2>1. \A capability \in Capability : GlobalFailure => capability \in GloballyDisabled(roles, report, risk)
    <3>1. (IF GlobalFailure THEN Dependencies("market-data") ELSE {})
             \subseteq GloballyDisabled(roles, report, risk)
      BY Zenon DEF GloballyDisabled
    <3> QED BY <1>1, <3>1
  <2> QED BY <2>1
<1>3. \A role \in roles : Dependencies(role) # {}
  <2>1. roles \subseteq Role
    BY QualityAssumption
  <2> QED BY <2>1 DEF Dependencies, Role, MandatoryRole, Capability, EventCapability
<1>4. ASSUME NEW role \in Incomplete(roles, report) \cup Unready(roles, report)
      PROVE  GloballyDisabled(roles, report, risk) # {}
  <2>1. role \in roles
    BY <1>4 DEF Incomplete, Unready
  <2>2. PICK capability : capability \in Dependencies(role)
    BY <1>3, <2>1
  <2>3. capability \in UNION {Dependencies(r) : r \in Incomplete(roles, report) \cup Unready(roles, report)}
    BY <1>4, <2>2
  <2> QED BY <2>3 DEF GloballyDisabled
<1>5. Capability # {}
  BY DEF Capability
<1> QED BY <1>2, <1>4, <1>5 DEF HardFailure

LEMMA EvaluatedIsCoherent ==
  ASSUME NEW roles \in RoleSets, NEW report, NEW risk, quality = Evaluated(roles, report, risk)
  PROVE  QualityIsCoherent
<1>1. /\ quality.disabled = GloballyDisabled(roles, report, risk) /\ quality.listed = Listed
      /\ quality.status = IF HardFailure(roles, report) THEN "FAIL"
                          ELSE IF quality.disabled # {} \/ quality.listed # {} THEN "DEGRADED" ELSE "PASS"
      /\ \A s \in Symbol : quality.local[s] = LocallyDisabled(s) /\ quality.plan[s] = StrongestPlanStatus(s)
  BY DEF Evaluated
<1>2. HardFailure(roles, report) => quality.disabled # {}
  BY <1>1, RolesMatter
<1>3. ASSUME NEW s \in Listed
      PROVE quality.plan[s] = IF "plan" \in quality.local[s] THEN "BLOCKED"
                              ELSE IF quality.local[s] # {} THEN "REVIEW_REQUIRED" ELSE "DRAFT"
  <2>1. s \in Symbol /\ (SourceFailed(s) \/ PriceFailed(s))
    BY DEF Listed
  <2>2. CASE SourceFailed(s)
    <3>1. "plan" \in LocallyDisabled(s)
      BY <2>2 DEF LocallyDisabled, Dependencies, MandatoryRole, Capability
    <3> QED BY <1>1, <2>1, <2>2, <3>1 DEF StrongestPlanStatus
  <2>3. CASE ~SourceFailed(s) /\ PriceFailed(s)
    <3>1. LocallyDisabled(s) = {"sizing"}
      BY <2>3 DEF LocallyDisabled
    <3> QED BY <1>1, <2>1, <2>3, <3>1 DEF StrongestPlanStatus
  <2> QED BY <2>1, <2>2, <2>3
<1>4. quality.status # "none" =>
        /\ quality.status = "PASS" => quality.disabled = {} /\ quality.listed = {}
        /\ quality.status = "FAIL" => quality.disabled # {}
        /\ quality.status = "DEGRADED" => quality.disabled # {} \/ quality.listed # {}
  BY <1>1, <1>2
<1> QED BY <1>1, <1>3, <1>4 DEF QualityIsCoherent

LEMMA EvaluatedHidesNothing ==
  ASSUME MarketInv, stage = "done", NEW roles \in RoleSets, NEW report, NEW risk,
         quality = Evaluated(roles, report, risk)
  PROVE  NoHoleIsHidden
<1>1. /\ quality.disabled = GloballyDisabled(roles, report, risk) /\ quality.listed = Listed
      /\ quality.status = IF HardFailure(roles, report) THEN "FAIL"
                          ELSE IF quality.disabled # {} \/ quality.listed # {} THEN "DEGRADED" ELSE "PASS"
      /\ \A s \in Symbol : quality.local[s] = LocallyDisabled(s)
  BY DEF Evaluated
<1>2. GlobalFailure => \A s \in Symbol : Available(s) = {}
  BY <1>1, RolesMatter DEF Available
<1>3. \A s \in Symbol : SourceFailed(s) => Available(s) = {}
  BY <1>1 DEF LocallyDisabled, Dependencies, MandatoryRole, Available
<1>4. \A s \in Symbol : PriceFailed(s) => "sizing" \notin Available(s)
  BY <1>1 DEF LocallyDisabled, Available
<1>5. ASSUME NEW s \in Symbol
      PROVE  /\ GlobalFailure \/ SourceFailed(s) \/ (identity[s] = "known" /\ bars[s].kind = "bars")
             /\ GlobalFailure \/ PriceFailed(s) \/ price[s].kind = "price"
  <2>1. /\ identity[s] \in {"known", "missing", "refused"} /\ BarsOK(s) /\ PriceOK(s)
    BY DEF MarketInv, MarketTypeOK, StageOK
  <2> QED BY <2>1 DEF GlobalFailure, SourceFailed, PriceFailed, BarsOK, PriceOK
<1>6. ASSUME NEW s \in Symbol, {"setup", "metrics", "plan"} \cap Available(s) # {}
      PROVE  identity[s] = "known" /\ bars[s].kind = "bars"
  BY <1>2, <1>3, <1>5, <1>6
<1>7. ASSUME NEW s \in Symbol, "sizing" \in Available(s) PROVE price[s].kind = "price"
  BY <1>2, <1>4, <1>5, <1>7
<1>8. ASSUME quality.status = "PASS", NEW s \in Symbol PROVE bars[s].kind = "bars" /\ price[s].kind = "price"
  <2>1. ~HardFailure(roles, report) /\ Listed = {}
    BY <1>1, <1>8
  <2>2. ~GlobalFailure /\ ~SourceFailed(s) /\ ~PriceFailed(s)
    BY <2>1 DEF HardFailure, Listed
  <2> QED BY <1>5, <2>2
<1> QED BY <1>6, <1>7, <1>8 DEF NoHoleIsHidden

\* The verdict reads the results of the collection and nothing else of its state.
LEMMA VerdictReadsResults ==
  ASSUME UNCHANGED <<identity, bars, price>>, NEW roles, NEW report, NEW risk
  PROVE  Evaluated(roles, report, risk)' = Evaluated(roles, report, risk)
BY DEF Evaluated, HardFailure, GloballyDisabled, LocallyDisabled, Listed, StrongestPlanStatus,
       GlobalFailure, SourceFailed, PriceFailed

LEMMA VerdictIsKept ==
  ASSUME ResearchInv, [QualityNext]_qualityVars
  PROVE  ResearchInv'
<1> USE DEF ResearchInv
<1>1. CASE UNCHANGED qualityVars
  <2>1. MarketInv'
    BY <1>1, MarketStepKeepsInv DEF qualityVars
  <2>2. VerdictOK'
    <3>1. UNCHANGED <<identity, bars, price>> /\ quality' = quality /\ stage' = stage
      BY <1>1 DEF qualityVars, marketVars
    <3>2. CASE quality = NoQuality
      BY <3>1, <3>2 DEF VerdictOK, NoQuality
    <3>3. ASSUME NEW roles \in RoleSets, NEW risk \in {"complete", "heat_unknown", "disabled"},
                 NEW report \in Reports(roles), quality = Evaluated(roles, report, risk),
                 stage = "done"
          PROVE VerdictOK'
      <4>1. stage' = "done" /\ quality' = Evaluated(roles, report, risk)'
        BY <3>1, <3>3, VerdictReadsResults
      <4> QED BY <4>1 DEF VerdictOK
    <3> QED BY <3>2, <3>3 DEF VerdictOK
  <2> QED BY <2>1, <2>2
<1>2. CASE MarketNext /\ UNCHANGED quality
  <2>1. MarketInv'
    BY <1>2, MarketStepKeepsInv
  <2>2. quality = NoQuality
    BY <1>2, DoneIsDone DEF VerdictOK
  <2> QED BY <1>2, <2>1, <2>2 DEF VerdictOK, NoQuality
<1>3. CASE EvaluateCollection
  <2>1. MarketInv'
    BY <1>3, MarketStepKeepsInv DEF EvaluateCollection
  <2>2. PICK roles \in RoleSets, risk \in {"complete", "heat_unknown", "disabled"} :
          \E report \in Reports(roles) : quality' = Evaluated(roles, report, risk)
    BY <1>3 DEF EvaluateCollection
  <2>3. PICK report \in Reports(roles) : quality' = Evaluated(roles, report, risk)
    BY <2>2
  <2>4. Evaluated(roles, report, risk)' = Evaluated(roles, report, risk)
    <3>1. UNCHANGED <<identity, bars, price>>
      BY <1>3 DEF EvaluateCollection, marketVars
    <3> QED BY <3>1, VerdictReadsResults
  <2>5. stage' = "done" /\ quality' = Evaluated(roles, report, risk)'
    BY <1>3, <2>3, <2>4 DEF EvaluateCollection, marketVars
  <2>6. VerdictOK'
    BY <2>3, <2>5 DEF VerdictOK
  <2> QED BY <2>1, <2>6
<1> QED BY <1>1, <1>2, <1>3 DEF QualityNext

(***************************************************************************)
(* Theorems                                                                *)
(***************************************************************************)

\* Results have the shape the quality stage reads, a step of the collection
\* finds the results its earlier steps must have left, and the verdict is one
\* on the collection as it is (collect_market_data, evaluate_data_quality).
THEOREM ResearchInvariance == QualitySpec => []ResearchInv
<1>1. QualityInit => ResearchInv
  BY MarketInitInv DEF QualityInit, ResearchInv, VerdictOK
<1>2. ResearchInv /\ [QualityNext]_qualityVars => ResearchInv'
  BY VerdictIsKept
<1> QED BY <1>1, <1>2, PTL DEF QualitySpec

\* Bars and prices of a finished collection stand under an identity of the same
\* collection and end before its completion (fetch_daily_bars,
\* _resolve_identity, fetch_premarket).
THEOREM CollectionStaysOfOneReading == QualitySpec => []CollectionIsOfOneReading
<1>1. ASSUME ResearchInv PROVE CollectionIsOfOneReading
  <2>1. ASSUME stage = "done", NEW s \in Symbol
        PROVE  /\ bars[s].kind = "bars" \/ price[s].kind = "price" => identity[s] = "known" /\ s \in cache
               /\ bars[s].kind = "bars" => CloseOf(CompletedThrough) <= bars[s].at /\ bars[s].at <= slot
               /\ price[s].kind = "price" => price[s].at <= slot /\ InPremarket(price[s].at)
    <3>1. /\ identity[s] = "known" => s \in cache
          /\ BarsOK(s) /\ PriceOK(s)
      BY <1>1, <2>1 DEF ResearchInv, MarketInv, StageOK
    <3> QED BY <3>1 DEF BarsOK, PriceOK
  <2> QED BY <2>1 DEF CollectionIsOfOneReading
<1> QED BY <1>1, ResearchInvariance, PTL

\* The step that gives a symbol bars finds one well-formed bar for each
\* expected session among all the pages, nothing else, and a known identity;
\* the step that refuses them does not (normalize_alpaca_daily_bars).
THEOREM BarsStayComplete == QualitySpec => BarsAreACompleteHistory
<1> DEFINE Step == \A s \in Symbol :
                     bars[s].kind = "none" /\ bars'[s].kind # "none" =>
                       (bars'[s].kind = "bars" <=>
                          /\ stage = "normalize" /\ s \in Resolved /\ CompleteHistory(s)
                          /\ \A r \in records : r.symbol \in Symbol)
<1>1. ASSUME MarketInv, MarketNext PROVE Step
  <2>1. CASE bars' = bars
    BY <2>1
  <2>2. CASE Normalize
    <3>1. MarketTypeOK /\ stage = "normalize" /\ Expected # {}
      BY <1>1, <2>2 DEF MarketInv, StageOK, Normalize
    <3> QED BY <1>1, <2>2, <3>1, NormalizedBars, NormalizedIsComplete
  <2>3. CASE ReadPage
    <3>1. stage = "bars" /\ (bars' = bars \/ \E code \in RequestFailure : bars' = AllFail(code))
      BY <2>3, MarketAssumption DEF ReadPage, RequestFailure
    <3>2. \A code \in RequestFailure : code # "bars"
      BY DEF RequestFailure
    <3> QED BY <3>1, <3>2, FailuresAreTyped
  <2> QED BY <1>1, <2>1, <2>2, <2>3 DEF MarketNext, FetchInstruments, FetchPremarket,
                                        CompleteCollection, MarketTick
<1>2. ASSUME ResearchInv, [QualityNext]_qualityVars PROVE Step \/ UNCHANGED marketVars
  BY <1>1, <1>2 DEF ResearchInv, QualityNext, EvaluateCollection, qualityVars
<1>3. ResearchInv /\ [QualityNext]_qualityVars => [Step]_marketVars
  BY <1>2
<1> QED BY <1>3, ResearchInvariance, PTL DEF QualitySpec, BarsAreACompleteHistory

\* The verdict passes its own validator whatever the sources report, so that the
\* quality stage records every failure (evaluate_data_quality,
\* DataQualityResult).
THEOREM QualityStaysCoherent == QualitySpec => []QualityIsCoherent
<1>1. ASSUME ResearchInv PROVE QualityIsCoherent
  <2>1. CASE quality = NoQuality
    BY <2>1 DEF NoQuality, QualityIsCoherent
  <2>2. CASE quality # NoQuality
    BY <1>1, <2>2, EvaluatedIsCoherent DEF ResearchInv, VerdictOK
  <2> QED BY <2>1, <2>2
<1> QED BY <1>1, ResearchInvariance, PTL

\* No capability survives the failure of the read it rests on, for the symbol
\* or for the run (market_collection.py, collection_quality.py, quality.py).
THEOREM HolesAreNeverHidden == QualitySpec => []NoHoleIsHidden
<1>1. ASSUME ResearchInv PROVE NoHoleIsHidden
  <2>1. CASE quality = NoQuality
    BY <2>1 DEF NoQuality, NoHoleIsHidden
  <2>2. CASE quality # NoQuality
    BY <1>1, <2>2, EvaluatedHidesNothing DEF ResearchInv, VerdictOK
  <2> QED BY <2>1, <2>2
<1> QED BY <1>1, ResearchInvariance, PTL


(***************************************************************************)
(* Event evidence: the inductive invariant                                 *)
(***************************************************************************)

\* What every adapter guarantees of the items it returns.
ItemOK(i) ==
  /\ i.retrieved <= Cutoff
  /\ i.published # NoTime => i.published <= Cutoff /\ i.published <= i.retrieved
  /\ i.source \in MacroSource \cup {"sec"} => i.verified
  /\ i.source = "news" => ~i.verified /\ i.materiality = "UNKNOWN"
  /\ i.source = "ir" => i.verified \/ i.materiality \in {"none", "UNKNOWN"}

\* Only sources already read have items, and the company page has one.
ItemsOK ==
  /\ \A i \in items : ItemOK(i) /\ i.source \in Sources /\ i.source \notin Range(unread)
  /\ \A i, j \in items : i.source = "ir" /\ j.source = "ir" => i = j

UnreadOK == unread \in Seq(Sources) /\ IsInjective(unread)

\* The macro provider raises for all its calendars or for none.
HealthOK ==
  /\ DOMAIN health = Sources
  /\ \/ \A s \in MacroSource : health[s] # "INTERNAL_ERROR"
     \/ \A s \in MacroSource : health[s] = "INTERNAL_ERROR" /\ s \notin Range(unread)

AssessedOK == (assessed # "none" => unread = <<>>) /\ DraftMeansCalendarsWereRead

EventInv == ItemsOK /\ UnreadOK /\ HealthOK /\ AssessedOK

(***************************************************************************)
(* Sequences                                                               *)
(***************************************************************************)

LEMMA RestOfInjective ==
  ASSUME NEW S, NEW s \in Seq(S), IsInjective(s), s # <<>>
  PROVE  /\ Tail(s) \in Seq(S) /\ IsInjective(Tail(s))
         /\ Range(Tail(s)) \subseteq Range(s)
         /\ Head(s) \in Range(s) /\ Head(s) \notin Range(Tail(s)) /\ Range(s) \subseteq S
<1>1. Len(s) \in Nat \ {0} /\ DOMAIN s = 1..Len(s) /\ \A i \in 1..Len(s) : s[i] \in S
  OBVIOUS
<1>2. /\ Tail(s) \in Seq(S) /\ DOMAIN Tail(s) = 1..(Len(s) - 1)
      /\ \A i \in 1..(Len(s) - 1) : Tail(s)[i] = s[i + 1] /\ i + 1 \in 1..Len(s) /\ i + 1 # 1
  BY <1>1
<1>3. Head(s) = s[1] /\ 1 \in 1..Len(s)
  BY <1>1
<1>4. \A i, j \in 1..Len(s) : s[i] = s[j] => i = j
  BY <1>1 DEF IsInjective
<1>5. IsInjective(Tail(s))
  <2> SUFFICES ASSUME NEW i \in 1..(Len(s) - 1), NEW j \in 1..(Len(s) - 1), Tail(s)[i] = Tail(s)[j]
               PROVE  i = j
    BY <1>2 DEF IsInjective
  <2>1. i + 1 = j + 1
    BY <1>2, <1>4
  <2> QED BY <2>1
<1>6. Range(Tail(s)) \subseteq Range(s) /\ Head(s) \in Range(s) /\ Range(s) \subseteq S
  BY <1>1, <1>2, <1>3 DEF Range
<1>7. Head(s) \notin Range(Tail(s))
  <2>1. \A i \in 1..(Len(s) - 1) : Tail(s)[i] # Head(s)
    BY <1>2, <1>3, <1>4
  <2> QED BY <1>2, <2>1 DEF Range
<1> QED BY <1>2, <1>5, <1>6, <1>7

\* The position of the last element of a group, or 0.
LEMMA LastOfGroup ==
  ASSUME NEW S, NEW s \in Seq(S), NEW group, NEW n,
         n = (IF {i \in 1..Len(s) : s[i] \in group} # {}
              THEN Max({i \in 1..Len(s) : s[i] \in group}) ELSE 0)
  PROVE  n \in 0..Len(s) /\ \A i \in 1..Len(s) : s[i] \in group => i <= n
<1> DEFINE I == {i \in 1..Len(s) : s[i] \in group}
<1>1. n = IF I # {} THEN Max(I) ELSE 0
  OBVIOUS
<1>2. Len(s) \in Nat
  OBVIOUS
<1>3. CASE I = {}
  BY <1>1, <1>2, <1>3
<1>4. CASE I # {}
  <2>1. I \in SUBSET Int /\ Len(s) \in Int /\ (\A i \in I : i <= Len(s)) /\ I \subseteq 1..Len(s)
    BY <1>2
  <2>2. \A i \in 1..Len(s) : s[i] \in group => i \in I
    OBVIOUS
  <2> HIDE DEF I
  <2>3. Max(I) \in I /\ \A i \in I : i <= Max(I)
    BY <1>4, <2>1, MaxIsGreatest
  <2>4. n = Max(I)
    BY <1>1, <1>4
  <2>5. n \in 1..Len(s) /\ \A i \in 1..Len(s) : s[i] \in group => i <= n
    BY <2>1, <2>2, <2>3, <2>4
  <2> QED BY <1>2, <2>5
<1> QED BY <1>3, <1>4

\* After it nothing of the group follows.
LEMMA AfterGroup ==
  ASSUME NEW S, NEW s \in Seq(S), NEW group, NEW n \in 0..Len(s), NEW r,
         IsInjective(s), \A i \in 1..Len(s) : s[i] \in group => i <= n,
         r = SubSeq(s, n + 1, Len(s))
  PROVE  /\ r \in Seq(S) /\ IsInjective(r)
         /\ Range(r) \subseteq Range(s) /\ Range(r) \cap group = {}
<1>2. r = SubSeq(s, n + 1, Len(s))
  OBVIOUS
<1>3. Len(s) \in Nat /\ DOMAIN s = 1..Len(s) /\ \A i \in 1..Len(s) : s[i] \in S
  OBVIOUS
<1>4. n \in 0..Len(s) /\ \A i \in 1..Len(s) : s[i] \in group => i <= n
  OBVIOUS
<1>5. /\ r \in Seq(S) /\ DOMAIN r = 1..(Len(s) - n)
      /\ \A i \in 1..(Len(s) - n) : r[i] = s[n + i] /\ n + i \in 1..Len(s) /\ ~(n + i <= n)
  <2>1. n \in Nat /\ n <= Len(s)
    BY <1>3, <1>4
  <2>2. \A i \in 1..(Len(s) - n) : n + i \in 1..Len(s) /\ ~(n + i <= n)
    BY <1>3, <2>1
  <2>a. PICK first, last : first = n + 1 /\ last = Len(s)
    OBVIOUS
  <2>c. first \in Int /\ last \in Int /\ last \in Nat
    BY <1>3, <2>1, <2>a
  <2>b. r = SubSeq(s, first, last) /\ \A i \in first..last : s[i] \in S
    <3>1. \A i \in first..last : i \in 1..Len(s)
      BY <1>3, <2>1, <2>a, <2>c
    <3> QED BY <1>2, <1>3, <2>a, <3>1, <2>c
  <2>3. /\ r \in Seq(S) /\ Len(r) = (IF first <= last THEN last - first + 1 ELSE 0)
        /\ \A i \in 1..(last - first + 1) : r[i] = s[first + i - 1]
    <3>1. /\ SubSeq(s, first, last) \in Seq(S)
          /\ Len(SubSeq(s, first, last)) = (IF first <= last THEN last - first + 1 ELSE 0)
          /\ \A i \in 1..(last - first + 1) : SubSeq(s, first, last)[i] = s[first + i - 1]
      BY <2>b, <2>c, SubSeqProperties
    <3> QED BY <2>b, <3>1, Zenon
  <2>4. Len(r) = last - n /\ DOMAIN r = 1..Len(r)
    <3>1. Len(r) = last - n
      BY <2>1, <2>a, <2>3, <2>c
    <3> QED BY <2>3, <3>1
  <2>5. \A i \in 1..(last - n) : r[i] = s[n + i]
    <3> SUFFICES ASSUME NEW i \in 1..(last - n) PROVE r[i] = s[n + i]
      OBVIOUS
    <3>1. i \in 1..(last - first + 1) /\ first + i - 1 = n + i
      BY <2>1, <2>a, <2>c
    <3>2. r[i] = s[first + i - 1]
      BY <2>3, <3>1, Zenon
    <3> QED BY <3>1, <3>2, Zenon
  <2> QED BY <2>2, <2>3, <2>4, <2>5, <2>a, <2>c
<1>6. IsInjective(r)
  <2> SUFFICES ASSUME NEW i \in 1..(Len(s) - n), NEW j \in 1..(Len(s) - n), r[i] = r[j]
               PROVE  i = j
    BY <1>5 DEF IsInjective
  <2>1. n + i = n + j
    <3>1. s[n + i] = s[n + j] /\ n + i \in DOMAIN s /\ n + j \in DOMAIN s
      BY <1>3, <1>5
    <3> QED BY <3>1 DEF IsInjective
  <2> QED BY <1>4, <2>1
<1>7. Range(r) \subseteq Range(s) /\ Range(r) \cap group = {}
  <2>1. \A i \in 1..(Len(s) - n) : r[i] \in Range(s) /\ r[i] \notin group
    BY <1>3, <1>4, <1>5 DEF Range
  <2> QED BY <1>5, <2>1 DEF Range
<1> QED BY <1>5, <1>6, <1>7

\* An answer is a sequence of rows.
LEMMA AnswersAreRows ==
  ASSUME NEW s \in Sources \ {"ir"}, NEW rows \in Answer(s)
  PROVE  rows \in Seq(Row) /\ Range(rows) \subseteq Row
<1>1. MaxRows[s] \in Nat
  BY EventAssumption DEF Sources
<1>2. rows \in Seq(Row)
  BY <1>1 DEF Answer, BoundedSeq, SeqOf
<1> QED BY <1>2 DEF Range

\* The rows of a calendar page that are read are those before the first bad one.
LEMMA MacroRowsRead ==
  ASSUME NEW rows \in Seq(Row)
  PROVE  \A r \in Range(MacroRead(rows)) : ~MacroBad(r)
<1> DEFINE I == {i \in 1..Len(rows) : MacroBad(rows[i])}
<1>0. Len(rows) \in Nat /\ DOMAIN rows = 1..Len(rows)
  OBVIOUS
<1>1. CASE I = {}
  <2>1. MacroRead(rows) = rows /\ \A i \in 1..Len(rows) : ~MacroBad(rows[i])
    BY <1>0, <1>1 DEF MacroRead
  <2> QED BY <1>0, <2>1 DEF Range
<1>2. CASE I # {}
  <2>1. MacroRead(rows) = SubSeq(rows, 1, Min(I) - 1)
    BY <1>0, <1>2 DEF MacroRead, SelectInSeq
  <2>2. Min(I) \in I /\ \A i \in I : Min(I) <= i
    <3>1. I \in SUBSET Nat
      OBVIOUS
    <3> HIDE DEF I
    <3>2. \E m \in I : \A i \in I : m <= i
      BY <1>2, <3>1, LeastExists
    <3> QED BY <3>2 DEF Min
  <2>3. PICK m \in 1..Len(rows) : m = Min(I)
    BY <2>2
  <2>4. \A i \in 1..(m - 1) : ~MacroBad(rows[i])
    <3>1. \A i \in 1..(m - 1) : i \in 1..Len(rows) /\ ~(m <= i)
      BY <1>0
    <3> QED BY <2>2, <2>3, <3>1
  <2> HIDE DEF I
  <2>5. DOMAIN MacroRead(rows) = 1..(m - 1) /\ \A i \in 1..(m - 1) : MacroRead(rows)[i] = rows[i]
    BY <1>0, <2>1, <2>3
  <2> QED BY <2>4, <2>5 DEF Range
<1> QED BY <1>1, <1>2

\* What is left of the sources when the last of a group has gone.
RestAfter(s, group) ==
  SubSeq(s, (IF {i \in 1..Len(s) : s[i] \in group} # {}
             THEN Max({i \in 1..Len(s) : s[i] \in group}) ELSE 0) + 1, Len(s))

LEMMA WithoutGroup ==
  ASSUME NEW S, NEW s \in Seq(S), NEW group, NEW r, IsInjective(s), r = RestAfter(s, group)
  PROVE  /\ r \in Seq(S) /\ IsInjective(r)
         /\ Range(r) \subseteq Range(s) /\ Range(r) \cap group = {}
<1>1. PICK n : n = (IF {i \in 1..Len(s) : s[i] \in group} # {}
                    THEN Max({i \in 1..Len(s) : s[i] \in group}) ELSE 0)
  OBVIOUS
<1>2. n \in 0..Len(s) /\ \A i \in 1..Len(s) : s[i] \in group => i <= n
  BY <1>1, LastOfGroup
<1>3. r = SubSeq(s, n + 1, Len(s))
  BY <1>1 DEF RestAfter
<1> QED BY <1>2, <1>3, AfterGroup

(***************************************************************************)
(* Event evidence: the steps                                               *)
(***************************************************************************)

LEMMA EventInitInv == EventInit => EventInv
<1> SUFFICES ASSUME EventInit PROVE EventInv
  OBVIOUS
<1>1. UnreadOK
  BY EventAssumption DEF EventInit, UnreadOK, Sources
<1>2. MacroSource \subseteq Sources
  BY EventAssumption DEF Sources
<1>3. ItemsOK /\ HealthOK /\ AssessedOK
  BY <1>2 DEF EventInit, ItemsOK, HealthOK, AssessedOK, DraftMeansCalendarsWereRead
<1> QED BY <1>1, <1>3 DEF EventInv

\* One source reports what it kept; it is read no more.
LEMMA ReportKeepsInv ==
  ASSUME EventInv, NEW s, Turn(s), NEW code, code # "INTERNAL_ERROR", NEW kept,
         Report(s, code, kept), \A i \in kept : ItemOK(i) /\ i.source = s,
         s = "ir" => \A i, j \in kept : i = j
  PROVE  EventInv'
<1> USE DEF EventInv
<1>1. /\ unread # <<>> /\ s = Head(unread) /\ unread' = Tail(unread) /\ items' = items \cup kept
      /\ health' = [health EXCEPT ![s] = code] /\ UNCHANGED <<now, assessed>>
  BY DEF Turn, Report
<1>2. /\ unread' \in Seq(Sources) /\ IsInjective(unread')
      /\ Range(unread') \subseteq Range(unread)
      /\ s \in Range(unread) /\ s \notin Range(unread') /\ s \in Sources
  BY <1>1, RestOfInjective DEF UnreadOK
<1>3. assessed = "none" /\ assessed' = "none"
  BY <1>1 DEF AssessedOK
<1>4. UnreadOK' /\ AssessedOK'
  BY <1>2, <1>3 DEF UnreadOK, AssessedOK, DraftMeansCalendarsWereRead, Sources
<1>5. ItemsOK'
  <2>1. \A i \in items' : ItemOK(i) /\ i.source \in Sources /\ i.source \notin Range(unread')
    BY <1>1, <1>2 DEF ItemsOK
  <2>2. \A i, j \in items' : i.source = "ir" /\ j.source = "ir" => i = j
    BY <1>1, <1>2 DEF ItemsOK
  <2> QED BY <2>1, <2>2 DEF ItemsOK, ItemOK, Sources
<1>6. HealthOK'
  <2>1. DOMAIN health' = Sources /\ health'[s] = code /\ \A t \in Sources \ {s} : health'[t] = health[t]
    BY <1>1, <1>2 DEF HealthOK
  <2>2. MacroSource \subseteq Sources
    BY EventAssumption DEF Sources
  <2> QED BY <1>2, <2>1, <2>2 DEF HealthOK, Sources
<1> QED BY <1>4, <1>5, <1>6

LEMMA RefusedKeepsInv ==
  ASSUME EventInv, NEW s, Refused(s)
  PROVE  EventInv'
<1>1. PICK code : Report(s, code, {}) /\ code # "INTERNAL_ERROR"
  BY EventAssumption DEF Refused, ReadFailure
<1> QED BY <1>1, ReportKeepsInv DEF Refused

LEMMA CollectSecKeepsInv ==
  ASSUME EventInv, CollectSec
  PROVE  EventInv'
<1>1. PICK rows \in Answer("sec") :
        CASE \E r \in Range(rows) : r.formed = "no" \/ r.published = NoTime ->
              Report("sec", "PROVIDER_SCHEMA_DRIFT", {})
         [] OTHER ->
              Report("sec",
                     IF Range(rows) # SecKept(rows) THEN "EVIDENCE_CUTOFF_VIOLATION"
                     ELSE "available",
                     {Item("sec", r, TRUE, "HIGH") : r \in {q \in SecKept(rows) : InWindow(q.event)}})
  BY DEF CollectSec
<1>2. Turn("sec") /\ now <= Cutoff
  BY DEF CollectSec
<1>3. PICK kept : kept = {Item("sec", r, TRUE, "HIGH") : r \in {q \in SecKept(rows) : InWindow(q.event)}}
  OBVIOUS
<1>4. \A i \in kept : ItemOK(i) /\ i.source = "sec"
  BY <1>2, <1>3 DEF SecKept, ItemOK, Item, Known
<1>5. \/ Report("sec", "PROVIDER_SCHEMA_DRIFT", {})
      \/ Report("sec", "EVIDENCE_CUTOFF_VIOLATION", kept)
      \/ Report("sec", "available", kept)
  BY <1>1, <1>3
<1>6. CASE Report("sec", "PROVIDER_SCHEMA_DRIFT", {})
  BY <1>2, <1>6, ReportKeepsInv
<1>7. CASE \E code \in {"EVIDENCE_CUTOFF_VIOLATION", "available"} : Report("sec", code, kept)
  BY <1>2, <1>4, <1>7, ReportKeepsInv
<1> QED BY <1>5, <1>6, <1>7

LEMMA CollectNewsKeepsInv ==
  ASSUME EventInv, CollectNews
  PROVE  EventInv'
<1>1. PICK rows, code :
        /\ Turn("news") /\ now <= Cutoff /\ code # "INTERNAL_ERROR"
        /\ Report("news", code, {Item("news", r, FALSE, "UNKNOWN") : r \in NewsKept(rows)})
  BY DEF CollectNews
<1>2. PICK kept : kept = {Item("news", r, FALSE, "UNKNOWN") : r \in NewsKept(rows)}
  OBVIOUS
<1>3. "news" \notin MacroSource
  BY EventAssumption
<1>4. \A i \in kept : ItemOK(i) /\ i.source = "news"
  BY <1>1, <1>2, <1>3 DEF ItemOK, Item, Known, NewsKept
<1> QED BY <1>1, <1>2, <1>4, ReportKeepsInv

LEMMA CollectMacroKeepsInv ==
  ASSUME EventInv, NEW s, CollectMacro(s)
  PROVE  EventInv'
<1>1. PICK rows \in Answer(s) :
        /\ s \in MacroSource /\ Turn(s) /\ now <= Cutoff
        /\ Report(s, MacroVerdict(rows),
                  {Item(s, r, TRUE, Materiality[s]) :
                     r \in {q \in Range(MacroRead(rows)) : InWindow(q.event)}})
  BY DEF CollectMacro
<1>2. s \in Sources \ {"ir"} /\ s # "news"
  BY <1>1, EventAssumption DEF Sources
<1>3. \A r \in Range(MacroRead(rows)) : ~MacroBad(r)
  BY <1>2, AnswersAreRows, MacroRowsRead
<1>4. PICK kept : kept = {Item(s, r, TRUE, Materiality[s]) :
                            r \in {q \in Range(MacroRead(rows)) : InWindow(q.event)}}
  OBVIOUS
<1>5. \A i \in kept : ItemOK(i) /\ i.source = s
  BY <1>1, <1>2, <1>3, <1>4 DEF ItemOK, Item, Known, MacroBad
<1>6. MacroVerdict(rows) # "INTERNAL_ERROR"
  BY DEF MacroVerdict
<1> QED BY <1>1, <1>2, <1>4, <1>5, <1>6, ReportKeepsInv

LEMMA CollectIrKeepsInv ==
  ASSUME EventInv, CollectIr
  PROVE  EventInv'
<1>0. Turn("ir") /\ now <= Cutoff /\ "ir" \notin MacroSource
  BY EventAssumption DEF CollectIr
<1>1. PICK code, kept :
        /\ Report("ir", code, kept) /\ code # "INTERNAL_ERROR"
        /\ kept = {} \/ \E i : kept = {i} /\ ItemOK(i) /\ i.source = "ir"
  <2>1. CASE Report("ir", "CONFIGURATION_INVALID", {})
    BY <2>1
  <2>2. CASE \E row \in Row, named \in BOOLEAN :
            CASE row.formed = "no" -> Report("ir", "available", {Item("ir", row, FALSE, "none")})
              [] row.formed = "yes" /\ row.published # NoTime /\ ~Known(row.published) ->
                   Report("ir", "EVIDENCE_CUTOFF_VIOLATION", {})
              [] OTHER ->
                   Report("ir", "available",
                          IF ~InWindow(row.event) THEN {}
                          ELSE {Item("ir", row, named, IF named THEN "HIGH" ELSE "UNKNOWN")})
    <3>1. PICK row \in Row, named \in BOOLEAN :
            CASE row.formed = "no" -> Report("ir", "available", {Item("ir", row, FALSE, "none")})
              [] row.formed = "yes" /\ row.published # NoTime /\ ~Known(row.published) ->
                   Report("ir", "EVIDENCE_CUTOFF_VIOLATION", {})
              [] OTHER ->
                   Report("ir", "available",
                          IF ~InWindow(row.event) THEN {}
                          ELSE {Item("ir", row, named, IF named THEN "HIGH" ELSE "UNKNOWN")})
      BY <2>2
    <3>2. CASE row.formed = "no"
      <4>1. row.published = NoTime
        BY <3>2 DEF Row
      <4>2. ItemOK(Item("ir", row, FALSE, "none")) /\ Item("ir", row, FALSE, "none").source = "ir"
        BY <1>0, <4>1 DEF ItemOK, Item
      <4> QED BY <3>1, <3>2, <4>2
    <3>3. CASE row.formed = "yes" /\ row.published # NoTime /\ ~Known(row.published)
      BY <3>1, <3>3
    <3>4. CASE row.formed # "no" /\ (row.published = NoTime \/ Known(row.published))
      <4>1. PICK i : i = Item("ir", row, named, IF named THEN "HIGH" ELSE "UNKNOWN")
        OBVIOUS
      <4>2. ItemOK(i) /\ i.source = "ir"
        BY <1>0, <3>4, <4>1 DEF ItemOK, Item, Known
      <4>3. Report("ir", "available", IF ~InWindow(row.event) THEN {} ELSE {i})
        BY <3>1, <3>4, <4>1
      <4>4. CASE InWindow(row.event)
        BY <4>2, <4>3, <4>4
      <4>5. CASE ~InWindow(row.event)
        BY <4>3, <4>5
      <4> QED BY <4>4, <4>5
    <3>5. row.formed = "no" \/ row.formed = "yes"
      BY DEF Row
    <3> QED BY <3>2, <3>3, <3>4, <3>5
  <2> QED BY <2>1, <2>2 DEF CollectIr
<1> QED BY <1>0, <1>1, ReportKeepsInv

\* A provider that raises takes its sources' items and reports with it.
LEMMA ProviderRaisesKeepsInv ==
  ASSUME EventInv, NEW group \in {{"sec"}, {"news"}, {"ir"}, MacroSource}, ProviderRaises(group)
  PROVE  EventInv'
<1> USE DEF EventInv
<1>0. /\ unread # <<>> /\ Head(unread) \in group
      /\ unread' = SubSeq(unread, SelectLastInSeq(unread, LAMBDA s : s \in group) + 1, Len(unread))
      /\ health' = [s \in Sources |-> IF s \in group THEN "INTERNAL_ERROR" ELSE health[s]]
      /\ items' \subseteq items /\ UNCHANGED <<now, assessed>>
  BY DEF ProviderRaises
<1>1. /\ unread' \in Seq(Sources) /\ IsInjective(unread')
      /\ Range(unread') \subseteq Range(unread) /\ Range(unread') \cap group = {}
  <2>1. unread \in Seq(Sources) /\ IsInjective(unread)
    BY DEF UnreadOK
  <2>2. PICK S, s, r : S = Sources /\ s = unread /\ r = unread'
    OBVIOUS
  <2>3. s \in Seq(S) /\ IsInjective(s)
    BY <2>1, <2>2
  <2>4. r = RestAfter(s, group)
    BY <1>0, <2>2 DEF SelectLastInSeq, RestAfter
  <2>5. /\ r \in Seq(S) /\ IsInjective(r)
        /\ Range(r) \subseteq Range(s) /\ Range(r) \cap group = {}
    BY <2>3, <2>4, WithoutGroup
  <2> QED BY <2>2, <2>5
<1>2. assessed = "none" /\ assessed' = "none"
  BY <1>0 DEF AssessedOK
<1>3. UnreadOK' /\ AssessedOK'
  BY <1>1, <1>2 DEF UnreadOK, AssessedOK, DraftMeansCalendarsWereRead, Sources
<1>4. ItemsOK'
  BY <1>0, <1>1 DEF ItemsOK, ItemOK, Sources
<1>5. HealthOK'
  <2>0. MacroSource \subseteq Sources /\ {"sec", "news", "ir"} \cap MacroSource = {}
    BY EventAssumption DEF Sources
  <2>1. DOMAIN health' = Sources
    BY <1>0
  <2>2. CASE group = MacroSource
    <3>1. \A s \in MacroSource : health'[s] = "INTERNAL_ERROR" /\ s \notin Range(unread')
      BY <1>0, <1>1, <2>0, <2>2
    <3> QED BY <2>1, <3>1 DEF HealthOK, Sources
  <2>3. CASE group \in {{"sec"}, {"news"}, {"ir"}}
    <3>1. \A s \in MacroSource : health'[s] = health[s]
      BY <1>0, <2>0, <2>3
    <3> QED BY <1>1, <2>1, <3>1 DEF HealthOK, Sources
  <2> QED BY <2>2, <2>3
<1> QED BY <1>3, <1>4, <1>5

\* A draft has read every calendar and rests on nothing unverified.
LEMMA DraftIsClean ==
  ASSUME ItemsOK, HealthOK, MacroHealth # {}, \A code \in MacroHealth : code = "available", ~Warns
  PROVE  /\ \A s \in MacroSource : health[s] = "available"
         /\ \A e \in Events : e.verified \/ e.materiality \notin Conservative
<1>1. \A s \in MacroSource : health[s] = "available"
  BY DEF MacroHealth, HealthOK
<1>2. ASSUME NEW e \in Events, ~e.verified, e.materiality \in Conservative PROVE FALSE
  <2>1. e \in items /\ ItemOK(e) /\ e.source \in Sources /\ e \in Rivals(e) /\ e.materiality # "none"
    BY DEF Events, ItemsOK, Rivals
  <2>2. e.source \in {"news", "ir"} /\ e.materiality = "UNKNOWN"
    <3>1. e.source \in MacroSource \cup {"sec", "news", "ir"}
      BY <2>1, EventAssumption DEF Sources
    <3> QED BY <1>2, <2>1, <3>1 DEF ItemOK
  <2>3. \A f \in Rivals(e) : ~f.verified /\ f.materiality = "UNKNOWN"
    <3> SUFFICES ASSUME NEW f \in Rivals(e) PROVE ~f.verified /\ f.materiality = "UNKNOWN"
      OBVIOUS
    <3>1. f \in items /\ ItemOK(f) /\ f.source \in Sources
      BY DEF Rivals, Events, ItemsOK
    <3>2. f.source = e.source
      <4>1. TypeOf(e.source) = e.source /\ TypeOf(f.source) = TypeOf(e.source)
        BY <2>2, EventAssumption DEF Rivals, TypeOf
      <4> QED BY <2>2, <4>1, EventAssumption DEF TypeOf
    <3>3. CASE e.source = "news"
      BY <3>1, <3>2, <3>3 DEF ItemOK
    <3>4. CASE e.source = "ir"
      <4>1. f = e
        BY <2>1, <3>1, <3>2, <3>4 DEF ItemsOK
      <4> QED BY <1>2, <2>2, <4>1
    <3> QED BY <2>2, <3>3, <3>4
  <2>4. ~Merge(e).verified
    BY <2>3 DEF Merge
  <2>5. Merge(e).materiality = "UNKNOWN"
    <3>1. \E f \in Rivals(e) : \A g \in Rivals(e) : Rank(g.materiality) <= Rank(f.materiality)
      <4>1. Rank("UNKNOWN") <= Rank("UNKNOWN")
        BY DEF Rank
      <4> QED BY <2>1, <2>3, <4>1
    <3>2. (CHOOSE f \in Rivals(e) : \A g \in Rivals(e) : Rank(g.materiality) <= Rank(f.materiality)) \in Rivals(e)
      BY <3>1
    <3> QED BY <2>3, <3>2 DEF Merge
  <2>6. Merge(e) \in Merged
    BY DEF Merged
  <2> QED BY <2>4, <2>5, <2>6 DEF Warns, Conservative
<1> QED BY <1>1, <1>2

LEMMA AssessKeepsInv ==
  ASSUME EventInv, Assess
  PROVE  EventInv'
<1> USE DEF EventInv
<1>1. unread = <<>> /\ UNCHANGED <<now, unread, items, health>>
  BY DEF Assess
<1>2. ItemsOK' /\ UnreadOK' /\ HealthOK'
  BY <1>1 DEF ItemsOK, ItemOK, UnreadOK, HealthOK, Sources
<1>3. assessed' = "DRAFT" => MacroHealth # {} /\ (\A code \in MacroHealth : code = "available") /\ ~Warns
  <2>1. PICK resolved \in BOOLEAN, policy \in {"REVIEW_REQUIRED", "BLOCKED"} :
          assessed' = IF Blocks(resolved, policy) THEN "BLOCKED"
                     ELSE IF Warns THEN "REVIEW_REQUIRED" ELSE "DRAFT"
    BY DEF Assess
  <2> QED BY <2>1 DEF Blocks
<1>4. assessed' = "DRAFT" =>
        /\ \A s \in MacroSource : health[s] = "available"
        /\ \A e \in Events : e.verified \/ e.materiality \notin Conservative
  BY <1>3, DraftIsClean
<1>5. DraftMeansCalendarsWereRead'
  BY <1>1, <1>4 DEF DraftMeansCalendarsWereRead, Events
<1> QED BY <1>1, <1>2, <1>5 DEF AssessedOK

LEMMA EventStutterKeepsInv ==
  ASSUME EventInv, UNCHANGED <<unread, items, health, assessed>>
  PROVE  EventInv'
BY DEF EventInv, ItemsOK, ItemOK, UnreadOK, HealthOK, AssessedOK, DraftMeansCalendarsWereRead,
       Events, Sources

(***************************************************************************)
(* Event evidence: the theorems                                            *)
(***************************************************************************)

\* For any sources in any order, any answers and outages and any cutoff: what
\* the adapters collected, which sources are still to be read and what each
\* reported stay consistent, also when a provider raises half-way
\* (adapters/events.py:36-75).
THEOREM EventInvariance == EventSpec => []EventInv
<1>1. EventInv /\ [EventNext]_eventVars => EventInv'
  BY RefusedKeepsInv, CollectSecKeepsInv, CollectNewsKeepsInv, CollectMacroKeepsInv,
     CollectIrKeepsInv, ProviderRaisesKeepsInv, AssessKeepsInv, EventStutterKeepsInv
     DEF EventNext, EventTick, eventVars
<1> QED BY EventInitInv, <1>1, PTL DEF EventSpec

\* However long the reading takes and whatever a provider serves, no evidence
\* is later than the cutoff or than its own retrieval (sec.py:254-262,
\* alpaca_news.py:184-190, macro.py:180-188, company_ir.py:193-197).
THEOREM EvidenceIsNeverFromTheFuture == EventSpec => []NoEvidenceFromTheFuture
<1>1. EventInv => NoEvidenceFromTheFuture
  BY DEF EventInv, ItemsOK, ItemOK, NoEvidenceFromTheFuture
<1> QED BY EventInvariance, <1>1, PTL

\* However many calendars are configured and however the records of the other
\* sources compete, a draft means that every calendar was read to its end and
\* that nothing unverified is left (events.py:44-69, domain/events.py:73-230).
THEOREM DraftHasReadTheCalendars == EventSpec => []DraftMeansCalendarsWereRead
<1>1. EventInv => DraftMeansCalendarsWereRead
  BY DEF EventInv, AssessedOK
<1> QED BY EventInvariance, <1>1, PTL


(***************************************************************************)
(* Ranking: what no ranking changes                                        *)
(***************************************************************************)

\* A scored or ranked candidate.
CandidateRecord ==
  [points : Int, warning : {0, WarningPenalty}, concentration : {0, ConcentrationPenalty},
   secondary : BOOLEAN, selected : BOOLEAN, highlighted : BOOLEAN]

\* The scored candidates, which no ranking has penalised, and the ranking they
\* alone explain.
ScoreOK ==
  /\ score \in [DOMAIN score -> CandidateRecord]
  /\ DOMAIN score \subseteq Candidate /\ IsFiniteSet(DOMAIN score)
  /\ \A c \in DOMAIN score : score[c].concentration = 0
RankingInv == ScoreOK /\ RankingForgetsTheLast

\* Two candidates that differ only in what a ranking writes.
SameScore(r, t) == r.points = t.points /\ r.warning = t.warning

LEMMA WithoutPenaltyIsOfTheScore ==
  ASSUME NEW D, NEW s \in [D -> CandidateRecord], NEW t \in [D -> CandidateRecord],
         \A c \in D : SameScore(t[c], s[c])
  PROVE  WithoutCorrelationPenalty(t) = WithoutCorrelationPenalty(s)
<1>1. DOMAIN s = D /\ DOMAIN t = D
  OBVIOUS
<1>2. ASSUME NEW c \in D
      PROVE  [t[c] EXCEPT !.concentration = 0, !.secondary = FALSE, !.selected = FALSE,
                          !.highlighted = FALSE]
             = [s[c] EXCEPT !.concentration = 0, !.secondary = FALSE, !.selected = FALSE,
                            !.highlighted = FALSE]
  <2>1. s[c] \in CandidateRecord /\ t[c] \in CandidateRecord
    OBVIOUS
  <2>2. s[c].points = t[c].points /\ s[c].warning = t[c].warning
    BY DEF SameScore
  <2> QED BY <2>1, <2>2 DEF CandidateRecord
<1> QED BY <1>1, <1>2 DEF WithoutCorrelationPenalty

LEMMA RankingKeepsTheScore ==
  ASSUME NEW D, NEW s \in [D -> CandidateRecord], NEW links, NEW regime
  PROVE  /\ Ranked(s, links, regime) \in [D -> CandidateRecord]
         /\ \A c \in D : SameScore(Ranked(s, links, regime)[c], s[c])
<1>1. PICK bare : bare = WithoutCorrelationPenalty(s)
  OBVIOUS
<1>2. bare \in [D -> CandidateRecord] /\ \A c \in D : SameScore(bare[c], s[c])
  <2>1. \A c \in D : s[c] \in CandidateRecord
    OBVIOUS
  <2>2. bare = [c \in D |-> [s[c] EXCEPT !.concentration = 0, !.secondary = FALSE,
                                         !.selected = FALSE, !.highlighted = FALSE]]
    BY <1>1 DEF WithoutCorrelationPenalty
  <2>3. ASSUME NEW c \in D
        PROVE  bare[c] \in CandidateRecord /\ SameScore(bare[c], s[c])
    BY <2>1, <2>2 DEF CandidateRecord, SameScore
  <2> QED BY <2>2, <2>3
<1>3. PICK group : group = Groups(bare, links)
  OBVIOUS
<1>4. PICK t : t = Penalized(bare, links)
  OBVIOUS
<1>5. t \in [D -> CandidateRecord] /\ \A c \in D : SameScore(t[c], s[c])
  <2>1. \A c \in D : bare[c] \in CandidateRecord
    BY <1>2
  <2>2. t = [c \in D |->
               IF c = BestOf(bare, group[c]) THEN bare[c]
               ELSE [bare[c] EXCEPT !.concentration = ConcentrationPenalty, !.secondary = TRUE]]
    BY <1>2, <1>3, <1>4 DEF Penalized
  <2>3. ASSUME NEW c \in D
        PROVE  t[c] \in CandidateRecord /\ SameScore(t[c], s[c])
    <3>1. \/ t[c] = bare[c]
          \/ t[c] = [bare[c] EXCEPT !.concentration = ConcentrationPenalty, !.secondary = TRUE]
      BY <2>2
    <3> QED BY <1>2, <2>1, <3>1 DEF CandidateRecord, SameScore
  <2> QED BY <2>2, <2>3
<1>6. PICK chosen, shown : /\ chosen = AmongFirst(t, PlanEligible(t, regime), PlanCap)
                           /\ shown = AmongFirst(t, PlanEligible(t, regime), HighlightCap)
  OBVIOUS
<1>7. Ranked(s, links, regime)
      = [c \in D |-> [t[c] EXCEPT !.selected = c \in chosen, !.highlighted = c \in shown]]
  <2>1. DOMAIN t = D
    BY <1>5
  <2> QED BY <1>1, <1>4, <1>6, <2>1 DEF Ranked
<1>8. ASSUME NEW c \in D
      PROVE  /\ Ranked(s, links, regime)[c] \in CandidateRecord
             /\ SameScore(Ranked(s, links, regime)[c], s[c])
  <2>1. PICK selected \in BOOLEAN, highlighted \in BOOLEAN :
          (selected <=> c \in chosen) /\ (highlighted <=> c \in shown)
    <3>1. \E selected \in BOOLEAN : selected <=> c \in chosen
      BY Zenon
    <3>2. \E highlighted \in BOOLEAN : highlighted <=> c \in shown
      BY Zenon
    <3> QED BY <3>1, <3>2
  <2>2. PICK r : r = [t[c] EXCEPT !.selected = selected, !.highlighted = highlighted]
    OBVIOUS
  <2>3. t[c] \in CandidateRecord /\ SameScore(t[c], s[c])
    BY <1>5
  <2>4. r \in CandidateRecord /\ SameScore(r, s[c])
    BY <2>2, <2>3 DEF CandidateRecord, SameScore
  <2>5. Ranked(s, links, regime)[c] = r
    <3>1. selected = (c \in chosen)
      BY <2>1
    <3>2. highlighted = (c \in shown)
      BY <2>1
    <3>3. Ranked(s, links, regime)[c]
          = [t[c] EXCEPT !.selected = c \in chosen, !.highlighted = c \in shown]
      BY <1>7
    <3> QED BY <2>2, <3>1, <3>2, <3>3
  <2> QED BY <2>4, <2>5
<1> QED BY <1>7, <1>8

(***************************************************************************)
(* Ranking: the theorems                                                   *)
(***************************************************************************)

\* However often candidates are ranked, with whatever correlations and in
\* whatever regimes, the scored candidates keep their type and the last ranking
\* is the one they alone would give (scoring.py, rank_candidates).
THEOREM RankingInvariance == RankingSpec => []RankingInv
<1>1. RankingInit => RankingInv
  BY FS_EmptySet DEF RankingInit, RankingInv, ScoreOK, RankingForgetsTheLast, NotRanked
<1>2. ASSUME RankingInv, ScoreCandidate
      PROVE  RankingInv'
  <2>1. PICK c \in Candidate \ DOMAIN score, points \in Points, warned \in BOOLEAN :
          score' = [d \in DOMAIN score \cup {c} |->
                      IF d = c THEN Scored(points, warned) ELSE score[d]]
    BY <1>2 DEF ScoreCandidate
  <2>2. Scored(points, warned) \in CandidateRecord /\ Scored(points, warned).concentration = 0
    BY RankingAssumption DEF Scored, CandidateRecord
  <2>3. ScoreOK'
    <3>1. IsFiniteSet(DOMAIN score \cup {c})
      BY <1>2, FS_AddElement DEF RankingInv, ScoreOK
    <3>2. DOMAIN score' = DOMAIN score \cup {c}
      BY <2>1
    <3>3. \A d \in DOMAIN score \cup {c} :
            score'[d] \in CandidateRecord /\ score'[d].concentration = 0
      BY <1>2, <2>1, <2>2 DEF RankingInv, ScoreOK
    <3>4. score' \in [DOMAIN score \cup {c} -> CandidateRecord]
      BY <2>1, <3>3
    <3> QED BY <1>2, <3>1, <3>2, <3>3, <3>4 DEF RankingInv, ScoreOK
  <2>4. ranking' = ranking /\ ranking = NotRanked
    BY <1>2 DEF ScoreCandidate
  <2>5. RankingForgetsTheLast'
    BY <2>4 DEF RankingForgetsTheLast, NotRanked, Scored
  <2> QED BY <2>3, <2>5 DEF RankingInv
<1>3. ASSUME RankingInv, RankCandidates
      PROVE  RankingInv'
  <2>1. PICK regime \in MarketRegime, links \in SUBSET Link :
          /\ ranking' = Ranked(IF ranking = NotRanked THEN score ELSE ranking, links, regime)
          /\ market' = [regime |-> regime, links |-> links] /\ score' = score
    BY <1>3 DEF RankCandidates
  <2>2. market'.links = links /\ market'.regime = regime
    BY <2>1
  <2>3. ASSUME ranking # NotRanked
        PROVE  WithoutCorrelationPenalty(ranking) = WithoutCorrelationPenalty(score)
    <3>1. PICK D : D = DOMAIN score
      OBVIOUS
    <3>2. score \in [D -> CandidateRecord]
      BY <1>3, <3>1 DEF RankingInv, ScoreOK
    <3>3. ranking = Ranked(score, market.links, market.regime)
      BY <1>3, <2>3 DEF RankingInv, RankingForgetsTheLast
    <3>4. ranking \in [D -> CandidateRecord] /\ \A c \in D : SameScore(ranking[c], score[c])
      BY <3>2, <3>3, RankingKeepsTheScore
    <3> QED BY <3>2, <3>4, WithoutPenaltyIsOfTheScore
  <2>4. ranking' = Ranked(score, links, regime)
    BY <2>1, <2>3 DEF Ranked
  <2> QED BY <1>3, <2>1, <2>2, <2>4 DEF RankingInv, ScoreOK, RankingForgetsTheLast
<1>4. RankingInv /\ UNCHANGED rankingVars => RankingInv'
  BY DEF RankingInv, ScoreOK, RankingForgetsTheLast, rankingVars, NotRanked, Scored
<1> QED BY <1>1, <1>2, <1>3, <1>4, PTL DEF RankingSpec, RankingNext

\* What was ranked before leaves no trace: a ranking of a ranking is the ranking
\* of the scored candidates, for any candidates, penalties, thresholds and caps
\* (scoring.py, _without_correlation_penalty).
THEOREM RankingStaysForgetful == RankingSpec => []RankingForgetsTheLast
<1>1. RankingInv => RankingForgetsTheLast
  BY DEF RankingInv
<1> QED BY RankingInvariance, <1>1, PTL

(***************************************************************************)
(* The symbols reached from one                                            *)
(***************************************************************************)

\* The symbols reached from x in at most n steps, for every n in D.
IsWaves(g, D, x, S, links) ==
  g = [n \in D |-> IF n = 0 THEN {x} ELSE WithNeighbours(g[n - 1], S, links)]

\* Two solutions up to different lengths agree where both are defined.
LEMMA WavesAreUnique ==
  ASSUME NEW x, NEW S, NEW links, NEW m \in Nat, NEW n \in Nat, NEW g, NEW h,
         IsWaves(g, 0..m, x, S, links), IsWaves(h, 0..n, x, S, links)
  PROVE  \A k \in 0..m : k <= n => g[k] = h[k]
<1> DEFINE Bad == {k \in 0..m : k <= n /\ g[k] # h[k]}
<1> SUFFICES ASSUME Bad # {} PROVE FALSE
  OBVIOUS
<1>1. PICK k \in Bad : \A l \in Bad : k <= l
  <2>1. Bad \in SUBSET Nat
    OBVIOUS
  <2> HIDE DEF Bad
  <2> QED BY <2>1, LeastExists
<1>2. k \in 0..m /\ k \in 0..n /\ g[k] # h[k]
  OBVIOUS
<1>3. /\ g[k] = IF k = 0 THEN {x} ELSE WithNeighbours(g[k - 1], S, links)
      /\ h[k] = IF k = 0 THEN {x} ELSE WithNeighbours(h[k - 1], S, links)
  BY <1>2 DEF IsWaves
<1>4. k # 0
  BY <1>2, <1>3
<1>5. g[k - 1] = h[k - 1]
  <2>1. k - 1 \in 0..m /\ k - 1 <= n /\ ~(k <= k - 1)
    BY <1>2, <1>4
  <2> QED BY <1>1, <2>1
<1> QED BY <1>2, <1>3, <1>5

LEMMA WavesUpTo ==
  ASSUME NEW x, NEW S, NEW links, NEW m \in Nat
  PROVE  \E g : IsWaves(g, 0..m, x, S, links)
<1> DEFINE Bad == {n \in Nat : ~ \E g : IsWaves(g, 0..n, x, S, links)}
<1>1. \E g : IsWaves(g, 0..0, x, S, links)
  <2>1. PICK g : g = [n \in 0..0 |-> {x}]
    OBVIOUS
  <2>2. IsWaves(g, 0..0, x, S, links)
    BY <2>1 DEF IsWaves
  <2> QED BY <2>2
<1>2. ASSUME NEW n \in Nat, NEW g, IsWaves(g, 0..n, x, S, links)
      PROVE  \E h : IsWaves(h, 0..(n + 1), x, S, links)
  <2>1. PICK h : h = [k \in 0..(n + 1) |->
                        IF k = 0 THEN {x} ELSE WithNeighbours(g[k - 1], S, links)]
    OBVIOUS
  <2>2. ASSUME NEW k \in 0..n PROVE h[k] = g[k]
    <3>1. k \in 0..(n + 1)
      OBVIOUS
    <3>2. g[k] = IF k = 0 THEN {x} ELSE WithNeighbours(g[k - 1], S, links)
      BY <1>2 DEF IsWaves
    <3>3. h[k] = IF k = 0 THEN {x} ELSE WithNeighbours(g[k - 1], S, links)
      BY <2>1, <3>1
    <3> QED BY <3>2, <3>3
  <2>3. ASSUME NEW k \in 0..(n + 1), k # 0
        PROVE  g[k - 1] = h[k - 1]
    BY <2>2, <2>3
  <2>4. IsWaves(h, 0..(n + 1), x, S, links)
    BY <2>1, <2>3 DEF IsWaves
  <2> QED BY <2>4
<1>3. Bad = {}
  <2> SUFFICES ASSUME Bad # {} PROVE FALSE
    OBVIOUS
  <2>1. PICK n \in Bad : \A k \in Bad : n <= k
    BY LeastExists
  <2>2. n # 0 /\ n \in Nat
    BY <1>1
  <2>3. n - 1 \in Nat /\ ~(n <= n - 1) /\ (n - 1) + 1 = n
    BY <2>2
  <2>4. PICK g : IsWaves(g, 0..(n - 1), x, S, links)
    BY <2>1, <2>3
  <2>5. \E h : IsWaves(h, 0..((n - 1) + 1), x, S, links)
    BY <1>2, <2>3, <2>4
  <2> QED BY <2>1, <2>3, <2>5
<1> QED BY <1>3

\* The solutions up to every length together are one for all lengths.
LEMMA WavesExist ==
  ASSUME NEW x, NEW S, NEW links
  PROVE  \E g : IsWaves(g, Nat, x, S, links)
<1> DEFINE upto == [n \in Nat |-> CHOOSE g : IsWaves(g, 0..n, x, S, links)]
           h == [n \in Nat |-> upto[n][n]]
<1>1. ASSUME NEW n \in Nat PROVE IsWaves(upto[n], 0..n, x, S, links)
  BY WavesUpTo
<1> HIDE DEF upto
<1>2. ASSUME NEW n \in Nat
      PROVE  h[n] = IF n = 0 THEN {x} ELSE WithNeighbours(h[n - 1], S, links)
  <2>1. h[n] = IF n = 0 THEN {x} ELSE WithNeighbours(upto[n][n - 1], S, links)
    <3>1. PICK a : a = upto[n]
      OBVIOUS
    <3>2. IsWaves(a, 0..n, x, S, links) /\ n \in 0..n
      BY <1>1, <3>1
    <3>3. a[n] = IF n = 0 THEN {x} ELSE WithNeighbours(a[n - 1], S, links)
      BY <3>2 DEF IsWaves
    <3> QED BY <3>1, <3>3
  <2>2. ASSUME n # 0 PROVE upto[n][n - 1] = h[n - 1]
    <3>1. PICK m \in Nat : m = n - 1
      BY <2>2
    <3>2. m \in 0..n /\ m <= m
      BY <3>1
    <3>3. PICK a, b : a = upto[n] /\ b = upto[m]
      OBVIOUS
    <3>4. IsWaves(a, 0..n, x, S, links) /\ IsWaves(b, 0..m, x, S, links)
      BY <1>1, <3>3
    <3>5. \A k \in 0..n : k <= m => a[k] = b[k]
      BY <3>4, WavesAreUnique
    <3>6. a[m] = b[m]
      BY <3>2, <3>5
    <3> QED BY <3>1, <3>3, <3>6
  <2> HIDE DEF h
  <2> QED BY <2>1, <2>2
<1>3. h = [n \in Nat |-> h[n]]
  OBVIOUS
<1> HIDE DEF h
<1>4. IsWaves(h, Nat, x, S, links)
  BY <1>2, <1>3 DEF IsWaves
<1> QED BY <1>4

LEMMA ReachedIsTheLastWave ==
  ASSUME NEW x, NEW S, NEW links
  PROVE  \E g : IsWaves(g, Nat, x, S, links) /\ Reached(x, S, links) = g[Cardinality(S)]
<1> DEFINE Eq(g) == g = [n \in Nat |-> IF n = 0 THEN {x} ELSE WithNeighbours(g[n - 1], S, links)]
<1>1. \A g : Eq(g) <=> IsWaves(g, Nat, x, S, links)
  BY DEF IsWaves
<1>2. Reached(x, S, links) = (CHOOSE g : Eq(g))[Cardinality(S)]
  BY DEF Reached
<1> HIDE DEF Eq
<1>3. \E g : Eq(g)
  BY <1>1, WavesExist
<1>4. Eq(CHOOSE g : Eq(g))
  BY <1>3
<1> QED BY <1>1, <1>2, <1>4

\* A set no pair leads out of.
NoWayOut(T, S, links) == \A u \in T, v \in S : {v, u} \in links => v \in T

\* Reached is the smallest set that holds x and that no pair leads out of: each
\* wave before the last adds a symbol or nothing is left to add.
LEMMA ReachedIsLeastClosed ==
  ASSUME NEW S, IsFiniteSet(S), NEW x \in S, NEW links
  PROVE  /\ x \in Reached(x, S, links) /\ Reached(x, S, links) \subseteq S
         /\ NoWayOut(Reached(x, S, links), S, links)
         /\ \A T \in SUBSET S : x \in T /\ NoWayOut(T, S, links)
                                 => Reached(x, S, links) \subseteq T
<1>1. PICK g : IsWaves(g, Nat, x, S, links) /\ Reached(x, S, links) = g[Cardinality(S)]
  BY ReachedIsTheLastWave
<1>2. g[0] = {x} /\ \A n \in Nat : g[n + 1] = WithNeighbours(g[n], S, links)
  <2>1. ASSUME NEW n \in Nat
        PROVE  g[n + 1] = WithNeighbours(g[n], S, links)
    <3>1. n + 1 \in Nat /\ n + 1 # 0 /\ (n + 1) - 1 = n
      OBVIOUS
    <3> QED BY <1>1, <3>1 DEF IsWaves
  <2>2. g[0] = {x}
    BY <1>1 DEF IsWaves
  <2> QED BY <2>1, <2>2
<1> DEFINE Settled(n) == NoWayOut(g[n], S, links)
           Bad == {n \in Nat : ~ (/\ x \in g[n] /\ g[n] \subseteq S
                                  /\ \A T \in SUBSET S : x \in T /\ NoWayOut(T, S, links)
                                                          => g[n] \subseteq T
                                  /\ Settled(n) \/ Cardinality(g[n]) > n)}
<1>3. 0 \notin Bad
  <2>1. Cardinality(g[0]) = 1
    BY <1>2, FS_Singleton
  <2> QED BY <1>2, <2>1
<1>4. ASSUME NEW n \in Nat, n \notin Bad
      PROVE  n + 1 \notin Bad
  <2>1. PICK a, b : a = g[n] /\ b = g[n + 1]
    OBVIOUS
  <2>2. b = a \cup {v \in S : \E u \in a : {v, u} \in links}
    BY <1>2, <2>1 DEF WithNeighbours
  <2>3. /\ x \in a /\ a \subseteq S
        /\ \A T \in SUBSET S : x \in T /\ NoWayOut(T, S, links) => a \subseteq T
        /\ NoWayOut(a, S, links) \/ Cardinality(a) > n
    BY <1>4, <2>1
  <2>4. x \in b /\ b \subseteq S
    BY <2>2, <2>3
  <2>5. \A T \in SUBSET S : x \in T /\ NoWayOut(T, S, links) => b \subseteq T
    BY <2>2, <2>3 DEF NoWayOut
  <2>6. NoWayOut(b, S, links) \/ Cardinality(b) > n + 1
    <3>1. CASE NoWayOut(a, S, links)
      <4>1. b = a
        BY <2>2, <3>1 DEF NoWayOut
      <4> QED BY <3>1, <4>1
    <3>2. CASE ~NoWayOut(a, S, links)
      <4>1. PICK v \in b : v \notin a
        BY <2>2, <3>2 DEF NoWayOut
      <4>2. IsFiniteSet(a) /\ IsFiniteSet(b) /\ Cardinality(a) \in Nat /\ Cardinality(b) \in Nat
        BY <2>3, <2>4, FS_Subset, FS_CardinalityType
      <4>3. Cardinality(a \cup {v}) = Cardinality(a) + 1
        BY <4>1, <4>2, FS_AddElement
      <4>4. a \cup {v} \in SUBSET b
        BY <2>2, <4>1
      <4>5. Cardinality(a \cup {v}) <= Cardinality(b)
        BY <4>2, <4>4, FS_Subset
      <4> QED BY <2>3, <3>2, <4>2, <4>3, <4>5
    <3> QED BY <3>1, <3>2
  <2> QED BY <2>1, <2>4, <2>5, <2>6
<1>5. Bad = {}
  <2> HIDE DEF Bad
  <2> SUFFICES ASSUME Bad # {} PROVE FALSE
    OBVIOUS
  <2>0. Bad \in SUBSET Nat
    BY DEF Bad
  <2>1. PICK n \in Bad : \A k \in Bad : n <= k
    BY <2>0, LeastExists
  <2>2. n # 0 /\ n \in Nat
    BY <1>3, <2>0
  <2>3. n - 1 \in Nat /\ ~(n <= n - 1) /\ (n - 1) + 1 = n
    BY <2>2
  <2>4. n - 1 \notin Bad
    BY <2>1, <2>3
  <2>5. (n - 1) + 1 \notin Bad
    BY <1>4, <2>3, <2>4
  <2> QED BY <2>1, <2>3, <2>5
<1>6. PICK N \in Nat : N = Cardinality(S)
  BY FS_CardinalityType
<1>7. PICK a : a = g[N]
  OBVIOUS
<1>8. /\ x \in a /\ a \subseteq S
      /\ \A T \in SUBSET S : x \in T /\ NoWayOut(T, S, links) => a \subseteq T
      /\ NoWayOut(a, S, links) \/ Cardinality(a) > N
  BY <1>5, <1>7
<1>9. ~(Cardinality(a) > N)
  <2>1. Cardinality(a) <= Cardinality(S) /\ Cardinality(a) \in Nat
    BY <1>8, FS_Subset, FS_CardinalityType
  <2> QED BY <1>6, <2>1
<1> QED BY <1>1, <1>6, <1>7, <1>8, <1>9

\* Over pairs, which lead both ways, the reached sets are a partition.
LEMMA ReachedIsAPartition ==
  ASSUME NEW S, IsFiniteSet(S), NEW links, NEW x \in S, NEW y \in Reached(x, S, links)
  PROVE  Reached(y, S, links) = Reached(x, S, links)
<1>1. PICK a, b : a = Reached(x, S, links) /\ b = Reached(y, S, links)
  OBVIOUS
<1>2. /\ x \in a /\ a \subseteq S /\ NoWayOut(a, S, links)
      /\ \A T \in SUBSET S : x \in T /\ NoWayOut(T, S, links) => a \subseteq T
  BY <1>1, ReachedIsLeastClosed
<1>3. y \in S
  BY <1>1, <1>2
<1>4. /\ y \in b /\ b \subseteq S /\ NoWayOut(b, S, links)
      /\ \A T \in SUBSET S : y \in T /\ NoWayOut(T, S, links) => b \subseteq T
  BY <1>1, <1>3, ReachedIsLeastClosed
<1>5. b \subseteq a
  BY <1>1, <1>2, <1>4
<1>6. NoWayOut(S \ b, S, links)
  <2> SUFFICES ASSUME NEW u \in S \ b, NEW v \in S, {v, u} \in links PROVE v \notin b
    BY DEF NoWayOut
  <2>1. {u, v} \in links
    <3>1. {u, v} = {v, u}
      OBVIOUS
    <3> QED BY <3>1
  <2> QED BY <1>4, <2>1 DEF NoWayOut
<1>7. x \in b
  <2> SUFFICES ASSUME x \notin b PROVE FALSE
    OBVIOUS
  <2>1. a \subseteq S \ b
    BY <1>2, <1>6
  <2> QED BY <1>1, <1>4, <2>1
<1>8. a \subseteq b
  BY <1>2, <1>4, <1>7
<1> QED BY <1>1, <1>5, <1>8

(***************************************************************************)
(* The first of a finite set in a strict total order                       *)
(***************************************************************************)

\* before[c] are the members ahead of c, in a strict total order on E.
IsRanked(before, E) ==
  /\ before \in [E -> SUBSET E]
  /\ \A c \in E : c \notin before[c]
  /\ \A c, d \in E : c = d \/ c \in before[d] \/ d \in before[c]
  /\ \A c, d \in E : d \in before[c] => before[d] \subseteq before[c]

LEMMA AheadIsFewer ==
  ASSUME NEW E, IsFiniteSet(E), NEW before, IsRanked(before, E)
  PROVE  /\ \A c \in E : IsFiniteSet(before[c]) /\ Cardinality(before[c]) \in Nat
         /\ \A c, d \in E : d \in before[c] => Cardinality(before[d]) < Cardinality(before[c])
<1>1. \A c \in E : /\ before[c] \in SUBSET E /\ IsFiniteSet(before[c])
                   /\ Cardinality(before[c]) \in Nat
  BY FS_Subset, FS_CardinalityType DEF IsRanked
<1>2. ASSUME NEW c \in E, NEW d \in E, d \in before[c]
      PROVE  Cardinality(before[d]) < Cardinality(before[c])
  <2>1. PICK a, b : a = before[d] /\ b = before[c]
    OBVIOUS
  <2>2. a \in SUBSET b /\ a # b
    BY <1>2, <2>1 DEF IsRanked
  <2>3. IsFiniteSet(b) /\ Cardinality(b) \in Nat /\ Cardinality(a) \in Nat
    BY <1>1, <2>1
  <2>4. Cardinality(a) <= Cardinality(b) /\ Cardinality(a) # Cardinality(b)
    BY <2>2, <2>3, FS_Subset
  <2> QED BY <2>1, <2>3, <2>4
<1> QED BY <1>1, <1>2

\* Somebody of a subset is ahead of everybody else in it.
LEMMA FirstExists ==
  ASSUME NEW E, IsFiniteSet(E), NEW before, IsRanked(before, E), NEW G \in SUBSET E, G # {}
  PROVE  \E m \in G : \A c \in G : c # m => m \in before[c]
<1> DEFINE Ranks == {n \in Nat : \E c \in G : n = Cardinality(before[c])}
<1>1. Ranks \in SUBSET Nat /\ Ranks # {}
  BY AheadIsFewer
<1>2. PICK n \in Ranks : \A k \in Ranks : n <= k
  <2> HIDE DEF Ranks
  <2> QED BY <1>1, LeastExists
<1>3. PICK m \in G : n = Cardinality(before[m])
  BY <1>2
<1>4. ASSUME NEW c \in G, c \in before[m] PROVE FALSE
  <2>1. Cardinality(before[c]) < n /\ Cardinality(before[c]) \in Nat /\ n \in Nat
    BY <1>3, <1>4, AheadIsFewer
  <2>2. Cardinality(before[c]) \in Ranks
    BY <2>1
  <2> QED BY <1>2, <2>1, <2>2
<1> QED BY <1>4 DEF IsRanked

\* Those with fewer than n ahead are at most n, and exactly n who are ahead of
\* everybody else once anybody is left out.
LEMMA FirstOnes ==
  ASSUME NEW E, IsFiniteSet(E), NEW before, IsRanked(before, E), NEW n \in Nat,
         NEW F, F = {c \in E : Cardinality(before[c]) < n}
  PROVE  /\ Cardinality(F) \in Nat /\ Cardinality(F) <= n
         /\ \A c \in E \ F : Cardinality(F) = n /\ F \subseteq before[c]
<1>1. F \in SUBSET E /\ IsFiniteSet(F) /\ Cardinality(F) \in Nat
  BY FS_Subset, FS_CardinalityType
<1>2. ASSUME NEW c \in E \ F
      PROVE  F \subseteq before[c]
  <2> SUFFICES ASSUME NEW d \in F PROVE d \in before[c]
    OBVIOUS
  <2>1. c \notin before[d]
    <3> SUFFICES ASSUME c \in before[d] PROVE FALSE
      OBVIOUS
    <3>1. Cardinality(before[c]) < Cardinality(before[d])
      BY AheadIsFewer
    <3> QED BY <3>1, AheadIsFewer
  <2> QED BY <2>1 DEF IsRanked
<1>3. Cardinality(F) <= n
  <2>1. CASE F = {}
    BY <2>1, FS_EmptySet
  <2>2. CASE F # {}
    <3> DEFINE Left == {k \in Nat : \E c \in F : k = n - Cardinality(before[c])}
    <3>1. Left \in SUBSET Nat /\ Left # {}
      <4>1. PICK c \in F : TRUE
        BY <2>2
      <4>2. n - Cardinality(before[c]) \in Nat
        BY AheadIsFewer
      <4> QED BY <4>2
    <3>2. PICK k \in Left : \A l \in Left : k <= l
      <4> HIDE DEF Left
      <4> QED BY <3>1, LeastExists
    <3>3. PICK m \in F : k = n - Cardinality(before[m])
      BY <3>2
    <3>4. ASSUME NEW c \in F, m \in before[c] PROVE FALSE
      <4>1. /\ Cardinality(before[m]) < Cardinality(before[c])
            /\ Cardinality(before[c]) \in Nat /\ Cardinality(before[m]) \in Nat
            /\ Cardinality(before[c]) < n
        BY <3>4, AheadIsFewer
      <4>2. n - Cardinality(before[c]) \in Left
        BY <4>1
      <4> QED BY <3>2, <3>3, <4>1, <4>2
    <3>5. PICK b : b = before[m]
      OBVIOUS
    <3>6. F \in SUBSET (b \cup {m})
      BY <3>4, <3>5 DEF IsRanked
    <3>7. IsFiniteSet(b) /\ Cardinality(b) \in Nat /\ Cardinality(b) < n /\ m \notin b
      BY <3>5, AheadIsFewer DEF IsRanked
    <3>8. IsFiniteSet(b \cup {m}) /\ Cardinality(b \cup {m}) = Cardinality(b) + 1
      BY <3>7, FS_AddElement
    <3>9. Cardinality(F) <= Cardinality(b \cup {m})
      BY <3>6, <3>8, FS_Subset
    <3> HIDE DEF Left
    <3> QED BY <1>1, <3>7, <3>8, <3>9
  <2> QED BY <2>1, <2>2
<1>4. ASSUME NEW c \in E \ F
      PROVE  Cardinality(F) = n
  <2>1. PICK G : G = E \ F
    OBVIOUS
  <2>2. PICK m \in G : \A d \in G : d # m => m \in before[d]
    <3>1. G \in SUBSET E /\ G # {}
      BY <1>4, <2>1
    <3> QED BY <3>1, FirstExists
  <2>3. m \in E \ F /\ before[m] \subseteq E
    BY <2>1, <2>2 DEF IsRanked
  <2>4. before[m] \subseteq F
    <3> SUFFICES ASSUME NEW d \in before[m], d \notin F PROVE FALSE
      OBVIOUS
    <3>1. d \in E /\ d # m
      BY <2>3 DEF IsRanked
    <3>2. m \in before[d]
      BY <2>1, <2>2, <3>1
    <3>3. before[d] \subseteq before[m]
      BY <2>3, <3>1 DEF IsRanked
    <3> QED BY <2>3, <3>2, <3>3 DEF IsRanked
  <2>5. before[m] = F
    BY <1>2, <2>3, <2>4
  <2>6. ~(Cardinality(F) < n)
    BY <2>3, <2>5
  <2> QED BY <1>1, <1>3, <2>6
<1> QED BY <1>1, <1>2, <1>3, <1>4

(***************************************************************************)
(* Ranking: one plan per exposure                                          *)
(***************************************************************************)

LEMMA TotalIsNat ==
  ASSUME NEW r \in CandidateRecord
  PROVE  Total(r) \in Nat
<1>1. r.points \in Int /\ r.warning \in Nat /\ r.concentration \in Nat
  BY RankingAssumption DEF CandidateRecord
<1>2. r.points - r.warning - r.concentration \in Int
  BY <1>1
<1> QED BY <1>2 DEF Total, Max0

\* _sort_key orders any candidates strictly and totally.
LEMMA SortKeyRanks ==
  ASSUME NEW D, NEW t \in [D -> CandidateRecord], NEW E \in SUBSET D, E \subseteq Nat
  PROVE  IsRanked([c \in E |-> {d \in E : Before(t, d, c)}], E)
<1>1. PICK total : total = [c \in E |-> Total(t[c])]
  OBVIOUS
<1>2. \A c \in E : total[c] = Total(t[c]) /\ total[c] \in Nat
  BY <1>1, TotalIsNat
<1>3. \A c, d \in E : Before(t, d, c)
                       <=> total[d] > total[c] \/ (total[d] = total[c] /\ d < c)
  BY <1>2 DEF Before
<1>4. PICK before : before = [c \in E |-> {d \in E : Before(t, d, c)}]
  OBVIOUS
<1>5. /\ before \in [E -> SUBSET E]
      /\ \A c, d \in E : d \in before[c] <=> Before(t, d, c)
  BY <1>4
<1>6. \A c \in E : c \notin before[c]
  BY <1>2, <1>3, <1>5
<1>7. \A c, d \in E : c = d \/ c \in before[d] \/ d \in before[c]
  BY <1>2, <1>3, <1>5
<1>8. ASSUME NEW c \in E, NEW d \in E, d \in before[c], NEW e \in before[d]
      PROVE  e \in before[c]
  <2>1. e \in E
    BY <1>5, <1>8
  <2>2. total[d] > total[c] \/ (total[d] = total[c] /\ d < c)
    BY <1>3, <1>5, <1>8
  <2>3. total[e] > total[d] \/ (total[e] = total[d] /\ e < d)
    BY <1>3, <1>5, <1>8, <2>1
  <2>4. total[e] > total[c] \/ (total[e] = total[c] /\ e < c)
    <3>1. /\ total[c] \in Nat /\ total[d] \in Nat /\ total[e] \in Nat
          /\ c \in Nat /\ d \in Nat /\ e \in Nat
      BY <1>2, <2>1
    <3> QED BY <2>2, <2>3, <3>1
  <2> QED BY <1>3, <1>5, <2>1, <2>4
<1> QED BY <1>4, <1>5, <1>6, <1>7, <1>8 DEF IsRanked

LEMMA BestOfIsBest ==
  ASSUME NEW D, IsFiniteSet(D), D \subseteq Nat, NEW t \in [D -> CandidateRecord],
         NEW G \in SUBSET D, G # {}
  PROVE  BestOf(t, G) \in G /\ \A c \in G \ {BestOf(t, G)} : Before(t, BestOf(t, G), c)
<1>1. PICK before : before = [c \in D |-> {d \in D : Before(t, d, c)}]
  OBVIOUS
<1>2. IsRanked(before, D)
  BY <1>1, SortKeyRanks
<1>3. PICK m \in G : \A c \in G : c # m => m \in before[c]
  BY <1>2, FirstExists
<1>4. \A c \in G \ {m} : Before(t, m, c)
  BY <1>1, <1>3
<1> QED BY <1>4 DEF BestOf

\* The candidates whose symbols are connected with one's own.
LEMMA GroupsPartition ==
  ASSUME NEW D, IsFiniteSet(D), NEW s, DOMAIN s = D, NEW links
  PROVE  /\ DOMAIN Groups(s, links) = D
         /\ \A c \in D : /\ c \in Groups(s, links)[c] /\ Groups(s, links)[c] \subseteq D
                        /\ \A d \in Groups(s, links)[c] :
                             Groups(s, links)[d] = Groups(s, links)[c]
<1>1. PICK S : S = {SymbolOf[c] : c \in D}
  OBVIOUS
<1>2. IsFiniteSet(S)
  <2>1. PICK f : f = [c \in D |-> SymbolOf[c]]
    OBVIOUS
  <2>2. f \in Surjection(D, S)
    BY <1>1, <2>1 DEF Surjection
  <2> QED BY <2>2, FS_Surjection
<1>3. PICK group : group = Groups(s, links)
  OBVIOUS
<1>4. group = [c \in D |-> {d \in D : SymbolOf[d] \in Reached(SymbolOf[c], S, links)}]
  BY <1>1, <1>3 DEF Groups
<1>5. ASSUME NEW c \in D
      PROVE  c \in group[c] /\ group[c] \subseteq D /\ \A d \in group[c] : group[d] = group[c]
  <2>1. SymbolOf[c] \in S
    BY <1>1
  <2>2. SymbolOf[c] \in Reached(SymbolOf[c], S, links)
    BY <1>2, <2>1, ReachedIsLeastClosed
  <2>3. ASSUME NEW d \in group[c] PROVE group[d] = group[c]
    <3>1. d \in D /\ SymbolOf[d] \in Reached(SymbolOf[c], S, links)
      BY <1>4
    <3>2. Reached(SymbolOf[d], S, links) = Reached(SymbolOf[c], S, links)
      BY <1>2, <2>1, <3>1, ReachedIsAPartition
    <3> QED BY <1>4, <3>1, <3>2
  <2> QED BY <1>4, <2>2, <2>3
<1> QED BY <1>3, <1>4, <1>5

\* What a ranking selects of scored candidates.
Selected(r) == {c \in DOMAIN r : r[c].selected}

\* One ranking selects at most PlanCap candidates and of each group at most its
\* best, and passes a worthy group over for better ones only.
LEMMA OneRankingIsOnePlanPerExposure ==
  ASSUME NEW D, IsFiniteSet(D), D \subseteq Nat, NEW s \in [D -> CandidateRecord],
         \A c \in D : s[c].concentration = 0, NEW links, NEW regime,
         NEW group, group = Groups(s, links),
         NEW picked, picked = Selected(Ranked(s, links, regime))
  PROVE  /\ Cardinality(picked) <= PlanCap
         /\ \A c, d \in picked : c # d => d \notin group[c]
         /\ \A c \in D : regime \in DOMAIN Threshold /\ Total(s[c]) >= Threshold[regime]
                         => \/ group[c] \cap picked # {}
                            \/ /\ Cardinality(picked) = PlanCap
                               /\ \A d \in picked : Total(s[d]) >= Total(s[c])
<1>1. PICK bare : bare = WithoutCorrelationPenalty(s)
  OBVIOUS
<1>2. /\ bare \in [D -> CandidateRecord]
      /\ \A c \in D : ~ bare[c].secondary /\ Total(bare[c]) = Total(s[c])
  <2>1. bare = [c \in D |-> [s[c] EXCEPT !.concentration = 0, !.secondary = FALSE,
                                         !.selected = FALSE, !.highlighted = FALSE]]
    BY <1>1 DEF WithoutCorrelationPenalty
  <2>2. ASSUME NEW c \in D
        PROVE  /\ bare[c] \in CandidateRecord /\ ~ bare[c].secondary
               /\ bare[c].points = s[c].points /\ bare[c].warning = s[c].warning
               /\ bare[c].concentration = 0
    <3>1. s[c] \in CandidateRecord
      OBVIOUS
    <3> QED BY <2>1, <3>1 DEF CandidateRecord
  <2>3. \A c \in D : Total(bare[c]) = Total(s[c])
    BY <2>2 DEF Total
  <2> QED BY <2>1, <2>2, <2>3
<1>3. group = Groups(bare, links)
  <2>1. DOMAIN bare = DOMAIN s
    BY <1>2
  <2> QED BY <2>1 DEF Groups
<1>4. \A c \in D : /\ c \in group[c] /\ group[c] \subseteq D
                   /\ \A d \in group[c] : group[d] = group[c]
  BY GroupsPartition
<1>5. PICK best : best = [c \in D |-> BestOf(bare, group[c])]
  OBVIOUS
<1>6. \A c \in D : /\ best[c] \in group[c] /\ \A d \in group[c] : best[d] = best[c]
                   /\ Total(bare[best[c]]) >= Total(bare[c])
  <2>1. ASSUME NEW c \in D
        PROVE  /\ best[c] \in group[c] /\ \A d \in group[c] : best[d] = best[c]
               /\ Total(bare[best[c]]) >= Total(bare[c])
    <3>1. PICK G : G = group[c]
      OBVIOUS
    <3>2. G \in SUBSET D /\ G # {} /\ c \in G
      BY <1>4, <3>1
    <3>3. best[c] = BestOf(bare, G)
      BY <1>5, <3>1
    <3>4. best[c] \in G /\ \A d \in G \ {best[c]} : Before(bare, best[c], d)
      <4>1. BestOf(bare, G) \in G /\ \A d \in G \ {BestOf(bare, G)} : Before(bare, BestOf(bare, G), d)
        BY <1>2, <3>2, BestOfIsBest
      <4> QED BY <3>3, <4>1
    <3>5. Total(bare[best[c]]) >= Total(bare[c])
      <4>1. Total(bare[c]) \in Nat
        BY <1>2, TotalIsNat
      <4>2. CASE best[c] = c
        BY <4>1, <4>2
      <4>3. CASE best[c] # c
        <5>1. Before(bare, best[c], c)
          BY <3>2, <3>4, <4>3
        <5>2. Total(bare[best[c]]) \in Nat
          BY <1>2, <3>2, <3>4, TotalIsNat
        <5> QED BY <4>1, <5>1, <5>2 DEF Before
      <4> QED BY <4>2, <4>3
    <3>6. \A d \in G : d \in D /\ best[d] = BestOf(bare, G)
      BY <1>4, <1>5, <3>1, <3>2
    <3> QED BY <3>1, <3>3, <3>4, <3>5, <3>6
  <2> QED BY <2>1
<1>7. PICK t : t = Penalized(bare, links)
  OBVIOUS
<1>8. /\ t \in [D -> CandidateRecord]
      /\ \A c \in D : /\ c = best[c] => t[c] = bare[c]
                      /\ t[c].secondary <=> c # best[c]
  <2>1. t = [c \in D |->
               IF c = best[c] THEN bare[c]
               ELSE [bare[c] EXCEPT !.concentration = ConcentrationPenalty, !.secondary = TRUE]]
    <3>1. DOMAIN bare = D
      BY <1>2
    <3>2. t = [c \in D |->
                 IF c = BestOf(bare, group[c]) THEN bare[c]
                 ELSE [bare[c] EXCEPT !.concentration = ConcentrationPenalty, !.secondary = TRUE]]
      BY <1>3, <1>7, <3>1 DEF Penalized
    <3>3. \A c \in D : best[c] = BestOf(bare, group[c])
      BY <1>5
    <3> QED BY <3>2, <3>3
  <2>2. ASSUME NEW c \in D
        PROVE  /\ t[c] \in CandidateRecord /\ (c = best[c] => t[c] = bare[c])
               /\ t[c].secondary <=> c # best[c]
    <3>1. bare[c] \in CandidateRecord /\ ~ bare[c].secondary
      BY <1>2
    <3>2. CASE c = best[c]
      BY <2>1, <3>1, <3>2
    <3>3. CASE c # best[c]
      <4>1. t[c] = [bare[c] EXCEPT !.concentration = ConcentrationPenalty, !.secondary = TRUE]
        BY <2>1, <3>3
      <4> QED BY <3>1, <3>3, <4>1 DEF CandidateRecord
    <3> QED BY <3>2, <3>3
  <2> QED BY <2>1, <2>2
<1>9. PICK E : E = PlanEligible(t, regime)
  OBVIOUS
<1>10. /\ E \in SUBSET D
       /\ \A c \in D : c \in E <=> /\ regime \in DOMAIN Threshold /\ c = best[c]
                                   /\ Total(bare[c]) >= Threshold[regime]
  <2>1. E = {c \in D : /\ regime \in DOMAIN Threshold /\ Total(t[c]) >= Threshold[regime]
                       /\ ~t[c].secondary}
    BY <1>8, <1>9 DEF PlanEligible
  <2> QED BY <1>8, <2>1
<1>11. PICK before : before = [c \in E |-> {d \in E : Before(t, d, c)}]
  OBVIOUS
<1>12. IsFiniteSet(E) /\ IsRanked(before, E)
  BY <1>8, <1>10, <1>11, SortKeyRanks, FS_Subset
<1>13. picked = {c \in E : Cardinality(before[c]) < PlanCap}
  <2>1. PICK chosen, shown : /\ chosen = AmongFirst(t, E, PlanCap)
                             /\ shown = AmongFirst(t, E, HighlightCap)
    OBVIOUS
  <2>2. chosen = {c \in E : Cardinality(before[c]) < PlanCap}
    BY <1>11, <2>1 DEF AmongFirst
  <2>3. PICK r : r = Ranked(s, links, regime)
    OBVIOUS
  <2>4. r = [c \in D |-> [t[c] EXCEPT !.selected = c \in chosen, !.highlighted = c \in shown]]
    <3>1. DOMAIN t = D
      BY <1>8
    <3> QED BY <1>1, <1>7, <1>9, <2>1, <2>3, <3>1 DEF Ranked
  <2>5. ASSUME NEW c \in D
        PROVE  r[c].selected <=> c \in chosen
    <3>1. t[c] \in CandidateRecord
      BY <1>8
    <3>2. PICK selected \in BOOLEAN, highlighted \in BOOLEAN :
            (selected <=> c \in chosen) /\ (highlighted <=> c \in shown)
      <4>1. \E selected \in BOOLEAN : selected <=> c \in chosen
        BY Zenon
      <4>2. \E highlighted \in BOOLEAN : highlighted <=> c \in shown
        BY Zenon
      <4> QED BY <4>1, <4>2
    <3>3. selected = (c \in chosen) /\ highlighted = (c \in shown)
      BY <3>2
    <3>4. r[c] = [t[c] EXCEPT !.selected = c \in chosen, !.highlighted = c \in shown]
      BY <2>4
    <3>5. r[c] = [t[c] EXCEPT !.selected = selected, !.highlighted = highlighted]
      BY <3>3, <3>4
    <3>6. r[c].selected = selected
      BY <3>1, <3>5 DEF CandidateRecord
    <3> QED BY <3>2, <3>6
  <2>6. DOMAIN r = D
    BY <2>4
  <2>7. picked = chosen
    BY <1>10, <2>2, <2>3, <2>5, <2>6 DEF Selected
  <2> QED BY <2>2, <2>7
<1>14. /\ Cardinality(picked) <= PlanCap
       /\ \A c \in E \ picked : Cardinality(picked) = PlanCap /\ picked \subseteq before[c]
  BY <1>12, <1>13, RankingAssumption, FirstOnes
<1>15. ASSUME NEW c \in picked, NEW d \in picked, d \in group[c]
       PROVE  c = d
  BY <1>6, <1>10, <1>13, <1>15
<1>16. ASSUME NEW c \in D, regime \in DOMAIN Threshold, Total(s[c]) >= Threshold[regime],
              group[c] \cap picked = {}
       PROVE  /\ Cardinality(picked) = PlanCap
              /\ \A d \in picked : Total(s[d]) >= Total(s[c])
  <2>1. PICK b : b = best[c]
    OBVIOUS
  <2>2. b \in group[c] /\ b \in D /\ best[b] = b /\ Total(bare[b]) >= Total(bare[c])
    BY <1>4, <1>6, <2>1
  <2>3. /\ Total(bare[b]) \in Nat /\ Total(bare[c]) \in Nat /\ Total(bare[c]) = Total(s[c])
        /\ Threshold[regime] \in Nat
    BY <1>2, <1>16, <2>2, TotalIsNat, RankingAssumption
  <2>4. b \in E \ picked
    <3>1. Total(bare[b]) >= Threshold[regime]
      BY <1>16, <2>2, <2>3
    <3> QED BY <1>10, <1>16, <2>2, <3>1
  <2>5. Cardinality(picked) = PlanCap /\ picked \subseteq before[b]
    BY <1>14, <2>4
  <2>6. ASSUME NEW d \in picked
        PROVE  Total(s[d]) >= Total(s[c])
    <3>1. d \in E /\ d \in D
      BY <1>10, <1>13
    <3>2. Before(t, d, b)
      BY <1>11, <2>4, <2>5, <3>1
    <3>3. t[d] = bare[d] /\ t[b] = bare[b]
      BY <1>8, <1>10, <2>2, <3>1
    <3>4. Total(bare[d]) \in Nat /\ Total(bare[d]) = Total(s[d])
      BY <1>2, <3>1, TotalIsNat
    <3>5. Total(bare[d]) >= Total(bare[b])
      BY <2>3, <3>2, <3>3, <3>4 DEF Before
    <3> QED BY <2>2, <2>3, <3>4, <3>5
  <2> QED BY <2>5, <2>6
<1> QED BY <1>14, <1>15, <1>16

\* However many candidates are scored and whatever pairs of their symbols are
\* correlated, no two selected candidates are connected, at most PlanCap are
\* selected, and a worthy candidate whose group has none gave way to PlanCap
\* better ones (scoring.py, _correlation_group_assignments, _with_selection).
THEOREM OnePlanStaysPerExposure == RankingSpec => []OnePlanPerExposure
<1>1. ASSUME RankingInv
      PROVE  OnePlanPerExposure
  <2>1. PICK D : D = DOMAIN score
    OBVIOUS
  <2>2. /\ IsFiniteSet(D) /\ D \subseteq Nat /\ score \in [D -> CandidateRecord]
        /\ \A c \in D : score[c].concentration = 0
    BY <1>1, <2>1, RankingAssumption DEF RankingInv, ScoreOK
  <2>3. PICK group, picked : group = Groups(score, market.links) /\ picked = Chosen
    OBVIOUS
  <2>4. CASE ranking = NotRanked
    <3>1. DOMAIN ranking = {}
      BY <2>4 DEF NotRanked
    <3>2. picked = {}
      BY <2>3, <3>1 DEF Chosen
    <3>3. Cardinality(picked) <= PlanCap
      BY <3>2, FS_EmptySet, RankingAssumption
    <3> QED BY <2>3, <3>1, <3>2, <3>3 DEF OnePlanPerExposure
  <2>5. CASE ranking # NotRanked
    <3>1. ranking = Ranked(score, market.links, market.regime)
      BY <1>1, <2>5 DEF RankingInv, RankingForgetsTheLast
    <3>2. picked = Selected(Ranked(score, market.links, market.regime))
      BY <2>3, <3>1 DEF Chosen, Selected
    <3>3. DOMAIN ranking = D
      BY <2>2, <3>1, RankingKeepsTheScore
    <3>4. /\ Cardinality(picked) <= PlanCap
          /\ \A c, d \in picked : c # d => d \notin group[c]
          /\ \A c \in D : market.regime \in DOMAIN Threshold
                            /\ Total(score[c]) >= Threshold[market.regime]
                          => \/ group[c] \cap picked # {}
                             \/ /\ Cardinality(picked) = PlanCap
                                /\ \A d \in picked : Total(score[d]) >= Total(score[c])
      BY ONLY <2>2, <2>3, <3>2, OneRankingIsOnePlanPerExposure, ZenonT(60)
    <3> QED BY <2>3, <3>3, <3>4 DEF OnePlanPerExposure
  <2> QED BY <2>4, <2>5
<1> QED BY RankingInvariance, <1>1, PTL

(***************************************************************************)
(* Sums over a finite set                                                  *)
(***************************************************************************)

\* Any member of a set, as the sums choose it.
Pick(s) == CHOOSE x \in s : TRUE

LEMMA PickIsMember ==
  ASSUME NEW s, s # {}
  PROVE  Pick(s) \in s
BY DEF Pick

\* The equation of a sum over the subsets of S.
IsSum(it, S, f) ==
  it = [s \in SUBSET S |-> IF s = {} THEN 0 ELSE f[Pick(s)] + it[s \ {Pick(s)}]]

\* A least set without a sum would have one: its sum without one member, and
\* the term of that member.
LEMMA SumExists ==
  ASSUME NEW S, IsFiniteSet(S), NEW f
  PROVE  \E it : IsSum(it, S, f)
<1> DEFINE Small(n) == {s \in SUBSET S : Cardinality(s) <= n}
           Part(g, n) == g = [s \in Small(n) |->
                                IF s = {} THEN 0 ELSE f[Pick(s)] + g[s \ {Pick(s)}]]
           Bad == {n \in Nat : ~ \E g : Part(g, n)}
<1>1. \A s \in SUBSET S : IsFiniteSet(s) /\ Cardinality(s) \in Nat
  BY FS_Subset, FS_CardinalityType
<1>2. \E g : Part(g, 0)
  <2> DEFINE g == [s \in Small(0) |-> 0]
  <2>1. \A s \in Small(0) : s = {}
    BY <1>1, FS_EmptySet
  <2>2. g = [s \in Small(0) |-> IF s = {} THEN 0 ELSE f[Pick(s)] + g[s \ {Pick(s)}]]
    BY <2>1
  <2> QED BY <2>2
<1>3. ASSUME NEW n \in Nat, \E g : Part(g, n)
      PROVE  \E g : Part(g, n + 1)
  <2>1. PICK g : Part(g, n)
    BY <1>3
  <2> DEFINE h == [s \in Small(n + 1) |->
                     IF s = {} THEN 0 ELSE f[Pick(s)] + g[s \ {Pick(s)}]]
  <2>2. ASSUME NEW s \in Small(n)
        PROVE  s \in Small(n + 1) /\ h[s] = g[s]
    <3>1. s \in Small(n + 1)
      BY <1>1
    <3>2. g[s] = IF s = {} THEN 0 ELSE f[Pick(s)] + g[s \ {Pick(s)}]
      BY <2>1
    <3> QED BY <3>1, <3>2
  <2>3. ASSUME NEW s \in Small(n + 1), s # {}
        PROVE  s \ {Pick(s)} \in Small(n)
    <3>1. Pick(s) \in s
      BY <2>3, PickIsMember
    <3>2. s \in SUBSET S /\ IsFiniteSet(s) /\ Cardinality(s) \in Nat /\ Cardinality(s) <= n + 1
      BY <1>1
    <3>3. Cardinality(s \ {Pick(s)}) = Cardinality(s) - 1
      BY <3>1, <3>2, FS_RemoveElement
    <3> QED BY <3>2, <3>3
  <2>4. h = [s \in Small(n + 1) |-> IF s = {} THEN 0 ELSE f[Pick(s)] + h[s \ {Pick(s)}]]
    <3>1. \A s \in Small(n + 1) : s # {} => h[s \ {Pick(s)}] = g[s \ {Pick(s)}]
      BY <2>2, <2>3
    <3> HIDE DEF Small
    <3> QED BY <3>1
  <2> QED BY <2>4
<1>4. Bad = {}
  <2> SUFFICES ASSUME Bad # {} PROVE FALSE
    OBVIOUS
  <2>1. PICK n \in Bad : \A m \in Bad : n <= m
    BY LeastExists
  <2> HIDE DEF Part
  <2>2. n # 0
    BY <1>2
  <2>3. n \in Nat /\ n - 1 \in Nat /\ n - 1 \notin Bad
    <3>1. n \in Nat
      OBVIOUS
    <3>2. n - 1 \in Nat /\ ~(n <= n - 1)
      BY <2>2, <3>1
    <3> QED BY <2>1, <3>1, <3>2
  <2>4. \E g : Part(g, n - 1)
    BY <2>3
  <2>5. \E g : Part(g, (n - 1) + 1)
    BY <1>3, <2>3, <2>4
  <2>6. (n - 1) + 1 = n
    BY <2>3
  <2> QED BY <2>1, <2>5, <2>6
<1>5. Small(Cardinality(S)) = SUBSET S
  BY FS_Subset, FS_CardinalityType
<1>6. PICK g : Part(g, Cardinality(S))
  BY <1>1, <1>4, FS_CardinalityType
<1>7. g = [s \in SUBSET S |-> IF s = {} THEN 0 ELSE f[Pick(s)] + g[s \ {Pick(s)}]]
  <2> HIDE DEF Small
  <2> QED BY <1>5, <1>6
<1> QED BY <1>7 DEF IsSum

\* A sum of naturals is a natural and a sum of integers an integer.
LEMMA SumStaysIn ==
  ASSUME NEW S, IsFiniteSet(S), NEW f, NEW it, IsSum(it, S, f),
         NEW V, 0 \in V, \A a, b \in V : a + b \in V, \A x \in S : f[x] \in V
  PROVE  it[S] \in V
<1> DEFINE Bad == {n \in Nat : \E s \in SUBSET S : Cardinality(s) = n /\ it[s] \notin V}
<1>1. \A s \in SUBSET S : IsFiniteSet(s) /\ Cardinality(s) \in Nat
  BY FS_Subset, FS_CardinalityType
<1>2. Bad = {}
  <2> SUFFICES ASSUME Bad # {} PROVE FALSE
    OBVIOUS
  <2>1. PICK n \in Bad : \A m \in Bad : n <= m
    BY LeastExists
  <2>2. PICK s \in SUBSET S : Cardinality(s) = n /\ it[s] \notin V
    BY <2>1
  <2>3. it[s] = IF s = {} THEN 0 ELSE f[Pick(s)] + it[s \ {Pick(s)}]
    BY DEF IsSum
  <2>4. s # {}
    BY <2>2, <2>3
  <2>5. Pick(s) \in s
    BY <2>4, PickIsMember
  <2>6. PICK r : r = s \ {Pick(s)}
    OBVIOUS
  <2>7. Cardinality(r) = n - 1 /\ r \in SUBSET S
    BY <1>1, <2>2, <2>5, <2>6, FS_RemoveElement
  <2>8. it[r] \in V
    <3>1. n - 1 \in Nat
      BY <1>1, <2>7
    <3>2. n - 1 \notin Bad
      BY <2>1, <3>1
    <3> QED BY <2>7, <3>1, <3>2
  <2>9. it[s] = f[Pick(s)] + it[r]
    BY <2>3, <2>4, <2>6
  <2> QED BY <2>2, <2>5, <2>8, <2>9
<1> QED BY <1>1, <1>2

\* The two sums of an assessment.
LEMMA ClosesSum ==
  ASSUME NEW c, NEW n \in Int, NEW lag \in Int,
         \A k \in lag..(lag + n - 1) : CloseAgo(c, k) \in Int
  PROVE  SumOf(c, n, lag) \in Int
<1> DEFINE S == lag..(lag + n - 1)
           Eq(it) == it = [s \in SUBSET S |->
                             IF s = {} THEN 0
                             ELSE LET x == CHOOSE x \in s : TRUE
                                  IN  CloseAgo(c, x) + it[s \ {x}]]
<1>1. PICK f : f = [k \in S |-> CloseAgo(c, k)]
  OBVIOUS
<1>2. ASSUME NEW it PROVE Eq(it) <=> IsSum(it, S, f)
  <2>1. \A s \in SUBSET S : s # {} => f[Pick(s)] = CloseAgo(c, Pick(s))
    BY <1>1, PickIsMember
  <2> QED BY <2>1 DEF IsSum, Pick
<1>3. Eq(CHOOSE it : Eq(it))
  <2>0. IsFiniteSet(S)
    BY FS_Interval
  <2> HIDE DEF Eq, S
  <2>1. \E it : IsSum(it, S, f)
    BY <2>0, SumExists
  <2>2. \E it : Eq(it)
    BY <1>2, <2>1
  <2> QED BY <2>2
<1>4. PICK it : it = CHOOSE g : Eq(g)
  OBVIOUS
<1>5. SumOf(c, n, lag) = it[S]
  <2>1. SumOf(c, n, lag) = (CHOOSE g : Eq(g))[S]
    BY DEF SumOf, MapThenSumSet, MapThenFoldSet
  <2> QED BY <1>4, <2>1
<1>6. IsSum(it, S, f)
  BY <1>2, <1>3, <1>4
<1>7. IsFiniteSet(S) /\ \A k \in S : f[k] \in Int
  BY <1>1, FS_Interval
<1>8. it[S] \in Int
  <2> HIDE DEF S, Eq
  <2> QED BY <1>6, <1>7, SumStaysIn
<1> QED BY <1>5, <1>8

LEMMA TrueRangesSum ==
  ASSUME NEW c, AtrWindow \in Nat, \A k \in 0..(AtrWindow - 1) : TrueRange(c, k) \in Nat
  PROVE  TrueRanges(c) \in Nat
<1> DEFINE S == 0..(AtrWindow - 1)
           Eq(it) == it = [s \in SUBSET S |->
                             IF s = {} THEN 0
                             ELSE LET x == CHOOSE x \in s : TRUE
                                  IN  TrueRange(c, x) + it[s \ {x}]]
<1>1. PICK f : f = [k \in S |-> TrueRange(c, k)]
  OBVIOUS
<1>2. ASSUME NEW it PROVE Eq(it) <=> IsSum(it, S, f)
  <2>1. \A s \in SUBSET S : s # {} => f[Pick(s)] = TrueRange(c, Pick(s))
    BY <1>1, PickIsMember
  <2> QED BY <2>1 DEF IsSum, Pick
<1>3. Eq(CHOOSE it : Eq(it))
  <2>0. IsFiniteSet(S)
    BY FS_Interval
  <2> HIDE DEF Eq, S
  <2>1. \E it : IsSum(it, S, f)
    BY <2>0, SumExists
  <2>2. \E it : Eq(it)
    BY <1>2, <2>1
  <2> QED BY <2>2
<1>4. PICK it : it = CHOOSE g : Eq(g)
  OBVIOUS
<1>5. TrueRanges(c) = it[S]
  <2>1. TrueRanges(c) = (CHOOSE g : Eq(g))[S]
    BY DEF TrueRanges, MapThenSumSet, MapThenFoldSet
  <2> QED BY <1>4, <2>1
<1>6. IsSum(it, S, f)
  BY <1>2, <1>3, <1>4
<1>7. IsFiniteSet(S) /\ \A k \in S : f[k] \in Nat
  BY <1>1, FS_Interval
<1>8. it[S] \in Nat
  <2> HIDE DEF S, Eq
  <2>1. 0 \in Nat /\ \A a, b \in Nat : a + b \in Nat
    OBVIOUS
  <2> QED BY <1>6, <1>7, <2>1, SumStaysIn
<1> QED BY <1>5, <1>8

(***************************************************************************)
(* Setups: what the prices of a history bound                              *)
(***************************************************************************)

LEMMA MinOfTwo ==
  ASSUME NEW a \in Int, NEW b \in Int
  PROVE  Min({a, b}) \in {a, b} /\ Min({a, b}) <= a /\ Min({a, b}) <= b
<1>1. \E x \in {a, b} : \A y \in {a, b} : x <= y
  OBVIOUS
<1> QED BY <1>1 DEF Min

LEMMA MinOfNaturals ==
  ASSUME NEW S \in SUBSET Nat, S # {}
  PROVE  Min(S) \in S /\ \A x \in S : Min(S) <= x
BY LeastExists DEF Min

LEMMA SetupTypes ==
  /\ ShortWindow \in Nat \ {0} /\ MiddleWindow \in Nat \ {0} /\ LongWindow \in Nat \ {0}
  /\ MiddleLag \in Nat \ {0} /\ LongLag \in Nat \ {0} /\ BreakoutLookback \in Nat \ {0}
  /\ AtrWindow \in Nat \ {0} /\ LowerBuffer \in Nat \ {0} /\ UpperBuffer \in Nat \ {0}
  /\ Wick \in Nat \ {0}
BY SetupAssumption

\* Every window an assessment looks at fits in a history of the required length.
LEMMA RequiredCovers ==
  /\ Required \in Nat
  /\ MiddleWindow < Required /\ AtrWindow < Required /\ BreakoutLookback < Required
<1> DEFINE S == {LongWindow + LongLag, MiddleWindow + MiddleLag, AtrWindow + 1,
                 BreakoutLookback + 1, ShortWindow + 1}
           n == LongWindow + LongLag + MiddleWindow + MiddleLag + AtrWindow
                  + BreakoutLookback + ShortWindow + 1
<1>1. S \in SUBSET Int /\ S # {} /\ n \in Int /\ \A x \in S : x <= n
  BY SetupTypes
<1>2. Max(S) \in S /\ \A x \in S : x <= Max(S)
  <2> HIDE DEF S, n
  <2> QED BY <1>1, MaxIsGreatest
<1> QED BY <1>2, SetupTypes DEF Required

LEMMA CloseIsNat ==
  ASSUME NEW c \in Seq(SetupClose), NEW k \in Nat, k < Len(c)
  PROVE  CloseAgo(c, k) \in Nat
<1>1. Len(c) \in Nat /\ Len(c) - k \in 1..Len(c)
  OBVIOUS
<1>2. c[Len(c) - k] \in SetupClose
  BY <1>1
<1> QED BY <1>2, SetupAssumption DEF CloseAgo

LEMMA TrueRangeIsNat ==
  ASSUME NEW c, NEW k, CloseAgo(c, k) \in Int, CloseAgo(c, k + 1) \in Int
  PROVE  TrueRange(c, k) \in Nat
<1> DEFINE a == 2 * Wick
           b == Distance(CloseAgo(c, k) + Wick, CloseAgo(c, k + 1))
           d == Distance(CloseAgo(c, k) - Wick, CloseAgo(c, k + 1))
<1>1. a \in Nat /\ b \in Nat /\ d \in Nat
  BY SetupTypes DEF Distance
<1>2. TrueRange(c, k) = Max({a, b, d})
  BY DEF TrueRange
<1> HIDE DEF a, b, d
<1>3. {a, b, d} \in SUBSET Int /\ {a, b, d} # {} /\ a + b + d \in Int
      /\ \A x \in {a, b, d} : x <= a + b + d
  BY <1>1
<1>4. Max({a, b, d}) \in {a, b, d}
  BY <1>3, MaxIsGreatest
<1> QED BY <1>1, <1>2, <1>4

LEMMA LevelsHaveTypes ==
  ASSUME NEW c \in Seq(SetupClose), Len(c) >= Required
  PROVE  /\ CloseAgo(c, 0) \in Nat /\ Support(c) \in Int /\ Scale \in Nat \ {0}
         /\ Buffer(c, LowerBuffer) \in Nat
         /\ LowestLow(c) \in Int /\ LowestLow(c) < CloseAgo(c, 0)
<1>1. \A k \in Nat : k < Required => CloseAgo(c, k) \in Nat
  BY CloseIsNat, RequiredCovers
<1>2. CloseAgo(c, 0) \in Nat
  BY <1>1, RequiredCovers, SetupTypes
<1>3. SumOf(c, MiddleWindow, 0) \in Int
  <2>1. MiddleWindow \in Int /\ 0 \in Int
    BY SetupTypes
  <2>2. \A k \in 0..(0 + MiddleWindow - 1) : CloseAgo(c, k) \in Int
    BY <1>1, RequiredCovers, SetupTypes
  <2> QED BY <2>1, <2>2, ClosesSum
<1>4. TrueRanges(c) \in Nat
  <2>1. ASSUME NEW k \in 0..(AtrWindow - 1)
        PROVE  TrueRange(c, k) \in Nat
    <3>1. k \in Nat /\ k + 1 \in Nat /\ k < Required /\ k + 1 < Required
      BY RequiredCovers, SetupTypes
    <3>2. CloseAgo(c, k) \in Int /\ CloseAgo(c, k + 1) \in Int
      BY <1>1, <3>1
    <3> QED BY <3>2, TrueRangeIsNat
  <2> QED BY <2>1, SetupTypes, TrueRangesSum
<1>5. Scale \in Nat \ {0}
  BY SetupTypes DEF Scale
<1>6. Support(c) \in Int
  BY <1>3, SetupTypes DEF Support
<1>7. Buffer(c, LowerBuffer) \in Nat
  <2>1. \A a, b, d \in Nat : a * b * d \in Nat
    OBVIOUS
  <2> QED BY <1>4, <2>1, SetupTypes DEF Buffer
<1>8. LowestLow(c) \in Int /\ LowestLow(c) < CloseAgo(c, 0)
  <2> DEFINE S == {CloseAgo(c, k) : k \in 0..(BreakoutLookback - 1)}
  <2>1. S \in SUBSET Nat /\ CloseAgo(c, 0) \in S
    <3>1. \A k \in 0..(BreakoutLookback - 1) : k \in Nat /\ k < Required
      BY RequiredCovers, SetupTypes
    <3>2. \A k \in 0..(BreakoutLookback - 1) : CloseAgo(c, k) \in Nat
      BY <1>1, <3>1
    <3>3. 0 \in 0..(BreakoutLookback - 1)
      BY SetupTypes
    <3> QED BY <3>2, <3>3
  <2>2. Min(S) \in Nat /\ Min(S) <= CloseAgo(c, 0)
    <3> HIDE DEF S
    <3> QED BY <2>1, MinOfNaturals
  <2>3. LowestLow(c) = Min(S) - Wick
    BY DEF LowestLow
  <2> HIDE DEF S
  <2> QED BY <1>2, <2>2, <2>3, SetupTypes
<1> QED BY <1>2, <1>5, <1>6, <1>7, <1>8

\* The stop of a confirmed setup: a breakout's is the buffer under the average
\* its close is over, a pullback's the buffer under a low that is not above the
\* low of its last session.
LEMMA ConfirmedIsOverItsStop ==
  ASSUME NEW c \in Seq(SetupClose), Len(c) >= Required, NEW i,
         NEW kind, kind = SetupKind(c, i), kind # "none"
  PROVE  Levels(c, kind).stop < Scale * CloseAgo(c, 0)
<1>1. PICK base : base = IF kind = "BREAKOUT" THEN Support(c)
                         ELSE Min({Support(c), Scale * LowestLow(c)})
  OBVIOUS
<1>2. Levels(c, kind).stop = base - Buffer(c, LowerBuffer)
  BY <1>1 DEF Levels
<1>3. base \in Int /\ base < Scale * CloseAgo(c, 0)
  <2>1. CASE kind = "BREAKOUT"
    <3>1. Scale * CloseAgo(c, 0) > Support(c)
      BY <2>1 DEF SetupKind, Breakout
    <3> QED BY <1>1, <2>1, <3>1, LevelsHaveTypes
  <2>2. CASE kind # "BREAKOUT"
    <3>1. PICK m, low, s : m = Support(c) /\ low = LowestLow(c) /\ s = Scale
      OBVIOUS
    <3>2. m \in Int /\ low \in Int /\ s \in Nat \ {0}
      BY <3>1, LevelsHaveTypes
    <3>3. s * low \in Int
      BY <3>2
    <3>4. base = Min({m, s * low})
      BY <1>1, <2>2, <3>1
    <3>5. base \in Int /\ base <= s * low
      BY <3>2, <3>3, <3>4, MinOfTwo
    <3>6. PICK x \in Nat : x = CloseAgo(c, 0)
      BY LevelsHaveTypes
    <3>7. low < x
      BY <3>1, <3>6, LevelsHaveTypes
    <3>8. s * low < s * x
      BY <3>2, <3>7
    <3>9. base < s * x
      <4>1. s * x \in Int
        BY <3>2
      <4> QED BY <3>3, <3>5, <3>8, <4>1
    <3> QED BY <3>1, <3>5, <3>6, <3>9
  <2> QED BY <2>1, <2>2
<1>4. Scale * CloseAgo(c, 0) \in Int
  BY LevelsHaveTypes
<1>5. Buffer(c, LowerBuffer) \in Nat
  BY LevelsHaveTypes
<1> QED BY <1>2, <1>3, <1>4, <1>5

(***************************************************************************)
(* Setups: the theorems                                                    *)
(***************************************************************************)

SetupInv == closes \in Seq(SetupClose) /\ StopIsBelowTheMarket

\* However long the history and whatever the windows, buffers and tolerances, a
\* confirmed setup has its stop under the price it was confirmed at (setups.py,
\* assess_setups, _levels).
THEOREM SetupInvariance == SetupSpec => []SetupInv
<1>1. SetupInit => SetupInv
  BY DEF SetupInit, SetupInv, StopIsBelowTheMarket, NotAssessed
<1>2. ASSUME SetupInv, CompleteSession
      PROVE  SetupInv'
  <2>1. PICK x \in SetupClose :
          closes' = IF Len(closes) < Required THEN Append(closes, x) ELSE Append(Tail(closes), x)
    BY <1>2 DEF CompleteSession
  <2>2. closes' \in Seq(SetupClose)
    <3>1. closes \in Seq(SetupClose)
      BY <1>2 DEF SetupInv
    <3>2. CASE Len(closes) < Required
      BY <2>1, <3>1, <3>2
    <3>3. CASE ~(Len(closes) < Required)
      <4>1. Len(closes) # 0
        BY <3>3, RequiredCovers, SetupTypes
      <4>2. Tail(closes) \in Seq(SetupClose)
        BY <3>1, <4>1
      <4> QED BY <2>1, <3>3, <4>2
    <3> QED BY <3>2, <3>3
  <2>3. outcome' = NotAssessed
    BY <1>2 DEF CompleteSession
  <2> QED BY <2>2, <2>3 DEF SetupInv, StopIsBelowTheMarket, NotAssessed
<1>3. ASSUME SetupInv, DetectSetups
      PROVE  SetupInv'
  <2>1. PICK i \in SetupInput : outcome' = AssessSetups(closes, i)
    BY <1>3 DEF DetectSetups
  <2>2. closes \in Seq(SetupClose) /\ closes' = closes
    BY <1>3 DEF SetupInv, DetectSetups
  <2>3. ASSUME outcome'.kind \in {"BREAKOUT", "PULLBACK"}
        PROVE  outcome'.levels.stop < Scale * CloseAgo(closes, 0)
    <3>1. PICK kind : kind = SetupKind(closes, i)
      OBVIOUS
    <3>2. \A codes : Excluded(codes).kind = "excluded"
      BY DEF Excluded
    <3>3. /\ RequiredFailures(closes, i) = {} /\ kind # "none"
          /\ outcome' = [kind |-> kind, levels |-> Levels(closes, kind)]
      BY <2>1, <2>3, <3>1, <3>2 DEF AssessSetups
    <3>4. Len(closes) >= Required
      <4>1. EligibilityGates(closes, i) = {}
        BY <3>3 DEF RequiredFailures
      <4> QED BY <4>1 DEF EligibilityGates, When
    <3>5. Levels(closes, kind).stop < Scale * CloseAgo(closes, 0)
      BY <2>2, <3>1, <3>3, <3>4, ConfirmedIsOverItsStop
    <3> QED BY <3>3, <3>5
  <2> QED BY <2>2, <2>3 DEF SetupInv, StopIsBelowTheMarket
<1>4. SetupInv /\ UNCHANGED setupVars => SetupInv'
  BY DEF SetupInv, StopIsBelowTheMarket, setupVars
<1> QED BY <1>1, <1>2, <1>3, <1>4, PTL DEF SetupSpec, SetupNext

\* A confirmed setup is not invalid as it is proposed (setups.py, _levels).
THEOREM StopStaysBelowTheMarket == SetupSpec => []StopIsBelowTheMarket
<1>1. SetupInv => StopIsBelowTheMarket
  BY DEF SetupInv
<1> QED BY SetupInvariance, <1>1, PTL

=============================================================================
