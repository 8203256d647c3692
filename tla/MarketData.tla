---- MODULE MarketData ----
(***************************************************************************)
(* One market collection (application/market_collection.py) through the    *)
(* Alpaca adapter (adapters/alpaca.py): instruments, then daily bars page  *)
(* by page, then pre-market observations, then the completion instant.     *)
(* Time is counted in slots of a quarter of a New York day; slot 1 of a    *)
(* day is its pre-market window, slot 2 its regular session.  The provider *)
(* answers anything: failures, extra symbols, holes, duplicates, bars that *)
(* are malformed or in the future, stale trades, repeated page tokens.     *)
(***************************************************************************)
EXTENDS Integers, FiniteSets, FiniteSetsExt

CONSTANTS
    Symbol,         \* the requested symbols
    Unrequested,    \* a symbol nobody asked for
    TradingDay,     \* the days the calendar calls sessions
    MarketDate,     \* the market date of the run
    SessionCount,   \* how many completed sessions are collected
    Close,          \* closing prices; Malformed stands for a bar that does not parse
    Malformed,
    Token,          \* page tokens
    TradeSlot,      \* slots a latest trade may be of
    Refusal,        \* bound: the request failures that occur
    LastSlot        \* bound: the clock stops there

(* What _get_json may answer instead of a decoded payload.                 *)
RequestFailure == {"CREDENTIALS_MISSING", "PERMISSION_DENIED", "PROVIDER_UNAVAILABLE",
                   "DEADLINE_EXCEEDED", "PROVIDER_SCHEMA_DRIFT"}

ASSUME MarketAssumption ==
    /\ TradingDay \subseteq 0..MarketDate /\ MarketDate \in TradingDay
    /\ SessionCount \in Nat \ {0} /\ LastSlot \in Nat
    /\ TradeSlot \subseteq 0..LastSlot /\ Unrequested \notin Symbol
    /\ Refusal \subseteq RequestFailure

VARIABLES
    slot,       \* the clock
    stage,      \* what collect_market_data does next
    cache,      \* _identity_cache: symbols with a cached identity
    identity,   \* the instrument result of each symbol
    tokens,     \* page_tokens of the running fetch_daily_bars
    records,    \* the records of the pages read so far
    bars,       \* the daily-bars result of each symbol
    price       \* the pre-market result of each symbol

marketVars == <<slot, stage, cache, identity, tokens, records, bars, price>>

DayOf(instant) == instant \div 4
InPremarket(instant) == instant % 4 = 1
CloseOf(day) == 4 * day + 3

(* resolve_completed_session_window: the latest SessionCount sessions      *)
(* before the market date, or the calendar is unavailable.                 *)
SessionsBefore(day) ==
    LET earlier == {d \in TradingDay : d < day}
        latest == {d \in earlier : Cardinality({e \in earlier : e >= d}) <= SessionCount}
    IN IF Cardinality(latest) = SessionCount THEN latest ELSE {}

Expected == SessionsBefore(MarketDate)
CompletedThrough == Max(Expected)

BarsFailure == {"PROVIDER_NO_DATA", "PROVIDER_MALFORMED_BAR", "PROVIDER_DUPLICATE_CONFLICT",
                "PROVIDER_FUTURE_OR_INCOMPLETE_BAR", "PROVIDER_STALE",
                "PROVIDER_MISSING_SESSION", "INVALID_REQUEST"}
None == [kind |-> "none", at |-> 0, scope |-> "none"]

(* A failure names its symbol, or no symbol when the request failed.       *)
Failed(code) == [kind |-> code, at |-> 0, scope |-> "symbol"]
Success(kind, at) == [kind |-> kind, at |-> at, scope |-> "none"]

(* One malformed record of a symbol stands for all of them, and one of a   *)
(* symbol nobody asked for.                                                *)
Record == [symbol : Symbol, day : 0..MarketDate, close : Close]
            \cup [symbol : Symbol \cup {Unrequested}, day : {0}, close : {Malformed}]

(* Bound: a page carries at most two records; a chain has many pages.      *)
Page == {{}} \cup {{q, r} : q \in Record, r \in Record}

MarketInit ==
    /\ slot = 4 * MarketDate + 1 /\ stage = "instruments"
    /\ cache = Symbol                     \* identities of an earlier collection
    /\ identity = [s \in Symbol |-> "none"]
    /\ tokens = {} /\ records = {}
    /\ bars = [s \in Symbol |-> None] /\ price = [s \in Symbol |-> None]

(* fetch_instruments: the requested identities leave the cache first, so a *)
(* failed request leaves none behind.                                      *)
FetchInstruments ==
    /\ stage = "instruments" /\ Expected # {}
    /\ \E found \in SUBSET Symbol, answered \in BOOLEAN :
         /\ answered \/ found = {}
         /\ identity' = [s \in Symbol |-> IF s \in found THEN "known"
                                          ELSE IF answered THEN "missing" ELSE "refused"]
         /\ cache' = (cache \ Symbol) \cup found
    /\ stage' = "bars"
    /\ UNCHANGED <<slot, tokens, records, bars, price>>

Resolved == {s \in Symbol : identity[s] = "known"}

(* _resolve_identity: the identities passed in take the cache's place.     *)
ResolveIdentity(s) == s \in Resolved

AllFail(code) == [s \in Symbol |-> [Failed(code) EXCEPT !.scope = "request"]]

(* One page: its records are kept, and a repeated token ends the fetch.    *)
ReadPage ==
    /\ stage = "bars"
    /\ \/ \E code \in Refusal : /\ bars' = AllFail(code) /\ stage' = "premarket"
                                       /\ records' = {} /\ tokens' = {}
       \/ \E page \in Page :
            \/ /\ stage' = "normalize" /\ records' = records \cup page
               /\ UNCHANGED <<tokens, bars>>
            \/ \E token \in Token :
                 IF token \in tokens
                 THEN /\ bars' = AllFail("PROVIDER_SCHEMA_DRIFT") /\ stage' = "premarket"
                      /\ records' = {} /\ tokens' = {}
                 ELSE /\ tokens' = tokens \cup {token} /\ records' = records \cup page
                      /\ UNCHANGED <<stage, bars>>
    /\ UNCHANGED <<slot, cache, identity, price>>

Of(s) == {r \in records : r.symbol = s}
Days(s) == {r.day : r \in Of(s)}

(* Mutant: a later page's record silently replaces the earlier one.        *)
LaterRecordWins(s) == \E q, r \in Of(s) : q.day > r.day /\ q = r

Conflicts(s) == \E q, r \in Of(s) : q.day = r.day /\ q # r

(* normalize_alpaca_daily_bars for one symbol, in the order of its tests.  *)
Normalized(s) ==
    IF Of(s) = {} THEN "PROVIDER_NO_DATA"
    ELSE IF \E r \in Of(s) : r.close = Malformed THEN "PROVIDER_MALFORMED_BAR"
    ELSE IF Conflicts(s) THEN "PROVIDER_DUPLICATE_CONFLICT"
    ELSE IF \E d \in Days(s) : d > CompletedThrough THEN "PROVIDER_FUTURE_OR_INCOMPLETE_BAR"
    ELSE IF ~(Days(s) \subseteq Expected) THEN "PROVIDER_MALFORMED_BAR"
    ELSE IF Max(Days(s)) < CompletedThrough THEN "PROVIDER_STALE"
    ELSE IF Expected \ Days(s) # {} THEN "PROVIDER_MISSING_SESSION"
    ELSE "bars"

(* The rest of fetch_daily_bars: collect_market_data passes no cutoff, so  *)
(* the retrieval instant is the cutoff; every completed session must end   *)
(* on a day before the cutoff's.                                           *)
Normalize ==
    /\ stage = "normalize"
    /\ bars' =
         IF \E r \in records : r.symbol \notin Symbol THEN AllFail("PROVIDER_SCHEMA_DRIFT")
         ELSE IF CompletedThrough >= DayOf(slot) THEN AllFail("INVALID_REQUEST")
         ELSE [s \in Symbol |->
                 IF Normalized(s) # "bars" THEN Failed(Normalized(s))
                 ELSE IF ~ResolveIdentity(s) THEN Failed("INVALID_REQUEST")
                 ELSE Success("bars", slot)]
    /\ stage' = "premarket" /\ records' = {} /\ tokens' = {}
    /\ UNCHANGED <<slot, cache, identity, price>>

NoTrade == -1
BadTrade == -2

(* Mutant: the trade's instant is never compared with the clock.           *)
AnyPremarketTrade(s, item) ==
    IF item < 0 \/ ~InPremarket(item) THEN Failed("PROVIDER_SCHEMA_DRIFT")
    ELSE Success("price", item)

(* The observation of one symbol: absent, malformed, or made at an instant *)
(* that must not follow the retrieval and must lie in pre-market hours.    *)
Observation(s, item) ==
    CASE item = NoTrade -> Failed("PROVIDER_UNAVAILABLE")
      [] item = BadTrade -> Failed("PROVIDER_SCHEMA_DRIFT")
      [] item >= 0 /\ (item > slot \/ ~InPremarket(item)) -> Failed("PROVIDER_SCHEMA_DRIFT")
      [] OTHER -> IF ResolveIdentity(s) THEN Success("price", item)
                  ELSE Failed("INVALID_REQUEST")

FetchPremarket ==
    /\ stage = "premarket"
    /\ \/ \E code \in Refusal : price' = AllFail(code)
       \/ \E item \in [Symbol -> {NoTrade, BadTrade} \cup TradeSlot] :
            price' = [s \in Symbol |-> Observation(s, item[s])]
    /\ stage' = "complete"
    /\ UNCHANGED <<slot, cache, identity, tokens, records, bars>>

(* completed_at is sampled last and covers every retrieval.                *)
CompleteCollection ==
    /\ stage = "complete" /\ stage' = "done"
    /\ UNCHANGED <<slot, cache, identity, tokens, records, bars, price>>

MarketTick == /\ stage # "done" /\ slot < LastSlot /\ slot' = slot + 1
              /\ UNCHANGED <<stage, cache, identity, tokens, records, bars, price>>

MarketNext == \/ FetchInstruments \/ ReadPage \/ Normalize \/ FetchPremarket
              \/ CompleteCollection \/ MarketTick

-----------------------------------------------------------------------------

\* What a complete history of s is, said without the order of the tests.
CompleteHistory(s) ==
    /\ \A d \in Expected : Cardinality({r \in Of(s) : r.day = d}) = 1
    /\ \A r \in Of(s) : r.day \in Expected /\ r.close # Malformed

\* However the provider cuts, repeats and reorders its pages, a symbol gets
\* bars exactly when the pages of a finished chain hold one well-formed bar
\* for each expected session and nothing else, and its identity is known
\* (alpaca.py:320-473, 663-813).
BarsAreACompleteHistory ==
    [][\A s \in Symbol :
         bars[s].kind = "none" /\ bars'[s].kind # "none" =>
           (bars'[s].kind = "bars" <=>
              /\ stage = "normalize" /\ s \in Resolved /\ CompleteHistory(s)
              /\ \A r \in records : r.symbol \in Symbol)]_marketVars

\* A finished collection has priced or charted a symbol only under an
\* identity the same collection read, from completed sessions and an instant
\* before the completion, though identities of earlier collections were
\* cached (alpaca.py:535-536, 955-968; market_collection.py:236-262).
CollectionIsOfOneReading ==
    stage = "done" =>
      \A s \in Symbol :
        /\ bars[s].kind = "bars" \/ price[s].kind = "price" => identity[s] = "known" /\ s \in cache
        /\ bars[s].kind = "bars" => CloseOf(CompletedThrough) <= bars[s].at /\ bars[s].at <= slot
        /\ price[s].kind = "price" => price[s].at <= slot /\ InPremarket(price[s].at)
====
