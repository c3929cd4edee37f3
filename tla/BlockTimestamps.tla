--------------------------- MODULE BlockTimestamps --------------------------
(***************************************************************************)
(* One attempt to fetch a range of blocks: fetchPurchaseRange and          *)
(* fetchVestingRange (f/src/modules/*/sync) ask for the logs of their      *)
(* events, and resolveBlockTimestamps (f/src/core/blockchain/              *)
(* sync-engine.ts) finds the times of their blocks in the cache that all   *)
(* attempts of the process share, or asks for a few at a time.             *)
(*                                                                         *)
(* A block's time is written as the block itself.  A batch split into      *)
(* parts (AdaptiveFetch) makes such attempts, several at once.             *)
(***************************************************************************)
EXTENDS AdaptiveFetch

CONSTANTS
    Chain,                  \* the chain up to its head
    EventBlocks,            \* by type of event, the blocks it occurs in
    Fetches,                \* the attempts that may be under way
    TypesOf,                \* by fetch, the types of events it asks for
    Unavailable,            \* null: no block, or getBlock failed three times
    MAX_TIMESTAMP_CACHE, TIMESTAMP_CONCURRENCY

ASSUME TimestampsAssumption ==
    /\ Chain \subseteq Nat /\ IsFiniteSet(Chain) /\ Unavailable \notin Chain
    /\ \A c \in Fetches : TypesOf[c] \subseteq DOMAIN EventBlocks
    /\ MAX_TIMESTAMP_CACHE \in Nat \ {0} /\ TIMESTAMP_CONCURRENCY \in Nat \ {0}

VARIABLES
    timestampCache, \* the Map, oldest entry first: a sequence of [block, time]
    fetch,          \* what each attempt is doing
    refused         \* history: the blocks getBlock has failed for

timestampVars == <<timestampCache, fetch, refused>>

Times == Chain \cup {Unavailable}
Entry == [block : Chain, time : Times]
Results == UNION {[S -> Times] : S \in SUBSET Chain}

(* Blocks with an event, without a time yet, asked for, and with one. *)
Attempt ==
    [at : {"idle", "logs", "times", "done"}, span : SUBSET Chain, types : SUBSET DOMAIN EventBlocks,
     found : SUBSET Chain, missing : SUBSET Chain, asked : SUBSET Chain, result : Results]

NoFetch ==
    [at |-> "idle", span |-> {}, types |-> {}, found |-> {}, missing |-> {}, asked |-> {},
     result |-> [b \in {} |-> b]]

TimestampsTypeOK ==
    /\ timestampCache \in Seq(Entry) /\ refused \subseteq Chain
    /\ fetch \in [Fetches -> Attempt]

TimestampsInit ==
    timestampCache = << >> /\ fetch = [c \in Fetches |-> NoFetch] /\ refused = {}

-----------------------------------------------------------------------------
(* The Map: a block has one place in it, where it was first put. *)
Cached(b) == {i \in DOMAIN timestampCache : timestampCache[i].block = b}

Put(seq, b, t) ==
    IF \E i \in DOMAIN seq : seq[i].block = b
    THEN [i \in DOMAIN seq |-> IF seq[i].block = b THEN [block |-> b, time |-> t] ELSE seq[i]]
    ELSE Append(seq, [block |-> b, time |-> t])

CacheLate(b, t) ==      \* mutant: room is made when there is none left
    timestampCache' =
        Put(IF Len(timestampCache) > MAX_TIMESTAMP_CACHE THEN Tail(timestampCache) ELSE timestampCache, b, t)

(* At the limit the oldest entry goes, whichever block comes. *)
cacheTimestamp(b, t) ==
    timestampCache' =
        Put(IF Len(timestampCache) >= MAX_TIMESTAMP_CACHE THEN Tail(timestampCache) ELSE timestampCache, b, t)

-----------------------------------------------------------------------------
(* A range is asked for: one request of the Sale's purchases, two at once  *)
(* of Vesting's allocations and claims.                                    *)
AskLogs(c, from, to) ==
    /\ fetch[c].at \in {"idle", "done"}
    /\ fetch' = [fetch EXCEPT ![c] =
          [NoFetch EXCEPT !.at = "logs", !.span = {b \in Chain : from <= b /\ b <= to}, !.types = TypesOf[c]]]
    /\ UNCHANGED <<timestampCache, refused>>

LogsAnswered(c, type) ==
    /\ fetch[c].at = "logs" /\ type \in fetch[c].types
    /\ fetch' = [fetch EXCEPT ![c].types = @ \ {type}, ![c].found = @ \cup (EventBlocks[type] \cap fetch[c].span)]
    /\ UNCHANGED <<timestampCache, refused>>

(* Either request may fail, and the attempt with it. *)
LogsRefused(c) ==
    /\ fetch[c].at = "logs" /\ fetch[c].types # {}
    /\ fetch' = [fetch EXCEPT ![c] = NoFetch] /\ UNCHANGED <<timestampCache, refused>>

(* resolveBlockTimestamps: what the cache has is taken from it - a failure *)
(* of an earlier fetch too - before anything is asked.                     *)
LookUp(c) ==
    /\ fetch[c].at = "logs" /\ fetch[c].types = {}
    /\ LET known == {b \in fetch[c].found : Cached(b) # {}} IN
       fetch' = [fetch EXCEPT
          ![c].at = "times", ![c].missing = fetch[c].found \ known,
          ![c].result = [b \in known |-> timestampCache[CHOOSE i \in Cached(b) : TRUE].time]]
    /\ UNCHANGED <<timestampCache, refused>>

(* The next slice of those missing, in the order of the blocks. *)
AskSlice(c) ==
    /\ fetch[c].at = "times" /\ fetch[c].asked = {} /\ fetch[c].missing # {}
    /\ \E slice \in SUBSET fetch[c].missing :
          /\ slice # {} /\ Cardinality(slice) <= TIMESTAMP_CONCURRENCY
          /\ slice # fetch[c].missing => Cardinality(slice) = TIMESTAMP_CONCURRENCY
          /\ \A b \in slice, d \in fetch[c].missing \ slice : b < d
          /\ fetch' = [fetch EXCEPT ![c].asked = slice, ![c].missing = @ \ slice]
    /\ UNCHANGED <<timestampCache, refused>>

(* getBlock answers, or fails for good; another fetch may have put the     *)
(* block into the cache meanwhile.                                         *)
BlockAnswered(c, b, t) ==
    /\ fetch[c].at = "times" /\ b \in fetch[c].asked /\ t \in {b, Unavailable}
    /\ cacheTimestamp(b, t)
    /\ fetch' = [fetch EXCEPT ![c].asked = @ \ {b},
          ![c].result = [d \in DOMAIN fetch[c].result \cup {b} |-> IF d = b THEN t ELSE fetch[c].result[d]]]
    /\ refused' = IF t = Unavailable THEN refused \cup {b} ELSE refused

Return(c) ==
    /\ fetch[c].at = "times" /\ fetch[c].asked = {} /\ fetch[c].missing = {}
    /\ fetch' = [fetch EXCEPT ![c].at = "done"] /\ UNCHANGED <<timestampCache, refused>>

TimestampsNext ==
    \E c \in Fetches :
        \/ \E from, to \in Chain : from <= to /\ AskLogs(c, from, to)
        \/ \E type \in TypesOf[c] : LogsAnswered(c, type)
        \/ LogsRefused(c) \/ LookUp(c) \/ AskSlice(c) \/ Return(c)
        \/ \E b \in fetch[c].asked : \E t \in {b, Unavailable} : BlockAnswered(c, b, t)

TimestampsSpec == TimestampsInit /\ [][TimestampsNext]_timestampVars

-----------------------------------------------------------------------------
(* The blocks a fetch is about: those of its span with an event of one of  *)
(* its types.                                                              *)
Concerned(c, Types) == {b \in fetch[c].span : \E type \in Types : b \in EventBlocks[type]}

(* The cache never outgrows its limit, whichever fetches put into it in    *)
(* whichever order, has one place for a block, and what it says of a block *)
(* is the block's own time or that it could not be had.                    *)
CacheIsTrue ==
    /\ Len(timestampCache) <= MAX_TIMESTAMP_CACHE
    /\ \A i, j \in DOMAIN timestampCache : timestampCache[i].block = timestampCache[j].block => i = j
    /\ \A i \in DOMAIN timestampCache :
         \/ timestampCache[i].time = timestampCache[i].block
         \/ timestampCache[i].time = Unavailable /\ timestampCache[i].block \in refused

(* A fetch that returns has every block with an event of its types, also   *)
(* when the cache has dropped one meanwhile, and each with its own time,   *)
(* or none if a request for that block has failed: "never fabricated".     *)
BatchIsDated ==
    \A c \in Fetches : fetch[c].at = "done" =>
        /\ DOMAIN fetch[c].result = Concerned(c, TypesOf[c])
        /\ \A b \in DOMAIN fetch[c].result :
             fetch[c].result[b] = b \/ (fetch[c].result[b] = Unavailable /\ b \in refused)

(* No fetch has more requests for blocks under way than it may. *)
FewAtATime == \A c \in Fetches : Cardinality(fetch[c].asked) <= TIMESTAMP_CONCURRENCY

(* The times of a batch's blocks are the chain's, and the cache that all   *)
(* fetches share stays within its limit.                                   *)
TimesAreTrue == TimestampsTypeOK /\ CacheIsTrue /\ BatchIsDated /\ FewAtATime

(* A batch and the attempts for its parts: neither reads what the other    *)
(* keeps, the answers of a part aside.                                     *)
BatchSpec == Spec /\ TimestampsSpec

(* What a batch resolves to is whole, and its blocks have their own times. *)
FetchesAreSound == FetchIsWhole /\ TimesAreTrue
=============================================================================
