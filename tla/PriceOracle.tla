---------------------------- MODULE PriceOracle ----------------------------
(***************************************************************************)
(* The price of the token and of the currencies it is bought with          *)
(* (smart/contracts/PriceOracle.sol).  A currency has a price somebody     *)
(* typed in or a Chainlink feed, which answers in decimals of its own;     *)
(* either is good for STALENESS_THRESHOLD.                                 *)
(* What a view returns is an operator; Reverts stands for a revert.        *)
(***************************************************************************)
EXTENDS Integers, Sequences, SequencesExt

CONSTANTS Currencies,
          Unit,                 \* [Currencies -> 10^decimals]
          WHOLE,                \* 1e18, one token
          PRICE_UNIT,           \* 1e6, one dollar
          Feeds, NoFeed,        \* the aggregators, address(0)
          FeedUnit,             \* [Feeds -> 10^decimals of the feed]
          Answers,              \* what a feed may answer, zero and less among them
          STALENESS_THRESHOLD,
          Prices, FirstTokenPrice,
          Payments,             \* amounts the views are asked about
          MaxBlock, MaxListed   \* bounds: the clock, the length of the list

ASSUME OracleAssumption ==
    /\ Unit \in [Currencies -> Nat \ {0}] /\ WHOLE \in Nat \ {0} /\ Payments \subseteq Nat
    /\ PRICE_UNIT \in Nat \ {0} /\ FeedUnit \in [Feeds -> Nat \ {0}]
    /\ Answers \subseteq Int /\ NoFeed \notin Feeds
    /\ \A f \in Feeds : \/ \E k \in 1..FeedUnit[f] : FeedUnit[f] = k * PRICE_UNIT
                        \/ \E k \in 1..PRICE_UNIT : PRICE_UNIT = k * FeedUnit[f]
    /\ STALENESS_THRESHOLD \in Nat /\ Prices \subseteq Nat /\ FirstTokenPrice \in Nat \ {0}
    /\ MaxBlock \in Nat /\ MaxListed \in Nat

MAX_BPS == 2000
BPS_DENOMINATOR == 10000

VARIABLES
    currencies,      \* [supported, priceUsd, updatedAt, feed]
    currencyList,
    tokenPriceUsd,
    round,           \* latestRoundData of each feed: [answer, updatedAt]
    block            \* block.timestamp

oracleVars == <<currencies, currencyList, tokenPriceUsd, round, block>>

OracleTypeOK ==
    /\ currencies \in [Currencies -> [supported : BOOLEAN, priceUsd : Prices \cup {0},
                                      updatedAt : 0..block, feed : Feeds \cup {NoFeed}]]
    /\ currencyList \in Seq(Currencies) /\ Len(currencyList) <= MaxListed
    /\ tokenPriceUsd \in Nat \ {0} /\ round \in [Feeds -> [answer : Int, updatedAt : 0..block]]
    /\ block \in 0..MaxBlock

Unknown == [supported |-> FALSE, priceUsd |-> 0, updatedAt |-> 0, feed |-> NoFeed]

OracleInit ==
    /\ currencies = [c \in Currencies |-> Unknown] /\ currencyList = <<>>
    /\ tokenPriceUsd = FirstTokenPrice /\ block = 0
    /\ round = [f \in Feeds |-> [answer |-> 0, updatedAt |-> 0]]

-----------------------------------------------------------------------------
Reverts == -1

RoundedUp(f, answer) ==         \* mutant: the tail counts as a whole
    IF FeedUnit[f] > PRICE_UNIT THEN (answer \div (FeedUnit[f] \div PRICE_UNIT)) + 1
    ELSE answer * (PRICE_UNIT \div FeedUnit[f])

(* From the feed's decimals to six: an answer with more of them loses its  *)
(* tail, and may come to nothing.                                          *)
_toPriceUnit(f, answer) ==
    IF FeedUnit[f] > PRICE_UNIT THEN answer \div (FeedUnit[f] \div PRICE_UNIT)
    ELSE answer * (PRICE_UNIT \div FeedUnit[f])

(* A round that never was has updatedAt 0.                                 *)
_getChainlinkPrice(f) ==
    IF \/ round[f].answer <= 0 \/ round[f].updatedAt = 0
       \/ block - round[f].updatedAt > STALENESS_THRESHOLD
    THEN Reverts ELSE _toPriceUnit(f, round[f].answer)

(* The price of c, when quote and quoteReverse find one.                   *)
PriceOf(c) ==
    CASE ~currencies[c].supported -> Reverts
      [] currencies[c].supported /\ currencies[c].feed # NoFeed ->
            _getChainlinkPrice(currencies[c].feed)
      [] OTHER -> IF block - currencies[c].updatedAt > STALENESS_THRESHOLD
                  THEN Reverts ELSE currencies[c].priceUsd

_calc(amount, price, unit, token) == (((amount * price) \div unit) * WHOLE) \div token

quote(c, amount) ==
    IF PriceOf(c) = Reverts THEN Reverts ELSE _calc(amount, PriceOf(c), Unit[c], tokenPriceUsd)

(* A price of zero, typed in or truncated, divides by zero.                *)
quoteReverse(c, amount) ==
    IF PriceOf(c) \in {Reverts, 0} THEN Reverts
    ELSE (amount * tokenPriceUsd * Unit[c]) \div (PriceOf(c) * WHOLE)

(* getQuoteInfo looks at the age of the typed price even with a feed.      *)
getQuoteInfo(c, amount) ==
    IF \/ ~currencies[c].supported \/ block - currencies[c].updatedAt > STALENESS_THRESHOLD
       \/ currencies[c].feed # NoFeed /\ _getChainlinkPrice(currencies[c].feed) = Reverts
    THEN Reverts
    ELSE _calc(amount, IF currencies[c].feed = NoFeed THEN currencies[c].priceUsd
                       ELSE _getChainlinkPrice(currencies[c].feed), Unit[c], tokenPriceUsd)

(* What a page can list; the order, and an entry that is there twice, aside. *)
getCurrencies == {c \in ToSet(currencyList) : currencies[c].supported}

-----------------------------------------------------------------------------
(* The operator's calls.                                                   *)
_calculateDeviation(old, new) ==
    IF old = 0 THEN 0
    ELSE ((IF new > old THEN new - old ELSE old - new) * BPS_DENOMINATOR) \div old

updateTokenPrice(price) ==
    /\ price # 0 /\ _calculateDeviation(tokenPriceUsd, price) <= MAX_BPS
    /\ tokenPriceUsd' = price /\ UNCHANGED <<currencies, currencyList, round, block>>

(* Nothing takes a removed currency off the list: it is listed again.      *)
_addCurrency(c, price, feed) ==
    /\ ~currencies[c].supported /\ Len(currencyList) < MaxListed
    /\ currencies' = [currencies EXCEPT ![c] =
          [supported |-> TRUE, priceUsd |-> price, updatedAt |-> block, feed |-> feed]]
    /\ currencyList' = Append(currencyList, c) /\ UNCHANGED <<tokenPriceUsd, round, block>>

updateCurrencyPrice(c, price) ==
    /\ currencies[c].supported /\ currencies[c].feed = NoFeed
    /\ _calculateDeviation(currencies[c].priceUsd, price) <= MAX_BPS
    /\ currencies' = [currencies EXCEPT ![c].priceUsd = price, ![c].updatedAt = block]
    /\ UNCHANGED <<currencyList, tokenPriceUsd, round, block>>

setChainlinkFeed(c, feed) ==
    /\ currencies[c].supported /\ currencies' = [currencies EXCEPT ![c].feed = feed]
    /\ UNCHANGED <<currencyList, tokenPriceUsd, round, block>>

removeCurrency(c) ==
    /\ currencies' = [currencies EXCEPT ![c].supported = FALSE]
    /\ UNCHANGED <<currencyList, tokenPriceUsd, round, block>>

(* A feed's next round, which may be nonsense; the next block.             *)
FeedAnswers(f, answer) ==
    /\ round' = [round EXCEPT ![f] = [answer |-> answer, updatedAt |-> block]]
    /\ UNCHANGED <<currencies, currencyList, tokenPriceUsd, block>>
NextBlock ==
    /\ block < MaxBlock /\ block' = block + 1
    /\ UNCHANGED <<currencies, currencyList, tokenPriceUsd, round>>

OracleNext ==
    \/ \E price \in Prices : updateTokenPrice(price)
    \/ \E f \in Feeds, answer \in Answers : FeedAnswers(f, answer)
    \/ NextBlock
    \/ \E c \in Currencies :
        \/ \E price \in Prices : updateCurrencyPrice(c, price)
        \/ \E price \in Prices, feed \in Feeds \cup {NoFeed} : _addCurrency(c, price, feed)
        \/ \E feed \in Feeds \cup {NoFeed} : setChainlinkFeed(c, feed)
        \/ removeCurrency(c)

OracleSpec == OracleInit /\ [][OracleNext]_oracleVars

-----------------------------------------------------------------------------
(* What the user is shown is what the sale gives: when getQuoteInfo        *)
(* answers, quote answers the same, across feeds set, unset and stale.     *)
PreviewIsTheQuote ==
    \A c \in Currencies, a \in Payments :
        getQuoteInfo(c, a) # Reverts => quote(c, a) = getQuoteInfo(c, a)

(* The three floors of the two conversions never add up in the buyer's     *)
(* favour: the tokens a payment buys are never worth more than it.         *)
RoundTripNeverGains ==
    \A c \in Currencies, a \in Payments :
        quote(c, a) # Reverts => quoteReverse(c, quote(c, a)) <= a

(* A feed's answer is never taken for more than it says: what a payment    *)
(* buys, in the feed's own decimals, costs no more than the payment is     *)
(* worth, whichever way _getChainlinkPrice scales.                         *)
FeedIsNotRoundedUp ==
    \A c \in Currencies, a \in Payments, f \in Feeds :
        currencies[c].feed = f /\ quote(c, a) # Reverts =>
            (quote(c, a) * tokenPriceUsd * Unit[c]) * FeedUnit[f]
                <= (a * WHOLE) * (round[f].answer * PRICE_UNIT)

(* Each currency that can be paid with is one a page can list, whatever    *)
(* was removed and added again in between.                                 *)
SupportedAreListed ==
    \A c \in Currencies : currencies[c].supported => c \in getCurrencies

(* What the oracle shows is what it charges, never in the buyer's favour,  *)
(* for every currency it takes.                                            *)
OracleIsFair ==
    PreviewIsTheQuote /\ RoundTripNeverGains /\ FeedIsNotRoundedUp /\ SupportedAreListed
=============================================================================
