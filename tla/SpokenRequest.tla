---------------------------- MODULE SpokenRequest ----------------------------
(***************************************************************************)
(* What the procurement core makes of a sentence: interpretUtterance       *)
(* (utterance.ts) reads quantity, deadline and product out of it, and      *)
(* searchCatalog (catalog.ts) resolves the product in the closed catalog.  *)
(*                                                                         *)
(* A sentence is the sequence of words that normalizeText leaves of the    *)
(* transcript.  The vocabulary is a parameter; a word that is in none of   *)
(* its tables means nothing to the parser.                                 *)
(***************************************************************************)
EXTENDS Integers, SequencesExt

CONSTANTS
    Numerals,  \* digits -> their value, for the ones that are safe integers
    Ones,      \* "zero" .. "nineteen" -> their value
    Tens,      \* "twenty" .. "ninety" -> their value
    Stem,      \* the singular of the words that have one (stem)
    Catalog,   \* sku -> [category, keywords, name, least, most]
    Nothing    \* a field the sentence does not state: null

TimeUnits == [day |-> 1, days |-> 1, week |-> 7, weeks |-> 7, month |-> 30, months |-> 30]

LeadingFiller ==
    {"i", "we", "d", "ll", "need", "want", "would", "like", "please", "could", "you",
     "can", "get", "me", "us", "order", "buy", "purchase", "some", "a", "an", "the",
     "of", "for", "hi", "hello", "just", "also", "looking", "to"}

TrailingFiller == {"units", "unit", "pieces", "piece", "pcs", "items", "item"}

\* The word at a position, and no word at all outside of the sentence.
WordAt(s, i) == IF i \in DOMAIN s THEN s[i] ELSE ""
-----------------------------------------------------------------------------
(* interpretUtterance *)

\* parseWordNumber: the value and the number of words that say it, 0 if none.
NumberAt(s, i) ==
    LET first == WordAt(s, i)
        second == WordAt(s, i + 1)
        unit == second \in DOMAIN Ones /\ Ones[second] \in 1 .. 9
    IN  CASE first \in DOMAIN Numerals -> [value |-> Numerals[first], words |-> 1]
          [] first \in DOMAIN Tens /\ unit ->
                [value |-> Tens[first] + Ones[second], words |-> 2]
          [] first \in DOMAIN Tens /\ ~ unit -> [value |-> Tens[first], words |-> 1]
          [] first \in DOMAIN Ones -> [value |-> Ones[first], words |-> 1]
          [] OTHER -> [value |-> 0, words |-> 0]

\* Mutant: any number will do for a quantity.
AnyNumberAt(s, i) == NumberAt(s, i).words > 0

\* Where a number that is neither a duration nor a deadline begins.
QuantityAt(s, i) ==
    LET number == NumberAt(s, i) IN
    /\ number.words > 0
    /\ WordAt(s, i + number.words) \notin DOMAIN TimeUnits
    /\ WordAt(s, i - 1) \notin {"within", "in"}

\* extractQuantity: the first one, and the words it takes up.
ExtractQuantity(s) ==
    LET found == {i \in DOMAIN s : QuantityAt(s, i)} IN
    IF found = {} THEN [value |-> Nothing, span |-> {}]
    ELSE LET i == Min(found)
             number == NumberAt(s, i)
         IN  [value |-> number.value, span |-> i .. i + number.words - 1]

\* How many units a deadline names after its preposition, and where its unit is.
Duration(s, i) ==
    IF WordAt(s, i + 1) \in {"a", "the", "next"} THEN [count |-> 1, unit |-> i + 2]
    ELSE LET number == NumberAt(s, i + 1) IN
         [count |-> IF number.words > 0 THEN number.value ELSE 1,
          unit |-> i + 1 + number.words]

WindowAt(s, i) ==
    /\ s[i] \in {"within", "in", "by", "inside"}
    /\ WordAt(s, Duration(s, i).unit) \in DOMAIN TimeUnits
    /\ Duration(s, i).count > 0

\* extractDeliveryWindow
ExtractWindow(s) ==
    LET found == {i \in DOMAIN s : WindowAt(s, i)} IN
    IF found = {} THEN [value |-> Nothing, span |-> {}]
    ELSE LET i == Min(found)
             duration == Duration(s, i)
         IN  [value |-> duration.count * TimeUnits[s[duration.unit]],
              span |-> i .. duration.unit]

\* What is left of the sentence, without the words around the product.
StripFiller(s) ==
    LET kept == {i \in DOMAIN s : s[i] \notin LeadingFiller} IN
    IF kept = {} THEN <<>>
    ELSE LET start == Min(kept)
             ends == {i \in start .. Len(s) : s[i] \notin TrailingFiller}
         IN  IF ends = {} THEN <<>> ELSE SubSeq(s, start, Max(ends))

InterpretUtterance(s) ==
    LET window == ExtractWindow(s)
        quantity == ExtractQuantity(s)
        consumed == window.span \cup quantity.span
        rest == SelectSeq([i \in DOMAIN s |-> i], LAMBDA i : i \notin consumed)
    IN  [product |-> StripFiller([k \in DOMAIN rest |-> s[rest[k]]]),
         quantity |-> quantity.value,
         days |-> window.value]
-----------------------------------------------------------------------------
(* searchCatalog *)

Singular(word) == IF word \in DOMAIN Stem THEN Stem[word] ELSE word

\* matchableText
Matchable(s) == [i \in DOMAIN s |-> Singular(s[i])]

Says(s, phrase) ==
    \E i \in 1 .. Len(s) - Len(phrase) + 1 : SubSeq(s, i, i + Len(phrase) - 1) = phrase

\* scoreItem, in half points.  Keywords and names are stored as they match.
ScoreItem(item, query) ==
    LET said == {Len(k) : k \in {phrase \in item.keywords : Says(query, phrase)}} IN
    IF said = {} THEN 0
    ELSE 2 * Max(said) + Cardinality(item.name \cap Range(query))

\* The items nothing outscores; none when no keyword was said.
BestMatches(s, allowed) ==
    LET query == Matchable(s)
        score == [sku \in {k \in DOMAIN Catalog : Catalog[k].category \in allowed}
                    |-> ScoreItem(Catalog[sku], query)]
    IN  {sku \in DOMAIN score :
            score[sku] > 0 /\ \A other \in DOMAIN score : score[other] <= score[sku]}

SearchStatus(best) ==
    CASE best = {} -> "OUT_OF_DOMAIN"
      [] Cardinality(best) = 1 -> "RESOLVED"
      [] OTHER -> "AMBIGUOUS"
=============================================================================
