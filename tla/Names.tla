------------------------------- MODULE Names -------------------------------
(* From a broker's names to series and back: the key of src/symbols/           *)
(* normalize.py under which a symbol is stored, the choice among names that    *)
(* share one, the cut of limit_extra, the catalogue the candles worker writes  *)
(* and the feed of the price worker, which list the broker's names apart from  *)
(* each other and in any order, and the lookup of a client's spelling by the   *)
(* two routes (src/symbols/resolver.py).                                       *)
(*                                                                             *)
(* A name is a tuple of characters over an alphabet with one or two of each    *)
(* kind, in the order of their codes.                                          *)
EXTENDS Integers, FiniteSets, SequencesExt

CONSTANTS
  MinLength,    \* _MIN_LENGTH
  MaxTail,      \* _MAX_TAIL
  SuffixList,   \* SYMBOL_SUFFIXES
  Aliases,      \* aliases.json: alias -> series
  Names,        \* names the broker may list
  Included,     \* those of the groups of SYMBOL_INCLUDE_PATH_PREFIXES
  Extra,        \* those of the groups of SYMBOL_EXTRA_PATH_PREFIXES
  Allowed,      \* SYMBOL_EXTRA_ALLOWLIST, upper case
  MaxExtra,     \* SYMBOL_EXTRA_MAX
  MaxTyped,     \* bound: characters of a client's spelling
  MaxChanges    \* bound: changes of the broker's list

Alphabet  == <<" ", ".", "/", "1", "A", "M", "a", "m">>
Uppers    == {"A", "M"}
Lowers    == {"a", "m"}
Numerals  == {"1"}
Separator == {".", "/"}
Alnum     == Uppers \cup Lowers \cup Numerals

\* A suffix holds a small letter and no digit: no key ends in one.  A broker lists finitely many.
ASSUME NamesAssumption ==
  /\ MinLength \in Nat \ {0} /\ {MaxTail, MaxExtra, MaxTyped, MaxChanges} \subseteq Nat
  /\ SuffixList \in Seq(Seq(Range(Alphabet)))
  /\ \A i \in DOMAIN SuffixList : Range(SuffixList[i]) \cap Lowers # {} /\ Range(SuffixList[i]) \cap Numerals = {}
  /\ Names \subseteq Seq(Range(Alphabet)) /\ IsFiniteSet(Names) /\ Included \cup Extra \subseteq Names

VARIABLES
  listing,    \* the names the broker lists
  rows,       \* the symbols table: key -> raw_symbol
  feed,       \* the price worker: key -> raw_symbol of watched
  read,       \* observed: worker -> the listing it read last
  changes

vars == <<listing, rows, feed, read, changes>>

-----------------------------------------------------------------------------
(* normalize *)

\* The first of some places, 0 when there is none.
First(places) == IF places = {} THEN 0 ELSE CHOOSE i \in places : \A j \in places : i <= j

\* What a text has at some of its places, in their order.
Kept(text, places) ==
  [i \in 1 .. Cardinality(places) |->
     text[CHOOSE k \in places : Cardinality({j \in places : j <= k}) = i]]

At(text, chars) == {i \in DOMAIN text : text[i] \in chars}

\* replace("/", "").
Joined(raw) == Kept(raw, DOMAIN raw \ At(raw, {"/"}))

\* " ".join(split()): a space stays when it is the first of some, with a word on either side.
Collapsed(raw) ==
  LET text   == Joined(raw)
      inside == {i \in At(text, {" "}) : /\ i > 1 /\ text[i - 1] # " "
                                         /\ \E j \in i .. Len(text) : text[j] # " "}
  IN  Kept(text, (DOMAIN text \ At(text, {" "})) \cup inside)

StripLeading(text) ==
  LET first == First(At(text, Alnum))
  IN  IF first = 0 THEN <<>> ELSE SubSeq(text, first, Len(text))

\* Mistake in IsDecoration: the digits of a tail do not matter.
IsShort(tail) == Len(tail) <= MaxTail

IsDecoration(tail) == Len(tail) <= MaxTail /\ Range(tail) \cap Numerals = {}

StripSeparator(text) ==
  LET cut  == First(At(text, Separator))
      head == SubSeq(text, 1, cut - 1)
  IN  IF cut # 0 /\ Len(head) >= MinLength /\ IsDecoration(SubSeq(text, cut + 1, Len(text)))
      THEN head ELSE text

\* A suffix is cut where the character before it cannot go on in small letters.
StripSuffix(text) ==
  LET Stem(suffix) == SubSeq(text, 1, Len(text) - Len(suffix))
      i == First({k \in DOMAIN SuffixList :
             /\ IsSuffix(SuffixList[k], text) /\ Len(Stem(SuffixList[k])) >= MinLength
             /\ text[Len(Stem(SuffixList[k]))] \in Uppers \cup Numerals})
  IN  IF i = 0 THEN text ELSE Stem(SuffixList[i])

Upper(c) == CASE c = "a" -> "A" [] c = "m" -> "M" [] OTHER -> c

\* Mistake in Compact: upper() forgotten.
KeptCase(text) == Kept(text, At(text, Alnum))

Compact(text) == [i \in DOMAIN KeptCase(text) |-> Upper(KeptCase(text)[i])]

Normalize(raw) == Compact(StripSuffix(StripSeparator(StripLeading(Collapsed(raw)))))

KeyOf == [name \in Names |-> Normalize(name)]

Digits(name) == Kept(name, At(name, Numerals))

\* Every spelling of a client: its key and its digits.
Spelled ==
  {[key |-> Normalize(name), digits |-> Digits(name)] :
     name \in (UNION {[1 .. n -> Range(Alphabet)] : n \in 0 .. MaxTyped}) \cup Names}

-----------------------------------------------------------------------------
(* limit_extra and resolve *)

Place(c) == CHOOSE i \in DOMAIN Alphabet : Alphabet[i] = c

\* Python's order of strings.
Less(a, b) ==
  \E i \in 1 .. Len(b) :
    /\ \A j \in 1 .. i - 1 : j <= Len(a) /\ a[j] = b[j]
    /\ i = Len(a) + 1 \/ (i <= Len(a) /\ Place(a[i]) < Place(b[i]))

Whole(name) == [i \in DOMAIN name |-> Upper(name[i])]

\* limit_extra: the places of what it lets through of the names found.
Limited(found) ==
  LET Taken(i)  == Allowed = {} \/ {KeyOf[found[i]], Whole(found[i])} \cap Allowed # {}
      extra     == {i \in DOMAIN found : found[i] \in Extra /\ Taken(i)}
      Before(i) == {j \in extra : Less(KeyOf[found[j]], KeyOf[found[i]])
                                  \/ (KeyOf[found[j]] = KeyOf[found[i]] /\ j < i)}
  IN  {i \in DOMAIN found : found[i] \notin Extra \/ (i \in extra /\ Cardinality(Before(i)) < MaxExtra)}

Exact(name) == IF Whole(name) = KeyOf[name] THEN 0 ELSE 1

\* Mistake in Ahead: the last part of _rank dropped.
AheadByLength(a, b) ==
  Exact(a) < Exact(b) \/ (Exact(a) = Exact(b) /\ Len(a) < Len(b))

\* _rank.
Ahead(a, b) ==
  \/ Exact(a) < Exact(b)
  \/ Exact(a) = Exact(b) /\ Len(a) < Len(b)
  \/ Exact(a) = Exact(b) /\ Len(a) = Len(b) /\ Less(a, b)

NoName == <<"-">>

KeysAt(found, places) == {KeyOf[found[i]] : i \in places} \ {<<>>}

\* Mistake in Chosen: the group of the key is not looked up.
FirstFound(found, places) == [key \in KeysAt(found, places) |-> found[1]]

\* chosen: the first name of a key in the order of _rank, that of the answer among equals.
Chosen(found, places) ==
  [key \in KeysAt(found, places) |->
     LET group == {i \in places : KeyOf[found[i]] = key}
     IN  found[First({i \in group : \A j \in group : ~Ahead(found[j], found[i])})]]

-----------------------------------------------------------------------------
(* The broker and the workers *)

Keys == {KeyOf[name] : name \in Names} \ {<<>>}

BrokerChanges ==
  /\ changes < MaxChanges /\ changes' = changes + 1
  /\ listing' \in SUBSET Names
  /\ UNCHANGED <<rows, feed, read>>

\* list_symbols: the terminal answers in any order.  The choices of each worker by the names
\* listed; an empty answer is none for the candles worker.
Catalogs ==
  [names \in SUBSET Names |->
     {Chosen(found, Limited(found)) : found \in
        SetToSeqs(names \cap (Included \cup IF MaxExtra > 0 THEN Extra ELSE {})) \ {<<>>}}]

Feeds == [names \in SUBSET Names |-> {Chosen(found, DOMAIN found) : found \in SetToSeqs(names \cap Included)}]

\* _refresh_catalog: rows are never deleted.
Refresh ==
  /\ \E chosen \in Catalogs[listing] :
       rows' = [key \in Keys |-> IF key \in DOMAIN chosen THEN chosen[key] ELSE rows[key]]
  /\ read' = [read EXCEPT !.candles = listing]
  /\ UNCHANGED <<listing, feed, changes>>

\* _subscribe: a name that cannot be selected is left out.
Subscribe ==
  /\ \E chosen \in Feeds[listing] : \E selected \in SUBSET DOMAIN chosen :
       feed' = [key \in Keys |-> IF key \in selected THEN chosen[key] ELSE NoName]
  /\ read' = [read EXCEPT !.price = listing]
  /\ UNCHANGED <<listing, rows, changes>>

Init ==
  /\ listing \in SUBSET Names /\ changes = 0
  /\ rows = [key \in Keys |-> NoName] /\ feed = [key \in Keys |-> NoName]
  /\ read = [candles |-> {}, price |-> {}]

Next == BrokerChanges \/ Refresh \/ Subscribe

Spec == Init /\ [][Next]_vars

-----------------------------------------------------------------------------
(* The routes *)

IsKnown(key) == key \in Keys /\ rows[key] # NoName

NotFound == [symbol |-> NoName, by |-> "none"]

\* resolve_symbol of a spelling with that key: the series of GET /candles/{symbol}.
Resolution(key) ==
  CASE IsKnown(key) -> [symbol |-> key, by |-> "exact"]
    [] ~IsKnown(key) /\ key \in DOMAIN Aliases /\ IsKnown(Aliases[key]) ->
         [symbol |-> Aliases[key], by |-> "alias"]
    [] OTHER -> NotFound

\* Mistake in Canonical: the aliases are left to the candles route.
OnlyNormalized(key) == key

\* canonical: the key of GET /price/{symbol} and its stream.
Canonical(key) == IF key \in DOMAIN Aliases THEN Aliases[key] ELSE key

-----------------------------------------------------------------------------
(* Properties *)

\* Every variable has its type, and what is stored or watched under a key has that key.
TypeOK ==
  /\ listing \subseteq Names /\ changes \in Nat
  /\ \A f \in {rows, feed} : \A key \in Keys : f[key] = NoName \/ (f[key] \in Names /\ KeyOf[f[key]] = key)
  /\ read \in [candles : SUBSET Names, price : SUBSET Names]

\* "a symbol is always found under the key it was stored with" (README.md:68): the key that
\* /symbols shows leads back to its series, never to another one that it looks decorated with,
\* and so does the broker's own name.
FoundUnderItsKey ==
  \A key \in Keys : IsKnown(key) =>
    \A name \in {key, rows[key]} : Resolution(Normalize(name)) = [symbol |-> key, by |-> "exact"]

\* "A tail containing digits is not a suffix. It is part of the instrument name" (README.md:78):
\* a spelling that is no alias has the digits of the series it is answered with, so neither an
\* index nor the month of a contract is ever answered with another one.
DigitsAreKept ==
  \A spelled \in Spelled :
    LET answer == Resolution(spelled.key)
    IN  answer.by = "exact" => Digits(answer.symbol) = spelled.digits

\* However the terminal orders its answers, the two workers, each choosing for itself, take the
\* candles and the quotes of a key from the same name of the broker, as long as no name of an
\* extra group shares the key (normalize.py:78-97, catalog.py:51-73).
SameInstrument ==
  read.candles = read.price =>
    \A key \in Keys :
      feed[key] # NoName /\ key \notin {KeyOf[name] : name \in read.price \cap Extra}
        => rows[key] = feed[key]

\* "aliases never collide with a catalogue symbol (tests/test_aliases.py), so mapping them
\* unconditionally is safe" (resolver.py:73-74): with no such collision among the broker's names,
\* whatever spelling brings the candles of a series brings its price as well.
PriceIsOfTheSymbol ==
  \A spelled \in Spelled :
    LET symbol == Resolution(spelled.key).symbol
    IN  symbol # NoName /\ feed[symbol] # NoName => Canonical(spelled.key) = symbol
=============================================================================
