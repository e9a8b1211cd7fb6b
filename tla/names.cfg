SPECIFICATION Spec
CONSTANTS
  MinLength = 1
  MaxTail = 1
  SuffixList <- TwoSuffixes
  Aliases <- Nicknames
  Names <- Decorated
  Included <- Decorated
  Extra <- Groups
  Allowed <- NoGroup
  MaxExtra = 1
  MaxTyped = 3
  MaxChanges = 1
INVARIANT TypeOK
INVARIANT FoundUnderItsKey
INVARIANT DigitsAreKept
INVARIANT SameInstrument
INVARIANT PriceIsOfTheSymbol
