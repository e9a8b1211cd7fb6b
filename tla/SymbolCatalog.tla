--------------------------- MODULE SymbolCatalog ---------------------------
(* The rules of src/symbols/catalog.py: what the daily comparison of the      *)
(* broker's symbol list with the monitored set writes back.  Pure operators;  *)
(* the timestamps of a row (first_seen_at, last_seen_at, delisted_at) are     *)
(* left out, nothing in the service decides on them.                          *)
EXTENDS Integers, FiniteSets

CONSTANTS Symbols,      \* normalized symbols, named by their rank in sort order
          RatioNum,     \* CATALOG_MIN_RATIO = RatioNum / RatioDen
          RatioDen

ASSUME SymbolsAssumption == Symbols \subseteq Nat
ASSUME RatioAssumption == RatioNum \in Nat /\ RatioDen \in Nat \ {0}

NoState == [status |-> "none", backfill |-> "none"]   \* no row in symbol_state

State == [status : {"active", "delisted"}, backfill : {"pending", "done"}]

Ready(state) == state.status = "active" /\ state.backfill = "done"

Queued(state) == state.status = "active" /\ state.backfill = "pending"

\* Mistake in Active: rows that do not exist, or are delisted already, count.
AnySymbol(known) == Symbols

Active(known) == {s \in Symbols : known[s].status = "active"}

\* The answer shrank below the ratio: taken for a terminal glitch.
DelistingSkipped(known, found) ==
  /\ Active(known) \ found # {}
  /\ Cardinality(found) * RatioDen < RatioNum * Cardinality(Active(known))

NewState(s, hasHistory) ==
  [status |-> "active", backfill |-> IF s \in hasHistory THEN "done" ELSE "pending"]

\* Mistake in Reactivated: a symbol that is back keeps its status.
StillDelisted(state) == state

Reactivated(state) == [state EXCEPT !.status = "active"]

\* The row of a symbol the broker lists.
Listed(s, state, hasHistory) ==
  IF state = NoState THEN NewState(s, hasHistory) ELSE Reactivated(state)

Delisted(state) == [state EXCEPT !.status = "delisted"]

\* known with the rows of CatalogChange written over it.
Reconcile(known, found, hasHistory) ==
  LET gone == IF DelistingSkipped(known, found) THEN {} ELSE Active(known) \ found
  IN  [s \in Symbols |-> IF s \in found THEN Listed(s, known[s], hasHistory)
                         ELSE IF s \in gone THEN Delisted(known[s]) ELSE known[s]]
=============================================================================
