-------------------------------- MODULE Memory --------------------------------
(***************************************************************************)
(* Which of the records that the memory store lists enter the context       *)
(* package of a job (MemoryService.buildContext).  The store is not         *)
(* trusted: it may list records of other departments and environments.      *)
(* When packages are built, kept and released is in Relay.                  *)
(***************************************************************************)
EXTENDS Integers, SequencesExt

CONSTANTS
  Memories,      \* memory ids, numbered in the order of compareOrdinal
  MemoryRecord,  \* [environment, department, lifecycle, tags, words, observed, chars, units]
  Listings,      \* the sets of records that listByDepartment may return
  Query,         \* the tokens of the query
  MaxItems,      \* MEMORY_CONTEXT_MAX_ITEMS, 4
  MaxChars       \* MEMORY_CONTEXT_MAX_CHARS, 2048

\* tags and words are the tokens of the tags and of the text; chars and units
\* count the code points and the tokens of the text.
ASSUME MemoryAssumption ==
  /\ Memories \subseteq Nat /\ MaxItems \in Nat /\ MaxChars \in Nat
  /\ Listings \subseteq SUBSET Memories
  /\ \A m \in Memories : LET r == MemoryRecord[m] IN
       r.observed \in Nat /\ r.chars \in Nat \ {0} /\ r.units \in Nat

\* The environment, then evaluateMemoryContextAccess, then the lifecycle.
InScope(m, environment, department) ==
  LET r == MemoryRecord[m] IN
  r.environment = environment /\ r.department = department /\ r.lifecycle = "ACTIVE"

Score(m) ==
  LET r == MemoryRecord[m] IN
  2 * Cardinality(Query \cap r.tags) + Cardinality(Query \cap r.words)

\* The higher score, the later observation, the lower id.
Better(l, r) ==
  LET left == MemoryRecord[l]  right == MemoryRecord[r] IN
  \/ Score(l) > Score(r)
  \/ Score(l) = Score(r) /\ left.observed > right.observed
  \/ Score(l) = Score(r) /\ left.observed = right.observed /\ l < r

Ranked(listed, environment, department) ==
  SetToSortSeq({m \in listed : InScope(m, environment, department) /\ Score(m) > 0}, Better)

Chars(items) == FoldLeft(LAMBDA sum, m : sum + MemoryRecord[m].chars, 0, items)
Units(items) == FoldLeft(LAMBDA sum, m : sum + MemoryRecord[m].units, 0, items)

\* Whole records are taken, best first; one that does not fit is passed over.
Fits(items, m) ==
  Len(items) < MaxItems /\ Chars(items) + MemoryRecord[m].chars <= MaxChars

ContextItems(listed, environment, department) ==
  FoldLeft(LAMBDA items, m : IF Fits(items, m) THEN Append(items, m) ELSE items,
           <<>>, Ranked(listed, environment, department))

=============================================================================
