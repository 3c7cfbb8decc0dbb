\* LinkedList with for_each actions that push and remove_if, and remove_if
\* predicates that push, but never free.
CONSTANTS
  Entries = {e1, e2, e3}
  Elements = {a, b}
  NULL = NULL
  CallbackOps <- MC_SafeCallbacks
  PredicateOps <- MC_SafePredicateOps

SPECIFICATION FairSpec

INVARIANTS
  TypeOK
  ListShape
  NoLeak

PROPERTIES
  ImplementsListSeq
  ForEachVisitsAll
  RemoveIfClearsAll
  LoopsTerminate
