\* LinkedList with for_each actions and remove_if predicates that may also
\* pop_front or clear.
CONSTANTS
  Entries = {e1, e2, e3}
  Elements = {a, b}
  NULL = NULL
  CallbackOps <- MC_AllCallbacks
  PredicateOps <- MC_AllPredicateOps

SPECIFICATION Spec

INVARIANTS
  CursorLive
