--------------------------- MODULE MC_LinkedList ---------------------------
(* Model-checking instance of LinkedList.  Entries, Elements and NULL are  *)
(* model values given in the .cfg files; these fix which list operations  *)
(* a for_each action or a remove_if predicate calls.                                                *)
EXTENDS LinkedList

\* Actions that only add entries or empty elements: nothing gets freed.
MC_SafeCallbacks == {"push_front", "push_back", "remove_if"}

\* Actions that may also pop the front entry or clear the whole list.
MC_AllCallbacks == OpNames

\* Predicates that push (a stateful predicate that records what it saw).
MC_SafePredicateOps == {"push_front", "push_back"}

\* Predicates that may also pop the front entry or clear the whole list.
MC_AllPredicateOps == OpNames \ {"remove_if"}

=============================================================================
