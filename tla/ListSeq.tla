------------------------------ MODULE ListSeq ------------------------------
(***************************************************************************)
(* What LinkedList<T, Allocator> (src/linker/linked_list.h) promises its   *)
(* callers, stated without entries, pointers or an allocator: the list is  *)
(* a sequence of element pointers, where an element cleared by remove_if   *)
(* stays in place as NULL until it is popped or the list is cleared.       *)
(* result is the value the last operation returned (NULL for the void     *)
(* operations and for pop_front on an empty list).  remove_if clears one   *)
(* element at a time, since its predicate may call the other operations   *)
(* in between: pending holds the elements its predicate selects while it  *)
(* runs, and is empty otherwise.                                           *)
(***************************************************************************)
EXTENDS Sequences

CONSTANTS
  Elements,   \* the T* values callers store
  NULL        \* nullptr

VARIABLES list, result, pending

vars == <<list, result, pending>>

Init ==
  /\ list = <<>>
  /\ result = NULL
  /\ pending = {}

PushFront(x) ==
  /\ list' = <<x>> \o list
  /\ result' = NULL
  /\ UNCHANGED pending

PushBack(x) ==
  /\ list' = Append(list, x)
  /\ result' = NULL
  /\ UNCHANGED pending

PopFront ==
  /\ UNCHANGED pending
  /\ IF list = <<>>
       THEN /\ result' = NULL
            /\ UNCHANGED list
       ELSE /\ result' = Head(list)
            /\ list' = Tail(list)

Clear ==
  /\ list' = <<>>
  /\ result' = NULL
  /\ UNCHANGED pending

\* remove_if starts with a predicate that holds exactly for the elements in P,
\* clears elements of P one at a time and returns.
RemoveIfBegin(P) ==
  /\ pending' = P
  /\ UNCHANGED <<list, result>>

RemoveIfClear(i) ==
  /\ list[i] \in pending
  /\ list' = [list EXCEPT ![i] = NULL]
  /\ UNCHANGED <<result, pending>>

RemoveIfEnd ==
  /\ pending' = {}
  /\ result' = NULL
  /\ UNCHANGED list

Next ==
  \/ \E x \in Elements : PushFront(x) \/ PushBack(x)
  \/ PopFront
  \/ Clear
  \/ \E P \in SUBSET Elements : RemoveIfBegin(P)
  \/ \E i \in DOMAIN list : RemoveIfClear(i)
  \/ RemoveIfEnd

Spec == Init /\ [][Next]_vars

=============================================================================
