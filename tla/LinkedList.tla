----------------------------- MODULE LinkedList -----------------------------
(***************************************************************************)
(* LinkedList<T, Allocator> of the linker (src/linker/linked_list.h).      *)
(*                                                                         *)
(* The heap is modelled explicitly: a pool of entry addresses, the next   *)
(* and element field of every entry, and the set of entries the Allocator *)
(* has handed out.  Freeing an entry leaves its fields as they were.      *)
(* push_front, push_back, pop_front and clear run without calling back     *)
(* into the caller and are one step each.  for_each calls the caller's    *)
(* action, and remove_if its predicate, between reading e->element and    *)
(* reading e->next, so both are split at those points; while the action   *)
(* runs it may call the list operations named in CallbackOps, while the   *)
(* predicate runs those in PredicateOps.  The linker uses the list from   *)
(* one thread at a time, so there is no other interleaving.               *)
(***************************************************************************)
EXTENDS Naturals, Sequences, FiniteSets, SequencesExt, Functions, FiniteSetsExt

CONSTANTS
  Entries,      \* addresses Allocator::alloc() can return; bounds the list
  Elements,     \* the T* values callers store
  NULL,         \* nullptr
  CallbackOps,  \* the operations a for_each action may call on its list
  PredicateOps  \* the operations a remove_if predicate may call on its list

OpNames == {"push_front", "push_back", "pop_front", "clear", "remove_if"}

ASSUME NULL \notin Entries \cup Elements
ASSUME CallbackOps \subseteq OpNames
ASSUME PredicateOps \subseteq OpNames \ {"remove_if"}   \* no nested remove_if

VARIABLES
  head, tail,     \* head_ and tail_
  next, element,  \* the fields of each LinkedListEntry<T> in the pool
  allocated,      \* entries handed out by Allocator::alloc() and not freed
  result,         \* what the last operation returned (NULL for void ones)
  fe,             \* the running for_each: pc, cursor e, head_ when it
                  \* started (first) and the entries whose element it
                  \* passed to the action (visited)
  ri              \* the running remove_if: pc, cursor e, head_ when it
                  \* started (first), the elements its predicate holds for
                  \* (P) and the element passed to the running predicate (x)

vars == <<head, tail, next, element, allocated, result, fe, ri>>

Ptr == Entries \cup {NULL}

(* The entries reached from head_ by following next, stopping at nullptr  *)
(* or after as many steps as there are entries (a longer walk is a cycle). *)
RECURSIVE ChainFrom(_, _)
ChainFrom(e, k) ==
  IF e = NULL \/ k = 0 THEN <<>> ELSE <<e>> \o ChainFrom(next[e], k - 1)

Chain == ChainFrom(head, Cardinality(Entries))

IdleFrame == [pc |-> "idle", e |-> NULL, first |-> NULL, visited |-> <<>>]
IdleRemove == [pc |-> "idle", e |-> NULL, first |-> NULL, P |-> {}, x |-> NULL]

(* An operation may start when no for_each and no remove_if runs, or from *)
(* inside the action of a running for_each or the predicate of a running  *)
(* remove_if, if that callback is allowed to call it.                     *)
CanCall(op) ==
  /\ \/ fe.pc = "idle"
     \/ fe.pc = "action" /\ op \in CallbackOps
  /\ \/ ri.pc = "idle"
     \/ ri.pc = "pred" /\ op \in PredicateOps

-----------------------------------------------------------------------------
(* The operations.  Allocator::alloc() returns any entry not handed out.  *)

Init ==
  /\ head = NULL
  /\ tail = NULL
  /\ next = [en \in Entries |-> NULL]      \* Allocator memory is never read
  /\ element = [en \in Entries |-> NULL]   \* before push_* writes both fields
  /\ allocated = {}
  /\ result = NULL
  /\ fe = IdleFrame
  /\ ri = IdleRemove

push_front(x) ==
  /\ CanCall("push_front")
  /\ \E n \in Entries \ allocated :
       /\ allocated' = allocated \cup {n}
       /\ next' = [next EXCEPT ![n] = head]
       /\ element' = [element EXCEPT ![n] = x]
       /\ head' = n
       /\ tail' = IF tail = NULL THEN n ELSE tail
  /\ result' = NULL
  /\ UNCHANGED <<fe, ri>>

push_back(x) ==
  /\ CanCall("push_back")
  /\ \E n \in Entries \ allocated :
       /\ allocated' = allocated \cup {n}
       /\ element' = [element EXCEPT ![n] = x]
       /\ IF tail = NULL
            THEN /\ next' = [next EXCEPT ![n] = NULL]
                 /\ head' = n
            ELSE /\ next' = [next EXCEPT ![n] = NULL, ![tail] = n]
                 /\ UNCHANGED head
       /\ tail' = n
  /\ result' = NULL
  /\ UNCHANGED <<fe, ri>>

(* Mutant: pop_front without the if (head_ == nullptr) tail_ = nullptr.  *)
pop_front_keeps_tail ==
  /\ CanCall("pop_front")
  /\ IF head = NULL
       THEN /\ result' = NULL
            /\ UNCHANGED <<head, allocated>>
       ELSE /\ result' = element[head]
            /\ head' = next[head]
            /\ allocated' = allocated \ {head}
  /\ UNCHANGED <<tail, next, element, fe, ri>>

(* Mutant: pop_front returns the entry instead of entry->element.       *)
pop_front_returns_entry ==
  /\ CanCall("pop_front")
  /\ IF head = NULL
       THEN /\ result' = NULL
            /\ UNCHANGED <<head, tail, allocated>>
       ELSE /\ result' = head
            /\ head' = next[head]
            /\ allocated' = allocated \ {head}
            /\ tail' = IF next[head] = NULL THEN NULL ELSE tail
  /\ UNCHANGED <<next, element, fe, ri>>

pop_front ==
  /\ CanCall("pop_front")
  /\ IF head = NULL
       THEN /\ result' = NULL
            /\ UNCHANGED <<head, tail, allocated>>
       ELSE /\ result' = element[head]
            /\ head' = next[head]
            /\ allocated' = allocated \ {head}
            /\ tail' = IF next[head] = NULL THEN NULL ELSE tail
  /\ UNCHANGED <<next, element, fe, ri>>

(* Mutant: clear resets head_ and tail_ without freeing the entries.     *)
clear_without_free ==
  /\ CanCall("clear")
  /\ head' = NULL
  /\ tail' = NULL
  /\ result' = NULL
  /\ UNCHANGED <<next, element, allocated, fe, ri>>

clear ==
  /\ CanCall("clear")
  /\ allocated' = allocated \ ToSet(Chain)
  /\ head' = NULL
  /\ tail' = NULL
  /\ result' = NULL
  /\ UNCHANGED <<next, element, fe, ri>>

-----------------------------------------------------------------------------
(* for_each, one step per point where it touches the list.                *)

ForEachBegin ==
  /\ fe.pc = "idle" /\ ri.pc = "idle"
  /\ fe' = [pc |-> "test", e |-> head, first |-> head, visited |-> <<>>]
  /\ UNCHANGED <<head, tail, next, element, allocated, result, ri>>

(* Mutant: written as a while loop whose empty-element branch continues  *)
(* without stepping to e->next.                                           *)
ForEachTest_no_advance ==
  /\ fe.pc = "test" /\ ri.pc = "idle"
  /\ fe.e # NULL
  /\ fe' = IF element[fe.e] # NULL
             THEN [fe EXCEPT !.pc = "action", !.visited = Append(@, fe.e)]
             ELSE fe
  /\ UNCHANGED <<head, tail, next, element, allocated, result, ri>>

\* if (e->element != nullptr) action(e->element);
ForEachTest ==
  /\ fe.pc = "test" /\ ri.pc = "idle"
  /\ fe.e # NULL
  /\ fe' = IF element[fe.e] # NULL
             THEN [fe EXCEPT !.pc = "action", !.visited = Append(@, fe.e)]
             ELSE [fe EXCEPT !.pc = "advance"]
  /\ UNCHANGED <<head, tail, next, element, allocated, result, ri>>

\* The action returns to for_each.
ForEachReturn ==
  /\ fe.pc = "action" /\ ri.pc = "idle"
  /\ fe' = [fe EXCEPT !.pc = "advance"]
  /\ UNCHANGED <<head, tail, next, element, allocated, result, ri>>

\* e = e->next
ForEachAdvance ==
  /\ fe.pc = "advance" /\ ri.pc = "idle"
  /\ fe' = [fe EXCEPT !.pc = "test", !.e = next[fe.e]]
  /\ UNCHANGED <<head, tail, next, element, allocated, result, ri>>

(* Mutant: the loop stops at tail_ instead of at nullptr.                *)
ForEachEnd_at_tail ==
  /\ fe.pc = "test" /\ ri.pc = "idle"
  /\ fe.e \in {NULL, tail}
  /\ fe' = IdleFrame
  /\ UNCHANGED <<head, tail, next, element, allocated, result, ri>>

ForEachEnd ==
  /\ fe.pc = "test" /\ ri.pc = "idle"
  /\ fe.e = NULL
  /\ fe' = IdleFrame
  /\ UNCHANGED <<head, tail, next, element, allocated, result, ri>>

ForEachStep ==
  ForEachTest \/ ForEachReturn \/ ForEachAdvance \/ ForEachEnd

-----------------------------------------------------------------------------
(* remove_if, one step per point where it touches the list, with a         *)
(* predicate that holds exactly for the elements in P.                     *)

RemoveIfBegin(P) ==
  /\ CanCall("remove_if")
  /\ ri' = [pc |-> "test", e |-> head, first |-> head, P |-> P, x |-> NULL]
  /\ UNCHANGED <<head, tail, next, element, allocated, result, fe>>

\* e->element != nullptr && predicate(e->element)
RemoveIfTest ==
  /\ ri.pc = "test"
  /\ ri.e # NULL
  /\ ri' = IF element[ri.e] # NULL
             THEN [ri EXCEPT !.pc = "pred", !.x = element[ri.e]]
             ELSE [ri EXCEPT !.pc = "advance"]
  /\ UNCHANGED <<head, tail, next, element, allocated, result, fe>>

(* Mutant: e->element = nullptr whatever the predicate returned.          *)
RemoveIfReturn_unconditional ==
  /\ ri.pc = "pred"
  /\ element' = [element EXCEPT ![ri.e] = NULL]
  /\ ri' = [ri EXCEPT !.pc = "advance", !.x = NULL]
  /\ UNCHANGED <<head, tail, next, allocated, result, fe>>

(* Mutant: the loop breaks after the first element it clears.             *)
RemoveIfReturn_break ==
  /\ ri.pc = "pred"
  /\ IF ri.x \in ri.P
       THEN /\ element' = [element EXCEPT ![ri.e] = NULL]
            /\ ri' = IdleRemove
            /\ result' = NULL
       ELSE /\ ri' = [ri EXCEPT !.pc = "advance", !.x = NULL]
            /\ UNCHANGED <<element, result>>
  /\ UNCHANGED <<head, tail, next, allocated, fe>>

\* The predicate returns; if it held, e->element = nullptr.
RemoveIfReturn ==
  /\ ri.pc = "pred"
  /\ element' = IF ri.x \in ri.P THEN [element EXCEPT ![ri.e] = NULL] ELSE element
  /\ ri' = [ri EXCEPT !.pc = "advance", !.x = NULL]
  /\ UNCHANGED <<head, tail, next, allocated, result, fe>>

\* e = e->next
RemoveIfAdvance ==
  /\ ri.pc = "advance"
  /\ ri' = [ri EXCEPT !.pc = "test", !.e = next[ri.e]]
  /\ UNCHANGED <<head, tail, next, element, allocated, result, fe>>

RemoveIfEnd ==
  /\ ri.pc = "test"
  /\ ri.e = NULL
  /\ ri' = IdleRemove
  /\ result' = NULL
  /\ UNCHANGED <<head, tail, next, element, allocated, fe>>

RemoveIfStep ==
  RemoveIfTest \/ RemoveIfReturn \/ RemoveIfAdvance \/ RemoveIfEnd

Next ==
  \/ \E x \in Elements : push_front(x) \/ push_back(x)
  \/ pop_front
  \/ clear
  \/ \E P \in SUBSET Elements : RemoveIfBegin(P)
  \/ RemoveIfStep
  \/ ForEachBegin
  \/ ForEachStep

Spec == Init /\ [][Next]_vars

(* The loops of for_each and remove_if are straight-line code and the     *)
(* action and the predicate are assumed to return, so once a loop is       *)
(* entered its steps keep being taken.  An action that calls remove_if     *)
(* can return only between those calls, so its return is strongly fair:  *)
(* it calls the list finitely often.                                       *)
FairSpec ==
  /\ Spec
  /\ WF_vars(ForEachTest) /\ SF_vars(ForEachReturn)
  /\ WF_vars(ForEachAdvance) /\ WF_vars(ForEachEnd)
  /\ WF_vars(RemoveIfTest) /\ WF_vars(RemoveIfReturn)
  /\ WF_vars(RemoveIfAdvance) /\ WF_vars(RemoveIfEnd)

-----------------------------------------------------------------------------
(* Properties.                                                             *)

TypeOK ==
  /\ head \in Ptr /\ tail \in Ptr
  /\ next \in [Entries -> Ptr]
  /\ element \in [Entries -> Elements \cup {NULL}]
  /\ allocated \subseteq Entries
  /\ result \in Elements \cup {NULL}
  /\ fe.pc \in {"idle", "test", "action", "advance"}
  /\ fe.e \in Ptr /\ fe.first \in Ptr
  /\ fe.visited \in Seq(Entries)
  /\ ri.pc \in {"idle", "test", "pred", "advance"}
  /\ ri.e \in Ptr /\ ri.first \in Ptr
  /\ ri.P \subseteq Elements /\ ri.x \in Elements \cup {NULL}

(* head_ and tail_ agree after any sequence of calls: both are nullptr or *)
(* neither is, the walk from head_ ends at nullptr without revisiting an  *)
(* entry, tail_ is its last entry, and every entry on it is still         *)
(* allocated.  It fails if pop_front or push_front leaves tail_ behind    *)
(* (push_back then writes through a freed or stale tail_).               *)
ListShape ==
  /\ (head = NULL) <=> (tail = NULL)
  /\ head # NULL =>
       /\ IsInjective(Chain)
       /\ next[Last(Chain)] = NULL
       /\ Last(Chain) = tail
  /\ ToSet(Chain) \subseteq allocated

(* No entry leaks: every entry the Allocator handed out is still reachable *)
(* from head_, so pop_front and clear free exactly what they unlink and   *)
(* entries emptied by remove_if stay reachable until they are freed.       *)
NoLeak == allocated = ToSet(Chain)

(* The element sequence read from head_ behaves as the sequence of ListSeq, *)
(* with pop_front returning the element at the front (NULL when the front *)
(* was emptied by remove_if or the list is empty).                         *)
LS == INSTANCE ListSeq
        WITH list <- [i \in DOMAIN Chain |-> element[Chain[i]]], pending <- ri.P

ImplementsListSeq == LS!Spec

(* The entries for_each will reach: those from the head_ it started at,   *)
(* including the ones its action appended with push_back.                *)
Reached == ToSet(ChainFrom(fe.first, Cardinality(Entries)))

(* When for_each returns, it has passed to its action, once each, every    *)
(* entry it reached that still holds an element, including entries the    *)
(* action itself appended and excluding ones it emptied with remove_if.   *)
ForEachVisitsAll ==
  [][fe.pc # "idle" /\ fe'.pc = "idle" =>
       /\ \A en \in Reached : element[en] # NULL => en \in ToSet(fe.visited)
       /\ IsInjective(fe.visited)]_vars

(* The entries remove_if will reach, as Reached for for_each.             *)
RemoveIfReached == ToSet(ChainFrom(ri.first, Cardinality(Entries)))

(* When remove_if returns, no entry it reached holds an element its       *)
(* predicate selects, although the predicate may have pushed entries at  *)
(* either end while it ran: the ones pushed at the back are reached and   *)
(* cleared too.                                                             *)
RemoveIfClearsAll ==
  [][ri.pc # "idle" /\ ri'.pc = "idle" =>
       \A en \in RemoveIfReached : element[en] \notin ri.P]_vars

(* Neither loop reads e->element or e->next of, or writes                 *)
(* e->element = nullptr to, an entry that has been freed, even when its   *)
(* action or predicate changes the list.                                  *)
CursorLive ==
  /\ fe.pc \in {"test", "advance"} /\ fe.e # NULL => fe.e \in allocated
  /\ ri.pc \in {"test", "advance"} /\ ri.e # NULL => ri.e \in allocated

(* A for_each or remove_if that has started returns.                      *)
LoopsTerminate ==
  /\ fe.pc # "idle" ~> fe.pc = "idle"
  /\ ri.pc # "idle" ~> ri.pc = "idle"

=============================================================================
