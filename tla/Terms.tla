------------------------------- MODULE Terms -------------------------------
(***************************************************************************)
(* Floating-point register contents as terms: what an instruction sequence *)
(* computes, written as the expression of the values it started from.     *)
(* A term is <<name>> (an input or a constant), <<"undef", register>> (a   *)
(* register no instruction has written) or <<operator, left, right>> for   *)
(* one rounded operation.  All terms are tuples, so any two compare.       *)
(***************************************************************************)
EXTENDS Integers, Sequences

Atom(name) == <<name>>
Undef(reg) == <<"undef", reg>>
Add(a, b) == <<"+", a, b>>
Sub(a, b) == <<"-", a, b>>
Mul(a, b) == <<"*", a, b>>

IsOp(t) == Len(t) = 3 /\ t[1] \in {"+", "-", "*"}

(* A term built only from the given atoms by operations.                   *)
RECURSIVE BuiltFrom(_, _)
BuiltFrom(t, atoms) ==
  \/ t \in atoms
  \/ IsOp(t) /\ BuiltFrom(t[2], atoms) /\ BuiltFrom(t[3], atoms)

(* Every subterm of t, t included.                                          *)
RECURSIVE Subterms(_)
Subterms(t) == {t} \cup (IF IsOp(t) THEN Subterms(t[2]) \cup Subterms(t[3])
                         ELSE {})

(* The summands of a sum nested to the left: <<s1, ..., sn>> for          *)
(* (..(s1 + s2) + ..) + sn.                                                *)
RECURSIVE LeftSummands(_)
LeftSummands(t) ==
  IF IsOp(t) /\ t[1] = "+" THEN Append(LeftSummands(t[2]), t[3]) ELSE <<t>>

(* A normal form up to the exact identities of rounded arithmetic:         *)
(* a + b = b + a, a * b = b * a, and (a - b) * (c - d) = (b - a) * (d - c) *)
(* (negating both factors of a product changes no bit of it).  A sum or    *)
(* product keeps its operands as a set; a product of two differences      *)
(* keeps both ways of writing it.                                          *)
RECURSIVE Canonical(_)
Canonical(t) ==
  IF ~IsOp(t) THEN t
  ELSE LET a == Canonical(t[2])
           b == Canonical(t[3])
           Flip(u) == <<"-", u[3], u[2]>>
       IN  CASE t[1] = "-" -> <<"-", a, b>>
             [] t[1] = "+" -> <<"+", {a, b}>>
             [] t[1] = "*" /\ a[1] = "-" /\ b[1] = "-" /\ Len(a) = 3 /\ Len(b) = 3 ->
                  <<"*-", {{a, b}, {Flip(a), Flip(b)}}>>
             [] OTHER -> <<"*", {a, b}>>

(* Equal up to those identities.                                           *)
Same(t, u) == Canonical(t) = Canonical(u)

=============================================================================
