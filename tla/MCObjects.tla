----------------------------- MODULE MCObjects -----------------------------
(* Small instances of Objects. *)
EXTENDS Objects, TLC

CONSTANTS a, b, x, y

Is(c, vis) == [body |-> [op |-> "const", val |-> c], vis |-> vis]
Self(k, vis) == [body |-> [op |-> "self", key |-> k], vis |-> vis]
Super(k, vis) == [body |-> [op |-> "super", key |-> k], vis |-> vis]
Lit(fa, fb, as) == [fields |-> [k \in Key |-> IF k = a THEN fa ELSE fb], asserts |-> as]

\* { a: x, b: self.a, assert self.b == x }
Original == Lit(Is(x, "visible"), Self(a, "visible"), {[key |-> b, is |-> x]})
\* { a: super.b, b:: super.b }
Extension == Lit(Super(b, "visible"), Super(b, "hidden"), {})
\* { a::: y, assert self.a == y }
Override == Lit(Is(y, "forced"), None, {[key |-> a, is |-> y]})

InOrder == <<Original, Extension, Override>>
SomeLiterals == {InOrder[i] : i \in DOMAIN InOrder}

\* Inheritance without the % operator; or % on objects that share nothing that
\* depends on self, once all objects are made
Plain == [selfs |-> TRUE, formats |-> FALSE, reuses |-> FALSE, mergesRemoved |-> FALSE]
Formatting == [selfs |-> FALSE, formats |-> TRUE, reuses |-> FALSE, mergesRemoved |-> FALSE]

PassingPrograms == {Plain, Formatting}
RemovingPrograms == {[Plain EXCEPT !.mergesRemoved = TRUE]}
FormattingPrograms == {[Plain EXCEPT !.formats = TRUE, !.reuses = TRUE]}

\* The place of the literal that node n starts with
Rank(n) == CHOOSE i \in DOMAIN InOrder : InOrder[i].fields = nodes[n].layers[1].fields

\* A program makes its literals first, each of them once, and in this order: what
\* is made from them does not depend on it.
LiteralsFirst ==
    \A i, j \in Object :
        i < j /\ Len(nodes[j].layers) = 1 => Len(nodes[i].layers) = 1 /\ Rank(i) < Rank(j)

=============================================================================
