---------------------------- MODULE MCTestRunner ----------------------------
(* Small instances of TestRunner. *)
EXTENDS TestRunner, TLC

Test0 == [hidden |-> FALSE, kind |-> "function", deep |-> 0, fails |-> FALSE,
          writes |-> {}, covers |-> {<<"test", 1>>, <<"lib", 1>>}]

\* Tests that pass or fail at some depth, that write out an object that violates an
\* assertion, and fields that are no tests
Fields ==
    {[Test0 EXCEPT !.deep = d, !.fails = f, !.covers = {<<"test", 2>>, <<"lib", d>>}] :
        d \in 1 .. 2, f \in BOOLEAN}
    \cup {Test0, [Test0 EXCEPT !.writes = {"shared"}], [Test0 EXCEPT !.hidden = TRUE]}
    \cup {[Test0 EXCEPT !.kind = k] : k \in {"value", "needs arguments", "error", "raw"}}

\* Three tests and a skipped one in one node; or two nodes with up to two, where no node hides what a
\* node below shows
OneNode == {<<n @@ (4 :> Test0)>> : n \in [1 .. 3 -> Fields]}
TwoNodes ==
    {<<n, m>> : n, m \in UNION {[d -> {Test0} \cup {f \in Fields : f.hidden \/ f.fails}] : d \in SUBSET {1, 2}}}
Overrides(o) ==
    \A x \in DOMAIN o[1] \cap DOMAIN o[2] : o[1][x].hidden => o[2][x].hidden

SomeObjects == {<<>>} \cup OneNode \cup {o \in TwoNodes : Overrides(o)}

SomeFilters == {1 .. 4, {1, 3}}

=============================================================================
