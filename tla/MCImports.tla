----------------------------- MODULE MCImports -----------------------------
(* Small instances of Imports. *)
EXTENDS Imports, TLC

Symmetry == Permutations(Handle) \cup Permutations(File)

\* Importing files whose values are no imports, in a heap that is collected
Plain == [imports |-> TRUE, chains |-> FALSE, caches |-> FALSE, collects |-> TRUE]

\* Files that are nothing but imports, and cached fields, without a collection
Chaining == [imports |-> TRUE, chains |-> TRUE, caches |-> TRUE, collects |-> FALSE]

\* A single file that caches fields in a heap that is collected
Single == [imports |-> FALSE, chains |-> FALSE, caches |-> TRUE, collects |-> TRUE]

\* Importing files and caching fields in a heap that is collected
Caching == [Plain EXCEPT !.caches = TRUE]

\* Files that are nothing but imports, in a heap that is collected: the import
\* that waits for the second one is not among the roots any more.
ChainingCollecting == [Plain EXCEPT !.chains = TRUE]

PassingPrograms == {Plain, Chaining, Single}
CachingPrograms == {Caching}
ChainingPrograms == {ChainingCollecting}

\* These make many more states of fewer cells.
Small ==
    /\ program = Chaining => Cardinality(used) <= 3
    /\ program = Single => Cardinality(used) <= 4

=============================================================================
