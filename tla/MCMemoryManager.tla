-------------------------- MODULE MCMemoryManager --------------------------
(* Small instances of MemoryManager. *)
EXTENDS MemoryManager, TLC

\* Handles are interchangeable, and so are contents.
Symmetry == Permutations(Handle) \cup Permutations(Content)

\* Where symmetry cannot be used (liveness), it is enough to look at the
\* behaviours that hand out the handles in the order of their numbers.
InOrder == \A h \in used : 1 .. h \subseteq used

\* Strings and imports with their tables, or three cells that grow.
TablesOrGrowth ==
    \/ \A h \in used : kind[h] \in {"String", "Import"} /\ size[h] = 1
    \/ /\ \A h \in used : kind[h] \in {"Object", "Array", "Binary"}
       /\ Cardinality(used) <= 3 /\ external = <<>>

=============================================================================
