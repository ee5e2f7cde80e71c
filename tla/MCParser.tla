------------------------------ MODULE MCParser ------------------------------
(* Small instances of Parser. *)
EXTENDS Parser

\* Up to three tokens, with one that the scanner rejects anywhere or nowhere
SomeTexts ==
    {t \in UNION {[1 .. n -> BOOLEAN] : n \in 0 .. 3} :
        Cardinality({i \in DOMAIN t : ~t[i]}) <= 1}

=============================================================================
