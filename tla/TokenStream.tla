---------------------------- MODULE TokenStream ----------------------------
(***************************************************************************)
(* What the compiler relies on when it reads a program: the tokens of the  *)
(* text come one after the other, looking ahead changes nothing, and       *)
(* returning to a place that was marked brings back what follows it.       *)
(* Tokens are named by their positions; the token after the last is Eof    *)
(* and can be read again and again.  After an error nothing is read before *)
(* the return to a marked place.                                           *)
(***************************************************************************)
EXTENDS Integers, Sequences

VARIABLES
    text,     \* for each position, whether the scanner accepts what is there
    current,  \* the token to be parsed, 0 for none
    next,     \* the token after it
    marks,    \* the places that were marked
    failed    \* an error is on its way to the caller

vars == <<text, current, next, marks, failed>>

Eof == Len(text) + 1
Readable == {Eof} \cup {i \in DOMAIN text : text[i]}

Init ==
    /\ current = 0 /\ next = 1 /\ marks = {} /\ failed = FALSE

\* The next token becomes the current one
Read ==
    /\ ~failed /\ next \in Readable
    /\ current' = next
    /\ next' = IF next = Eof THEN next ELSE next + 1
    /\ UNCHANGED <<text, marks, failed>>

Fail ==
    /\ ~failed /\ failed'
    /\ UNCHANGED <<text, marks>>

Mark ==
    /\ ~failed
    /\ marks' = marks \cup {<<current, next>>}
    /\ UNCHANGED <<text, current, next, failed>>

Return ==
    /\ <<current', next'>> \in marks
    /\ ~failed'
    /\ UNCHANGED <<text, marks>>

Next == Read \/ Fail \/ Mark \/ Return

Spec == Init /\ [][Next]_vars

=============================================================================
