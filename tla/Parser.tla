------------------------------- MODULE Parser -------------------------------
(***************************************************************************)
(* The parser of RapidJsonnet (src/src/parser.rs): a token at a time from  *)
(* the scanner, any number of tokens ahead through a buffer, and           *)
(* checkpoints that the compiler goes back to, several times and in any    *)
(* order, to compile the same tokens again in another place.               *)
(*                                                                         *)
(* Tokens are named by their positions in the text, the end of the input   *)
(* is the position after the last.  The buffer is never emptied: consumed  *)
(* tokens stay in it, and tokens that are read when it is used up do not   *)
(* enter it (commit, which empties it, has no caller).                     *)
(***************************************************************************)
EXTENDS Integers, Sequences, FiniteSets

CONSTANTS
    Texts,        \* sequences of BOOLEAN: whether the scanner accepts a token
    MaxAhead,     \* bound: how far peek_ahead looks
    MaxSaved      \* bound: checkpoints kept

ASSUME TextsAssumption == \A t \in Texts : t \in Seq(BOOLEAN)
ASSUME BoundsAssumption == MaxAhead \in Nat /\ MaxSaved \in Nat

VARIABLES
    text,       \* the program
    position,   \* the scanner's: the token it scans next
    previous,   \* previous_token
    current,    \* current_token
    buffer,     \* token_buffer
    taken,      \* buffer_position: how many tokens of the buffer were consumed
    panic,      \* panic_mode
    saved,      \* the checkpoints the compiler keeps
    failed,     \* an Err is on its way up
    answer      \* the last answer of peek_ahead, with what was asked

parserVars == <<position, previous, current, buffer, taken, panic>>
vars == <<text, parserVars, saved, failed, answer>>

None == 0
Eof(t) == Len(t) + 1
Tokens == 1 .. Eof(text)

Checkpoint ==
    [position : Tokens, previous : Tokens \cup {None}, current : Tokens \cup {None},
     buffer : Seq(Tokens), taken : Nat, panic : BOOLEAN]

TypeOK ==
    /\ text \in Texts
    /\ position \in Tokens
    /\ previous \in Tokens \cup {None} /\ current \in Tokens \cup {None}
    /\ buffer \in Seq(Tokens) /\ taken \in 0 .. Len(buffer)
    /\ panic \in BOOLEAN /\ failed \in BOOLEAN
    /\ saved \subseteq Checkpoint

Init ==
    /\ text \in Texts
    /\ position = 1 /\ previous = None /\ current = None
    /\ buffer = <<>> /\ taken = 0 /\ panic = FALSE
    /\ saved = {} /\ failed = FALSE /\ answer = [ahead |-> 0, from |-> 1, token |-> None]

----------------------------------------------------------------------------
\* scan_next: the end of the input can be scanned again and again
Good(t, i) == i \in {Eof(t)} \cup {j \in DOMAIN t : t[j]}
After(t, i) == IF i = Eof(t) THEN i ELSE i + 1

\* An error leaves the scanner at the bad token or behind it.
ScanFails ==
    /\ ~Good(text, position)
    /\ position' \in {position, position + 1}
    /\ panic' = TRUE

\* The token that will be current after this one
Upcoming(p, b, k) == IF k < Len(b) THEN b[k + 1] ELSE p

----------------------------------------------------------------------------
(* advance.  A scan error is returned unless one has been before; every    *)
(* caller passes it on or goes back to a checkpoint, which takes the first *)
(* one back too.  had_error, which only tests ask for, is left out.        *)

\* A token of the buffer, or a new one
NextToken ==
    \/ /\ taken < Len(buffer)
       /\ current' = buffer[taken + 1]
       /\ taken' = taken + 1
       /\ UNCHANGED <<position, panic, failed>>
    \/ /\ taken = Len(buffer)
       /\ Good(text, position)
       /\ current' = position
       /\ position' = After(text, position)
       /\ UNCHANGED <<taken, panic, failed>>
    \/ /\ taken = Len(buffer)
       /\ ScanFails
       /\ current' = None
       /\ failed' = ~panic
       /\ UNCHANGED taken

Advance ==
    /\ ~failed
    /\ previous' = current
    /\ NextToken
    /\ UNCHANGED <<text, buffer, saved, answer>>

\* consume takes the token out before it advances, so that there is no previous
\* one afterwards; another token than the expected one is an error.
Consume ==
    /\ ~failed /\ current # None
    /\ previous' = None
    /\ NextToken
    /\ UNCHANGED <<text, buffer, saved, answer>>

ConsumeFails ==
    /\ ~failed /\ failed' = TRUE
    /\ UNCHANGED <<text, parserVars, saved, answer>>

----------------------------------------------------------------------------
(* peek_ahead(n) *)

\* Mutant: the buffer is filled without regard to the end of the input
Filled_PastEof(upto) ==
    [i \in 1 .. (IF upto < Len(buffer) THEN Len(buffer) ELSE upto) |->
        IF i <= Len(buffer) THEN buffer[i]
        ELSE IF position + i - Len(buffer) - 1 <= Eof(text)
             THEN position + i - Len(buffer) - 1 ELSE Eof(text)]

\* The buffer with tokens up to index upto, or up to the end of the input
Filled(upto) ==
    LET missing == upto - Len(buffer)
        there   == Eof(text) - position + 1
        n       == IF missing < there THEN missing ELSE there
    IN  buffer \o [i \in 1 .. (IF n < 0 THEN 0 ELSE n) |-> position + i - 1]

Scanned(upto) == {Filled(upto)[i] : i \in Len(buffer) + 1 .. Len(Filled(upto))}

EndBuffered == buffer # <<>> /\ buffer[Len(buffer)] = Eof(text)

Answers(n, token) ==
    answer' = [ahead |-> n, from |-> Upcoming(position, buffer, taken), token |-> token]

PeekCurrent ==
    /\ ~failed
    /\ answer' = [ahead |-> 0, from |-> current, token |-> current]
    /\ UNCHANGED <<text, parserVars, saved, failed>>

Peek(n) ==
    LET index == taken + n
        past  == EndBuffered /\ index > Len(buffer)
    IN  /\ ~failed
        /\ \A i \in Scanned(index) : past \/ Good(text, i)
        /\ buffer' = IF past THEN buffer ELSE Filled(index)
        /\ position' = IF Len(buffer') = Len(buffer) THEN position
                       ELSE After(text, buffer'[Len(buffer')])
        /\ Answers(n, IF index <= Len(buffer') THEN buffer'[index] ELSE None)
        /\ UNCHANGED <<text, previous, current, taken, panic, saved, failed>>

\* The tokens before the bad one have entered the buffer.
PeekFails(n) ==
    LET index == taken + n
        bad   == {i \in Scanned(index) : ~Good(text, i)}
        first == CHOOSE i \in bad : \A j \in bad : i <= j
    IN  /\ ~failed /\ failed' = ~panic
        /\ ~EndBuffered \/ index <= Len(buffer)
        /\ bad # {}
        /\ buffer' = buffer \o [i \in 1 .. first - position |-> position + i - 1]
        /\ position' \in {first, first + 1}
        /\ panic' = TRUE
        /\ UNCHANGED <<text, previous, current, taken, saved, answer>>

----------------------------------------------------------------------------
(* save_checkpoint and restore_checkpoint *)

Saved == [position |-> position, previous |-> previous, current |-> current,
          buffer |-> buffer, taken |-> taken, panic |-> panic]

Save ==
    /\ ~failed /\ Cardinality(saved) < MaxSaved
    /\ saved' = saved \cup {Saved}
    /\ UNCHANGED <<text, parserVars, failed, answer>>

\* Mutant: the scanner is left where it is
Restored_ButScanner(c) ==
    /\ position' = position
    /\ previous' = c.previous /\ current' = c.current
    /\ buffer' = c.buffer /\ taken' = c.taken /\ panic' = c.panic

Restored(c) ==
    /\ position' = c.position
    /\ previous' = c.previous /\ current' = c.current
    /\ buffer' = c.buffer /\ taken' = c.taken /\ panic' = c.panic

\* Also after an error of advance in a scan ahead (expr_references_ident)
Restore ==
    /\ \E c \in saved : Restored(c)
    /\ failed' = FALSE
    /\ UNCHANGED <<text, saved, answer>>

Next ==
    \/ Advance \/ Consume \/ ConsumeFails
    \/ PeekCurrent \/ \E n \in 1 .. MaxAhead : Peek(n) \/ PeekFails(n)
    \/ Save \/ Restore

Spec == Init /\ [][Next]_vars

----------------------------------------------------------------------------
(* Properties *)

\* peek_ahead(n) gives the n-th token that the next calls of advance will give,
\* and none behind the end.  When the end itself is the current token it may be
\* given again.
PeekExact ==
    LET n    == answer.ahead
        last == answer.from + n - 1
    IN  n > 0 =>
          \/ answer.token = last /\ last <= Eof(text)
          \/ answer.token = None /\ last > Eof(text)
          \/ answer.token = None /\ answer.from = Eof(text)

Stream == INSTANCE TokenStream WITH
    next <- Upcoming(position, buffer, taken),
    marks <- {<<c.current, Upcoming(c.position, c.buffer, c.taken)>> : c \in saved}

\* Whatever was looked at ahead, saved and gone back to: each token of the text is
\* given once and in order, and after going back those behind the checkpoint again.
TokensInOrder == Stream!Spec

=============================================================================
