----------------------------- MODULE RootStack -----------------------------
(***************************************************************************)
(* The discipline of external_roots and external_upvalue_roots.            *)
(*                                                                         *)
(* Code that keeps handles in local variables while something else may     *)
(* collect brackets that stretch with a push and a pop.  Nothing ties a    *)
(* pop to its push: it removes whatever is on top.  Three things put other *)
(* entries there: a root meant to stay for good is pushed inside a bracket *)
(* (the std objects, an ext-code import), an error leaves a bracket by `?' *)
(* without its pop, and some brackets push on the value stack only.        *)
(*                                                                         *)
(* An entry is the token of the push that made it; what the roots are does *)
(* not matter here.  The brackets in progress are the call stack of the    *)
(* interpreter, innermost last.                                            *)
(***************************************************************************)
EXTENDS Integers, Sequences, FiniteSets

CONSTANTS
    Token,      \* one for every push
    Nothing,    \* the empty set of roots
    MaxOpen     \* bound: brackets in progress

ASSUME NothingAssumption == Nothing \notin Token
ASSUME MaxOpenAssumption == MaxOpen \in Nat

VARIABLES
    values,     \* external_roots
    upvalues,   \* external_upvalue_roots
    open,       \* brackets in progress
    unused,     \* tokens not pushed yet
    permanent,  \* tokens pushed as permanent roots
    abandoned   \* brackets left by an error

vars == <<values, upvalues, open, unused, permanent, abandoned>>

\* A bracket remembers where its entries were put.  pair: it uses both stacks.
Bracket == [token : Token, pair : BOOLEAN, at : Nat, upAt : Nat]

TypeOK ==
    /\ values \in Seq(Token \cup {Nothing})
    /\ upvalues \in Seq(Token \cup {Nothing})
    /\ open \in Seq(Bracket)
    /\ unused \subseteq Token
    /\ permanent \subseteq Token
    /\ abandoned \in Nat

Init ==
    /\ values = <<>> /\ upvalues = <<>> /\ open = <<>>
    /\ unused = Token /\ permanent = {} /\ abandoned = 0

\* push_external_roots, and the push of the native helpers straight on
\* external_roots
OpenBracket(t, pair) ==
    /\ t \in unused
    /\ Len(open) < MaxOpen
    /\ values' = Append(values, t)
    /\ upvalues' = IF pair THEN Append(upvalues, t) ELSE upvalues
    /\ open' = Append(open, [token |-> t, pair |-> pair,
                             at |-> Len(values) + 1, upAt |-> Len(upvalues) + 1])
    /\ unused' = unused \ {t}
    /\ UNCHANGED <<permanent, abandoned>>

Front(s) == SubSeq(s, 1, Len(s) - 1)

\* Vec::pop: an empty stack stays empty
Pop(s) == IF s = <<>> THEN s ELSE Front(s)

\* Mutant: every bracket ends with pop_external_roots, also one that pushed on
\* the value stack only
CloseBracket_PopsBoth ==
    /\ open # <<>>
    /\ values' = Pop(values) /\ upvalues' = Pop(upvalues)
    /\ open' = Front(open)
    /\ UNCHANGED <<unused, permanent, abandoned>>

\* Mutant: a bracket of a native ends without its pop
CloseBracket_ForgetsPop ==
    /\ open # <<>>
    /\ values' = IF open[Len(open)].pair THEN Pop(values) ELSE values
    /\ upvalues' = IF open[Len(open)].pair THEN Pop(upvalues) ELSE upvalues
    /\ open' = Front(open)
    /\ UNCHANGED <<unused, permanent, abandoned>>

\* The innermost bracket ends: pop_external_roots takes the top of both stacks,
\* external_roots.pop() that of one
CloseBracket ==
    /\ open # <<>>
    /\ values' = Pop(values)
    /\ upvalues' = IF open[Len(open)].pair THEN Pop(upvalues) ELSE upvalues
    /\ open' = Front(open)
    /\ UNCHANGED <<unused, permanent, abandoned>>

\* An error leaves the innermost bracket without its pop
AbandonBracket ==
    /\ open # <<>>
    /\ open' = Front(open)
    /\ abandoned' = abandoned + 1
    /\ UNCHANGED <<values, upvalues, unused, permanent>>

\* get_or_create_std_object, get_or_create_std_extended_object and
\* set_ext_var_code push a root they never pop, wherever they are called
PushPermanent(t) ==
    /\ t \in unused
    /\ values' = Append(values, t)
    /\ upvalues' = Append(upvalues, Nothing)
    /\ permanent' = permanent \cup {t}
    /\ unused' = unused \ {t}
    /\ UNCHANGED <<open, abandoned>>

Next ==
    \/ \E t \in Token, pair \in BOOLEAN : OpenBracket(t, pair)
    \/ CloseBracket
    \/ AbandonBracket
    \/ \E t \in Token : PushPermanent(t)

Spec == Init /\ [][Next]_vars

----------------------------------------------------------------------------
In(t, s) == \E i \in 1 .. Len(s) : s[i] = t

\* What a bracket in progress has pushed is still there, whatever was pushed,
\* lost or left behind by the brackets inside it: a pop that takes the entry of
\* somebody else only ever leaves too much on the stacks.
OpenBracketsProtected ==
    \A i \in 1 .. Len(open) :
        /\ In(open[i].token, values)
        /\ open[i].pair => In(open[i].token, upvalues)

\* Nothing is left behind without a cause: what is on the value stack beyond the
\* brackets in progress is accounted for by the permanent roots and the errors.
LeaksAccounted ==
    Len(values) = Len(open) + Cardinality(permanent) + abandoned

\* A root pushed for good stays: the std object "survives GC runs triggered by
\* the compiler".  This does not hold: a root pushed inside a bracket goes with
\* the bracket's pop, which leaves the bracket's own root instead.
PermanentRootsStay == \A t \in permanent : In(t, values)

=============================================================================
