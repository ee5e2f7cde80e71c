------------------------------- MODULE Scopes -------------------------------
(***************************************************************************)
(* What a Jsonnet program may rely on when functions and thunks capture    *)
(* variables: a captured variable keeps its value after its scope ended,   *)
(* everyone who reads it sees that value, and evaluating the thunk in it   *)
(* replaces its value and no other.  There is no stack here and there are  *)
(* no upvalues; Upvalues implements this.                                  *)
(***************************************************************************)
EXTENDS Integers, Sequences

CONSTANTS
    Var,    \* variables: the locals and parameters of every activation
    Value,  \* what a variable may hold
    Unset,  \* declared, not initialised
    Gone    \* not declared yet, or out of scope and not captured

VARIABLES
    bound,      \* the value of every variable
    captured,   \* variables some function or thunk has captured
    forcing,    \* variables whose thunk is being evaluated, innermost last
    seen        \* the last read: a variable and the value it gave

vars == <<bound, captured, forcing, seen>>

Front(s) == SubSeq(s, 1, Len(s) - 1)
Last(s) == s[Len(s)]

\* Scopes end for the variables W: those that nobody captured are gone.
AfterLeaving(W) == [v \in Var |-> IF v \in W \ captured THEN Gone ELSE bound[v]]

\* Variables V come into scope while W leave it
EnterLeave(V, W) ==
    /\ UNCHANGED <<captured, forcing, seen>>
    /\ \A v \in V : bound[v] = Gone /\ bound'[v] \in Value \cup {Unset}
    /\ bound' = [v \in Var |-> IF v \in V THEN bound'[v] ELSE AfterLeaving(W)[v]]

\* A declared variable gets its value, once.
Initialise(v) ==
    /\ UNCHANGED <<captured, forcing, seen>>
    /\ bound[v] = Unset
    /\ bound'[v] \in Value
    /\ bound' = [bound EXCEPT ![v] = bound'[v]]

\* A function or a thunk captures variables that have a meaning where it is made.
Capture(V) ==
    /\ \A v \in V : bound[v] # Gone
    /\ captured' = captured \cup V
    /\ UNCHANGED <<bound, forcing, seen>>

Read(v) ==
    /\ bound[v] \in Value
    /\ seen' = <<v, bound[v]>>
    /\ UNCHANGED <<bound, captured, forcing>>

BeginForce(v) ==
    /\ bound[v] \in Value
    /\ forcing' = Append(forcing, v)
    /\ UNCHANGED <<bound, captured, seen>>

\* The thunk of the innermost variable is evaluated: the result takes its place.
\* The variables W of the evaluation itself leave.
EndForce(W) ==
    /\ forcing # <<>>
    /\ Last(forcing) \notin W \ captured
    /\ bound'[Last(forcing)] \in Value
    /\ bound' = [AfterLeaving(W) EXCEPT ![Last(forcing)] = bound'[Last(forcing)]]
    /\ seen' = <<Last(forcing), bound'[Last(forcing)]>>
    /\ forcing' = Front(forcing)
    /\ UNCHANGED captured

Init ==
    /\ bound = [v \in Var |-> Gone]
    /\ captured = {}
    /\ forcing = <<>>
    /\ seen = <<>>

Next ==
    \/ \E V \in SUBSET {v \in Var : bound[v] = Gone} :
          \E W \in SUBSET {v \in Var : bound[v] # Gone} : EnterLeave(V, W)
    \/ \E v \in Var : Initialise(v) \/ Read(v) \/ BeginForce(v)
    \/ \E V \in SUBSET Var : Capture(V)
    \/ \E W \in SUBSET Var : EndForce(W)

Spec == Init /\ [][Next]_vars

=============================================================================
