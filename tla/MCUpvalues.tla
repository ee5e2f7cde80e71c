----------------------------- MODULE MCUpvalues -----------------------------
(* Small instances of Upvalues. *)
EXTENDS Upvalues, TLC

CONSTANT Third  \* the variable, closure and upvalue that only ThreeLocals uses

Symmetry ==
    Permutations(Var \ Third) \cup Permutations(Closure \ Third) \cup Permutations(Up \ Third)

TwoOfEach == Third \subseteq Unused \cup (Closure \ DOMAIN env) \cup (Up \ DOMAIN upvalue)

\* Two machines, with short stacks and one closure
TwoFiles ==
    /\ Cardinality(DOMAIN env) <= 1 /\ Cardinality(DOMAIN upvalue) <= 1
    /\ Len(stack) <= 3 /\ Len(frames) <= 2
    /\ \A i \in 1 .. Len(suspended) :
          Len(suspended[i].stack) <= 2 /\ Len(suspended[i].frames) <= 2

\* Three variables with an upvalue each in one frame, where only closures are made
\* and no local is initialised or read: the open list at its longest
ThreeLocals ==
    /\ suspended = <<>> /\ Len(frames) = 1 /\ seen = <<>> /\ thunks = {}
    /\ \A i \in Locals : stack[i].val = Unset
    /\ \A i \in 1 .. Len(stack) : stack[i].val \notin Plain

\* One machine, or two on a smaller scale
Small == ThreeLocals \/ (TwoOfEach /\ (suspended = <<>> \/ TwoFiles))

=============================================================================
