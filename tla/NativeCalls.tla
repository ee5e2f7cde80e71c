------------------------------ MODULE NativeCalls ------------------------------
(***************************************************************************)
(* One native function or opcode at work: it takes a run of its own, step  *)
(* by step, while the code it calls back may collect at any of its calls   *)
(* and may fail at each.  The cells that its variables name are lost when  *)
(* neither the value stack nor external_roots reaches them.                *)
(***************************************************************************)
EXTENDS Callbacks

CONSTANTS Handlers,        \* the handlers to go through
          Runs,            \* their runs: a function on Handlers
          Unprotected,     \* handlers that use handles the collector may have freed
          LosesThunks,     \* handlers that force a thunk which may be freed meanwhile
          LeavesBrackets   \* handlers that leave roots behind when a call fails

VARIABLES handler,       \* the one that runs
          rest,          \* the steps it has still to do
          live,          \* the variables whose cell is still there
          edges,         \* <<c, v>>: the cell of c refers to the cell of v
          stack,         \* what it has pushed on the value stack
          roots,         \* external_roots, an entry for each bracket
          upvalueRoots,  \* the number of entries of external_upvalue_roots
          outcome

vars == <<handler, rest, live, edges, stack, roots, upvalueRoots, outcome>>

Init ==
    /\ handler \in Handlers
    /\ rest \in Runs[handler]
    /\ live = Arguments
    /\ edges = Contents
    /\ stack = << >>
    /\ roots = << >>
    /\ upvalueRoots = 0
    /\ outcome = "running"

----------------------------------------------------------------------------
\* Marking, from S and all that is rooted
RECURSIVE Reach(_)
Reach(S) ==
    LET next == S \cup {e[2] : e \in {d \in edges : d[1] \in S}}
    IN  IF next = S THEN S ELSE Reach(next)

Rooted == UNION (ToSet(stack) \cup ToSet(roots))

Survivors(S) == live \cap Reach(S \cup Rooted)

step == Head(rest)

\* The first step is this one, and all it follows is still there
Does(do) == outcome = "running" /\ rest # << >> /\ step.do = do /\ rest' = Tail(rest) /\ UNCHANGED <<handler, outcome>>
Follows  == step.of \subseteq live

\* v names a new cell.  What refers to its old one does not refer to this: an
\* entry of external_roots keeps the value that was pushed.
Rebound(v) == {e \in edges : v \notin {e[1], e[2]}}
Bind(v) ==
    /\ roots' = [b \in DOMAIN roots |-> roots[b] \ {v}]
    /\ stack' = [b \in DOMAIN stack |-> stack[b] \ {v}]

UseStep ==
    /\ Does("use") /\ Follows
    /\ UNCHANGED <<live, edges, stack, roots, upvalueRoots>>

AllocateStep ==
    /\ Does("new") /\ Follows
    /\ live' = live \cup {step.gives}
    /\ edges' = Rebound(step.gives) \cup {<<step.gives, v>> : v \in step.of \ {step.gives}}
    /\ Bind(step.gives)
    /\ UNCHANGED upvalueRoots

StoreStep ==
    /\ Does("put") \/ Does("memoize")
    /\ Follows /\ step.gives \in live
    /\ edges' = edges \cup {<<step.gives, v>> : v \in step.of}
    /\ UNCHANGED <<live, stack, roots, upvalueRoots>>

\* A collection that the function itself starts
CollectStep ==
    /\ Does("collect")
    /\ live' = Survivors({})
    /\ UNCHANGED <<edges, stack, roots, upvalueRoots>>

PushStep ==
    /\ Does("push") /\ Follows
    /\ stack' = Append(stack, step.of)
    /\ UNCHANGED <<live, edges, roots, upvalueRoots>>

PopStep ==
    /\ Does("pop")
    /\ stack' = Front(stack)
    /\ UNCHANGED <<live, edges, roots, upvalueRoots>>

\* push_external_roots, external_roots.push
RootStep ==
    /\ Does("root") \/ Does("root1")
    /\ roots' = Append(roots, step.of)
    /\ upvalueRoots' = upvalueRoots + (IF step.do = "root" THEN 1 ELSE 0)
    /\ UNCHANGED <<live, edges, stack>>

UnrootStep ==
    /\ Does("unroot") \/ Does("unroot1")
    /\ roots' = Front(roots)
    /\ upvalueRoots' = upvalueRoots - (IF step.do = "unroot" THEN 1 ELSE 0)
    /\ UNCHANGED <<live, edges, stack>>

\* manifest_toml_table adds to the third entry
AddRootStep ==
    /\ Does("addroot") /\ Follows
    /\ roots' = [roots EXCEPT ![3] = @ \cup step.of]
    /\ UNCHANGED <<live, edges, stack, upvalueRoots>>

\* Code runs until the call returns.  It may collect; what was pushed for it is
\* still on the stack then, unless a tail call has replaced its frame.
CallReturns ==
    /\ Does("call") /\ Follows
    /\ \E after \in {live, Survivors(step.of), Survivors({})} : live' = after \cup {step.gives}
    /\ edges' = Rebound(step.gives)
    /\ Bind(step.gives)
    /\ UNCHANGED upvalueRoots

\* It fails: the brackets whose pop the error path makes are ended
CallFails ==
    /\ outcome = "running" /\ rest # << >> /\ step.do = "call" /\ Follows
    /\ roots' = SubSeq(roots, 1, Len(roots) - step.pops - step.singles)
    /\ upvalueRoots' = upvalueRoots - step.pops
    /\ outcome' = "error"
    /\ rest' = << >>
    /\ UNCHANGED <<handler, live, edges, stack>>

\* A handle is followed whose cell has been removed: the process panics, or
\* reads a cell that has been allocated there since
FollowStale ==
    /\ outcome = "running" /\ rest # << >>
    /\ \/ step.do \in {"use", "new", "put", "memoize", "push", "call", "addroot"} /\ ~Follows
       \/ step.do \in {"put", "memoize"} /\ step.gives \notin live
    /\ outcome' = "stale"
    /\ UNCHANGED <<handler, rest, live, edges, stack, roots, upvalueRoots>>

Finish ==
    /\ outcome = "running" /\ rest = << >>
    /\ outcome' = "done"
    /\ UNCHANGED <<handler, rest, live, edges, stack, roots, upvalueRoots>>

Next ==
    \/ UseStep \/ AllocateStep \/ StoreStep \/ CollectStep
    \/ PushStep \/ PopStep \/ RootStep \/ UnrootStep \/ AddRootStep
    \/ CallReturns \/ CallFails \/ FollowStale \/ Finish

Spec == Init /\ [][Next]_vars

----------------------------------------------------------------------------
\* No native function follows a handle that a collection within one of its calls
\* may have freed, and its result is there when the next opcode takes it: but for
\* the functions known to do so, and those known to store a result into the thunk
\* it belongs to, when no root holds the thunk.
HandlesLive ==
    /\ outcome = "stale" =>
           handler \in Unprotected \/ (handler \in LosesThunks /\ step.do = "memoize")
    /\ outcome = "done" => UNION ToSet(stack) \subseteq live

\* A native function ends as many brackets as it has opened, on both root stacks,
\* whether it returns or a call in the middle of it fails: but for those known to
\* leave roots behind on an error.
BracketsBalanced ==
    /\ outcome = "done" => roots = << >> /\ upvalueRoots = 0
    /\ outcome = "error" /\ handler \notin LeavesBrackets => roots = << >> /\ upvalueRoots = 0

=============================================================================
