------------------------------ MODULE Upvalues ------------------------------
(***************************************************************************)
(* Variables on the stack of the virtual machine and the upvalues of the   *)
(* closures that capture them (src/src/virtual_machine.rs), as the code    *)
(* the compiler emits uses them.                                           *)
(*                                                                         *)
(* A variable lives in a stack slot.  A closure that captures it holds an  *)
(* upvalue, which is open while the slot exists and points to it; then it  *)
(* is closed and holds the value itself.  Locals are removed from below    *)
(* the result of their scope, frames are reused by tail calls, evaluating  *)
(* a thunk runs frames on top of a read that is to be written back, and an *)
(* import runs a second machine with a stack of its own on the same heap.  *)
(*                                                                         *)
(* Positions count from 1.  The next pointers of the open list are the     *)
(* sequence `open'.  Field `who' of a slot, `of' of an upvalue, forcing    *)
(* and seen are history: they say which variable of the program is meant   *)
(* and take no part in what the machine does.                              *)
(***************************************************************************)
EXTENDS Integers, Sequences, FiniteSets

CONSTANTS
    Var,            \* variables of the program, one for each activation
    Plain,          \* values that are no closures
    Closure,        \* handles of closures, thunks among them
    Up,             \* handles of upvalues
    Nobody,         \* the variable of a temporary; the closure of a script
    Unset,          \* Null or Uninitialized in a slot declared ahead of its value
    Invalid,        \* the error of a read past the end of the stack
    ScriptTailCall, \* files that are imported make a tailstrict call at top level
    MaxStack,       \* bound: slots of one stack
    MaxFrames,      \* bound: frames of one machine
    MaxMachines,    \* bound: machines, one for every import in progress
    MaxParams       \* bound: parameters of a function

ASSUME MarkersAssumption ==
    /\ Nobody \notin Var \cup Closure \cup Plain /\ Nobody # Unset /\ Plain \cap Closure = {}
    /\ Unset \notin Plain \cup Closure /\ Invalid \notin Plain \cup Closure
    /\ Unset # Invalid /\ ScriptTailCall \in BOOLEAN
ASSUME BoundsAssumption ==
    /\ MaxStack \in Nat /\ MaxFrames \in Nat /\ MaxMachines \in Nat /\ MaxParams \in Nat

VARIABLES
    stack,      \* the stack of the running machine
    frames,     \* its frames
    open,       \* its open_upvalues list
    suspended,  \* the machines waiting for an import
    upvalue,    \* the upvalue cells made so far
    env,        \* the closures made so far: their upvalues
    thunks,     \* the closures that are thunks
    phase,      \* where the code that ends the scope of a local has got to
    forcing,    \* variables whose thunk is being evaluated
    seen        \* the last variable read, and what was read

heapVars == <<upvalue, env, thunks>>
vars == <<stack, frames, open, suspended, heapVars, phase, forcing, seen>>

Value == Plain \cup Closure

Slot == [val : Value \cup {Unset}, who : Var \cup {Nobody}]

\* Where the result of a frame goes: to the stack, or back to the slot or the
\* upvalue it was read from.
Target == [to : {"stack", "slot", "upvalue"}, slot : Nat, up : Up \cup {Nobody}]

\* fixed: slots at the base that hold the closure and the parameters
Frame == [clo : Closure \cup {Nobody}, base : Nat, fixed : Nat, back : Target]

\* loc: stack_location, 0 for None; val: closed_value
Cell == [loc : Nat, val : Value \cup {Unset}, of : Var]

Machine == [stack : Seq(Slot), frames : Seq(Frame), open : Seq(Up)]

TypeOK ==
    /\ stack \in Seq(Slot) /\ frames \in Seq(Frame) /\ open \in Seq(Up)
    /\ suspended \in Seq(Machine)
    /\ DOMAIN upvalue \subseteq Up /\ upvalue \in [DOMAIN upvalue -> Cell]
    /\ DOMAIN env \subseteq Closure /\ env \in [DOMAIN env -> SUBSET DOMAIN upvalue]
    /\ thunks \subseteq DOMAIN env
    /\ phase \in {"run", "swapped", "closed"}
    /\ forcing \in Seq(Var)
    /\ seen \in {<<>>} \cup (Var \X (Value \cup {Invalid}))

----------------------------------------------------------------------------
(* Stacks and frames. *)

Front(s) == SubSeq(s, 1, Len(s) - 1)
Top == stack[Len(stack)]
Current == frames[Len(frames)]
Room(n) == Len(stack) + n <= MaxStack

Temp(x) == [val |-> x, who |-> Nobody]
Push(x) == stack' = Append(stack, Temp(x))

\* The first slot above the closure and the parameters of the running frame
Above == Current.base + Current.fixed
Temporary(i) == i >= Above /\ stack[i].who = Nobody
Locals == {i \in Current.base .. Len(stack) : stack[i].who # Nobody}

Slots(s) == {s[i] : i \in 1 .. Len(s)}
AllSlots == Slots(stack) \cup UNION {Slots(suspended[m].stack) : m \in 1 .. Len(suspended)}
Cells == {upvalue[u] : u \in DOMAIN upvalue}

\* Variables no activation has taken yet, nor left behind in an upvalue
Unused == Var \ ({s.who : s \in AllSlots} \cup {c.of : c \in Cells})

ToStack == [to |-> "stack", slot |-> 0, up |-> Nobody]
Script == [clo |-> Nobody, base |-> 1, fixed |-> 0, back |-> ToStack]

Init ==
    /\ stack = <<>> /\ frames = <<Script>> /\ open = <<>> /\ suspended = <<>>
    /\ upvalue = <<>> /\ env = <<>> /\ thunks = {}
    /\ phase = "run" /\ forcing = <<>> /\ seen = <<>>

----------------------------------------------------------------------------
(* The open list. *)

\* Where a walk of the list stops that is looking for location l
Walk(l) ==
    CHOOSE i \in 1 .. Len(open) + 1 :
        /\ \A j \in 1 .. i - 1 : upvalue[open[j]].loc > l
        /\ i <= Len(open) => upvalue[open[i]].loc <= l

\* Mutants: an upvalue is never shared; a new one always goes to the head
Existing_Never(l) == FALSE
InsertAt_Head(i, u) == <<u>> \o open

\* capture_upvalue: the upvalue of this location, or a new one put in its place
Existing(l) == Walk(l) <= Len(open) /\ upvalue[open[Walk(l)]].loc = l

InsertAt(i, u) == SubSeq(open, 1, i - 1) \o <<u>> \o SubSeq(open, i, Len(open))

CaptureUpvalue(l, u) ==
    IF Existing(l)
    THEN u = open[Walk(l)] /\ UNCHANGED <<open, upvalue>>
    ELSE /\ u \in Up \ DOMAIN upvalue
         /\ open' = InsertAt(Walk(l), u)
         /\ upvalue' = [w \in DOMAIN upvalue \cup {u} |->
                          IF w = u THEN [loc |-> l, val |-> Unset, of |-> stack[l].who]
                                   ELSE upvalue[w]]

\* Mutants: nothing is closed; only slots above n are
Closing_None(n) == {}
Closing_Above(n) == {open[i] : i \in 1 .. Walk(n) - 1}

\* close_upvalues: from the head of the list, the upvalues of slots at or above
\* n take their values from the stack
Closing(n) == {open[i] : i \in 1 .. Walk(n - 1) - 1}

Closed(c) == [c EXCEPT !.loc = 0, !.val = stack[c.loc].val]

CloseUpvalues(n) ==
    /\ upvalue' = [u \in DOMAIN upvalue |->
                     IF u \in Closing(n) THEN Closed(upvalue[u]) ELSE upvalue[u]]
    /\ open' = SubSeq(open, Walk(n - 1), Len(open))

\* Mutant: upvalues do not follow the slots that are swapped
SwapUpvalues_None(a, b) == UNCHANGED upvalue

\* swap_upvalues, for the list of open upvalues
Swapped(l, a, b) == IF l = a THEN b ELSE IF l = b THEN a ELSE l

SwapUpvalues(a, b) ==
    upvalue' = [u \in DOMAIN upvalue |->
                  IF \E i \in 1 .. Len(open) : open[i] = u
                  THEN [upvalue[u] EXCEPT !.loc = Swapped(@, a, b)]
                  ELSE upvalue[u]]

----------------------------------------------------------------------------
(* Straight-line code. *)

PushConst(x) ==
    /\ phase = "run" /\ Room(1)
    /\ Push(x)
    /\ UNCHANGED <<frames, open, suspended, heapVars, phase, forcing, seen>>

\* an operator consumes a temporary
PopTemp ==
    /\ phase = "run"
    /\ stack # <<>> /\ Temporary(Len(stack))
    /\ stack' = Front(stack)
    /\ UNCHANGED <<frames, open, suspended, heapVars, phase, forcing, seen>>

\* LoadNull for a local whose initialiser comes later
DeclareLocal(v) ==
    /\ phase = "run" /\ Room(1)
    /\ v \in Unused
    /\ stack' = Append(stack, [val |-> Unset, who |-> v])
    /\ UNCHANGED <<frames, open, suspended, heapVars, phase, forcing, seen>>

\* StoreVar: an initialiser, or the default of a parameter that got no argument
StoreVar(i) ==
    /\ phase = "run"
    /\ i \in Locals /\ stack[i].val = Unset
    /\ Temporary(Len(stack))
    /\ stack' = [Front(stack) EXCEPT ![i].val = Top.val]
    /\ UNCHANGED <<frames, open, suspended, heapVars, phase, forcing, seen>>

\* Closure and MakeThunk: at most one local of the running frame is captured
\* (bound: closures over more are not made), with any upvalues of its closure.
Inherited == IF Current.clo = Nobody THEN {} ELSE env[Current.clo]

MakeClosure(c, thunk, us) ==
    /\ phase = "run" /\ Room(1)
    /\ c \in Closure \ DOMAIN env
    /\ \E captured \in {{}} \cup {{u} : u \in Up} :
          /\ \/ captured = {} /\ UNCHANGED <<open, upvalue>>
             \/ \E i \in Locals, u \in Up : captured = {u} /\ CaptureUpvalue(i, u)
          /\ env' = [d \in DOMAIN env \cup {c} |-> IF d = c THEN us \cup captured ELSE env[d]]
    /\ thunks' = IF thunk THEN thunks \cup {c} ELSE thunks
    /\ Push(c)
    /\ UNCHANGED <<frames, suspended, phase, forcing, seen>>

----------------------------------------------------------------------------
(* Reading variables. *)

\* A thunk is run in a frame on top; what it returns is pushed and written back.
ForceThunk(c, back, v) ==
    /\ Room(1) /\ Len(frames) < MaxFrames
    /\ Push(c)
    /\ frames' = Append(frames, [clo |-> c, base |-> Len(stack) + 1, fixed |-> 1, back |-> back])
    /\ forcing' = Append(forcing, v)
    /\ UNCHANGED seen

\* A variable v has value x; it came from where back says.
ReadVariable(v, x, back) ==
    /\ phase = "run" /\ Room(1)
    /\ IF x \in thunks
       THEN ForceThunk(x, back, v)
       ELSE /\ Push(x)
            /\ seen' = <<v, x>>
            /\ UNCHANGED <<frames, forcing>>
    /\ UNCHANGED <<open, suspended, heapVars, phase>>

LoadVar(i) ==
    /\ i \in Locals /\ stack[i].val # Unset
    /\ ReadVariable(stack[i].who, stack[i].val, [to |-> "slot", slot |-> i, up |-> Nobody])

\* An open upvalue is read from the stack of the machine that runs now.
UpvalueValue(c) ==
    IF c.loc = 0 THEN c.val
    ELSE IF c.loc <= Len(stack) THEN stack[c.loc].val ELSE Invalid

GetUpvalue(u) ==
    LET c == upvalue[u]
    IN /\ UpvalueValue(c) # Unset
       /\ ReadVariable(c.of, UpvalueValue(c),
             IF c.loc = 0 THEN [to |-> "upvalue", slot |-> 0, up |-> u]
                          ELSE [to |-> "slot", slot |-> c.loc, up |-> Nobody])

----------------------------------------------------------------------------
(* The end of the scope of a local, below the result of the scope: Swap,   *)
(* CloseUpvalue if the local is captured anywhere, Pop.                    *)

SwapResult ==
    LET n == Len(stack)
    IN /\ phase = "run" /\ phase' = "swapped"
       /\ n > Above /\ Temporary(n) /\ n - 1 \in Locals
       /\ stack' = [stack EXCEPT ![n - 1] = stack[n], ![n] = stack[n - 1]]
       /\ SwapUpvalues(n - 1, n)
       /\ UNCHANGED <<frames, open, suspended, env, thunks, forcing, seen>>

CloseLocal ==
    /\ phase = "swapped" /\ phase' = "closed"
    /\ CloseUpvalues(Len(stack))
    /\ UNCHANGED <<stack, frames, suspended, env, thunks, forcing, seen>>

\* CloseUpvalue is left out only for a local no closure in its scope mentions.
PopLocal ==
    /\ \/ phase = "closed"
       \/ phase = "swapped" /\ \A u \in DOMAIN upvalue : upvalue[u].of # Top.who
    /\ phase' = "run"
    /\ stack' = Front(stack)
    /\ UNCHANGED <<frames, open, suspended, heapVars, forcing, seen>>

----------------------------------------------------------------------------
(* Calls. *)

\* The callee and k arguments are on top of the stack; some optional parameters
\* get no argument.  Their slots, with the variables they become:
Callable(k) ==
    /\ phase = "run"
    /\ Len(stack) > k
    /\ \A i \in Len(stack) - k .. Len(stack) : Temporary(i)
    /\ stack[Len(stack) - k].val \in DOMAIN env \ thunks

Injections(S, n) == {f \in [1 .. n -> S] : \A i, j \in 1 .. n : f[i] = f[j] => i = j}

Activation(k, params) ==
    [j \in 1 .. Len(params) + 1 |->
        IF j = 1 THEN stack[Len(stack) - k]
        ELSE [val |-> IF j <= k + 1 THEN stack[Len(stack) - k + j - 1].val ELSE Unset,
              who |-> params[j - 1]]]

Call(k, params) ==
    LET base == Len(stack) - k
    IN /\ Callable(k)
       /\ k <= Len(params) /\ Room(Len(params) - k)
       /\ Len(frames) < MaxFrames
       /\ stack' = SubSeq(stack, 1, base - 1) \o Activation(k, params)
       /\ frames' = Append(frames, [clo |-> stack[base].val, base |-> base,
                                    fixed |-> Len(params) + 1, back |-> ToStack])
       /\ UNCHANGED <<open, suspended, heapVars, phase, forcing, seen>>

\* TailCall: arguments are forced before; the variables of the frame leave, the
\* callee takes over the frame.
TailCall(k, params) ==
    LET base == Current.base
        callee == stack[Len(stack) - k].val
    IN /\ Callable(k)
       /\ k <= Len(params) /\ Room(Len(params) - k)
       /\ \A i \in Len(stack) - k + 1 .. Len(stack) : stack[i].val \notin thunks
       /\ Len(frames) > 1 \/ suspended = <<>> \/ ScriptTailCall
       /\ CloseUpvalues(base)
       /\ stack' = SubSeq(stack, 1, base - 1) \o Activation(k, params)
       /\ frames' = [frames EXCEPT ![Len(frames)].clo = callee,
                                   ![Len(frames)].fixed = Len(params) + 1]
       /\ UNCHANGED <<suspended, env, thunks, phase, forcing, seen>>

\* The result of a body is all there is above the parameters, and it is no thunk.
BodyDone ==
    /\ phase = "run"
    /\ Len(stack) = Above /\ Temporary(Len(stack))
    /\ Top.val \notin thunks

\* A result that was forced goes back to where the thunk was read and is pushed.
WriteBack(back, rest, x) ==
    /\ stack' = Append(IF back.to = "slot" THEN [rest EXCEPT ![back.slot].val = x] ELSE rest,
                       Temp(x))
    /\ forcing' = Front(forcing)
    /\ seen' = <<forcing[Len(forcing)], x>>

Return ==
    LET base == Current.base
        back == Current.back
        rest == SubSeq(stack, 1, base - 1)
    IN /\ BodyDone /\ Len(frames) > 1
       /\ frames' = Front(frames)
       /\ open' = SubSeq(open, Walk(base - 1), Len(open))
       /\ upvalue' = [u \in DOMAIN upvalue |->
                        IF u \in Closing(base) THEN Closed(upvalue[u])
                        ELSE IF back.to = "upvalue" /\ back.up = u
                             THEN [upvalue[u] EXCEPT !.val = Top.val]
                             ELSE upvalue[u]]
       /\ IF back.to = "stack"
          THEN stack' = Append(rest, Temp(Top.val)) /\ UNCHANGED <<forcing, seen>>
          ELSE WriteBack(back, rest, Top.val)
       /\ UNCHANGED <<suspended, env, thunks, phase>>

----------------------------------------------------------------------------
(* Imports. *)

\* Mutant: the new machine starts with the open list of the importer
Import_KeepsOpenList ==
    /\ phase = "run" /\ Room(1)
    /\ Len(suspended) + 1 < MaxMachines
    /\ suspended' = Append(suspended, [stack |-> stack, frames |-> frames, open |-> open])
    /\ stack' = <<>> /\ frames' = <<Script>>
    /\ UNCHANGED <<open, heapVars, phase, forcing, seen>>

\* A machine for the file starts with an empty stack; the importer waits.
Import ==
    /\ phase = "run" /\ Room(1)
    /\ Len(suspended) + 1 < MaxMachines
    /\ suspended' = Append(suspended, [stack |-> stack, frames |-> frames, open |-> open])
    /\ stack' = <<>> /\ frames' = <<Script>> /\ open' = <<>>
    /\ UNCHANGED <<heapVars, phase, forcing, seen>>

\* Return of a script: the value is handed over and the machine is dropped with
\* its stack.
ScriptReturn ==
    LET m == suspended[Len(suspended)]
    IN /\ BodyDone /\ Len(frames) = 1 /\ suspended # <<>>
       /\ stack' = Append(m.stack, Temp(Top.val))
       /\ frames' = m.frames /\ open' = m.open
       /\ suspended' = Front(suspended)
       /\ UNCHANGED <<heapVars, phase, forcing, seen>>

Next ==
    \/ \E x \in Plain : PushConst(x)
    \/ PopTemp
    \/ \E v \in Var : DeclareLocal(v)
    \/ \E i \in 1 .. MaxStack : StoreVar(i) \/ LoadVar(i)
    \/ \E c \in Closure, thunk \in BOOLEAN, us \in SUBSET Inherited : MakeClosure(c, thunk, us)
    \/ \E u \in Inherited : GetUpvalue(u)
    \/ SwapResult \/ CloseLocal \/ PopLocal
    \/ \E k, n \in 0 .. MaxParams : \E params \in Injections(Unused, n) :
          Call(k, params) \/ TailCall(k, params)
    \/ Return
    \/ Import \/ ScriptReturn

Spec == Init /\ [][Next]_vars

----------------------------------------------------------------------------
(* Properties. *)

\* The open list is sorted by location, highest first, without repetition:
\* capture_upvalue and close_upvalues stop walking it at the first lower one.
OpenListSorted ==
    phase = "run" =>
        \A i, j \in 1 .. Len(open) : i < j => upvalue[open[i]].loc > upvalue[open[j]].loc

\* Closures over one variable share one upvalue, so that a variable is
\* initialised and its thunk replaced for all of them.
OneUpvaluePerVariable ==
    \A u, w \in DOMAIN upvalue : upvalue[u].of = upvalue[w].of => u = w

\* An open upvalue points to the slot of its variable, on the stack of the
\* machine that will close it.
OpenUpvaluesOnTheirStack ==
    \A u \in DOMAIN upvalue : upvalue[u].loc # 0 =>
        \E m \in {[stack |-> stack, open |-> open]} \cup
                 {[stack |-> suspended[i].stack, open |-> suspended[i].open] :
                     i \in 1 .. Len(suspended)} :
            /\ \E i \in 1 .. Len(m.open) : m.open[i] = u
            /\ upvalue[u].loc \in 1 .. Len(m.stack)
            /\ m.stack[upvalue[u].loc].who = upvalue[u].of

(***************************************************************************)
(* What a program sees: captured variables keep their values.              *)
(***************************************************************************)
Gone == Nobody

Holding(v) == {s \in AllSlots : s.who = v}
ClosedOver(v) == {c \in Cells : c.of = v /\ c.loc = 0}

ValueOf(v) ==
    IF Holding(v) # {} THEN (CHOOSE s \in Holding(v) : TRUE).val
    ELSE IF ClosedOver(v) # {} THEN (CHOOSE c \in ClosedOver(v) : TRUE).val
    ELSE Gone

Program == INSTANCE Scopes WITH
    bound <- [v \in Var |-> ValueOf(v)],
    captured <- {c.of : c \in Cells}

\* Every run of the machine is a run of Scopes: each read of a variable, by slot
\* or through an upvalue, by the function that declared it, by closures that
\* outlive it or from another file, gives the value it has there.
CapturesKeepValues == Program!Spec

=============================================================================
