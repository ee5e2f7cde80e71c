------------------------------ MODULE Compiler ------------------------------
(***************************************************************************)
(* The single-pass compiler (src/src/compiler.rs): a Pratt parser that      *)
(* emits bytecode as it reads and keeps, beside the code, a model of the    *)
(* run-time stack of the function it is in: the locals with their slots,    *)
(* the number of anonymous temporaries, a stack of expression types, the    *)
(* upvalues, and the same of every enclosing function.                      *)
(*                                                                          *)
(* A program is generated while it is compiled: wherever the parser looks   *)
(* at the next token, an action chooses it.  The Rust call stack is `todo', *)
(* the steps that the handlers still have to do.  A step is an expression   *)
(* to parse, or an effect on the compiler state (Exec).  Each function      *)
(* under compilation also has the stack that its code will really have at   *)
(* run time at this point (`stack', a sequence of sets of kinds of values): *)
(* the properties compare the compiler's bookkeeping with it.               *)
(*                                                                          *)
(* Left out: the text of tokens, spans, the constant pool, and the fusion   *)
(* of a constant operand into AddConst and ConcatConst, which does to the   *)
(* stack what the two opcodes do.  A rejected program ends the compilation: *)
(* only accepted ones are generated.                                        *)
(***************************************************************************)
EXTENDS Integers, Sequences, FiniteSets, SequencesExt

CONSTANTS Names,      \* identifiers that programs bind
          Params,     \* the parameter lists, sequences of [name, default]
          Bindings,   \* the lists bound by a local, of [name, fun]
          ForLists,   \* the clauses of comprehensions, of [name, hoist]
          Leaves,     \* the prefix forms without a part that are used
          Forms,      \* the composite forms that are used
          MaxForms,   \* bound: composite forms in a program
          MaxReads,   \* bound: names read in a program
          MaxItems,   \* bound: arguments, elements, members in one form
          KeysBind,   \* whether a computed key may itself bind variables
          TailMore    \* whether a tailstrict call may be an operand

(* A required parameter cannot follow one with a default.  A function       *)
(* binding has its parameter list in fun, a value has none.  A clause with  *)
(* the name "" is an if; hoist says that the source of the next clause does *)
(* not name the variable of this one, so that it is evaluated before the    *)
(* loop.  A name is declared once in a list.                                *)
Once(list) == \A i, j \in DOMAIN list : i # j => list[i].name # list[j].name

IsParameterList(ps) ==
  /\ ps \in Seq([name : Names, default : BOOLEAN]) /\ Once(ps)
  /\ \A i, j \in DOMAIN ps : i < j /\ ps[i].default => ps[j].default
IsBindingList(bs) ==
  bs \in Seq([name : Names, fun : {{}} \cup {{ps} : ps \in Params}]) /\ Once(bs)
IsClauseList(cs) ==
  /\ cs \in Seq([name : Names \cup {""}, hoist : BOOLEAN])
  /\ cs # <<>> /\ cs[1].name # ""
  /\ \A i \in DOMAIN cs :
       cs[i].hoist => cs[i].name # "" /\ i < Len(cs) /\ cs[i + 1].name # ""

ASSUME ListsAssumption ==
  /\ \A ps \in Params : IsParameterList(ps)
  /\ \A bs \in Bindings : IsBindingList(bs)
  /\ \A cs \in ForLists : IsClauseList(cs)

ASSUME BoundsAssumption ==
  /\ MaxForms \in Nat /\ MaxReads \in Nat /\ MaxItems \in Nat
  /\ Leaves \subseteq {"number", "string", "literal", "import", "self", "std",
                      "baresuper", "superfield"}

VARIABLES fns,        \* enclosing functions, the one being compiled last
          todo,       \* what the active handlers have still to do
          tail,       \* in_tail_position
          depth,      \* object_depth
          forms,      \* composite forms generated
          reads,      \* names read
          roots,      \* external_roots pushed by compile_function_body
          limit,      \* an operator that binds tighter would have been taken
          faults      \* history: what went wrong in the emitted code

vars == <<fns, todo, tail, depth, forms, reads, roots, limit, faults>>

(***************************************************************************)
(* Static types and kinds of values                                         *)
(***************************************************************************)
(* Array, Boolean and Null are pushed but never tested: they count as       *)
(* Unknown.  The kind "gone" marks the value of a tail call: the frame has  *)
(* been given up, nothing after it in the function runs.                    *)
Types == {"String", "Number", "Object", "Std", "Native", "Unknown"}
Kinds == {"str", "num", "obj", "std", "nat", "oth", "gone"}
AnyKind == Kinds \ {"gone"}

PlusKind(a, b) ==
  (IF "str" \in a \cup b THEN {"str"} ELSE {})
    \cup (IF "num" \in a \cap b THEN {"num"} ELSE {})
    \cup (IF "obj" \in a \cap b THEN {"obj"} ELSE {})
    \cup (IF "oth" \in a \cap b THEN {"oth"} ELSE {})

(***************************************************************************)
(* Binding powers                                                           *)
(***************************************************************************)
Postfix == 90
Unary   == 80
Tightest == 100

LeftPower ==
  [mul |-> 60, plus |-> 50, shift |-> 45, compare |-> 40, equal |-> 35,
   bitand |-> 30, bitxor |-> 25, bitor |-> 20, and |-> 15, or |-> 10]

RightPower(op) == LeftPower[op] + 1

(***************************************************************************)
(* Functions under compilation                                              *)
(***************************************************************************)
(* keys is a ghost: while a computed key is parsed, the object it belongs   *)
(* to is on the stack and the compiler does not count it.                   *)
NewFunction ==
  [locals |-> <<>>, scope |-> 0, anon |-> 0, types |-> <<>>, ups |-> <<>>,
   stack |-> <<>>, jumps |-> <<>>, keys |-> 0]

(* stack is the ghost: its height is the real position of what comes next   *)
CurIn(fs) == fs[Len(fs)]
Cur == CurIn(fns)

Push(f, k)     == [f EXCEPT !.stack = Append(@, k)]
Drop(f, n)     == [f EXCEPT !.stack = SubSeq(@, 1, Len(@) - n)]
TopOf(f, n)    == SubSeq(f.stack, Len(f.stack) - n + 1, Len(f.stack))
LastType(f)    == IF f.types = <<>> THEN "Unknown" ELSE Last(f.types)
PopTypes(f, n) ==
  [f EXCEPT !.types = SubSeq(@, 1, IF Len(@) > n THEN Len(@) - n ELSE 0)]
PushType(f, t) == [f EXCEPT !.types = Append(@, t)]

(* declare_local: the slot counts the locals and the anonymous temporaries; *)
(* pos is where the value really is, on top of the stack.                   *)
declare_local(f, name) ==
  [f EXCEPT !.locals = Append(@, [name |-> name, scope |-> f.scope,
                                  slot |-> Len(f.locals) + f.anon,
                                  pos  |-> Len(f.stack) - 1])]

begin_scope(f) == [f EXCEPT !.scope = @ + 1]

(* end_scope: from the last local on, a Swap and a Pop for every local of   *)
(* the scope, which leave the result where the first of them was.           *)
Kept(locals, scope) ==
  CHOOSE m \in 0..Len(locals) :
    /\ m > 0 => locals[m].scope # scope
    /\ \A i \in (m + 1)..Len(locals) : locals[i].scope = scope
end_scope(f) ==
  LET n     == Len(f.locals) - Kept(f.locals, f.scope)
      below == SubSeq(f.stack, 1, Len(f.stack) - 1 - n)
  IN  [f EXCEPT !.locals = SubSeq(@, 1, Len(@) - n),
                !.stack  = Append(below, Last(f.stack)),
                !.scope  = @ - 1]

(***************************************************************************)
(* Names: locals, then the chain of upvalues                                *)
(***************************************************************************)
Holding(f, name) == {i \in DOMAIN f.locals : f.locals[i].name = name}
\* Mutant: the locals are searched from the outermost scope
Innermost_First(f, name) ==
  f.locals[CHOOSE i \in Holding(f, name) :
             \A j \in Holding(f, name) : i <= j]
Innermost(f, name) ==
  f.locals[CHOOSE i \in Holding(f, name) :
             \A j \in Holding(f, name) : j <= i]

resolve_local(f, name) == Holding(f, name) # {}

(* The innermost enclosing function (below level n) that declares the name  *)
Definer(fs, n, name) ==
  LET D == {k \in 1..(n - 1) : resolve_local(fs[k], name)}
  IN  IF D = {} THEN 0 ELSE CHOOSE k \in D : \A j \in D : j <= k

InScope(fs, name) ==
  resolve_local(CurIn(fs), name) \/ Definer(fs, Len(fs), name) # 0

(* add_upvalue of a function: an equal descriptor is used again             *)
UpIndex(ups, d) ==
  IF d \in ToSet(ups) THEN (CHOOSE i \in DOMAIN ups : ups[i] = d) - 1
                      ELSE Len(ups)
add_upvalue(ups, d) == IF d \in ToSet(ups) THEN ups ELSE Append(ups, d)

(* resolve_upvalue: the function right inside the definer captures its      *)
(* local by slot, each further one captures the upvalue of the one around   *)
(* it.  The result is the chain with its new upvalues.                      *)
\* Mutant: a local is captured by its place among the locals
Descriptors_ByIndex(fs, name) ==
  LET d == Definer(fs, Len(fs), name)
      desc[k \in (d + 1)..Len(fs)] ==
        IF k = d + 1
        THEN [local |-> TRUE, index |-> Cardinality({l \in DOMAIN fs[d].locals :
                                        fs[d].locals[l].name # name})]
        ELSE [local |-> FALSE, index |-> UpIndex(fs[k - 1].ups, desc[k - 1])]
  IN  desc
Descriptors(fs, name) ==
  LET d == Definer(fs, Len(fs), name)
      desc[k \in (d + 1)..Len(fs)] ==
        IF k = d + 1
        THEN [local |-> TRUE, index |-> Innermost(fs[d], name).slot]
        ELSE [local |-> FALSE, index |-> UpIndex(fs[k - 1].ups, desc[k - 1])]
  IN  desc
UpvalueOf(fs, name) == UpIndex(CurIn(fs).ups, Descriptors(fs, name)[Len(fs)])
resolve_upvalue(fs, name) ==
  LET desc == Descriptors(fs, name)
  IN  [k \in DOMAIN fs |->
         IF k \in DOMAIN desc THEN [fs[k] EXCEPT !.ups = add_upvalue(@, desc[k])]
                               ELSE fs[k]]

(* Where an upvalue of the function at level n leads: a level and a         *)
(* position on the stack of that function.                                  *)
Leads(fs, n, i) ==
  LET at[k \in 1..n] ==
        [j \in DOMAIN fs[k].ups |->
           IF fs[k].ups[j].local THEN <<k - 1, fs[k].ups[j].index>>
           ELSE at[k - 1][fs[k].ups[j].index + 1]]
  IN  at[n][i]

Load(fs, name) ==
  LET cs == IF resolve_local(CurIn(fs), name) THEN fs
            ELSE resolve_upvalue(fs, name)
  IN  [cs EXCEPT ![Len(cs)] = Push(@, AnyKind)]

(***************************************************************************)
(* The steps of the handlers: <<name, argument...>>                         *)
(***************************************************************************)
(* An opcode that takes n operands and leaves a value of kinds k            *)
Op(n, k)      == <<<<"op", n, k>>>>
Value(k)      == <<<<"op", 0, k>>>>
Discard(n)    == <<<<"drop", n>>>>
Anon(d)       == <<<<"anon", d>>>>
PushT(t)      == <<<<"tpush", t>>>>
Typed(k, t)   == Value(k) \o PushT(t)
PopT(n)       == <<<<"tpop", n>>>>
Declare(x)    == <<<<"declare", x>>>>
Store(x)      == <<<<"store", x>>>>
LoadName(x)   == <<<<"load", x>>>>
BeginScope    == <<<<"begin_scope">>>>
EndScope      == <<<<"end_scope">>>>
JumpIf        == <<<<"jumpif">>>>
OtherBranch   == <<<<"jump">>>>
Join          == <<<<"join">>>>
Expr(bp)      == <<<<"expr", bp>>>>
SetTail(b)    == <<<<"tail", b>>>>
Close         == <<<<"close">>>>   \* a closing bracket is consumed
Uncounted(d)  == <<<<"key", d>>>>
Root(d)       == <<<<"root", d>>>>
Depth(d)      == <<<<"depth", d>>>>
StartFunction == <<<<"begin_function">>>>
EndsAs(made)  == <<<<"end_function">>>> \o <<<<made>>>>   \* a closure or a thunk
Mark          == <<<<"mark">>>>
Loop          == <<<<"loop">>>>
Save          == <<<<"save">>>>
Rollback      == <<<<"rollback">>>>
Members(bs, n) == <<<<"member", bs, n>>>>
DeclareDollar == <<<<"dollar">>>>
LoadSelf      == <<<<"self">>>>
AddTop        == <<<<"plus">>>>
Negate        == <<<<"unary">>>>

(* parse_expr_notail *)
NoTail(bp)    == SetTail(FALSE) \o Expr(bp) \o SetTail(tail)

OnCur(st, f) == [st EXCEPT !.fns[Len(st.fns)] = f]

(* JumpIfFalse takes the condition; the code at its target starts with the  *)
(* stack of this point.  An unconditional Jump followed by the target of    *)
(* the first one goes on with that stack and remembers this one.  At the    *)
(* end both ways must have the same height.                                 *)
JumpIfFalse(f) ==
  LET g == Drop(f, 1) IN [g EXCEPT !.jumps = Append(@, g.stack)]

SwapBranch(f) ==
  [f EXCEPT !.stack = Last(f.jumps),
            !.jumps = Append(Front(f.jumps), f.stack)]

JoinBranch(f) ==
  [f EXCEPT !.jumps = Front(@),
            !.stack = IF Len(@) # Len(Last(f.jumps)) THEN @
                      ELSE [i \in DOMAIN @ |-> @[i] \cup Last(f.jumps)[i]]]

(* begin_function: the state of the function is moved to the chain          *)
BeginFunction(st) == [st EXCEPT !.fns = Append(@, NewFunction)]
(* end_function: the enclosing function is current again                    *)
EndFunction(st) == [st EXCEPT !.fns = Front(@)]
(* emit_closure_with_params, emit_thunk: the closure or thunk is a value of *)
(* the enclosing function.                                                  *)
EmitClosure(f) == Push(f, {"oth"})
EmitThunk(f)   == Push(f, {"oth"})

StringConcat(f) == LastType(f) = "String" /\ LastType(PopTypes(f, 1)) = "String"

PlusType(l, r) ==
  IF "String" \in {l, r} THEN "String"
  ELSE IF l = "Number" /\ r = "Number" THEN "Number" ELSE "Unknown"

(* `+': the types of both operands are popped, whatever they are            *)
Plus(f) ==
  LET r == LastType(f)
      l == LastType(PopTypes(f, 1))
      v == TopOf(f, 2)
  IN  PushType(PopTypes(Push(Drop(f, 2), PlusKind(v[1], v[2])), 2), PlusType(l, r))

FaultIn(f, it) ==
  CASE it[1] = "op" ->
         IF \E k \in ToSet(TopOf(f, it[2])) : "gone" \in k THEN {"tail"} ELSE {}
    [] it[1] = "plus" ->
         (IF \E k \in ToSet(TopOf(f, 2)) : "gone" \in k THEN {"tail"} ELSE {})
         \cup (IF StringConcat(f) /\ ~(TopOf(f, 2)[1] \cup TopOf(f, 2)[2] \subseteq {"str"})
               THEN {"concat"} ELSE {})
    [] it[1] = "join" ->
         IF Len(Last(f.jumps)) # Len(f.stack) THEN {"join"} ELSE {}
    [] it[1] = "loop" ->
         IF Len(f.stack) # Len(f.jumps[Len(f.jumps) - 1]) THEN {"join"} ELSE {}
    [] it[1] = "end_function" ->
         IF Len(f.stack) # 1 \/ f.locals # <<>> \/ f.anon # 0 THEN {"join"} ELSE {}
    [] OTHER -> {}

(* Effects on the function being compiled *)
ExecLocal(f, it) ==
  CASE it[1] = "op"          -> Push(Drop(f, it[2]), it[3])
    [] it[1] = "drop"        -> Drop(f, it[2])
    [] it[1] = "key"         -> [f EXCEPT !.keys = @ + it[2]]
    [] it[1] = "closure"     -> EmitClosure(f)
    [] it[1] = "thunk"       -> EmitThunk(f)
    [] it[1] = "anon"        -> [f EXCEPT !.anon = @ + it[2]]
    [] it[1] = "tpush"       -> PushType(f, it[2])
    [] it[1] = "tpop"        -> PopTypes(f, it[2])
    [] it[1] = "unary"       -> PushType(PopTypes(f, 1),
                                  IF LastType(f) = "Number" THEN "Number" ELSE "Unknown")
    [] it[1] = "plus"        -> Plus(f)
    [] it[1] = "declare"     -> declare_local(f, it[2])
    [] it[1] = "store"       -> Drop([f EXCEPT !.stack[Innermost(f, it[2]).slot + 1] =
                                       Last(f.stack)], 1)
    [] it[1] = "begin_scope" -> begin_scope(f)
    [] it[1] = "end_scope"   -> end_scope(f)
    [] it[1] = "jumpif"      -> JumpIfFalse(f)
    [] it[1] = "jump"        -> SwapBranch(f)
    [] it[1] = "join"        -> JoinBranch(f)
    [] it[1] = "mark"        -> [f EXCEPT !.jumps = Append(@, f.stack)]
    [] it[1] = "loop"        -> [f EXCEPT !.stack = Last(f.jumps),
                                          !.jumps = SubSeq(@, 1, Len(@) - 2)]
    [] it[1] = "save"        -> [f EXCEPT !.jumps = @ \o <<f.types, f.stack>>]
    [] it[1] = "rollback"    -> [f EXCEPT !.stack = Last(f.jumps),
                                          !.types = f.jumps[Len(f.jumps) - 1],
                                          !.jumps = SubSeq(@, 1, Len(@) - 2)]

Exec(st0, it) ==
  LET f  == CurIn(st0.fns)
      st == [st0 EXCEPT !.faults = @ \cup FaultIn(f, it)]
  IN  CASE it[1] = "tail"           -> [st EXCEPT !.tail = it[2]]
        [] it[1] = "depth"          -> [st EXCEPT !.depth = @ + it[2]]
        [] it[1] = "root"           -> [st EXCEPT !.roots = @ + it[2]]
        [] it[1] = "close"          -> [st EXCEPT !.limit = Tightest]
        [] it[1] = "load"           -> [st EXCEPT !.fns = Load(@, it[2])]
        [] it[1] = "self"           ->
             IF InScope(st.fns, "<self>") THEN [st EXCEPT !.fns = Load(@, "<self>")]
             ELSE OnCur(st, Push(f, {"obj"}))
        [] it[1] = "dollar"         ->
             IF st.depth = 1
             THEN OnCur(st, declare_local(Push(f, {"obj"}), "$")) ELSE st
        [] it[1] = "begin_function" -> BeginFunction(st)
        [] it[1] = "end_function"   -> EndFunction(st)
        [] OTHER                    -> OnCur(st, ExecLocal(f, it))

(* The choices the parser makes on a token *)
Choice(it) == it[1] \in {"expr", "more", "member"}

(* Do what has to be done up to the next choice *)
RunFrom(st0, items) ==
  LET after[i \in 0..Len(items)] ==
        IF i = 0 THEN st0 ELSE Exec(after[i - 1], items[i])
  IN  after[Len(items)]

UpTo(items) ==
  CHOOSE n \in 0..Len(items) :
    /\ \A i \in 1..n : ~Choice(items[i])
    /\ n < Len(items) => Choice(items[n + 1])

Proceed(items, lim) ==
  \E all \in {items \o Tail(todo)} :
  \E n \in {UpTo(all)} :
  \E st \in {RunFrom([fns |-> fns, tail |-> tail, depth |-> depth, roots |-> roots,
                      limit |-> lim, faults |-> faults], SubSeq(all, 1, n))} :
    /\ todo'   = SubSeq(all, n + 1, Len(all))
    /\ fns'    = st.fns
    /\ tail'   = st.tail
    /\ depth'  = st.depth
    /\ roots'  = st.roots
    /\ limit'  = st.limit
    /\ faults' = st.faults

(* ... after a token *)
Continue(items) == Proceed(items, Tightest)

At(name) == todo # <<>> /\ todo[1][1] = name

(***************************************************************************)
(* Functions and thunks                                                     *)
(***************************************************************************)
Concat(seqs) == FlattenSeq(seqs)
Times(n, items) == Concat([i \in 1..n |-> items])
DeclareAll(list, k) ==
  Concat([i \in DOMAIN list |-> Value(k) \o Declare(list[i].name)])

(* The first local of a function is the closure itself, and one scope holds *)
(* it, the parameters and what they default to.                             *)
OpenFunction ==
  StartFunction \o BeginScope \o Value({"oth"}) \o Declare("<closure>")
CloseFunction(made) == EndScope \o EndsAs(made)

(* parse_expr_as_thunk; the right-hand side of a local is parsed without    *)
(* the change of in_tail_position.                                          *)
ThunkOf(body) ==
  OpenFunction \o body \o CloseFunction("thunk")
Thunk == ThunkOf(NoTail(0))

(* compile_function_body with its parameters, each with or without default: *)
(* BindDefault takes the value it tests, and jumps over the default.        *)
Parameters(ps) == DeclareAll(ps, AnyKind)
Default(p) ==
  IF ~p.default THEN <<>>
  ELSE LoadName(p.name) \o JumpIf \o Thunk \o Store(p.name) \o Join
FunctionBody(ps) ==
  Root(1) \o OpenFunction \o Parameters(ps)
    \o Concat([i \in DOMAIN ps |-> Default(ps[i])])
    \o SetTail(TRUE) \o Expr(0) \o SetTail(tail)
    \o CloseFunction("closure") \o Root(-1)

parse_function_expression(ps) == FunctionBody(ps) \o PushT("Unknown")

(***************************************************************************)
(* Statements: error, assert, if, local                                     *)
(***************************************************************************)
parse_error == Expr(0) \o Op(1, {}) \o PushT("Unknown")

Message(written) == IF written THEN NoTail(0) ELSE Value({"str"})

parse_assert_expression(msg) ==
  NoTail(0) \o PopT(1) \o JumpIf \o OtherBranch \o Message(msg)
    \o Op(1, {}) \o Discard(1) \o Join \o Expr(0) \o PushT("Unknown")

\* Mutant: the type of the last branch is the type of the whole
parse_if_expression_Typed(else) ==
  NoTail(0) \o PopT(1) \o JumpIf \o Expr(0) \o OtherBranch
    \o (IF else THEN Expr(0) ELSE Value({"oth"})) \o Join
parse_if_expression(else) ==
  NoTail(0) \o PopT(1) \o JumpIf \o Expr(0) \o OtherBranch
    \o (IF else THEN Expr(0) ELSE Value({"oth"})) \o Join \o PushT("Unknown")

(* All names are declared with null before the first right-hand side        *)
RightHandSide(b, body) ==
  (IF b.fun = {} THEN body ELSE FunctionBody(CHOOSE ps \in b.fun : TRUE))
    \o Store(b.name)

parse_local_statement(bs) ==
  BeginScope
    \o DeclareAll(bs, {"oth"})
    \o Concat([i \in DOMAIN bs |-> RightHandSide(bs[i], ThunkOf(Expr(0)))])
    \o Expr(0) \o EndScope \o PushT("Unknown")

(***************************************************************************)
(* Arrays and comprehensions                                                *)
(***************************************************************************)
parse_array_literal(n) ==
  Times(n, Thunk \o Anon(1))
    \o Anon(-n) \o PopT(n) \o Op(n, {"oth"}) \o Close \o PushT("Unknown")

(* One for clause around `inner'.  The source of the next clause is         *)
(* evaluated before the loop when it does not name the variable.            *)
ForClause(c, hoisted, hoist, inner) ==
  (IF hoisted THEN LoadName("__comp_hoisted_source") ELSE NoTail(0))
    \o BeginScope \o Declare("__comp_source")
    \o LoadName("__comp_source") \o Op(1, {"num"}) \o Declare("__comp_length")
    \o Value({"num"}) \o Declare("__comp_counter")
    \o (IF hoist THEN NoTail(0) \o Declare("__comp_hoisted_source") ELSE <<>>)
    \o Mark
    \o LoadName("__comp_counter") \o LoadName("__comp_length") \o Op(2, {"oth"})
    \o JumpIf
    \o LoadName("__comp_source") \o LoadName("__comp_counter") \o Op(2, AnyKind)
    \o BeginScope \o Declare(c.name) \o inner \o EndScope \o Discard(1)
    \o LoadName("__comp_counter") \o Value({"num"}) \o Op(2, {"num"})
    \o Store("__comp_counter") \o Loop \o Value({"oth"}) \o EndScope

IfClause(inner) ==
  NoTail(0) \o JumpIf \o inner \o OtherBranch \o Value({"oth"}) \o Join

(* emit_comprehension_clauses, emit_object_comprehension_clauses            *)
Clauses(cs, base) ==
  LET emit[i \in 1..(Len(cs) + 1)] ==
        IF i > Len(cs) THEN base
        ELSE IF cs[i].name = "" THEN IfClause(emit[i + 1])
        ELSE ForClause(cs[i], i > 1 /\ cs[i - 1].hoist, cs[i].hoist, emit[i + 1])
  IN  emit[1]

(* The body is appended to the result in place; its type stays              *)
parse_array_comprehension(cs) ==
  BeginScope \o Value({"oth"}) \o Declare("__comp_result")
    \o Clauses(cs, NoTail(0) \o Discard(1) \o Value({"oth"}))
    \o Discard(1) \o LoadName("__comp_result") \o EndScope \o Close \o PushT("Unknown")

(***************************************************************************)
(* Objects                                                                  *)
(***************************************************************************)
(* inject_object_locals: every field and every assertion compiles the       *)
(* locals of the object again, functions first.                             *)
Inject(bs) ==
  LET rhs(funs) == Concat([i \in DOMAIN bs |->
                     IF (bs[i].fun # {}) = funs THEN RightHandSide(bs[i], NoTail(0))
                                                ELSE <<>>])
  IN  DeclareAll(bs, {"oth"}) \o rhs(TRUE) \o rhs(FALSE)

(* The thunk of a member takes the object itself and what is above it       *)
MemberThunk(bs, dollar, body) ==
  OpenFunction
    \o Value({"obj"}) \o Declare("<self>")
    \o Value({"obj"}) \o Declare("<super>")
    \o (IF dollar THEN DeclareDollar ELSE <<>>) \o Inject(bs)
    \o body \o CloseFunction("closure")

(* An object assertion falls through to the error *)
ObjectAssert(bs, msg) ==
  MemberThunk(bs, FALSE,
    NoTail(0) \o JumpIf \o Message(msg) \o Op(1, {}) \o Discard(1) \o Join
      \o Value({"oth"}))
    \o Discard(1)

(* field+: value adds what is above the object, if it has the field         *)
AddSuper ==
  Value({"str"}) \o Op(1, {"oth"}) \o JumpIf
    \o Value({"str"}) \o Op(1, AnyKind) \o Op(2, AnyKind) \o Join

FieldValue(method, override) ==
  SetTail(~override)
    \o (IF method = {} THEN Expr(0) ELSE FunctionBody(CHOOSE ps \in method : TRUE))
    \o SetTail(tail) \o (IF override THEN AddSuper ELSE <<>>)

(* ObjectInsert takes the key and the thunk *)
Field(bs, method, override) ==
  MemberThunk(bs, TRUE, FieldValue(method, override)) \o PopT(1) \o Discard(2)

LiteralKey  == Value({"str"}) \o PushT("String")
ComputedKey == Uncounted(1) \o NoTail(0) \o Uncounted(-1)

parse_object_literal(bs) ==
  Depth(1) \o Value({"obj"}) \o Members(bs, MaxItems) \o Depth(-1)
empty_object == Value({"obj"})

(* The clauses of an object comprehension differ in what is inside only     *)
ObjectClauses(cs, base) == Clauses(cs, base)
ObjectBase(bs, computed) ==
  LoadName("__comp_result") \o (IF computed THEN ComputedKey ELSE LiteralKey)
    \o MemberThunk(bs, TRUE, NoTail(0)) \o PopT(1) \o Discard(2)
    \o Store("__comp_result") \o Value({"oth"})

parse_object_comprehension(cs, bs, computed) ==
  Depth(1) \o BeginScope \o Value({"obj"}) \o Declare("__comp_result")
    \o ObjectClauses(cs, ObjectBase(bs, computed))
    \o Discard(1) \o LoadName("__comp_result") \o EndScope
    \o Close \o Depth(-1)

(***************************************************************************)
(* Postfix and infix operators                                              *)
(***************************************************************************)
(* compile_slice_sugar: std.slice is put under the array, and each index    *)
(* that is left out is null.                                                *)
SliceIndex(written, n) ==
  IF written THEN Anon(n) \o NoTail(0) \o Anon(-n) ELSE Value({"oth"}) \o PushT("Unknown")
compile_slice_sugar(start, end, step) ==
  Value({"nat"}) \o PushT("Unknown")
    \o SliceIndex(start, 2) \o SliceIndex(end, 3) \o SliceIndex(step, 4)
    \o Close \o Op(5, AnyKind) \o PopT(5) \o PushT("Unknown")

(* e[i]; when a colon follows, the index is compiled a second time as the   *)
(* start of a slice, and what the first time emitted is undone.             *)
parse_index ==
  Anon(1) \o NoTail(0) \o Anon(-1) \o Close \o Op(2, AnyKind) \o PopT(2) \o PushT("Unknown")
parse_slice(start, end, step) ==
  (IF start THEN Save \o Anon(1) \o NoTail(0) \o Anon(-1) \o Rollback
   ELSE <<>>)
    \o compile_slice_sugar(start, end, step)

(* e.name; on std and stdExtended the name is resolved by the compiler      *)
parse_dot(std) ==
  IF LastType(Cur) = "Std"
  THEN PopT(1) \o Discard(1) \o (CASE std = "native" -> Typed({"nat"}, "Native")
                                   [] std = "pi"     -> Typed({"num"}, "Number")
                                   [] std = "file"   -> Typed({"str"}, "String"))
  ELSE Value({"str"}) \o Op(2, AnyKind) \o PopT(1) \o PushT("Unknown")

(* Arguments: p by position, n by name.  A named one has its name under it, *)
(* and pops a type for the name, which has none.  A tail call leaves the    *)
(* frame; on a native function tailstrict has no effect.                    *)
\* Mutant: a named argument is taken off three times
parse_call_Twice(p, n, tailstrict) ==
  Anon(1)
    \o Times(p, NoTail(0) \o Anon(1))
    \o Times(n, Value({"str"}) \o Anon(1) \o NoTail(0) \o Anon(1))
    \o Close \o Anon(-(1 + p + 3 * n)) \o PopT(p + 2 * n) \o PopT(1)
    \o Op(1 + p + 2 * n,
          IF tailstrict /\ tail /\ LastType(Cur) # "Native" THEN {"gone"} ELSE AnyKind)
    \o PushT("Unknown")
parse_call(p, n, tailstrict) ==
  Anon(1)
    \o Times(p, NoTail(0) \o Anon(1))
    \o Times(n, Value({"str"}) \o Anon(1) \o NoTail(0) \o Anon(1))
    \o Close \o Anon(-(1 + p + 2 * n)) \o PopT(p + 2 * n) \o PopT(1)
    \o Op(1 + p + 2 * n,
          IF tailstrict /\ tail /\ LastType(Cur) # "Native" THEN {"gone"} ELSE AnyKind)
    \o PushT("Unknown")

(* e { ... } adds the object to e *)
parse_apply(bs) ==
  PopT(1) \o Anon(1) \o (IF bs = {} THEN empty_object
                         ELSE parse_object_literal(CHOOSE b \in bs : TRUE))
    \o Anon(-1) \o Op(2, PlusKind(Last(Cur.stack), {"obj"}))
    \o PushT(IF LastType(Cur) = "Object" THEN "Object" ELSE "Unknown")

(* Operators with two values on the stack; the result of a comparison has a *)
(* type that is never tested.                                               *)
(* The power of mul is that of %, too, which formats when on the left is a string *)
Arithmetic == {"mul", "shift", "bitand", "bitxor", "bitor"}
ArithmeticKind(op) == IF op = "mul" THEN {"num", "str"} ELSE {"num"}
\* Mutant: the left operand is not counted while the right one is parsed
Strict_NotCounted(op) ==
  NoTail(RightPower(op))
    \o (CASE op = "plus" -> AddTop
           [] op \in Arithmetic -> Op(2, ArithmeticKind(op)) \o PopT(2) \o PushT("Number")
           [] OTHER -> Op(2, {"oth"}) \o PopT(2) \o PushT("Unknown"))
Strict(op) ==
  Anon(1) \o NoTail(RightPower(op)) \o Anon(-1)
    \o (CASE op = "plus" -> AddTop
           [] op \in Arithmetic -> Op(2, ArithmeticKind(op)) \o PopT(2) \o PushT("Number")
           [] OTHER -> Op(2, {"oth"}) \o PopT(2) \o PushT("Unknown"))

(* && and || test a copy of the left value and drop it before the right one *)
\* Mutant: the left value is not dropped before the right one
ShortCircuit_Keeps(op) ==
  Value(Last(Cur.stack)) \o JumpIf \o NoTail(RightPower(op)) \o PopT(1)
    \o OtherBranch \o Discard(1) \o Value({"oth"}) \o Join
    \o PopT(1) \o PushT("Unknown")
ShortCircuit(op) ==
  Value(Last(Cur.stack)) \o JumpIf \o Discard(1) \o NoTail(RightPower(op)) \o PopT(1)
    \o OtherBranch \o Discard(1) \o Value({"oth"}) \o Join
    \o PopT(1) \o PushT("Unknown")

parse_infix(op) == IF op \in {"and", "or"} THEN ShortCircuit(op) ELSE Strict(op)

(***************************************************************************)
(* The parser's choices                                                     *)
(***************************************************************************)
Init ==
  /\ fns = <<NewFunction>> /\ todo = <<<<"expr", 0>>>>
  /\ tail = TRUE /\ depth = 0 /\ forms = 0 /\ reads = 0 /\ roots = 0
  /\ limit = Tightest /\ faults = {}

More == <<<<"more", todo[1][2]>>>>

(* A prefix form; the loop over the operators that follow comes after it    *)
Prefix(items) == At("expr") /\ Continue(items \o More)

(* The forms without a part.  A name must resolve, `$' too; self outside of *)
(* a method is what the frame says.                                         *)
LeafItems ==
  [number |-> Typed({"num"}, "Number"), string |-> Typed({"str"}, "String"),
   literal |-> Typed({"oth"}, "Unknown"), import |-> Typed(AnyKind, "Unknown"),
   self |-> LoadSelf \o PushT("Object"),
   std |-> Typed({"std"}, "Std"), baresuper |-> Typed({"obj"}, "Object"),
   superfield |-> Value({"str"}) \o Op(1, AnyKind) \o PushT("Unknown")]

Leaf == \E form \in Leaves : Prefix(LeafItems[form]) /\ UNCHANGED <<forms, reads>>
Identifier ==
  \E x \in Names \cup {"$"} :
    /\ InScope(fns, x) /\ reads < MaxReads /\ reads' = reads + 1 /\ UNCHANGED forms
    /\ Prefix(LoadName(x) \o PushT(IF x = "$" THEN "Object" ELSE "Unknown"))

Composite(form) == form \in Forms /\ forms < MaxForms /\ forms' = forms + 1 /\ UNCHANGED reads

UnaryMinus == Composite("unary") /\ Prefix(NoTail(Unary) \o Op(1, {"num"}) \o Negate)
Parens     == Composite("parens") /\ Prefix(NoTail(0) \o Close)
SuperIndex == Composite("superindex")
                /\ Prefix(NoTail(0) \o Close \o Op(1, AnyKind) \o PushT("Unknown"))
Array      == Composite("array")
                /\ \E n \in 0..MaxItems : Prefix(parse_array_literal(n))
Error      == Composite("error") /\ (TailMore \/ ~tail) /\ Prefix(parse_error)
AssertStmt == Composite("assert") /\ \E m \in BOOLEAN : Prefix(parse_assert_expression(m))
If         == Composite("if") /\ \E e \in BOOLEAN : Prefix(parse_if_expression(e))
Function   == Composite("function")
                /\ \E ps \in Params : Prefix(parse_function_expression(ps))

(* Inside a computed key, in the function of the object                     *)
InKey == Cur.keys > 0
MayBind == KeysBind \/ ~InKey

Local      == Composite("local") /\ MayBind
                /\ \E bs \in Bindings \ {<<>>} : Prefix(parse_local_statement(bs))
ArrayComp  == Composite("arraycomp") /\ MayBind
                /\ \E cs \in ForLists : Prefix(parse_array_comprehension(cs))
ObjectComp == Composite("objectcomp") /\ MayBind
                /\ \E cs \in ForLists, bs \in Bindings \cup {<<>>}, k \in BOOLEAN :
                     Prefix(parse_object_comprehension(cs, bs, k) \o PushT("Object"))
Object     == Composite("object")
                /\ \/ Prefix(empty_object \o PushT("Object"))
                   \/ \E bs \in Bindings \cup {<<>>} :
                        Prefix(parse_object_literal(bs) \o PushT("Object"))

(* A member of an object literal, or its end *)
LastMember == At("member") /\ Continue(<<>>) /\ UNCHANGED <<forms, reads>>
Member(items) ==
  /\ At("member") /\ todo[1][3] > 0
  /\ Continue(items \o Members(todo[1][2], todo[1][3] - 1))
AssertMember ==
  Composite("objectassert") /\ \E m \in BOOLEAN : Member(ObjectAssert(todo[1][2], m))
FieldMember ==
  /\ Composite("field")
  /\ \E computed, override \in BOOLEAN, method \in {{}} \cup {{ps} : ps \in Params} :
       Member((IF computed THEN ComputedKey ELSE LiteralKey)
                \o Field(todo[1][2], method, override))

(* After an operand: an operator that binds tighter than what is around it, *)
(* or the end of the expression.                                            *)
EndExpr ==
  /\ At("more")
  /\ Proceed(<<>>, IF todo[1][2] < limit THEN todo[1][2] ELSE limit)
  /\ UNCHANGED <<forms, reads>>
Operator(power, items) ==
  /\ At("more") /\ power > todo[1][2] /\ power <= limit
  /\ TailMore \/ "gone" \notin Last(Cur.stack)
  /\ Continue(items \o More)

Infix(op) == Composite(op) /\ Operator(LeftPower[op], parse_infix(op))
Dot       == Composite("dot") /\ \E std \in {"native", "pi", "file"} :
                                  Operator(Postfix, parse_dot(std))
Index     == Composite("index") /\ Operator(Postfix, parse_index)
Slice     == Composite("slice") /\ \E s, e, t \in BOOLEAN :
                                  Operator(Postfix, parse_slice(s, e, t))
Call      == Composite("call") /\ \E p, n \in 0..MaxItems, t \in BOOLEAN :
                                  Operator(Postfix, parse_call(p, n, t))
Apply     == Composite("apply")
               /\ \E bs \in {{}} \cup {{b} : b \in Bindings \cup {<<>>}} :
                    Operator(Postfix, parse_apply(bs))

Finished == todo = <<>> /\ UNCHANGED vars

Next ==
  \/ Leaf \/ Identifier \/ UnaryMinus \/ Parens \/ SuperIndex \/ Array \/ Error
  \/ AssertStmt \/ If \/ Function \/ Local \/ ArrayComp \/ ObjectComp \/ Object
  \/ LastMember \/ AssertMember \/ FieldMember \/ EndExpr
  \/ \E op \in DOMAIN LeftPower : Infix(op)
  \/ Dot \/ Index \/ Slice \/ Call \/ Apply \/ Finished

Spec == Init /\ [][Next]_vars

(***************************************************************************)
(* Properties                                                               *)
(***************************************************************************)
(* The bookkeeping of the compiler has its types                            *)
TypeOK ==
  /\ tail \in BOOLEAN /\ depth \in Nat /\ roots \in Nat /\ forms \in 0..MaxForms /\ reads \in 0..MaxReads
  /\ \A k \in DOMAIN fns :
       /\ ToSet(fns[k].types) \subseteq Types /\ ToSet(fns[k].stack) \subseteq SUBSET Kinds
       /\ fns[k].anon \in Nat /\ fns[k].scope \in Nat

(* The slot the compiler gives to a variable is the place where its value   *)
(* is at run time, whatever temporaries are under it (declare_local).       *)
SlotsExact ==
  \A k \in DOMAIN fns : \A i \in DOMAIN fns[k].locals :
    fns[k].locals[i].slot = fns[k].locals[i].pos

(* Every upvalue of every function leads, through the functions between, to *)
(* the place of a variable that is alive where it was declared: nested      *)
(* functions never read a neighbour of what they name (resolve_upvalue,     *)
(* add_upvalue).                                                            *)
UpvaluesLead ==
  \A k \in DOMAIN fns : \A i \in DOMAIN fns[k].ups :
    LET at == Leads(fns, k, i)
    IN  at[1] \in 1..(k - 1)
          /\ \E l \in ToSet(fns[at[1]].locals) : l.pos = at[2]

(* A variable of an enclosing function that would be read next is found    *)
(* where its innermost declaration put it, through the chain of upvalues    *)
(* that reading it uses or adds.                                            *)
NamesResolve ==
  At("expr") =>
    \A x \in Names : ~resolve_local(Cur, x) /\ InScope(fns, x) =>
      \E d \in 1..(Len(fns) - 1) : \E i \in Holding(fns[d], x) :
        /\ \A j \in Holding(fns[d], x) : j <= i
        /\ \A k \in (d + 1)..Len(fns) : Holding(fns[k], x) = {}
        /\ Leads(resolve_upvalue(fns, x), Len(fns), UpvalueOf(fns, x) + 1)
             = <<d, fns[d].locals[i].pos>>

(* The ways that meet at a jump target have the same height, a loop comes   *)
(* back with the height it started with, and a function returns with one    *)
(* value and no variable or temporary left.  At the end every function has  *)
(* been closed and every root that was pushed has been popped.              *)
HeightsMeet ==
  /\ "join" \notin faults
  /\ todo = <<>> => /\ Len(fns) = 1 /\ Len(Cur.stack) = 1 /\ Cur.anon = 0
                    /\ Cur.locals = <<>> /\ Cur.jumps = <<>> /\ roots = 0 /\ depth = 0

(* The compiler takes a value for std or for a native function only when it *)
(* is one: the `.' that drops the value and the call that goes straight to  *)
(* the native never meet another one.                                       *)
NamespaceSound ==
  At("more") =>
    /\ LastType(Cur) = "Std" => Last(Cur.stack) \subseteq {"std"}
    /\ LastType(Cur) = "Native" => Last(Cur.stack) \subseteq {"nat"}

(* StringConcat is emitted only for two strings                             *)
ConcatSound == "concat" \notin faults

(* A tail call is the last thing its function does: nothing takes its       *)
(* result.                                                                  *)
TailCallsLast == "tail" \notin faults
=============================================================================
