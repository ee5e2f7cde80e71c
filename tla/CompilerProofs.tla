--------------------------- MODULE CompilerProofs ---------------------------
EXTENDS Compiler, SequenceTheorems, FiniteSetTheorems, NaturalsInduction, TLAPS

(***************************************************************************)
(* The compiler counts a stack that it never sees: the proof that its       *)
(* count is right, for programs of any size and nesting.                    *)
(*                                                                          *)
(* A function under compilation is abstracted to a shape (Fun).  What a     *)
(* parse function leaves to be done is a list of effects, and Does says     *)
(* that a list is a path from one shape to another; Yields, that it leaves  *)
(* one value more than it found, from whatever shape it starts.  There is   *)
(* one lemma per parse function that what it leaves to be done yields a     *)
(* value, one per effect that a state that matches its shapes matches the   *)
(* next ones, and one per action.  IInv says that the functions under       *)
(* compilation match shapes (Shaped) from which the rest of todo leads to   *)
(* the end of the program, with one value on the stack, and that the bounds *)
(* of the generated programs are kept (Bounded).  The six properties follow *)
(* from IInv in every single state.                                         *)
(***************************************************************************)

(***************************************************************************)
(* What a function under compilation looks like from outside                *)
(***************************************************************************)
(* vars abstracts the locals: how many there are, and for each open scope   *)
(* how many there were when it began and the names it declares.  The        *)
(* run-time stack is abstracted to its height, the stacks remembered for    *)
(* jump targets to theirs; -1 stands for the types that a slice remembers.  *)
(* last says what is known of the last type: that it is not mistaken        *)
(* ("sealed"), or which kind of value is on top ("std", "nat").             *)
Fun(v, a, k, h, j, l) ==
  [vars |-> v, anon |-> a, keys |-> k, height |-> h, jumps |-> j, last |-> l]

S(c, v, a, k, h, j, l) == [ctx |-> c, fun |-> Fun(v, a, k, h, j, l)]

(* v with an inner scope of n variables named N *)
With(v, n, N) ==
  [count  |-> v.count + n,
   scopes |-> Append(v.scopes, [from |-> v.count, names |-> N])]

NoVars == [count |-> 0, scopes |-> <<>>]

Declares(v, x) == \E i \in DOMAIN v.scopes : x \in v.scopes[i].names

Known == {"any", "std", "nat", "sealed"}

AllNames ==
  Names \cup {"$", "<closure>", "<self>", "<super>", "__comp_source",
              "__comp_length", "__comp_counter", "__comp_hoisted_source",
              "__comp_result"}

IsVars(v) == v \in [count : Nat, scopes : Seq([from : Nat, names : SUBSET AllNames])]

Shapes ==
  [vars : [count : Nat, scopes : Seq([from : Nat, names : SUBSET AllNames])],
   anon : Nat, keys : Nat, height : Nat, jumps : Seq(Int), last : Known]

Contexts == [base : Seq(Shapes), depth : Nat, roots : Nat]

(* Balanced: the next value goes where the next slot would be, but for the  *)
(* objects under a computed key.                                            *)
Ready(f) == f.height = f.vars.count + f.anon + f.keys

(***************************************************************************)
(* The effect of one step on the shape                                      *)
(***************************************************************************)
LastOf(k) ==
  {"any"} \cup (IF k = {"std"} THEN {"std"} ELSE {})
          \cup (IF k = {"nat"} THEN {"nat"} ELSE {})

LastAfter(t, l) ==
  IF (t = "Std" /\ l # "std") \/ (t = "Native" /\ l # "nat")
  THEN {"any"} ELSE {"any", "sealed"}

(* The same variables, another height; the same jumps, other variables      *)
Moved(s, h, j, l) == S(s.ctx, s.fun.vars, s.fun.anon, s.fun.keys, h, j, l)
Bound(s, v, h)    == S(s.ctx, v, s.fun.anon, s.fun.keys, h, s.fun.jumps, "any")

(* An operand is on top, which neither the slots nor the keys count *)
Operand(f) == f.height > 0 /\ f.height = f.vars.count + f.anon + f.keys + 1

ExprStep(s, t, bp) ==
  /\ bp \in Nat /\ Ready(s.fun)
  /\ \E l \in {"any", "sealed"} : t = Moved(s, s.fun.height + 1, s.fun.jumps, l)
MoreStep(s, t, bp) ==
  /\ bp \in Nat /\ Operand(s.fun) /\ s.fun.last = "sealed"
  /\ \E l \in {"any", "sealed"} : t = Moved(s, s.fun.height, s.fun.jumps, l)
MemberStep(s, t, bs, n) ==
  /\ bs \in Bindings \cup {<<>>} /\ n \in Nat /\ Operand(s.fun)
  /\ t = Moved(s, s.fun.height, s.fun.jumps, "any")
(* n values are taken, and m come back, of which l is known *)
TakeStep(s, t, n, m, l) ==
  n \in 0..s.fun.height /\ t = Moved(s, s.fun.height - n + m, s.fun.jumps, l)
OpStep(s, t, n, k) ==
  k \in SUBSET Kinds /\ \E l \in LastOf(k) : TakeStep(s, t, n, 1, l)
Reaches(c, v, x) == Declares(v, x) \/ \E i \in DOMAIN c.base : Declares(c.base[i].vars, x)
LoadStep(s, t, x)  == Reaches(s.ctx, s.fun.vars, x) /\ TakeStep(s, t, 0, 1, "any")
StoreStep(s, t, x) == Declares(s.fun.vars, x) /\ TakeStep(s, t, 1, 0, "any")
TypeStep(s, t, type) ==
  type \in Types /\ \E l \in LastAfter(type, s.fun.last) : TakeStep(s, t, 0, 0, l)
UntypeStep(s, t, n) == n \in Nat /\ TakeStep(s, t, 0, 0, "any")
AnonStep(s, t, d) ==
  /\ d \in Int /\ s.fun.anon + d \in Nat
  /\ t = S(s.ctx, s.fun.vars, s.fun.anon + d, s.fun.keys, s.fun.height,
           s.fun.jumps, s.fun.last)
KeyStep(s, t, d) ==
  /\ d \in Int /\ s.fun.keys + d \in Nat
  /\ t = S(s.ctx, s.fun.vars, s.fun.anon, s.fun.keys + d, s.fun.height,
           s.fun.jumps, s.fun.last)
BeginScopeStep(s, t) == t = Bound(s, With(s.fun.vars, 0, {}), s.fun.height)
DeclareStep(s, t, x) ==
  /\ x \in AllNames /\ s.fun.height = s.fun.vars.count + s.fun.anon + 1
  /\ \E v, n, N : /\ s.fun.vars = With(v, n, N) /\ n \in Nat /\ IsVars(v)
                  /\ t = Bound(s, With(v, n + 1, N \cup {x}), s.fun.height)
DollarStep(s, t) ==
  IF s.ctx.depth # 1 THEN t = s
  ELSE DeclareStep(Moved(s, s.fun.height + 1, s.fun.jumps, "any"), t, "$")
EndScopeStep(s, t) ==
  \E v, n, N : /\ s.fun.vars = With(v, n, N) /\ n \in Nat /\ IsVars(v)
               /\ n < s.fun.height /\ t = Bound(s, v, s.fun.height - n)
JumpIfStep(s, t) ==
  \E h \in Nat : /\ s.fun.height = h + 1
                 /\ t = Moved(s, h, Append(s.fun.jumps, h), "any")
JumpStep(s, t) ==
  \E j, h : /\ s.fun.jumps = Append(j, h) /\ h \in Nat /\ j \in Seq(Int)
            /\ t = Moved(s, h, Append(j, s.fun.height), "any")
JoinStep(s, t) ==
  \E j : /\ s.fun.jumps = Append(j, s.fun.height) /\ j \in Seq(Int)
         /\ t = Moved(s, s.fun.height, j, "any")
MarkStep(s, t) ==
  t = Moved(s, s.fun.height, Append(s.fun.jumps, s.fun.height), "any")
LoopStep(s, t) ==
  \E j, h : /\ s.fun.jumps = Append(Append(j, s.fun.height), h) /\ h \in Nat
            /\ j \in Seq(Int) /\ t = Moved(s, h, j, "any")
SaveStep(s, t) ==
  t = Moved(s, s.fun.height, Append(Append(s.fun.jumps, -1), s.fun.height), "any")
RollbackStep(s, t) ==
  \E j, h : /\ s.fun.jumps = Append(Append(j, -1), h) /\ h \in Nat
            /\ j \in Seq(Int) /\ t = Moved(s, h, j, "any")
TailStep(s, t, b) == b \in BOOLEAN /\ t = s
Deeper(c, d) == [base |-> c.base, depth |-> c.depth + d, roots |-> c.roots]
Rooted(c, d) == [base |-> c.base, depth |-> c.depth, roots |-> c.roots + d]
DepthStep(s, t, d) ==
  d \in Int /\ s.ctx.depth + d \in Nat /\ t = [ctx |-> Deeper(s.ctx, d), fun |-> s.fun]
RootStep(s, t, d) ==
  d \in Int /\ s.ctx.roots + d \in Nat /\ t = [ctx |-> Rooted(s.ctx, d), fun |-> s.fun]
Within(c, f) == [base |-> Append(c.base, f), depth |-> c.depth, roots |-> c.roots]
BeginFunctionStep(s, t) == t = S(Within(s.ctx, s.fun), NoVars, 0, 0, 0, <<>>, "any")
EndFunctionStep(s, t) ==
  /\ s.fun.height = 1 /\ s.fun.vars.count = 0 /\ s.fun.anon = 0
  /\ \E b, g : /\ s.ctx.base = Append(b, g) /\ b \in Seq(Shapes) /\ g \in Shapes
               /\ t = [ctx |-> [base |-> b, depth |-> s.ctx.depth, roots |-> s.ctx.roots],
                       fun |-> g]

(* From s, the step may be done, and leads to t *)
Step(it, s, t) ==
  CASE it[1] = "expr"           -> ExprStep(s, t, it[2])
    [] it[1] = "more"           -> MoreStep(s, t, it[2])
    [] it[1] = "member"         -> MemberStep(s, t, it[2], it[3])
    [] it[1] = "op"             -> OpStep(s, t, it[2], it[3])
    [] it[1] = "plus"           -> TakeStep(s, t, 2, 1, "sealed")
    [] it[1] = "unary"          -> TakeStep(s, t, 0, 0, "sealed")
    [] it[1] = "drop"           -> TakeStep(s, t, it[2], 0, "any")
    [] it[1] = "closure"        -> TakeStep(s, t, 0, 1, "any")
    [] it[1] = "thunk"          -> TakeStep(s, t, 0, 1, "any")
    [] it[1] = "self"           -> TakeStep(s, t, 0, 1, "any")
    [] it[1] = "load"           -> LoadStep(s, t, it[2])
    [] it[1] = "store"          -> StoreStep(s, t, it[2])
    [] it[1] = "tpush"          -> TypeStep(s, t, it[2])
    [] it[1] = "tpop"           -> UntypeStep(s, t, it[2])
    [] it[1] = "anon"           -> AnonStep(s, t, it[2])
    [] it[1] = "key"            -> KeyStep(s, t, it[2])
    [] it[1] = "begin_scope"    -> BeginScopeStep(s, t)
    [] it[1] = "declare"        -> DeclareStep(s, t, it[2])
    [] it[1] = "dollar"         -> DollarStep(s, t)
    [] it[1] = "end_scope"      -> EndScopeStep(s, t)
    [] it[1] = "jumpif"         -> JumpIfStep(s, t)
    [] it[1] = "jump"           -> JumpStep(s, t)
    [] it[1] = "join"           -> JoinStep(s, t)
    [] it[1] = "mark"           -> MarkStep(s, t)
    [] it[1] = "loop"           -> LoopStep(s, t)
    [] it[1] = "save"           -> SaveStep(s, t)
    [] it[1] = "rollback"       -> RollbackStep(s, t)
    [] it[1] = "tail"           -> TailStep(s, t, it[2])
    [] it[1] = "close"          -> t = s
    [] it[1] = "depth"          -> DepthStep(s, t, it[2])
    [] it[1] = "root"           -> RootStep(s, t, it[2])
    [] it[1] = "begin_function" -> BeginFunctionStep(s, t)
    [] it[1] = "end_function"   -> EndFunctionStep(s, t)
    [] OTHER -> FALSE

(* The steps lead from s to t: a path of shapes *)
Does(items, s, t) ==
  \E R, sh : /\ items \in Seq(R)
             /\ sh[0] = s /\ sh[Len(items)] = t
             /\ \A i \in 1..Len(items) : Step(items[i], sh[i - 1], sh[i])
-----------------------------------------------------------------------------
LEMMA DoesNothing == ASSUME NEW s PROVE Does(<<>>, s, s)
<1>. DEFINE sh == [i \in {0} |-> s]
<1>1. <<>> \in Seq({}) /\ Len(<<>>) = 0 /\ sh[0] = s
  OBVIOUS
<1>2. \A i \in 1..Len(<<>>) : Step(<<>>[i], sh[i - 1], sh[i])
  BY <1>1
<1>. HIDE DEF sh
<1>. QED
  BY <1>1, <1>2 DEF Does

LEMMA DoesOne ==
  ASSUME NEW x, NEW s, NEW t, Step(x, s, t)
  PROVE  Does(<<x>>, s, t)
<1>. DEFINE sh == [i \in 0..1 |-> IF i = 0 THEN s ELSE t]
<1>1. <<x>> \in Seq({x}) /\ Len(<<x>>) = 1 /\ <<x>>[1] = x
  OBVIOUS
<1>2. sh[0] = s /\ sh[1] = t
  OBVIOUS
<1>3. \A i \in 1..1 : Step(<<x>>[i], sh[i - 1], sh[i])
  <2>. SUFFICES ASSUME NEW i \in 1..1 PROVE Step(<<x>>[i], sh[i - 1], sh[i])
    OBVIOUS
  <2>1. i = 1 /\ i - 1 = 0
    OBVIOUS
  <2>. HIDE DEF sh
  <2>. QED
    BY <2>1, <1>1, <1>2
<1>. HIDE DEF sh
<1>. QED
  BY <1>1, <1>2, <1>3 DEF Does

(* One list after another *)
LEMMA Then ==
  ASSUME NEW p, NEW q, NEW s, NEW u, NEW t, Does(p, s, u), Does(q, u, t)
  PROVE  Does(p \o q, s, t)
<1>1. PICK R1, f : /\ p \in Seq(R1) /\ f[0] = s /\ f[Len(p)] = u
                   /\ \A i \in 1..Len(p) : Step(p[i], f[i - 1], f[i])
  BY DEF Does
<1>2. PICK R2, g : /\ q \in Seq(R2) /\ g[0] = u /\ g[Len(q)] = t
                   /\ \A i \in 1..Len(q) : Step(q[i], g[i - 1], g[i])
  BY DEF Does
<1>. DEFINE m == Len(p)
            n == Len(q)
            sh == [i \in 0..(m + n) |-> IF i <= m THEN f[i] ELSE g[i - m]]
<1>3. p \in Seq(R1 \cup R2) /\ q \in Seq(R1 \cup R2) /\ m \in Nat /\ n \in Nat
  BY <1>1, <1>2
<1>4. /\ p \o q \in Seq(R1 \cup R2) /\ Len(p \o q) = m + n
      /\ \A i \in 1..(m + n) : (p \o q)[i] = IF i <= m THEN p[i] ELSE q[i - m]
  BY <1>3
<1>5. sh[0] = s /\ sh[m + n] = t
  BY <1>1, <1>2, <1>3
<1>6. \A i \in 1..(m + n) : Step((p \o q)[i], sh[i - 1], sh[i])
  <2>. SUFFICES ASSUME NEW i \in 1..(m + n)
                PROVE  Step((p \o q)[i], sh[i - 1], sh[i])
    OBVIOUS
  <2>1. CASE i <= m
    <3>1. (p \o q)[i] = p[i] /\ sh[i - 1] = f[i - 1] /\ sh[i] = f[i] /\ i \in 1..Len(p)
      BY <2>1, <1>3, <1>4
    <3>. QED
      BY <3>1, <1>1
  <2>2. CASE i = m + 1
    <3>1. (p \o q)[i] = q[1] /\ sh[i - 1] = g[0] /\ sh[i] = g[1] /\ 1 \in 1..Len(q)
      BY <2>2, <1>1, <1>2, <1>3, <1>4
    <3>2. Step(q[1], g[1 - 1], g[1])
      BY <3>1, <1>2
    <3>. QED
      BY <3>1, <3>2
  <2>3. CASE i > m + 1
    <3>1. /\ (p \o q)[i] = q[i - m] /\ sh[i - 1] = g[(i - m) - 1] /\ sh[i] = g[i - m]
          /\ i - m \in 1..Len(q)
      BY <2>3, <1>3, <1>4
    <3>. QED
      BY <3>1, <1>2
  <2>. QED
    BY <2>1, <2>2, <2>3, <1>3
<1>. HIDE DEF sh
<1>7. QED
  BY <1>3, <1>4, <1>5, <1>6 DEF Does

(* An expression leaves one value; its type is not mistaken *)
LEMMA DoExpr ==
  ASSUME NEW c, NEW v, NEW a, NEW k, NEW h, NEW j, NEW l, NEW bp \in Nat,
         NEW m \in {"any", "sealed"}, NEW g, h = v.count + a + k, g = h + 1
  PROVE  Does(Expr(bp), S(c, v, a, k, h, j, l),
              S(c, v, a, k, g, j, m))
<1>1. Step(<<"expr", bp>>, S(c, v, a, k, h, j, l),
           S(c, v, a, k, g, j, m))
  BY DEF Step, ExprStep, Moved, S, Fun, Ready
<1>. QED
  BY <1>1, DoesOne DEF Expr

LEMMA DoMembers ==
  ASSUME NEW c, NEW v, NEW a, NEW k, NEW h \in Nat, NEW j, NEW l,
         NEW bs \in Bindings \cup {<<>>}, NEW n \in Nat, h > 0,
         h = v.count + a + k + 1
  PROVE  Does(Members(bs, n), S(c, v, a, k, h, j, l),
              S(c, v, a, k, h, j, "any"))
<1>1. Step(<<"member", bs, n>>, S(c, v, a, k, h, j, l),
           S(c, v, a, k, h, j, "any"))
  BY DEF Step, MemberStep, Operand, Moved, S, Fun
<1>. QED
  BY <1>1, DoesOne DEF Members

LEMMA DoOp ==
  ASSUME NEW c, NEW v, NEW a, NEW k, NEW h \in Nat, NEW j, NEW l,
         NEW n \in Nat, NEW kinds \in SUBSET Kinds, NEW g, n <= h, g = h - n + 1
  PROVE  Does(Op(n, kinds), S(c, v, a, k, h, j, l),
              S(c, v, a, k, g, j, "any"))
<1>1. Step(<<"op", n, kinds>>, S(c, v, a, k, h, j, l),
           S(c, v, a, k, g, j, "any"))
  BY DEF Step, OpStep, TakeStep, Moved, S, Fun, LastOf
<1>. QED
  BY <1>1, DoesOne DEF Op

LEMMA DoValue ==
  ASSUME NEW c, NEW v, NEW a, NEW k, NEW h \in Nat, NEW j, NEW l,
         NEW kinds \in SUBSET Kinds, NEW g, g = h + 1
  PROVE  Does(Value(kinds), S(c, v, a, k, h, j, l),
              S(c, v, a, k, g, j, "any"))
<1>1. Step(<<"op", 0, kinds>>, S(c, v, a, k, h, j, l),
           S(c, v, a, k, g, j, "any"))
  BY DEF Step, OpStep, TakeStep, Moved, S, Fun, LastOf
<1>. QED
  BY <1>1, DoesOne DEF Value

LEMMA DoDiscard ==
  ASSUME NEW c, NEW v, NEW a, NEW k, NEW h \in Nat, NEW j, NEW l,
         NEW n \in Nat, NEW g \in Nat, h = g + n
  PROVE  Does(Discard(n), S(c, v, a, k, h, j, l),
              S(c, v, a, k, g, j, "any"))
<1>1. Step(<<"drop", n>>, S(c, v, a, k, h, j, l),
           S(c, v, a, k, g, j, "any"))
  BY DEF Step, TakeStep, Moved, S, Fun
<1>. QED
  BY <1>1, DoesOne DEF Discard

LEMMA DoLoad ==
  ASSUME NEW c, NEW v, NEW a, NEW k, NEW h \in Nat, NEW j, NEW l, NEW x, NEW g,
         Declares(v, x), g = h + 1
  PROVE  Does(LoadName(x), S(c, v, a, k, h, j, l),
              S(c, v, a, k, g, j, "any"))
<1>1. Step(<<"load", x>>, S(c, v, a, k, h, j, l),
           S(c, v, a, k, g, j, "any"))
  BY DEF Step, LoadStep, Reaches, TakeStep, Moved, S, Fun
<1>. QED
  BY <1>1, DoesOne DEF LoadName

LEMMA DoStore ==
  ASSUME NEW c, NEW v, NEW a, NEW k, NEW h \in Nat, NEW j, NEW l, NEW x,
         NEW g \in Nat, Declares(v, x), h = g + 1
  PROVE  Does(Store(x), S(c, v, a, k, h, j, l),
              S(c, v, a, k, g, j, "any"))
<1>1. Step(<<"store", x>>, S(c, v, a, k, h, j, l),
           S(c, v, a, k, g, j, "any"))
  BY DEF Step, StoreStep, TakeStep, Moved, S, Fun
<1>. QED
  BY <1>1, DoesOne DEF Store

LEMMA DoSelf ==
  ASSUME NEW c, NEW v, NEW a, NEW k, NEW h \in Nat, NEW j, NEW l, NEW g,
         g = h + 1
  PROVE  Does(LoadSelf, S(c, v, a, k, h, j, l),
              S(c, v, a, k, g, j, "any"))
<1>1. Step(<<"self">>, S(c, v, a, k, h, j, l),
           S(c, v, a, k, g, j, "any"))
  BY DEF Step, TakeStep, Moved, S, Fun
<1>. QED
  BY <1>1, DoesOne DEF LoadSelf

LEMMA DoAddTop ==
  ASSUME NEW c, NEW v, NEW a, NEW k, NEW h \in Nat, NEW j, NEW l,
         NEW g \in Nat, h = g + 1, g > 0
  PROVE  Does(AddTop, S(c, v, a, k, h, j, l),
              S(c, v, a, k, g, j, "sealed"))
<1>1. Step(<<"plus">>, S(c, v, a, k, h, j, l),
           S(c, v, a, k, g, j, "sealed"))
  BY DEF Step, TakeStep, Moved, S, Fun
<1>. QED
  BY <1>1, DoesOne DEF AddTop

LEMMA DoNegate ==
  ASSUME NEW c, NEW v, NEW a, NEW k, NEW h \in Nat, NEW j, NEW l
  PROVE  Does(Negate, S(c, v, a, k, h, j, l),
              S(c, v, a, k, h, j, "sealed"))
<1>1. Step(<<"unary">>, S(c, v, a, k, h, j, l),
           S(c, v, a, k, h, j, "sealed"))
  BY DEF Step, TakeStep, Moved, S, Fun
<1>. QED
  BY <1>1, DoesOne DEF Negate

LEMMA DoPushT ==
  ASSUME NEW c, NEW v, NEW a, NEW k, NEW h \in Nat, NEW j, NEW l,
         NEW type \in Types \ {"Std", "Native"}
  PROVE  Does(PushT(type), S(c, v, a, k, h, j, l),
              S(c, v, a, k, h, j, "sealed"))
<1>1. Step(<<"tpush", type>>, S(c, v, a, k, h, j, l),
           S(c, v, a, k, h, j, "sealed"))
  BY DEF Step, TypeStep, TakeStep, LastAfter, Moved, S, Fun
<1>. QED
  BY <1>1, DoesOne DEF PushT

LEMMA DoPopT ==
  ASSUME NEW c, NEW v, NEW a, NEW k, NEW h \in Nat, NEW j, NEW l, NEW n \in Nat
  PROVE  Does(PopT(n), S(c, v, a, k, h, j, l),
              S(c, v, a, k, h, j, "any"))
<1>1. Step(<<"tpop", n>>, S(c, v, a, k, h, j, l),
           S(c, v, a, k, h, j, "any"))
  BY DEF Step, UntypeStep, TakeStep, Moved, S, Fun
<1>. QED
  BY <1>1, DoesOne DEF PopT

LEMMA DoAnon ==
  ASSUME NEW c, NEW v, NEW a, NEW k, NEW h, NEW j, NEW l, NEW d \in Int,
         NEW b \in Nat, b = a + d
  PROVE  Does(Anon(d), S(c, v, a, k, h, j, l),
              S(c, v, b, k, h, j, l))
<1>1. Step(<<"anon", d>>, S(c, v, a, k, h, j, l),
           S(c, v, b, k, h, j, l))
  BY DEF Step, AnonStep, S, Fun
<1>. QED
  BY <1>1, DoesOne DEF Anon

LEMMA DoUncounted ==
  ASSUME NEW c, NEW v, NEW a, NEW k, NEW h, NEW j, NEW l, NEW d \in Int,
         NEW b \in Nat, b = k + d
  PROVE  Does(Uncounted(d), S(c, v, a, k, h, j, l),
              S(c, v, a, b, h, j, l))
<1>1. Step(<<"key", d>>, S(c, v, a, k, h, j, l),
           S(c, v, a, b, h, j, l))
  BY DEF Step, KeyStep, S, Fun
<1>. QED
  BY <1>1, DoesOne DEF Uncounted

LEMMA DoBeginScope ==
  ASSUME NEW c, NEW v, NEW a, NEW k, NEW h, NEW j, NEW l
  PROVE  Does(BeginScope, S(c, v, a, k, h, j, l),
              S(c, With(v, 0, {}), a, k, h, j, "any"))
<1>1. Step(<<"begin_scope">>, S(c, v, a, k, h, j, l),
           S(c, With(v, 0, {}), a, k, h, j, "any"))
  BY DEF Step, BeginScopeStep, Bound, S, Fun
<1>. QED
  BY <1>1, DoesOne DEF BeginScope

LEMMA DoDeclare ==
  ASSUME NEW c, NEW v, NEW a \in Nat, NEW k, NEW h \in Nat, NEW j, NEW l,
         NEW n \in Nat, NEW N, NEW x \in AllNames, NEW n2, NEW N2, IsVars(v),
         h = v.count + n + a + 1, n2 = n + 1, N2 = N \cup {x}
  PROVE  Does(Declare(x), S(c, With(v, n, N), a, k, h, j, l),
              S(c, With(v, n2, N2), a, k, h, j, "any"))
<1>0. With(v, n, N).count = v.count + n
  BY DEF With
<1>1. Step(<<"declare", x>>, S(c, With(v, n, N), a, k, h, j, l),
           S(c, With(v, n2, N2), a, k, h, j, "any"))
  BY <1>0 DEF Step, DeclareStep, Bound, S, Fun
<1>. QED
  BY <1>1, DoesOne DEF Declare

LEMMA DoEndScope ==
  ASSUME NEW c, NEW v, NEW a, NEW k, NEW h \in Nat, NEW j, NEW l,
         NEW n \in Nat, NEW N, NEW g, IsVars(v), n < h, g = h - n
  PROVE  Does(EndScope, S(c, With(v, n, N), a, k, h, j, l),
              S(c, v, a, k, g, j, "any"))
<1>1. Step(<<"end_scope">>, S(c, With(v, n, N), a, k, h, j, l),
           S(c, v, a, k, g, j, "any"))
  BY DEF Step, EndScopeStep, Bound, S, Fun
<1>. QED
  BY <1>1, DoesOne DEF EndScope

LEMMA DoJumpIf ==
  ASSUME NEW c, NEW v, NEW a, NEW k, NEW h \in Nat, NEW j, NEW l,
         NEW g \in Nat, h = g + 1
  PROVE  Does(JumpIf, S(c, v, a, k, h, j, l),
              S(c, v, a, k, g, Append(j, g), "any"))
<1>1. Step(<<"jumpif">>, S(c, v, a, k, h, j, l),
           S(c, v, a, k, g, Append(j, g), "any"))
  BY DEF Step, JumpIfStep, Moved, S, Fun
<1>. QED
  BY <1>1, DoesOne DEF JumpIf

LEMMA DoOtherBranch ==
  ASSUME NEW c, NEW v, NEW a, NEW k, NEW h, NEW j \in Seq(Int), NEW l,
         NEW g \in Nat
  PROVE  Does(OtherBranch, S(c, v, a, k, h, Append(j, g), l),
              S(c, v, a, k, g, Append(j, h), "any"))
<1>1. Step(<<"jump">>, S(c, v, a, k, h, Append(j, g), l),
           S(c, v, a, k, g, Append(j, h), "any"))
  BY DEF Step, JumpStep, Moved, S, Fun
<1>. QED
  BY <1>1, DoesOne DEF OtherBranch

LEMMA DoJoin ==
  ASSUME NEW c, NEW v, NEW a, NEW k, NEW h, NEW j \in Seq(Int), NEW l
  PROVE  Does(Join, S(c, v, a, k, h, Append(j, h), l),
              S(c, v, a, k, h, j, "any"))
<1>1. Step(<<"join">>, S(c, v, a, k, h, Append(j, h), l),
           S(c, v, a, k, h, j, "any"))
  BY DEF Step, JoinStep, Moved, S, Fun
<1>. QED
  BY <1>1, DoesOne DEF Join

LEMMA DoMark ==
  ASSUME NEW c, NEW v, NEW a, NEW k, NEW h, NEW j, NEW l
  PROVE  Does(Mark, S(c, v, a, k, h, j, l),
              S(c, v, a, k, h, Append(j, h), "any"))
<1>1. Step(<<"mark">>, S(c, v, a, k, h, j, l),
           S(c, v, a, k, h, Append(j, h), "any"))
  BY DEF Step, MarkStep, Moved, S, Fun
<1>. QED
  BY <1>1, DoesOne DEF Mark

LEMMA DoLoop ==
  ASSUME NEW c, NEW v, NEW a, NEW k, NEW h, NEW j \in Seq(Int), NEW l,
         NEW g \in Nat
  PROVE  Does(Loop, S(c, v, a, k, h, Append(Append(j, h), g), l),
              S(c, v, a, k, g, j, "any"))
<1>1. Step(<<"loop">>, S(c, v, a, k, h, Append(Append(j, h), g), l),
           S(c, v, a, k, g, j, "any"))
  BY DEF Step, LoopStep, Moved, S, Fun
<1>. QED
  BY <1>1, DoesOne DEF Loop

LEMMA DoSave ==
  ASSUME NEW c, NEW v, NEW a, NEW k, NEW h, NEW j, NEW l
  PROVE  Does(Save, S(c, v, a, k, h, j, l),
              S(c, v, a, k, h, Append(Append(j, -1), h), "any"))
<1>1. Step(<<"save">>, S(c, v, a, k, h, j, l),
           S(c, v, a, k, h, Append(Append(j, -1), h), "any"))
  BY DEF Step, SaveStep, Moved, S, Fun
<1>. QED
  BY <1>1, DoesOne DEF Save

LEMMA DoRollback ==
  ASSUME NEW c, NEW v, NEW a, NEW k, NEW h, NEW j \in Seq(Int), NEW l,
         NEW g \in Nat
  PROVE  Does(Rollback, S(c, v, a, k, h, Append(Append(j, -1), g), l),
              S(c, v, a, k, g, j, "any"))
<1>1. Step(<<"rollback">>, S(c, v, a, k, h, Append(Append(j, -1), g), l),
           S(c, v, a, k, g, j, "any"))
  BY DEF Step, RollbackStep, Moved, S, Fun
<1>. QED
  BY <1>1, DoesOne DEF Rollback

LEMMA DoSetTail ==
  ASSUME NEW c, NEW v, NEW a, NEW k, NEW h, NEW j, NEW l, NEW b \in BOOLEAN
  PROVE  Does(SetTail(b), S(c, v, a, k, h, j, l),
              S(c, v, a, k, h, j, l))
<1>1. Step(<<"tail", b>>, S(c, v, a, k, h, j, l),
           S(c, v, a, k, h, j, l))
  BY DEF Step, TailStep, S, Fun
<1>. QED
  BY <1>1, DoesOne DEF SetTail

LEMMA DoClose ==
  ASSUME NEW c, NEW v, NEW a, NEW k, NEW h, NEW j, NEW l
  PROVE  Does(Close, S(c, v, a, k, h, j, l),
              S(c, v, a, k, h, j, l))
<1>1. Step(<<"close">>, S(c, v, a, k, h, j, l),
           S(c, v, a, k, h, j, l))
  BY DEF Step, S, Fun
<1>. QED
  BY <1>1, DoesOne DEF Close

LEMMA DoDepth ==
  ASSUME NEW c, NEW v, NEW a, NEW k, NEW h, NEW j, NEW l, NEW d \in Int,
         c.depth + d \in Nat
  PROVE  Does(Depth(d), S(c, v, a, k, h, j, l),
              S(Deeper(c, d), v, a, k, h, j, l))
<1>1. Step(<<"depth", d>>, S(c, v, a, k, h, j, l),
           S(Deeper(c, d), v, a, k, h, j, l))
  BY DEF Step, DepthStep, S, Fun
<1>. QED
  BY <1>1, DoesOne DEF Depth

LEMMA DoRoot ==
  ASSUME NEW c, NEW v, NEW a, NEW k, NEW h, NEW j, NEW l, NEW d \in Int,
         c.roots + d \in Nat
  PROVE  Does(Root(d), S(c, v, a, k, h, j, l),
              S(Rooted(c, d), v, a, k, h, j, l))
<1>1. Step(<<"root", d>>, S(c, v, a, k, h, j, l),
           S(Rooted(c, d), v, a, k, h, j, l))
  BY DEF Step, RootStep, S, Fun
<1>. QED
  BY <1>1, DoesOne DEF Root

LEMMA DoStart ==
  ASSUME NEW c, NEW v, NEW a, NEW k, NEW h, NEW j, NEW l
  PROVE  Does(StartFunction, S(c, v, a, k, h, j, l),
              S(Within(c, Fun(v, a, k, h, j, l)), NoVars, 0, 0, 0, <<>>, "any"))
<1>1. Step(<<"begin_function">>, S(c, v, a, k, h, j, l),
           S(Within(c, Fun(v, a, k, h, j, l)), NoVars, 0, 0, 0, <<>>, "any"))
  BY DEF Step, BeginFunctionStep, S, Fun
<1>. QED
  BY <1>1, DoesOne DEF StartFunction

LEMMA DoNoTail ==
  ASSUME NEW c, NEW v, NEW a, NEW k, NEW h, NEW j, NEW l, NEW bp \in Nat,
         tail \in BOOLEAN, h = v.count + a + k, NEW m \in {"any", "sealed"},
         NEW g, g = h + 1
  PROVE  Does(NoTail(bp), S(c, v, a, k, h, j, l), S(c, v, a, k, g, j, m))
<1>. DEFINE p1 == SetTail(FALSE)
            p2 == p1 \o Expr(bp)
            p3 == p2 \o SetTail(tail)
<1>. HIDE DEF p1, p2, p3
<1>1. Does(p1, S(c, v, a, k, h, j, l), S(c, v, a, k, h, j, l))
  BY DoSetTail DEF p1
<1>2. Does(p2, S(c, v, a, k, h, j, l), S(c, v, a, k, g, j, m))
  BY <1>1, DoExpr, Then DEF p2
<1>3. Does(p3, S(c, v, a, k, h, j, l), S(c, v, a, k, g, j, m))
  BY <1>2, DoSetTail, Then DEF p3
<1>. QED
  BY <1>3 DEF p1, p2, p3, NoTail

Good(c, v, a, k, j) ==
  c \in Contexts /\ IsVars(v) /\ a \in Nat /\ k \in Nat /\ j \in Seq(Int)

(* Wherever it is balanced, the items leave one value: what every handler   *)
(* of an expression does (m is what is known of its type).                  *)
Yields(items, m) ==
  \A c, v, a, k, h, j, l :
    Good(c, v, a, k, j) /\ h = v.count + a + k /\ l \in Known =>
      Does(items, S(c, v, a, k, h, j, l), S(c, v, a, k, h + 1, j, m))

LEMMA GoodHeight ==
  ASSUME NEW c, NEW v, NEW a, NEW k, NEW j, Good(c, v, a, k, j)
  PROVE  /\ v.count \in Nat /\ a \in Nat /\ k \in Nat /\ v.count + a + k \in Nat
         /\ j \in Seq(Int) /\ c \in Contexts /\ IsVars(v)
  BY DEF Good, IsVars

LEMMA GoodJumps ==
  ASSUME NEW c, NEW v, NEW a, NEW k, NEW j, Good(c, v, a, k, j), NEW h \in Int
  PROVE  Good(c, v, a, k, Append(j, h))
  BY DEF Good

LEMMA NoVarsGood == IsVars(NoVars) /\ NoVars.count = 0
  BY DEF IsVars, NoVars

LEMMA WithVars ==
  ASSUME NEW v, IsVars(v), NEW n \in Nat, NEW N \in SUBSET AllNames
  PROVE  IsVars(With(v, n, N)) /\ With(v, n, N).count = v.count + n
<1>1. [from |-> v.count, names |-> N] \in [from : Nat, names : SUBSET AllNames]
  BY DEF IsVars
<1>. HIDE DEF AllNames
<1>. QED
  BY <1>1 DEF IsVars, With

LEMMA WithDeclares ==
  ASSUME NEW v, IsVars(v), NEW n \in Nat, NEW N, NEW x, x \in N \/ Declares(v, x)
  PROVE  Declares(With(v, n, N), x)
<1>. DEFINE w == With(v, n, N)
            e == [from |-> v.count, names |-> N]
<1>1. v.scopes \in Seq([from : Nat, names : SUBSET AllNames]) /\ w.scopes = Append(v.scopes, e)
  BY DEF IsVars, With
<1>2. /\ DOMAIN w.scopes = 1..(Len(v.scopes) + 1)
      /\ w.scopes[Len(v.scopes) + 1] = e /\ Len(v.scopes) \in Nat
      /\ \A i \in DOMAIN v.scopes : i \in DOMAIN w.scopes /\ w.scopes[i] = v.scopes[i]
  BY <1>1
<1>. HIDE DEF w
<1>3. CASE x \in N
  <2>1. e.names = N
    OBVIOUS
  <2>2. Len(v.scopes) + 1 \in DOMAIN w.scopes
    BY <1>2
  <2>. QED
    BY <1>2, <1>3, <2>1, <2>2 DEF Declares, w
<1>4. CASE Declares(v, x)
  <2>1. PICK i \in DOMAIN v.scopes : x \in v.scopes[i].names
    BY <1>4 DEF Declares
  <2>. QED
    BY <2>1, <1>2 DEF Declares, w
<1>. QED
  BY <1>3, <1>4

LEMMA FunShape ==
  ASSUME NEW c, NEW v, NEW a, NEW k, NEW j, Good(c, v, a, k, j), NEW h \in Nat,
         NEW l \in Known
  PROVE  /\ Fun(v, a, k, h, j, l) \in Shapes
         /\ Within(c, Fun(v, a, k, h, j, l)) \in Contexts
<1>1. Fun(v, a, k, h, j, l) \in Shapes
  BY DEF Good, IsVars, Fun, Shapes
<1>. QED
  BY <1>1 DEF Good, Contexts, Within

LEMMA CountedContext ==
  ASSUME NEW c \in Contexts
  PROVE  /\ Deeper(c, 1) \in Contexts /\ Deeper(Deeper(c, 1), -1) = c
         /\ Rooted(c, 1) \in Contexts /\ Rooted(Rooted(c, 1), -1) = c
  BY DEF Contexts, Deeper, Rooted

(* The closure or thunk is a value of the enclosing function *)
LEMMA DoEnds ==
  ASSUME NEW c \in Contexts, NEW v, NEW a, NEW k, NEW h \in Nat, NEW j, NEW l, NEW i,
         NEW m, NEW made \in {"closure", "thunk"}, Fun(v, a, k, h, j, l) \in Shapes,
         NEW g, g = h + 1
  PROVE  Does(EndsAs(made),
              S(Within(c, Fun(v, a, k, h, j, l)), NoVars, 0, i, 1, <<>>, m),
              S(c, v, a, k, g, j, "any"))
<1>. DEFINE f == Fun(v, a, k, h, j, l)
            s == S(Within(c, f), NoVars, 0, i, 1, <<>>, m)
            t == S(c, v, a, k, g, j, "any")
<1>1. Step(<<"end_function">>, s, [ctx |-> c, fun |-> f])
  <2>1. s.fun.height = 1 /\ s.fun.vars.count = 0 /\ s.fun.anon = 0
    BY DEF S, Fun, NoVars
  <2>2. /\ s.ctx.base = Append(c.base, f) /\ c.base \in Seq(Shapes) /\ f \in Shapes
        /\ [base |-> c.base, depth |-> s.ctx.depth, roots |-> s.ctx.roots] = c
    BY DEF S, Within, Contexts
  <2>. HIDE DEF s, f
  <2>3. EndFunctionStep(s, [ctx |-> c, fun |-> f])
    BY <2>1, <2>2 DEF EndFunctionStep
  <2>. QED
    BY <2>3 DEF Step
<1>2. Step(<<made>>, [ctx |-> c, fun |-> f], t)
  BY DEF Step, TakeStep, Moved, S, Fun
<1>3. Does(<<<<"end_function">>>> \o <<<<made>>>>, s, t)
  BY <1>1, <1>2, DoesOne, Then
<1>. QED
  BY <1>3 DEF EndsAs

LEMMA LeastIn ==
  ASSUME NEW T \in SUBSET Nat, T # {}
  PROVE  \E first \in T : \A j \in T : first <= j
<1>. DEFINE R == OpToRel(<, Nat)
<1>1. \A i, j \in Nat : i < j => <<i, j>> \in R
  BY DEF OpToRel
<1>2. IsWellFoundedOn(R, Nat)
  BY NatLessThanWellFounded
<1>. HIDE DEF R
<1>3. PICK first \in T : \A j \in T : ~(<<j, first>> \in R)
  BY <1>2, WFMin
<1>4. ASSUME NEW j \in T PROVE first <= j
  <2>1. first \in Nat /\ j \in Nat /\ ~(j < first)
    BY <1>1, <1>3
  <2>. QED
    BY <2>1
<1>. QED
  BY <1>4

(* The lists seqs[1], ..., seqs[n] lead from st[0] through st[1], ... *)
Chain(n, seqs, st) == \A i \in 1..n : Does(seqs[i], st[i - 1], st[i])

FlatStep(seqs, f, i) == IF i = 1 THEN seqs[i] ELSE f[i - 1] \o seqs[i]

LEMMA FlatExists ==
  ASSUME NEW n \in Nat, NEW seqs
  PROVE  \E f : f = [i \in 1..n |-> FlatStep(seqs, f, i)]
<1>. DEFINE Built(f, m) == \A i \in 1..m : f[i] = FlatStep(seqs, f, i)
            Bad == {m \in 0..n : ~ \E f : Built(f, m)}
<1>1. Bad = {}
  <2>. SUFFICES ASSUME Bad # {} PROVE FALSE
    OBVIOUS
  <2>1. PICK m \in Bad : \A i \in Bad : m <= i
    <3>1. Bad \in SUBSET Nat
      OBVIOUS
    <3>. HIDE DEF Bad
    <3>. QED
      BY <3>1, LeastIn
  <2>2. m # 0
    <3>1. \A f : Built(f, 0)
      OBVIOUS
    <3>. QED
      BY <3>1
  <2>3. m \in Nat /\ m - 1 \in 0..n /\ m - 1 \notin Bad
    BY <2>1, <2>2
  <2>4. PICK f : Built(f, m - 1)
    BY <2>3
  <2>. DEFINE g == [i \in 1..m |-> IF i < m THEN f[i] ELSE FlatStep(seqs, f, m)]
  <2>5. ASSUME NEW i \in 1..m PROVE g[i] = FlatStep(seqs, g, i)
    <3>1. CASE i < m
      <4>1. g[i] = f[i] /\ f[i] = FlatStep(seqs, f, i) /\ (i # 1 => g[i - 1] = f[i - 1])
        BY <3>1, <2>3, <2>4
      <4>. QED
        BY <4>1 DEF FlatStep
    <3>2. CASE i = m
      <4>1. g[i] = FlatStep(seqs, f, i) /\ (i # 1 => g[i - 1] = f[i - 1])
        BY <3>2, <2>3
      <4>. QED
        BY <4>1 DEF FlatStep
    <3>. QED
      BY <3>1, <3>2, <2>3
  <2>. HIDE DEF g
  <2>6. Built(g, m)
    BY <2>5
  <2>. QED
    BY <2>1, <2>6
<1>2. PICK f : Built(f, n)
  BY <1>1
<1>. DEFINE g == [i \in 1..n |-> f[i]]
<1>3. ASSUME NEW i \in 1..n PROVE g[i] = FlatStep(seqs, g, i)
  <2>1. g[i] = f[i] /\ f[i] = FlatStep(seqs, f, i) /\ (i # 1 => g[i - 1] = f[i - 1])
    BY <1>2
  <2>. QED
    BY <2>1 DEF FlatStep
<1>4. g = [i \in 1..n |-> g[i]]
  OBVIOUS
<1>. HIDE DEF g
<1>5. g = [i \in 1..n |-> FlatStep(seqs, g, i)]
  BY <1>3, <1>4
<1>. QED
  BY <1>5

(* One list after another, n of them *)
LEMMA DoConcat ==
  ASSUME NEW n \in Nat, NEW seqs, NEW st, seqs = [i \in 1..n |-> seqs[i]],
         Chain(n, seqs, st)
  PROVE  Does(Concat(seqs), st[0], st[n])
<1>1. seqs \in Seq({seqs[i] : i \in 1..n}) /\ Len(seqs) = n
  <2>1. seqs \in [1..n -> {seqs[i] : i \in 1..n}]
    OBVIOUS
  <2>. QED
    BY <2>1
<1>2. CASE n = 0
  <2>1. Concat(seqs) = <<>>
    BY <1>1, <1>2 DEF Concat, FlattenSeq
  <2>. QED
    BY <2>1, <1>2, DoesNothing
<1>3. CASE n # 0
  <2>. DEFINE flat == CHOOSE f : f = [i \in 1..n |-> FlatStep(seqs, f, i)]
  <2>1. flat = [i \in 1..n |-> FlatStep(seqs, flat, i)]
    BY FlatExists
  <2>2. Concat(seqs) = flat[n]
    BY <1>1, <1>3 DEF Concat, FlattenSeq, FlatStep
  <2>. HIDE DEF flat
  <2>3. \A i \in 1..n : flat[i] = FlatStep(seqs, flat, i)
    BY <2>1
  <2>. DEFINE Bad == {i \in 1..n : ~Does(flat[i], st[0], st[i])}
  <2>4. Bad = {}
    <3>. SUFFICES ASSUME Bad # {} PROVE FALSE
      OBVIOUS
    <3>1. PICK m \in Bad : \A i \in Bad : m <= i
      <4>1. Bad \in SUBSET Nat
        OBVIOUS
      <4>. HIDE DEF Bad
      <4>. QED
        BY <4>1, LeastIn
    <3>2. m \in 1..n /\ ~Does(flat[m], st[0], st[m])
      OBVIOUS
    <3>3. Does(seqs[m], st[m - 1], st[m])
      BY <3>2 DEF Chain
    <3>4. CASE m = 1
      <4>1. flat[m] = seqs[m]
        BY <2>3, <3>2, <3>4 DEF FlatStep
      <4>. QED
        BY <4>1, <3>2, <3>3, <3>4
    <3>5. CASE m # 1
      <4>1. m - 1 \in 1..n /\ m - 1 \notin Bad
        BY <3>1, <3>2, <3>5
      <4>2. Does(flat[m - 1], st[0], st[m - 1])
        BY <4>1
      <4>3. flat[m] = flat[m - 1] \o seqs[m]
        BY <2>3, <3>2, <3>5 DEF FlatStep
      <4>. QED
        BY <4>2, <4>3, <3>2, <3>3, Then
    <3>. QED
      BY <3>4, <3>5
  <2>5. Does(flat[n], st[0], st[n])
    BY <1>3, <2>4
  <2>. QED
    BY <2>2, <2>5
<1>. QED
  BY <1>2, <1>3

(***************************************************************************)
(* Lists of declarations, thunks and functions                              *)
(***************************************************************************)
LEMMA DoYields ==
  ASSUME NEW items, NEW m, Yields(items, m), NEW c, NEW v, NEW a, NEW k, NEW h, NEW j,
         NEW l \in Known, Good(c, v, a, k, j), h = v.count + a + k, NEW g, g = h + 1
  PROVE  Does(items, S(c, v, a, k, h, j, l), S(c, v, a, k, g, j, m))
  BY DEF Yields

NamesIn(list) == {list[i].name : i \in DOMAIN list}

CountsAt(b, n, a, h, len, i) ==
  /\ i - 1 \in 0..len /\ i \in 0..len /\ h + (i - 1) \in Nat /\ n + (i - 1) \in Nat
  /\ h + i \in Nat /\ h + (i - 1) + 1 = h + i /\ (n + (i - 1)) + 1 = n + i
  /\ h + i = b + (n + (i - 1)) + a + 1

LEMMA CountedAt ==
  ASSUME NEW b \in Nat, NEW n \in Nat, NEW a \in Nat, NEW h, h = b + n + a,
         NEW len \in Nat, NEW i \in 1..len
  PROVE  CountsAt(b, n, a, h, len, i)
  BY DEF CountsAt

LEMMA DoDeclareAll ==
  ASSUME NEW c, NEW v, IsVars(v), NEW a \in Nat, NEW k, NEW h \in Nat, NEW j, NEW n \in Nat,
         NEW N, NEW R, NEW list \in Seq(R), NamesIn(list) \subseteq AllNames,
         h = v.count + n + a, NEW kinds \in SUBSET Kinds, NEW n2, NEW N2, NEW h2,
         n2 = n + Len(list), N2 = N \cup NamesIn(list), h2 = h + Len(list)
  PROVE  Does(DeclareAll(list, kinds),
              S(c, With(v, n, N), a, k, h, j, "any"),
              S(c, With(v, n2, N2), a, k, h2, j, "any"))
<1>. DEFINE len == Len(list)
            seqs == [i \in 1..len |-> Value(kinds) \o Declare(list[i].name)]
            Here(i) == N \cup {list[q].name : q \in 1..i}
            st == [i \in 0..len |-> S(c, With(v, n + i, Here(i)), a, k, h + i, j, "any")]
<1>1. len \in Nat /\ DOMAIN list = 1..len
  OBVIOUS
<1>2. ASSUME NEW i \in 1..len PROVE Does(seqs[i], st[i - 1], st[i])
  <2>. DEFINE x == list[i].name
              mid == S(c, With(v, n + (i - 1), Here(i - 1)), a, k, h + (i - 1) + 1, j, "any")
  <2>0. v.count \in Nat /\ i \in Nat /\ 1 <= i /\ i <= Len(list) /\ Len(list) \in Nat
    BY <1>1 DEF IsVars
  <2>1. /\ i - 1 \in 0..len /\ i \in 0..len /\ h + (i - 1) \in Nat /\ n + (i - 1) \in Nat
        /\ h + i \in Nat /\ h + (i - 1) + 1 = h + i /\ (n + (i - 1)) + 1 = n + i
        /\ h + i = v.count + (n + (i - 1)) + a + 1
    <3>. HIDE DEF seqs, Here, st, x, mid
    <3>1. len \in Nat
      BY <1>1
    <3>. HIDE DEF len
    <3>2. CountsAt(v.count, n, a, h, len, i)
      BY <2>0, <3>1, CountedAt
    <3>. QED
      BY <3>2 DEF CountsAt
  <2>2. x \in AllNames
    BY <1>1 DEF NamesIn
  <2>3. Here(i) = Here(i - 1) \cup {x}
    <3>1. \A q : q \in 1..i <=> q \in 1..(i - 1) \/ q = i
      BY <1>1
    <3>. QED
      BY <3>1
  <2>4. Does(Value(kinds), S(c, With(v, n + (i - 1), Here(i - 1)), a, k, h + (i - 1), j, "any"), mid)
    BY <2>1, DoValue
  <2>. HIDE DEF Here, x
  <2>6. Does(Declare(x), mid, S(c, With(v, n + i, Here(i)), a, k, h + i, j, "any"))
    BY <2>1, <2>2, <2>3, DoDeclare
  <2>7. Does(Value(kinds) \o Declare(x),
             S(c, With(v, n + (i - 1), Here(i - 1)), a, k, h + (i - 1), j, "any"),
             S(c, With(v, n + i, Here(i)), a, k, h + i, j, "any"))
    BY <2>4, <2>6, Then
  <2>8. /\ st[i - 1] = S(c, With(v, n + (i - 1), Here(i - 1)), a, k, h + (i - 1), j, "any")
        /\ st[i] = S(c, With(v, n + i, Here(i)), a, k, h + i, j, "any")
        /\ seqs[i] = Value(kinds) \o Declare(x)
    BY <2>1 DEF x
  <2>. HIDE DEF st, seqs, mid
  <2>. QED
    BY <2>7, <2>8
<1>3. /\ seqs = [i \in 1..len |-> seqs[i]]
      /\ DeclareAll(list, kinds) = Concat(seqs)
  BY <1>1 DEF DeclareAll
<1>4. st[0] = S(c, With(v, n, N), a, k, h, j, "any")
  <2>1. Here(0) = N
    OBVIOUS
  <2>2. n + 0 = n /\ h + 0 = h /\ 0 \in 0..len
    BY <1>1
  <2>. HIDE DEF Here
  <2>. QED
    BY <2>1, <2>2
<1>5. st[len] = S(c, With(v, n2, N2), a, k, h2, j, "any")
  <2>1. Here(len) = N2
    BY <1>1 DEF NamesIn
  <2>2. len \in 0..len /\ n + len = n2 /\ h + len = h2
    BY <1>1
  <2>. HIDE DEF Here
  <2>. QED
    BY <2>1, <2>2
<1>. HIDE DEF st, seqs, len
<1>6. Chain(len, seqs, st)
  BY <1>2 DEF Chain
<1>7. Does(Concat(seqs), st[0], st[len])
  BY <1>1, <1>3, <1>6, DoConcat
<1>. QED
  BY <1>3, <1>4, <1>5, <1>7

(* Items that each leave the shape as it is *)
LEMMA DoEach ==
  ASSUME NEW n \in Nat, NEW seqs, seqs = [i \in 1..n |-> seqs[i]], NEW s,
         \A i \in 1..n : Does(seqs[i], s, s)
  PROVE  Does(Concat(seqs), s, s)
<1>. DEFINE st == [i \in 0..n |-> s]
<1>1. Chain(n, seqs, st)
  <2>. SUFFICES ASSUME NEW i \in 1..n PROVE Does(seqs[i], st[i - 1], st[i])
    BY DEF Chain
  <2>1. st[i - 1] = s /\ st[i] = s
    OBVIOUS
  <2>. HIDE DEF st
  <2>. QED
    BY <2>1
<1>2. st[0] = s /\ st[n] = s
  OBVIOUS
<1>. HIDE DEF st
<1>. QED
  BY <1>1, <1>2, DoConcat



LEMMA InnerGood ==
  ASSUME NEW c \in Contexts, NEW f \in Shapes, NEW n \in Nat, NEW N \in SUBSET AllNames
  PROVE  /\ Good(Within(c, f), With(NoVars, n, N), 0, 0, <<>>)
         /\ With(NoVars, n, N).count = n
<1>1. Within(c, f) \in Contexts
  BY DEF Within, Contexts
<1>2. IsVars(With(NoVars, n, N)) /\ With(NoVars, n, N).count = n
  BY NoVarsGood, WithVars
<1>. QED
  BY <1>1, <1>2 DEF Good

(* The literals of the lemmas that follow have names, on which the provers  *)
(* match them.                                                              *)
Zero == 0
One  == 1
Two  == 2
Nothing     == {}
ClosureName == "<closure>"
ClosureOnly == {"<closure>"}

LEMMA Literals ==
  /\ Zero \in Nat /\ One \in Nat /\ Two \in Nat /\ One = Zero + 1 /\ Two = One + 1
  /\ Zero + Zero = Zero /\ One + Zero = One /\ One + Zero + Zero = One
  /\ ClosureOnly = Nothing \cup {ClosureName} /\ ClosureName \in AllNames
  /\ NoVars.count = Zero /\ NoVars.count + Zero + Zero = Zero
  /\ IsVars(NoVars) /\ ClosureOnly \in SUBSET AllNames
  /\ "any" \in Known /\ "sealed" \in Known
<1>1. /\ Zero \in Nat /\ One \in Nat /\ Two \in Nat /\ One = Zero + 1 /\ Two = One + 1
      /\ Zero + Zero = Zero /\ One + Zero = One /\ One + Zero + Zero = One
  BY DEF Zero, One, Two
<1>2. NoVars.count = Zero /\ IsVars(NoVars) /\ NoVars.count + Zero + Zero = Zero
  BY NoVarsGood DEF Zero
<1>3. ClosureOnly = Nothing \cup {ClosureName}
  BY DEF ClosureOnly, Nothing, ClosureName
<1>4. ClosureName \in AllNames
  BY DEF ClosureName, AllNames
<1>5. ClosureOnly \in SUBSET AllNames
  BY <1>4 DEF ClosureOnly, ClosureName
<1>6. "any" \in Known /\ "sealed" \in Known
  BY DEF Known
<1>. QED
  BY <1>1, <1>2, <1>3, <1>4, <1>5, <1>6

LEMMA DoOpenFunction ==
  ASSUME NEW c, NEW v, NEW a, NEW k, NEW h, NEW j, NEW l
  PROVE  Does(OpenFunction, S(c, v, a, k, h, j, l),
              S(Within(c, Fun(v, a, k, h, j, l)), With(NoVars, One, ClosureOnly),
                Zero, Zero, One, <<>>, "any"))
<1>. DEFINE d == Within(c, Fun(v, a, k, h, j, l))
            w0 == With(NoVars, Zero, Nothing)
            w == With(NoVars, One, ClosureOnly)
            r0 == S(d, NoVars, Zero, Zero, Zero, <<>>, "any")
            r1 == S(d, w0, Zero, Zero, Zero, <<>>, "any")
            r2 == S(d, w0, Zero, Zero, One, <<>>, "any")
            r3 == S(d, w, Zero, Zero, One, <<>>, "any")
<1>1. Does(StartFunction, S(c, v, a, k, h, j, l), r0)
  BY DoStart DEF Zero
<1>2. Does(BeginScope, r0, r1)
  BY DoBeginScope DEF Zero, Nothing
<1>3. Does(Value({"oth"}), r1, r2)
  BY ZenonT(40), Literals, DoValue DEF Kinds
<1>. HIDE DEF d
<1>4. Does(Declare(ClosureName), r2, r3)
  <2>1. One = NoVars.count + Zero + Zero + 1
    BY Literals
  <2>. QED
    BY <2>1, Literals, DoDeclare
<1>. DEFINE p2 == StartFunction \o BeginScope
            p3 == p2 \o Value({"oth"})
<1>. HIDE DEF r0, r1, r2, r3, p2, p3
<1>5. Does(p2, S(c, v, a, k, h, j, l), r1)
  BY <1>1, <1>2, Then DEF p2
<1>6. Does(p3, S(c, v, a, k, h, j, l), r2)
  BY <1>3, <1>5, Then DEF p3
<1>7. Does(p3 \o Declare(ClosureName), S(c, v, a, k, h, j, l), r3)
  BY <1>4, <1>6, Then
<1>. QED
  BY <1>7 DEF p2, p3, r3, d, OpenFunction, ClosureName

LEMMA DoCloseFunction ==
  ASSUME NEW c \in Contexts, NEW v, NEW a, NEW k, NEW h \in Nat, NEW j, NEW l, NEW i,
         NEW m, NEW made \in {"closure", "thunk"}, Fun(v, a, k, h, j, l) \in Shapes,
         NEW g, g = h + 1, NEW n \in Nat, NEW N, NEW n1, n1 = n + 1
  PROVE  Does(CloseFunction(made),
              S(Within(c, Fun(v, a, k, h, j, l)), With(NoVars, n, N), Zero, i, n1, <<>>, m),
              S(c, v, a, k, g, j, "any"))
<1>. DEFINE d == Within(c, Fun(v, a, k, h, j, l))
<1>0. IsVars(NoVars) /\ n < n1 /\ One = n1 - n /\ n1 \in Nat
  BY NoVarsGood DEF One
<1>1. Does(EndScope, S(d, With(NoVars, n, N), Zero, i, n1, <<>>, m),
           S(d, NoVars, Zero, i, One, <<>>, "any"))
  BY <1>0, DoEndScope
<1>2. Does(EndsAs(made), S(d, NoVars, Zero, i, One, <<>>, "any"), S(c, v, a, k, g, j, "any"))
  BY DoEnds DEF One, Zero
<1>. QED
  BY <1>1, <1>2, Then DEF CloseFunction

(* parse_expr_as_thunk *)
LEMMA ThunkOfYields ==
  ASSUME NEW body, NEW m \in Known, Yields(body, m)
  PROVE  Yields(ThunkOf(body), "any")
<1>. SUFFICES ASSUME NEW c, NEW v, NEW a, NEW k, NEW h, NEW j, NEW l,
                     Good(c, v, a, k, j), h = v.count + a + k, l \in Known
              PROVE  Does(ThunkOf(body), S(c, v, a, k, h, j, l),
                          S(c, v, a, k, h + 1, j, "any"))
  BY DEF Yields
<1>0. /\ h \in Nat /\ h + 1 \in Nat /\ h + 2 \in Nat /\ j \in Seq(Int) /\ a \in Nat /\ k \in Nat
      /\ c \in Contexts /\ IsVars(v) /\ h = v.count + a + k /\ l \in Known
  BY GoodHeight
<1>. DEFINE d == Within(c, Fun(v, a, k, h, j, l))
            w == With(NoVars, One, ClosureOnly)
<1>d. Fun(v, a, k, h, j, l) \in Shapes /\ d \in Contexts
  BY <1>0, FunShape
<1>w. Good(d, w, Zero, Zero, <<>>) /\ w.count = One /\ One = w.count + Zero + Zero
  BY SMTT(30), <1>0, <1>d, InnerGood, Literals DEF Zero
<1>. HIDE DEF d, w
<1>. DEFINE p1 == OpenFunction
            p2 == p1 \o body
            p3 == p2 \o CloseFunction("thunk")
<1>. HIDE DEF p1, p2, p3
<1>1. Does(p1, S(c, v, a, k, h, j, l), S(d, w, Zero, Zero, One, <<>>, "any"))
  BY <1>0, <1>d, <1>w, Literals, DoOpenFunction DEF p1, d, w
<1>2. Does(p2, S(c, v, a, k, h, j, l), S(d, w, Zero, Zero, Two, <<>>, m))
  BY SMTT(30), <1>0, <1>d, <1>w, Literals, <1>1, DoYields, Then DEF p2
<1>3. Does(p3, S(c, v, a, k, h, j, l), S(c, v, a, k, h + 1, j, "any"))
  BY <1>0, <1>d, <1>w, Literals, <1>2, DoCloseFunction, Then DEF p3, d, w
<1>. QED
  BY <1>3 DEF p1, p2, p3, ThunkOf


LEMMA NoTailYields ==
  ASSUME tail \in BOOLEAN, NEW bp \in Nat, NEW m \in {"any", "sealed"}
  PROVE  Yields(NoTail(bp), m)
<1>. SUFFICES ASSUME NEW c, NEW v, NEW a, NEW k, NEW h, NEW j, NEW l,
                     Good(c, v, a, k, j), h = v.count + a + k, l \in Known
              PROVE  Does(NoTail(bp), S(c, v, a, k, h, j, l), S(c, v, a, k, h + 1, j, m))
  BY DEF Yields
<1>. QED
  BY DoNoTail

LEMMA ExprYields ==
  ASSUME NEW bp \in Nat, NEW m \in {"any", "sealed"}
  PROVE  Yields(Expr(bp), m)
<1>. SUFFICES ASSUME NEW c, NEW v, NEW a, NEW k, NEW h, NEW j, NEW l,
                     Good(c, v, a, k, j), h = v.count + a + k, l \in Known
              PROVE  Does(Expr(bp), S(c, v, a, k, h, j, l), S(c, v, a, k, h + 1, j, m))
  BY DEF Yields
<1>. QED
  BY DoExpr

LEMMA ThunkYields ==
  ASSUME tail \in BOOLEAN PROVE Yields(Thunk, "any")
  BY NoTailYields, ThunkOfYields, Literals DEF Thunk

(* compile_function_body: a parameter with a default *)
LEMMA DefaultDoes ==
  ASSUME tail \in BOOLEAN, NEW c, NEW v, NEW a, NEW k, NEW h, NEW j, Good(c, v, a, k, j),
         h = v.count + a + k, NEW p, Declares(v, p.name)
  PROVE  Does(Default(p), S(c, v, a, k, h, j, "any"), S(c, v, a, k, h, j, "any"))
<1>0. /\ h \in Nat /\ h + 1 \in Nat /\ j \in Seq(Int) /\ Good(c, v, a, k, Append(j, h))
      /\ h = v.count + a + k
  <2>1. h \in Nat /\ h + 1 \in Nat /\ j \in Seq(Int)
    BY GoodHeight
  <2>. QED
    BY <2>1, GoodJumps
<1>a. CASE ~p.default
  BY <1>a, DoesNothing DEF Default
<1>b. CASE p.default
  <2>. DEFINE p1 == LoadName(p.name)
              p2 == p1 \o JumpIf
              p3 == p2 \o Thunk
              p4 == p3 \o Store(p.name)
              p5 == p4 \o Join
  <2>. HIDE DEF p1, p2, p3, p4, p5
  <2>1. Does(p1, S(c, v, a, k, h, j, "any"), S(c, v, a, k, h + 1, j, "any"))
    BY <1>0, DoLoad DEF p1
  <2>2. Does(p2, S(c, v, a, k, h, j, "any"), S(c, v, a, k, h, Append(j, h), "any"))
    BY <1>0, <2>1, DoJumpIf, Then DEF p2
  <2>3. Does(p3, S(c, v, a, k, h, j, "any"), S(c, v, a, k, h + 1, Append(j, h), "any"))
    BY <1>0, <2>2, ThunkYields, DoYields, Literals, Then DEF p3
  <2>4. Does(p4, S(c, v, a, k, h, j, "any"), S(c, v, a, k, h, Append(j, h), "any"))
    BY <1>0, <2>3, DoStore, Then DEF p4
  <2>5. Does(p5, S(c, v, a, k, h, j, "any"), S(c, v, a, k, h, j, "any"))
    BY <1>0, <2>4, DoJoin, Then DEF p5
  <2>. QED
    BY <1>b, <2>5 DEF p1, p2, p3, p4, p5, Default
<1>. QED
  BY <1>a, <1>b

(* compile_function_body *)
LEMMA FunctionBodyYields ==
  ASSUME tail \in BOOLEAN, NEW ps \in Params
  PROVE  Yields(FunctionBody(ps), "any")
<1>. SUFFICES ASSUME NEW c, NEW v, NEW a, NEW k, NEW h, NEW j, NEW l,
                     Good(c, v, a, k, j), h = v.count + a + k, l \in Known
              PROVE  Does(FunctionBody(ps), S(c, v, a, k, h, j, l),
                          S(c, v, a, k, h + 1, j, "any"))
  BY DEF Yields
<1>0. /\ h \in Nat /\ h + 1 \in Nat /\ h + 2 \in Nat /\ j \in Seq(Int) /\ a \in Nat /\ k \in Nat
      /\ c \in Contexts /\ IsVars(v) /\ h = v.count + a + k /\ l \in Known
  BY GoodHeight
<1>. DEFINE r == Rooted(c, 1)
            d == Within(r, Fun(v, a, k, h, j, l))
            n == One + Len(ps)
            N == ClosureOnly \cup NamesIn(ps)
            w1 == With(NoVars, One, ClosureOnly)
            w == With(NoVars, n, N)
<1>p. /\ ps \in Seq([name : Names, default : BOOLEAN]) /\ Len(ps) \in Nat
      /\ NamesIn(ps) \subseteq AllNames /\ N \in SUBSET AllNames
      /\ n \in Nat /\ n + 1 \in Nat
  <2>1. ps \in Seq([name : Names, default : BOOLEAN])
    BY ListsAssumption DEF IsParameterList
  <2>2. NamesIn(ps) \subseteq Names
    <3>1. ASSUME NEW i \in DOMAIN ps PROVE ps[i].name \in Names
      <4>. DEFINE R == [name : Names, default : BOOLEAN]
      <4>1. ps[i] \in R
        <5>1. ps \in Seq(R)
          BY <2>1
        <5>. HIDE DEF R
        <5>. QED
          BY <5>1
      <4>. QED
        BY <4>1
    <3>. QED
      BY <3>1 DEF NamesIn
  <2>3. NamesIn(ps) \subseteq AllNames
    BY <2>2 DEF AllNames
  <2>4. Len(ps) \in Nat
    BY <2>1
  <2>. QED
    BY <2>1, <2>3, <2>4, Literals
<1>r. /\ r \in Contexts /\ Rooted(r, -1) = c /\ c.roots \in Nat /\ c.roots + 1 \in Nat
      /\ r.roots = c.roots + 1
  BY <1>0, CountedContext DEF Contexts, Rooted
<1>d. Fun(v, a, k, h, j, l) \in Shapes /\ d \in Contexts
  <2>1. Good(r, v, a, k, j)
    BY <1>r DEF Good
  <2>. HIDE DEF r
  <2>. QED
    BY <1>0, <2>1, FunShape
<1>w. /\ Good(d, w, Zero, Zero, <<>>) /\ n = w.count + Zero + Zero
      /\ One = NoVars.count + One + Zero
  <2>. HIDE DEF n, N, d
  <2>1. Good(d, w, 0, 0, <<>>) /\ w.count = n
    BY <1>d, <1>p, <1>r, InnerGood DEF d
  <2>. QED
    BY <2>1, <1>p, Literals DEF Zero
<1>b. \A i \in DOMAIN ps : Declares(w, ps[i].name)
  <2>. SUFFICES ASSUME NEW i \in DOMAIN ps PROVE Declares(w, ps[i].name)
    OBVIOUS
  <2>1. ps[i].name \in N
    BY DEF NamesIn
  <2>. HIDE DEF n, N
  <2>. QED
    BY <2>1, <1>p, Literals, WithDeclares
<1>. DEFINE defaults == [i \in DOMAIN ps |-> Default(ps[i])]
            full == S(d, w, Zero, Zero, n, <<>>, "any")
<1>e. Does(Concat(defaults), full, full)
  <2>1. DOMAIN ps = 1..Len(ps) /\ defaults = [i \in 1..Len(ps) |-> defaults[i]]
    BY <1>p
  <2>. HIDE DEF w, d, n
  <2>2. ASSUME NEW i \in 1..Len(ps) PROVE Does(defaults[i], full, full)
    <3>1. Does(Default(ps[i]), full, full)
      BY <2>1, <1>b, <1>w, DefaultDoes
    <3>. QED
      BY <2>1, <3>1
  <2>. HIDE DEF defaults, full
  <2>. QED
    BY <2>1, <2>2, <1>p, DoEach
<1>f. Does(Parameters(ps), S(d, w1, Zero, Zero, One, <<>>, "any"), full)
  <2>1. AnyKind \in SUBSET Kinds
    BY DEF AnyKind
  <2>2. n = One + Len(ps) /\ N = ClosureOnly \cup NamesIn(ps)
    OBVIOUS
  <2>3. /\ ps \in Seq([name : Names, default : BOOLEAN]) /\ NamesIn(ps) \subseteq AllNames
        /\ One = NoVars.count + One + Zero /\ IsVars(NoVars) /\ Zero \in Nat /\ One \in Nat
    BY <1>p, <1>w, Literals
  <2>. DEFINE R == [name : Names, default : BOOLEAN]
  <2>. HIDE DEF d, n, N, w1, w, R
  <2>4. Does(DeclareAll(ps, AnyKind), S(d, With(NoVars, One, ClosureOnly), Zero, Zero, One, <<>>, "any"),
             S(d, With(NoVars, n, N), Zero, Zero, n, <<>>, "any"))
    <3>1. ps \in Seq(R)
      BY <2>3 DEF R
    <3>2. /\ NamesIn(ps) \subseteq AllNames
          /\ One = NoVars.count + One + Zero /\ IsVars(NoVars) /\ Zero \in Nat /\ One \in Nat
      BY <2>3
    <3>. QED
      BY <3>1, <3>2, <2>1, <2>2, DoDeclareAll
  <2>. QED
    BY <2>4 DEF Parameters, w, w1
<1>h. Does(Root(-1), S(r, v, a, k, h + 1, j, "any"), S(c, v, a, k, h + 1, j, "any"))
  <2>. DEFINE back == Rooted(r, -1)
  <2>1. back = c /\ r.roots + (-1) \in Nat /\ -1 \in Int
    BY <1>r
  <2>. HIDE DEF r
  <2>2. Does(Root(-1), S(r, v, a, k, h + 1, j, "any"), S(back, v, a, k, h + 1, j, "any"))
    BY <2>1, DoRoot
  <2>. HIDE DEF back
  <2>. QED
    BY <2>1, <2>2
<1>g. full = S(d, w, Zero, Zero, n, <<>>, "any")
  OBVIOUS
<1>. HIDE DEF r, d, n, N, w1, w, defaults, full
<1>. DEFINE p1 == Root(1)
            p2 == p1 \o OpenFunction
            p3 == p2 \o Parameters(ps)
            p4 == p3 \o Concat(defaults)
            p5 == p4 \o SetTail(TRUE)
            p6 == p5 \o Expr(0)
            p7 == p6 \o SetTail(tail)
            p8 == p7 \o CloseFunction("closure")
            p9 == p8 \o Root(-1)
<1>. HIDE DEF p1, p2, p3, p4, p5, p6, p7, p8, p9
<1>1. Does(p1, S(c, v, a, k, h, j, l), S(r, v, a, k, h, j, l))
  BY <1>0, <1>r, <1>d, <1>p, <1>w, Literals, DoRoot DEF p1, r
<1>2. Does(p2, S(c, v, a, k, h, j, l), S(d, w1, Zero, Zero, One, <<>>, "any"))
  BY <1>0, <1>r, <1>d, <1>p, <1>w, Literals, <1>1, DoOpenFunction, Then DEF p2, d, w1
<1>3. Does(p3, S(c, v, a, k, h, j, l), full)
  BY <1>0, <1>r, <1>d, <1>p, <1>w, Literals, <1>2, <1>f, Then DEF p3
<1>4. Does(p4, S(c, v, a, k, h, j, l), full)
  BY <1>0, <1>r, <1>d, <1>p, <1>w, Literals, <1>3, <1>e, Then DEF p4
<1>5. Does(p5, S(c, v, a, k, h, j, l), full)
  BY <1>0, <1>r, <1>d, <1>p, <1>w, Literals, <1>4, DoSetTail, Then DEF p5, full
<1>6. Does(p6, S(c, v, a, k, h, j, l), S(d, w, Zero, Zero, n + 1, <<>>, "any"))
  BY <1>0, <1>r, <1>d, <1>p, <1>w, Literals, <1>5, DoExpr, Then DEF p6, full
<1>7. Does(p7, S(c, v, a, k, h, j, l), S(d, w, Zero, Zero, n + 1, <<>>, "any"))
  BY <1>0, <1>r, <1>d, <1>p, <1>w, Literals, <1>6, DoSetTail, Then DEF p7
<1>8. Does(p8, S(c, v, a, k, h, j, l), S(r, v, a, k, h + 1, j, "any"))
  BY <1>0, <1>r, <1>d, <1>p, <1>w, Literals, <1>7, DoCloseFunction, Then DEF p8, d, w
<1>9. Does(p9, S(c, v, a, k, h, j, l), S(c, v, a, k, h + 1, j, "any"))
  BY <1>0, <1>r, <1>d, <1>p, <1>w, Literals, <1>8, <1>h, Then DEF p9
<1>. QED
  BY <1>9 DEF p1, p2, p3, p4, p5, p6, p7, p8, p9, FunctionBody, defaults


(***************************************************************************)
(* Bindings, members of an object, and the thunks around them               *)
(***************************************************************************)
LEMMA BindingsList ==
  ASSUME NEW bs \in Bindings \cup {<<>>}
  PROVE  /\ \E R : bs \in Seq(R)
         /\ Len(bs) \in Nat /\ DOMAIN bs = 1..Len(bs)
         /\ NamesIn(bs) \in SUBSET AllNames
         /\ \A i \in DOMAIN bs :
              /\ bs[i].name \in NamesIn(bs)
              /\ bs[i].fun = {} \/ \E ps \in Params : bs[i].fun = {ps}
<1>. DEFINE F == {{}} \cup {{ps} : ps \in Params}
            R == [name : Names, fun : F]
<1>1. bs \in Seq(R)
  <2>1. CASE bs = <<>>
    BY <2>1
  <2>2. CASE bs \in Bindings
    BY <2>2, ListsAssumption DEF IsBindingList
  <2>. QED
    BY <2>1, <2>2
<1>2. ASSUME NEW i \in DOMAIN bs
      PROVE  bs[i].name \in Names /\ (bs[i].fun = {} \/ \E ps \in Params : bs[i].fun = {ps})
  <2>1. bs[i] \in R
    <3>. HIDE DEF R
    <3>. QED
      BY <1>1
  <2>. HIDE DEF F
  <2>2. bs[i].name \in Names /\ bs[i].fun \in F
    BY <2>1
  <2>. QED
    BY <2>2 DEF F
<1>3. NamesIn(bs) \in SUBSET AllNames
  BY <1>2 DEF NamesIn, AllNames
<1>. HIDE DEF R
<1>4. Len(bs) \in Nat /\ DOMAIN bs = 1..Len(bs)
  BY <1>1
<1>5. \A i \in DOMAIN bs : bs[i].name \in NamesIn(bs)
  BY DEF NamesIn
<1>. QED
  BY <1>1, <1>2, <1>3, <1>4, <1>5

(* The right-hand side of a binding goes into its variable *)
LEMMA RightHandSideDoes ==
  ASSUME tail \in BOOLEAN, NEW c, NEW v, NEW a, NEW k, NEW h, NEW j, Good(c, v, a, k, j),
         h = v.count + a + k, NEW b, Declares(v, b.name), NEW body, Yields(body, "any"),
         b.fun = {} \/ \E ps \in Params : b.fun = {ps}
  PROVE  Does(RightHandSide(b, body), S(c, v, a, k, h, j, "any"), S(c, v, a, k, h, j, "any"))
<1>. DEFINE rhs == IF b.fun = {} THEN body ELSE FunctionBody(CHOOSE ps \in b.fun : TRUE)
<1>0. h \in Nat /\ h + 1 \in Nat /\ j \in Seq(Int) /\ h = v.count + a + k
  BY GoodHeight
<1>y. Yields(rhs, "any")
  <2>1. CASE b.fun = {}
    BY <2>1
  <2>2. CASE b.fun # {}
    <3>1. PICK ps \in Params : b.fun = {ps}
      BY <2>2
    <3>2. (CHOOSE q \in b.fun : TRUE) = ps
      BY <3>1
    <3>3. rhs = FunctionBody(ps)
      BY <2>2, <3>2
    <3>. HIDE DEF rhs
    <3>. QED
      BY <3>3, FunctionBodyYields
  <2>. QED
    BY <2>1, <2>2
<1>. HIDE DEF rhs
<1>1. Does(rhs, S(c, v, a, k, h, j, "any"), S(c, v, a, k, h + 1, j, "any"))
  BY <1>0, <1>y, DoYields, Literals
<1>2. Does(Store(b.name), S(c, v, a, k, h + 1, j, "any"), S(c, v, a, k, h, j, "any"))
  BY <1>0, DoStore
<1>3. Does(rhs \o Store(b.name), S(c, v, a, k, h, j, "any"), S(c, v, a, k, h, j, "any"))
  BY <1>1, <1>2, Then
<1>. QED
  BY <1>3 DEF RightHandSide, rhs

(* The body of a function with n variables *)
Body(d, n, N) == S(d, With(NoVars, n, N), Zero, Zero, n, <<>>, "any")

LEMMA BodyGood ==
  ASSUME NEW d \in Contexts, NEW n \in Nat, NEW N \in SUBSET AllNames
  PROVE  LET w == With(NoVars, n, N)
         IN  /\ Good(d, w, Zero, Zero, <<>>) /\ n = w.count + Zero + Zero
             /\ n = NoVars.count + n + Zero /\ n + 1 = NoVars.count + n + Zero + 1
<1>1. IsVars(With(NoVars, n, N)) /\ With(NoVars, n, N).count = n
  BY NoVarsGood, WithVars
<1>. QED
  BY <1>1, Literals DEF Good, Zero

LEMMA BodyDeclares ==
  ASSUME NEW n \in Nat, NEW N, NEW x \in N
  PROVE  Declares(With(NoVars, n, N), x)
  BY NoVarsGood, WithDeclares

(* inject_object_locals *)
LEMMA InjectDoes ==
  ASSUME tail \in BOOLEAN, NEW bs \in Bindings \cup {<<>>}, NEW d \in Contexts,
         NEW n \in Nat, NEW N \in SUBSET AllNames
  PROVE  Does(Inject(bs), Body(d, n, N), Body(d, n + Len(bs), N \cup NamesIn(bs)))
<1>. DEFINE n2 == n + Len(bs)
            N2 == N \cup NamesIn(bs)
            oth == {"oth"}
            rhs(funs) == [i \in DOMAIN bs |->
                            IF (bs[i].fun # {}) = funs THEN RightHandSide(bs[i], NoTail(0))
                                                       ELSE <<>>]
<1>1. /\ n2 \in Nat /\ N2 \in SUBSET AllNames /\ Len(bs) \in Nat /\ DOMAIN bs = 1..Len(bs)
      /\ NamesIn(bs) \subseteq AllNames
  BY BindingsList
<1>2. Does(DeclareAll(bs, oth), Body(d, n, N), Body(d, n2, N2))
  <2>1. PICK R : bs \in Seq(R)
    BY BindingsList
  <2>2. oth \in SUBSET Kinds
    BY DEF Kinds
  <2>3. n2 = n + Len(bs) /\ N2 = N \cup NamesIn(bs)
    OBVIOUS
  <2>4. n = NoVars.count + n + Zero /\ IsVars(NoVars) /\ Zero \in Nat
    BY BodyGood, Literals
  <2>6. NamesIn(bs) \subseteq AllNames
    BY <1>1
  <2>. HIDE DEF oth, n2, N2
  <2>5. Does(DeclareAll(bs, oth),
             S(d, With(NoVars, n, N), Zero, Zero, n, <<>>, "any"),
             S(d, With(NoVars, n2, N2), Zero, Zero, n2, <<>>, "any"))
    BY ZenonT(40), <2>1, <2>2, <2>3, <2>4, <2>6, DoDeclareAll
  <2>. QED
    BY <2>5 DEF Body
<1>3. ASSUME NEW funs \in BOOLEAN
      PROVE  Does(Concat(rhs(funs)), Body(d, n2, N2), Body(d, n2, N2))
  <2>. DEFINE seqs == rhs(funs)
              w == With(NoVars, n2, N2)
  <2>. HIDE DEF n2
  <2>1. ASSUME NEW i \in 1..Len(bs) PROVE Does(seqs[i], Body(d, n2, N2), Body(d, n2, N2))
    <3>0. i \in DOMAIN bs
      BY <1>1
    <3>1. Does(RightHandSide(bs[i], NoTail(0)), Body(d, n2, N2), Body(d, n2, N2))
      <4>1. Declares(w, bs[i].name)
        <5>1. bs[i].name \in N2
          BY <3>0, BindingsList
        <5>. HIDE DEF N2
        <5>. QED
          BY <1>1, <5>1, BodyDeclares
      <4>2. bs[i].fun = {} \/ \E ps \in Params : bs[i].fun = {ps}
        BY <3>0, BindingsList
      <4>3. Good(d, w, Zero, Zero, <<>>) /\ n2 = w.count + Zero + Zero
        <5>. HIDE DEF N2
        <5>. QED
          BY <1>1, BodyGood
      <4>4. Yields(NoTail(0), "any")
        BY NoTailYields
      <4>. HIDE DEF w
      <4>. QED
        BY <4>1, <4>2, <4>3, <4>4, RightHandSideDoes DEF Body, w
    <3>. HIDE DEF N2
    <3>2. seqs[i] = RightHandSide(bs[i], NoTail(0)) \/ seqs[i] = <<>>
      BY <3>0
    <3>. HIDE DEF seqs
    <3>. QED
      BY <3>1, <3>2, DoesNothing
  <2>2. seqs = [i \in 1..Len(bs) |-> seqs[i]]
    BY <1>1
  <2>. HIDE DEF seqs, N2
  <2>3. Does(Concat(seqs), Body(d, n2, N2), Body(d, n2, N2))
    BY <1>1, <2>1, <2>2, DoEach
  <2>. QED
    BY <2>3 DEF seqs
<1>. DEFINE p1 == DeclareAll(bs, oth)
            p2 == Concat(rhs(TRUE))
            p3 == Concat(rhs(FALSE))
<1>4. Does(p2, Body(d, n2, N2), Body(d, n2, N2)) /\ Does(p3, Body(d, n2, N2), Body(d, n2, N2))
  BY <1>3
<1>5. Inject(bs) = p1 \o p2 \o p3
  BY DEF Inject
<1>. HIDE DEF p1, p2, p3, n2, N2, oth
<1>6. Does(p1 \o p2 \o p3, Body(d, n, N), Body(d, n2, N2))
  BY <1>2, <1>4, Then DEF p1
<1>. QED
  BY <1>5, <1>6 DEF n2, N2

(* `$' is declared in the members of an outermost object *)
LEMMA DollarDoes ==
  ASSUME NEW dollar \in BOOLEAN, NEW d \in Contexts, NEW n \in Nat, NEW N \in SUBSET AllNames
  PROVE  \E m \in Nat, M \in SUBSET AllNames :
           Does(IF dollar THEN DeclareDollar ELSE <<>>, Body(d, n, N), Body(d, m, M))
<1>1. CASE ~dollar
  BY <1>1, DoesNothing
<1>2. CASE dollar /\ d.depth # 1
  <2>1. Step(<<"dollar">>, Body(d, n, N), Body(d, n, N))
    BY <1>2 DEF Step, DollarStep, Body, S
  <2>. QED
    BY <1>2, <2>1, DoesOne DEF DeclareDollar
<1>3. CASE dollar /\ d.depth = 1
  <2>. DEFINE m == n + 1
              M == N \cup {"$"}
              s == Body(d, n, N)
              t == Body(d, m, M)
              s1 == Moved(s, s.fun.height + 1, s.fun.jumps, "any")
  <2>0. "$" \in AllNames /\ M \in SUBSET AllNames /\ m \in Nat
    BY DEF AllNames
  <2>1. DeclareStep(s1, t, "$")
    <3>1. s1.fun.height = s1.fun.vars.count + s1.fun.anon + 1
      BY Literals DEF Body, S, Fun, Moved, With, Zero, NoVars
    <3>2. s1.fun.vars = With(NoVars, n, N) /\ IsVars(NoVars)
      BY NoVarsGood DEF Body, S, Fun, Moved
    <3>3. t = Bound(s1, With(NoVars, m, M), s1.fun.height)
      BY DEF Body, S, Fun, Moved, Bound
    <3>. HIDE DEF s1, t
    <3>. QED
      BY <2>0, <3>1, <3>2, <3>3 DEF DeclareStep
  <2>2. Step(<<"dollar">>, s, t)
    <3>1. s.ctx.depth = 1
      BY <1>3 DEF Body, S
    <3>2. DollarStep(s, t)
      BY <2>1, <3>1 DEF DollarStep
    <3>. HIDE DEF s, t
    <3>. QED
      BY <3>2 DEF Step
  <2>. HIDE DEF m, M
  <2>. QED
    BY <1>3, <2>0, <2>2, DoesOne DEF DeclareDollar
<1>. QED
  BY <1>1, <1>2, <1>3

(* The thunk of a member *)
LEMMA MemberThunkDoes ==
  ASSUME tail \in BOOLEAN, NEW bs \in Bindings \cup {<<>>}, NEW dollar \in BOOLEAN,
         NEW body, NEW known \in Known, Yields(body, known),
         NEW c, NEW v, NEW a, NEW k, NEW h \in Nat, NEW j, NEW l \in Known,
         Good(c, v, a, k, j), NEW g, g = h + 1
  PROVE  Does(MemberThunk(bs, dollar, body), S(c, v, a, k, h, j, l), S(c, v, a, k, g, j, "any"))
<1>. DEFINE d == Within(c, Fun(v, a, k, h, j, l))
            Three == Two + 1
            N2 == ClosureOnly \cup {"<self>"}
            N3 == N2 \cup {"<super>"}
            up(n, N) == S(d, With(NoVars, n, N), Zero, Zero, n + 1, <<>>, "any")
<1>d. Fun(v, a, k, h, j, l) \in Shapes /\ d \in Contexts /\ c \in Contexts
  BY FunShape DEF Good
<1>n. /\ "<self>" \in AllNames /\ "<super>" \in AllNames
      /\ N2 \in SUBSET AllNames /\ N3 \in SUBSET AllNames
      /\ Three \in Nat /\ Three = Two + 1
  BY Literals DEF AllNames
<1>k. {"obj"} \in SUBSET Kinds
  BY DEF Kinds
<1>. HIDE DEF d, Three
<1>v. ASSUME NEW n \in Nat, NEW N \in SUBSET AllNames
      PROVE  Does(Value({"obj"}), Body(d, n, N), up(n, N))
  BY <1>k, DoValue DEF Body
<1>e. ASSUME NEW n \in Nat, NEW N \in SUBSET AllNames, NEW x \in AllNames, NEW m, NEW M,
             m = n + 1, M = N \cup {x}
      PROVE  Does(Declare(x), up(n, N), Body(d, m, M))
  <2>. DEFINE h2 == n + 1
  <2>1. h2 \in Nat /\ h2 = m /\ h2 = NoVars.count + n + Zero + 1 /\ IsVars(NoVars) /\ Zero \in Nat
    BY <1>d, <1>e, BodyGood, NoVarsGood, Literals
  <2>2. up(n, N) = S(d, With(NoVars, n, N), Zero, Zero, h2, <<>>, "any")
    OBVIOUS
  <2>. HIDE DEF h2, up
  <2>4. Does(Declare(x), S(d, With(NoVars, n, N), Zero, Zero, h2, <<>>, "any"), Body(d, m, M))
    BY <2>1, <1>e, DoDeclare DEF Body
  <2>. QED
    BY <2>2, <2>4
<1>o. Does(OpenFunction, S(c, v, a, k, h, j, l), Body(d, One, ClosureOnly))
  BY DoOpenFunction DEF Body, d
<1>s. Does(Declare("<self>"), up(One, ClosureOnly), Body(d, Two, N2))
  BY <1>n, <1>e, Literals
<1>t. Does(Declare("<super>"), up(Two, N2), Body(d, Three, N3))
  BY <1>n, <1>e, Literals
<1>a. Does(Value({"obj"}), Body(d, One, ClosureOnly), up(One, ClosureOnly))
  BY <1>v, Literals
<1>b. Does(Value({"obj"}), Body(d, Two, N2), up(Two, N2))
  BY <1>v, <1>n, Literals
<1>. HIDE DEF N2, N3
<1>c. PICK m \in Nat, M \in SUBSET AllNames :
         Does(IF dollar THEN DeclareDollar ELSE <<>>, Body(d, Three, N3), Body(d, m, M))
  BY <1>n, <1>d, DollarDoes
<1>. DEFINE q == m + Len(bs)
            Q == M \cup NamesIn(bs)
<1>q. q \in Nat /\ Q \in SUBSET AllNames /\ q + 1 \in Nat
  BY BindingsList
<1>i. Does(Inject(bs), Body(d, m, M), Body(d, q, Q))
  BY <1>d, InjectDoes
<1>. HIDE DEF q, Q
<1>y. Does(body, Body(d, q, Q), S(d, With(NoVars, q, Q), Zero, Zero, q + 1, <<>>, known))
  <2>. DEFINE w == With(NoVars, q, Q)
  <2>1. Good(d, w, Zero, Zero, <<>>) /\ q = w.count + Zero + Zero
    BY <1>q, <1>d, BodyGood
  <2>. HIDE DEF w
  <2>2. Does(body, S(d, w, Zero, Zero, q, <<>>, "any"), S(d, w, Zero, Zero, q + 1, <<>>, known))
    BY <2>1, DoYields, Literals
  <2>. QED
    BY <2>2 DEF w, Body
<1>z. Does(CloseFunction("closure"), S(d, With(NoVars, q, Q), Zero, Zero, q + 1, <<>>, known),
           S(c, v, a, k, g, j, "any"))
  BY <1>q, <1>d, DoCloseFunction DEF d
<1>. HIDE DEF up
<1>. DEFINE p1 == OpenFunction
            p2 == p1 \o Value({"obj"})
            p3 == p2 \o Declare("<self>")
            p4 == p3 \o Value({"obj"})
            p5 == p4 \o Declare("<super>")
            p6 == p5 \o (IF dollar THEN DeclareDollar ELSE <<>>)
            p7 == p6 \o Inject(bs)
            p8 == p7 \o body
            p9 == p8 \o CloseFunction("closure")
<1>. HIDE DEF p1, p2, p3, p4, p5, p6, p7, p8, p9
<1>1. Does(p1, S(c, v, a, k, h, j, l), Body(d, One, ClosureOnly))
  BY <1>o DEF p1
<1>2. Does(p2, S(c, v, a, k, h, j, l), up(One, ClosureOnly))
  BY <1>1, <1>a, Then DEF p2
<1>3. Does(p3, S(c, v, a, k, h, j, l), Body(d, Two, N2))
  BY <1>2, <1>s, Then DEF p3
<1>4. Does(p4, S(c, v, a, k, h, j, l), up(Two, N2))
  BY <1>3, <1>b, Then DEF p4
<1>5. Does(p5, S(c, v, a, k, h, j, l), Body(d, Three, N3))
  BY <1>4, <1>t, Then DEF p5
<1>6. Does(p6, S(c, v, a, k, h, j, l), Body(d, m, M))
  BY <1>5, <1>c, Then DEF p6
<1>7. Does(p7, S(c, v, a, k, h, j, l), Body(d, q, Q))
  BY <1>6, <1>i, Then DEF p7
<1>8. Does(p8, S(c, v, a, k, h, j, l), S(d, With(NoVars, q, Q), Zero, Zero, q + 1, <<>>, known))
  BY <1>7, <1>y, Then DEF p8
<1>9. Does(p9, S(c, v, a, k, h, j, l), S(c, v, a, k, g, j, "any"))
  BY <1>8, <1>z, Then DEF p9
<1>. QED
  BY <1>9 DEF p1, p2, p3, p4, p5, p6, p7, p8, p9, MemberThunk


LEMMA MessageYields ==
  ASSUME tail \in BOOLEAN, NEW written \in BOOLEAN
  PROVE  Yields(Message(written), "any")
<1>1. CASE written
  BY <1>1, NoTailYields DEF Message
<1>2. CASE ~written
  <2>1. Yields(Value({"str"}), "any")
    <3>. SUFFICES ASSUME NEW c, NEW v, NEW a, NEW k, NEW h, NEW j, NEW l,
                         Good(c, v, a, k, j), h = v.count + a + k, l \in Known
                  PROVE  Does(Value({"str"}), S(c, v, a, k, h, j, l),
                              S(c, v, a, k, h + 1, j, "any"))
      BY DEF Yields
    <3>1. h \in Nat /\ {"str"} \in SUBSET Kinds
      BY GoodHeight DEF Kinds
    <3>. QED
      BY <3>1, DoValue
  <2>. QED
    BY <1>2, <2>1 DEF Message
<1>. QED
  BY <1>1, <1>2

(* The kinds of values that the handlers name *)
LEMMA KindSets ==
  /\ {} \in SUBSET Kinds /\ AnyKind \in SUBSET Kinds /\ {"str"} \in SUBSET Kinds
  /\ {"num"} \in SUBSET Kinds /\ {"oth"} \in SUBSET Kinds /\ {"obj"} \in SUBSET Kinds
  /\ {"nat"} \in SUBSET Kinds /\ {"gone"} \in SUBSET Kinds /\ Nothing \in SUBSET Kinds
  BY DEF Kinds, AnyKind, Nothing

(* An object assertion falls through to the error *)
LEMMA AssertionYields ==
  ASSUME tail \in BOOLEAN, NEW msg \in BOOLEAN
  PROVE  Yields(NoTail(0) \o JumpIf \o Message(msg) \o Op(1, {}) \o Discard(1) \o Join \o Value({"oth"}), "any")
<1>. SUFFICES ASSUME NEW c, NEW v, NEW a, NEW k, NEW h, NEW j, NEW l,
                     Good(c, v, a, k, j), h = v.count + a + k, l \in Known
              PROVE  Does(NoTail(0) \o JumpIf \o Message(msg) \o Op(1, {}) \o Discard(1) \o Join \o Value({"oth"}), S(c, v, a, k, h, j, l),
                          S(c, v, a, k, h + 1, j, "any"))
  BY DEF Yields
<1>0. /\ h \in Nat /\ h + 1 \in Nat /\ h + 2 \in Nat /\ j \in Seq(Int) /\ a \in Nat /\ k \in Nat
      /\ c \in Contexts /\ IsVars(v) /\ h = v.count + a + k /\ l \in Known
  BY SMTT(30), GoodHeight
<1>j. Good(c, v, a, k, Append(j, h)) /\ Good(c, v, a, k, Append(j, h + 1))
  BY SMTT(30), <1>0, GoodJumps
<1>a. h + 1 = h + 2 - 1 + 0 /\ h + 2 = (h + 1) + 1 /\ h + 1 = (h + 2) - 2 + 1 /\ 1 <= h + 1
      /\ 1 <= h + 2 /\ 2 <= h + 2 /\ h + 1 = (h + 1) - 1 + 1 /\ h + 2 = (h + 2) - 1 + 1
  BY SMTT(30), <1>0
<1>. DEFINE p1 == NoTail(0)
            p2 == p1 \o JumpIf
            p3 == p2 \o Message(msg)
            p4 == p3 \o Op(1, Nothing)
            p5 == p4 \o Discard(1)
            p6 == p5 \o Join
            p7 == p6 \o Value({"oth"})
<1>. HIDE DEF p1, p2, p3, p4, p5, p6, p7
<1>1. Does(p1, S(c, v, a, k, h, j, l), S(c, v, a, k, h + 1, j, "any"))
  BY <1>0, <1>j, <1>a, KindSets, Literals, DoNoTail DEF p1
<1>2. Does(p2, S(c, v, a, k, h, j, l), S(c, v, a, k, h, Append(j, h), "any"))
  BY <1>0, <1>j, <1>a, KindSets, Literals, <1>1, DoJumpIf, Then DEF p2
<1>3. Does(p3, S(c, v, a, k, h, j, l), S(c, v, a, k, h + 1, Append(j, h), "any"))
  BY <1>0, <1>j, <1>a, KindSets, Literals, <1>2, MessageYields, DoYields, Then DEF p3
<1>4. Does(p4, S(c, v, a, k, h, j, l), S(c, v, a, k, h + 1, Append(j, h), "any"))
  BY <1>0, <1>j, <1>a, KindSets, Literals, <1>3, DoOp, Then DEF p4
<1>5. Does(p5, S(c, v, a, k, h, j, l), S(c, v, a, k, h, Append(j, h), "any"))
  BY <1>0, <1>j, <1>a, KindSets, Literals, <1>4, DoDiscard, Then DEF p5
<1>6. Does(p6, S(c, v, a, k, h, j, l), S(c, v, a, k, h, j, "any"))
  BY <1>0, <1>j, <1>a, KindSets, Literals, <1>5, DoJoin, Then DEF p6
<1>7. Does(p7, S(c, v, a, k, h, j, l), S(c, v, a, k, h + 1, j, "any"))
  BY <1>0, <1>j, <1>a, KindSets, Literals, <1>6, DoValue, Then DEF p7
<1>. QED
  BY <1>7 DEF p1, p2, p3, p4, p5, p6, p7, Nothing

(* field+: the value added to what is above the object *)
LEMMA AddSuperDoes ==
  ASSUME NEW c, NEW v, NEW a, NEW k, NEW h \in Nat, NEW j \in Seq(Int), NEW l, h > 0
  PROVE  Does(AddSuper, S(c, v, a, k, h, j, l), S(c, v, a, k, h, j, "any"))
<1>0. /\ h + 1 \in Nat /\ h + 2 \in Nat /\ h + 2 = (h + 1) + 1 /\ 1 <= h + 1
      /\ 1 <= h + 2 /\ 2 <= h + 2 /\ h + 1 = (h + 1) - 1 + 1 /\ h + 2 = (h + 2) - 1 + 1
      /\ h + 1 = (h + 2) - 2 + 1 /\ 2 <= h + 1 /\ h = (h + 1) - 2 + 1
  OBVIOUS
<1>. DEFINE p1 == Value({"str"})
            p2 == p1 \o Op(1, {"oth"})
            p3 == p2 \o JumpIf
            p4 == p3 \o Value({"str"})
            p5 == p4 \o Op(1, AnyKind)
            p6 == p5 \o Op(2, AnyKind)
            p7 == p6 \o Join
<1>. HIDE DEF p1, p2, p3, p4, p5, p6, p7
<1>1. Does(p1, S(c, v, a, k, h, j, l), S(c, v, a, k, h + 1, j, "any"))
  BY <1>0, KindSets, DoValue DEF p1
<1>2. Does(p2, S(c, v, a, k, h, j, l), S(c, v, a, k, h + 1, j, "any"))
  BY <1>0, KindSets, <1>1, DoOp, Then DEF p2
<1>3. Does(p3, S(c, v, a, k, h, j, l), S(c, v, a, k, h, Append(j, h), "any"))
  BY <1>0, KindSets, <1>2, DoJumpIf, Then DEF p3
<1>4. Does(p4, S(c, v, a, k, h, j, l), S(c, v, a, k, h + 1, Append(j, h), "any"))
  BY <1>0, KindSets, <1>3, DoValue, Then DEF p4
<1>5. Does(p5, S(c, v, a, k, h, j, l), S(c, v, a, k, h + 1, Append(j, h), "any"))
  BY <1>0, KindSets, <1>4, DoOp, Then DEF p5
<1>6. Does(p6, S(c, v, a, k, h, j, l), S(c, v, a, k, h, Append(j, h), "any"))
  BY <1>0, KindSets, <1>5, DoOp, Then DEF p6
<1>7. Does(p7, S(c, v, a, k, h, j, l), S(c, v, a, k, h, j, "any"))
  BY <1>0, KindSets, <1>6, DoJoin, Then DEF p7
<1>. QED
  BY <1>7 DEF p1, p2, p3, p4, p5, p6, p7, AddSuper

LEMMA FieldValueYields ==
  ASSUME tail \in BOOLEAN, NEW method \in {{}} \cup {{ps} : ps \in Params},
         NEW override \in BOOLEAN
  PROVE  Yields(FieldValue(method, override), "any")
<1>. SUFFICES ASSUME NEW c, NEW v, NEW a, NEW k, NEW h, NEW j, NEW l,
                     Good(c, v, a, k, j), h = v.count + a + k, l \in Known
              PROVE  Does(FieldValue(method, override), S(c, v, a, k, h, j, l),
                          S(c, v, a, k, h + 1, j, "any"))
  BY DEF Yields
<1>0. /\ h \in Nat /\ h + 1 \in Nat /\ h + 1 > 0 /\ j \in Seq(Int)
      /\ h = v.count + a + k
  BY GoodHeight
<1>b. (~override) \in BOOLEAN
  OBVIOUS
<1>. DEFINE value == IF method = {} THEN Expr(0) ELSE FunctionBody(CHOOSE ps \in method : TRUE)
            add == IF override THEN AddSuper ELSE <<>>
<1>y. Yields(value, "any")
  <2>1. CASE method = {}
    BY <2>1, ExprYields
  <2>2. CASE method # {}
    <3>1. PICK ps \in Params : method = {ps}
      BY <2>2
    <3>2. (CHOOSE q \in method : TRUE) = ps
      BY <3>1
    <3>3. value = FunctionBody(ps)
      BY <2>2, <3>2
    <3>. HIDE DEF value
    <3>. QED
      BY <3>3, FunctionBodyYields
  <2>. QED
    BY <2>1, <2>2
<1>z. Does(add, S(c, v, a, k, h + 1, j, "any"), S(c, v, a, k, h + 1, j, "any"))
  <2>1. CASE override
    BY <2>1, <1>0, AddSuperDoes
  <2>2. CASE ~override
    BY <2>2, DoesNothing
  <2>. QED
    BY <2>1, <2>2
<1>. HIDE DEF value, add
<1>. DEFINE p1 == SetTail(~override)
            p2 == p1 \o value
            p3 == p2 \o SetTail(tail)
            p4 == p3 \o add
<1>. HIDE DEF p1, p2, p3, p4
<1>1. Does(p1, S(c, v, a, k, h, j, l), S(c, v, a, k, h, j, l))
  BY <1>0, <1>b, DoSetTail DEF p1
<1>2. Does(p2, S(c, v, a, k, h, j, l), S(c, v, a, k, h + 1, j, "any"))
  BY <1>0, <1>b, <1>1, <1>y, DoYields, Then DEF p2
<1>3. Does(p3, S(c, v, a, k, h, j, l), S(c, v, a, k, h + 1, j, "any"))
  BY <1>0, <1>b, <1>2, DoSetTail, Then DEF p3
<1>4. Does(p4, S(c, v, a, k, h, j, l), S(c, v, a, k, h + 1, j, "any"))
  BY <1>0, <1>b, <1>3, <1>z, Then DEF p4
<1>. QED
  BY <1>4 DEF p1, p2, p3, p4, FieldValue, value, add

(* The members leave the object where it is *)
LEMMA ObjectAssertDoes ==
  ASSUME tail \in BOOLEAN, NEW bs \in Bindings \cup {<<>>}, NEW msg \in BOOLEAN,
         NEW c, NEW v, NEW a, NEW k, NEW h \in Nat, NEW j, Good(c, v, a, k, j),
         h = v.count + a + k + 1
  PROVE  Does(ObjectAssert(bs, msg), S(c, v, a, k, h, j, "any"), S(c, v, a, k, h, j, "any"))
<1>. DEFINE body == NoTail(0) \o JumpIf \o Message(msg) \o Op(1, {}) \o Discard(1) \o Join \o Value({"oth"})
            no == FALSE
<1>0. h + 1 \in Nat /\ no \in BOOLEAN
  OBVIOUS
<1>1. Yields(body, "any")
  BY AssertionYields
<1>. HIDE DEF body, no
<1>2. Does(MemberThunk(bs, no, body), S(c, v, a, k, h, j, "any"), S(c, v, a, k, h + 1, j, "any"))
  BY <1>0, <1>1, MemberThunkDoes, Literals
<1>3. Does(Discard(1), S(c, v, a, k, h + 1, j, "any"), S(c, v, a, k, h, j, "any"))
  BY <1>0, DoDiscard
<1>4. Does(MemberThunk(bs, no, body) \o Discard(1), S(c, v, a, k, h, j, "any"), S(c, v, a, k, h, j, "any"))
  BY <1>2, <1>3, Then
<1>. QED
  BY <1>4 DEF ObjectAssert, body, no

(* The key is on the stack, above the object or not *)
LEMMA InsertDoes ==
  ASSUME tail \in BOOLEAN, NEW bs \in Bindings \cup {<<>>}, NEW body, Yields(body, "any"),
         NEW c, NEW v, NEW a, NEW k, NEW h \in Nat, NEW j, Good(c, v, a, k, j),
         NEW l \in Known, NEW g \in Nat, h = g + 1
  PROVE  Does(MemberThunk(bs, TRUE, body) \o PopT(1) \o Discard(2), S(c, v, a, k, h, j, l),
              S(c, v, a, k, g, j, "any"))
<1>. DEFINE yes == TRUE
<1>0. h + 1 \in Nat /\ h + 1 = g + 2 /\ yes \in BOOLEAN
  OBVIOUS
<1>. HIDE DEF yes
<1>. DEFINE p1 == MemberThunk(bs, yes, body)
            p2 == p1 \o PopT(1)
            p3 == p2 \o Discard(2)
<1>. HIDE DEF p1, p2, p3
<1>1. Does(p1, S(c, v, a, k, h, j, l), S(c, v, a, k, h + 1, j, "any"))
  BY <1>0, MemberThunkDoes, Literals DEF p1
<1>2. Does(p2, S(c, v, a, k, h, j, l), S(c, v, a, k, h + 1, j, "any"))
  BY <1>0, <1>1, DoPopT, Then DEF p2
<1>3. Does(p3, S(c, v, a, k, h, j, l), S(c, v, a, k, g, j, "any"))
  BY <1>0, <1>2, DoDiscard, Then DEF p3
<1>. QED
  BY <1>3 DEF p1, p2, p3, yes

LEMMA KeyDoes ==
  ASSUME tail \in BOOLEAN, NEW computed \in BOOLEAN,
         NEW c, NEW v, NEW a, NEW k, NEW h \in Nat, NEW j, Good(c, v, a, k, j),
         h = v.count + a + k + 1
  PROVE  \E l \in Known : Does(IF computed THEN ComputedKey ELSE LiteralKey, S(c, v, a, k, h, j, "any"),
              S(c, v, a, k, h + 1, j, l))
<1>1. CASE computed
  <2>. DEFINE b == k + 1
  <2>0. /\ b \in Nat /\ b = k + 1 /\ k = b + (-1) /\ k \in Nat /\ h = v.count + a + b
        /\ -1 \in Int /\ h + 1 \in Nat
    <3>1. k \in Nat /\ v.count \in Nat /\ a \in Nat
      BY GoodHeight
    <3>. QED
      BY <3>1
  <2>. HIDE DEF b
  <2>. DEFINE p1 == Uncounted(1)
              p2 == p1 \o NoTail(0)
              p3 == p2 \o Uncounted(-1)
  <2>. HIDE DEF p1, p2, p3
  <2>1. Does(p1, S(c, v, a, k, h, j, "any"), S(c, v, a, b, h, j, "any"))
    BY <2>0, DoUncounted DEF p1
  <2>2. Does(p2, S(c, v, a, k, h, j, "any"), S(c, v, a, b, h + 1, j, "any"))
    BY <2>0, <2>1, DoNoTail, Then DEF p2
  <2>3. Does(p3, S(c, v, a, k, h, j, "any"), S(c, v, a, k, h + 1, j, "any"))
    BY <2>0, <2>2, DoUncounted, Then DEF p3
  <2>. QED
    BY <1>1, <2>3, Literals DEF p1, p2, p3, ComputedKey
<1>2. CASE ~computed
  <2>0. h + 1 \in Nat /\ "String" \in Types \ {"Std", "Native"}
    BY DEF Types
  <2>. DEFINE p1 == Value({"str"})
              p2 == p1 \o PushT("String")
  <2>. HIDE DEF p1, p2
  <2>1. Does(p1, S(c, v, a, k, h, j, "any"), S(c, v, a, k, h + 1, j, "any"))
    BY <2>0, DoValue, KindSets DEF p1
  <2>2. Does(p2, S(c, v, a, k, h, j, "any"), S(c, v, a, k, h + 1, j, "sealed"))
    BY <2>0, <2>1, DoPushT, Then DEF p2
  <2>. QED
    BY <1>2, <2>2, Literals DEF p1, p2, LiteralKey
<1>. QED
  BY <1>1, <1>2

LEMMA FieldDoes ==
  ASSUME tail \in BOOLEAN, NEW bs \in Bindings \cup {<<>>}, NEW computed \in BOOLEAN,
         NEW method \in {{}} \cup {{ps} : ps \in Params}, NEW override \in BOOLEAN,
         NEW c, NEW v, NEW a, NEW k, NEW h \in Nat, NEW j, Good(c, v, a, k, j),
         h = v.count + a + k + 1
  PROVE  Does((IF computed THEN ComputedKey ELSE LiteralKey) \o Field(bs, method, override),
              S(c, v, a, k, h, j, "any"), S(c, v, a, k, h, j, "any"))
<1>0. h + 1 \in Nat
  OBVIOUS
<1>1. PICK l \in Known : Does(IF computed THEN ComputedKey ELSE LiteralKey, S(c, v, a, k, h, j, "any"),
                              S(c, v, a, k, h + 1, j, l))
  BY KeyDoes
<1>2. Yields(FieldValue(method, override), "any")
  BY FieldValueYields
<1>3. Does(Field(bs, method, override), S(c, v, a, k, h + 1, j, l), S(c, v, a, k, h, j, "any"))
  BY <1>0, <1>2, InsertDoes DEF Field
<1>. QED
  BY <1>1, <1>3, Then

(* An object literal *)
LEMMA ObjectYields ==
  ASSUME NEW bs \in Bindings \cup {<<>>}
  PROVE  Yields(parse_object_literal(bs), "any")
<1>. SUFFICES ASSUME NEW c, NEW v, NEW a, NEW k, NEW h, NEW j, NEW l,
                     Good(c, v, a, k, j), h = v.count + a + k, l \in Known
              PROVE  Does(parse_object_literal(bs), S(c, v, a, k, h, j, l),
                          S(c, v, a, k, h + 1, j, "any"))
  BY DEF Yields
<1>0. /\ h \in Nat /\ h + 1 \in Nat /\ h + 2 \in Nat /\ j \in Seq(Int) /\ a \in Nat /\ k \in Nat
      /\ c \in Contexts /\ IsVars(v) /\ h = v.count + a + k /\ l \in Known
  BY GoodHeight
<1>. DEFINE q == Deeper(c, 1)
<1>q. /\ Good(q, v, a, k, j) /\ Deeper(q, -1) = c /\ q.depth + (-1) \in Nat /\ c.depth + 1 \in Nat
      /\ h + 1 > 0 /\ h + 1 = v.count + a + k + 1 /\ MaxItems \in Nat
  <2>1. q \in Contexts /\ Deeper(q, -1) = c
    BY <1>0, CountedContext
  <2>2. c.depth \in Nat /\ q.depth = c.depth + 1
    BY <1>0 DEF Contexts, Deeper
  <2>3. Good(q, v, a, k, j)
    BY <2>1 DEF Good
  <2>4. h + 1 > 0 /\ h + 1 = v.count + a + k + 1 /\ MaxItems \in Nat
    BY <1>0, BoundsAssumption
  <2>. QED
    BY <2>1, <2>2, <2>3, <2>4
<1>h. Does(Depth(-1), S(q, v, a, k, h + 1, j, "any"), S(c, v, a, k, h + 1, j, "any"))
  <2>. DEFINE back == Deeper(q, -1)
  <2>1. back = c /\ q.depth + (-1) \in Nat /\ -1 \in Int
    BY <1>q
  <2>. HIDE DEF q
  <2>2. Does(Depth(-1), S(q, v, a, k, h + 1, j, "any"), S(back, v, a, k, h + 1, j, "any"))
    BY <2>1, DoDepth
  <2>. HIDE DEF back
  <2>. QED
    BY <2>1, <2>2
<1>. HIDE DEF q
<1>. DEFINE p1 == Depth(1)
            p2 == p1 \o Value({"obj"})
            p3 == p2 \o Members(bs, MaxItems)
            p4 == p3 \o Depth(-1)
<1>. HIDE DEF p1, p2, p3, p4
<1>1. Does(p1, S(c, v, a, k, h, j, l), S(q, v, a, k, h, j, l))
  BY <1>0, <1>q, DoDepth DEF p1, q
<1>2. Does(p2, S(c, v, a, k, h, j, l), S(q, v, a, k, h + 1, j, "any"))
  BY <1>0, <1>q, <1>1, DoValue, KindSets, Then DEF p2
<1>3. Does(p3, S(c, v, a, k, h, j, l), S(q, v, a, k, h + 1, j, "any"))
  BY <1>0, <1>q, <1>2, DoMembers, Then DEF p3
<1>4. Does(p4, S(c, v, a, k, h, j, l), S(c, v, a, k, h + 1, j, "any"))
  BY <1>0, <1>q, <1>3, <1>h, Then DEF p4
<1>. QED
  BY <1>4 DEF p1, p2, p3, p4, parse_object_literal

LEMMA EmptyObjectYields ==
  Yields(empty_object, "any")
<1>. SUFFICES ASSUME NEW c, NEW v, NEW a, NEW k, NEW h, NEW j, NEW l,
                     Good(c, v, a, k, j), h = v.count + a + k, l \in Known
              PROVE  Does(empty_object, S(c, v, a, k, h, j, l),
                          S(c, v, a, k, h + 1, j, "any"))
  BY DEF Yields
<1>0. /\ h \in Nat /\ h + 1 \in Nat /\ h + 2 \in Nat /\ j \in Seq(Int) /\ a \in Nat /\ k \in Nat
      /\ c \in Contexts /\ IsVars(v) /\ h = v.count + a + k /\ l \in Known
  BY GoodHeight
<1>. DEFINE p1 == Value({"obj"})
<1>. HIDE DEF p1
<1>1. Does(p1, S(c, v, a, k, h, j, l), S(c, v, a, k, h + 1, j, "any"))
  BY <1>0, DoValue, KindSets DEF p1
<1>. QED
  BY <1>1 DEF p1, empty_object


(***************************************************************************)
(* Comprehensions: inside them no key is open, and some names are in scope  *)
(***************************************************************************)
YieldsIn(items, X, m) ==
  \A c, v, a, h, j, l :
    /\ Good(c, v, a, Zero, j) /\ h = v.count + a + Zero /\ l \in Known
    /\ \A x \in X : Declares(v, x)
    => Does(items, S(c, v, a, Zero, h, j, l), S(c, v, a, Zero, h + 1, j, m))

LEMMA DoYieldsIn ==
  ASSUME NEW items, NEW X, NEW m, YieldsIn(items, X, m), NEW c, NEW v, NEW a, NEW h, NEW j,
         NEW l \in Known, Good(c, v, a, Zero, j), h = v.count + a + Zero, NEW g, g = h + 1,
         \A x \in X : Declares(v, x)
  PROVE  Does(items, S(c, v, a, Zero, h, j, l), S(c, v, a, Zero, g, j, m))
  BY DEF YieldsIn

LEMMA YieldsAnywhere ==
  ASSUME NEW items, NEW X, NEW m, Yields(items, m)
  PROVE  YieldsIn(items, X, m)
  BY DEF Yields, YieldsIn

(* A scope within v *)
LEMMA ScopeGood ==
  ASSUME NEW c, NEW v, NEW a, NEW j, Good(c, v, a, Zero, j), NEW n \in Nat,
         NEW N \in SUBSET AllNames, NEW h, h = v.count + a + Zero
  PROVE  /\ Good(c, With(v, n, N), a, Zero, j) /\ With(v, n, N).count = v.count + n
         /\ h + n = With(v, n, N).count + a + Zero
         /\ h + n = v.count + n + a /\ h + n + 1 = v.count + n + a + 1
<1>1. /\ IsVars(v) /\ v.count \in Nat /\ a \in Nat /\ c \in Contexts /\ j \in Seq(Int)
  BY GoodHeight
<1>2. IsVars(With(v, n, N)) /\ With(v, n, N).count = v.count + n
  BY <1>1, WithVars
<1>3. Good(c, With(v, n, N), a, Zero, j)
  BY <1>1, <1>2 DEF Good, Zero
<1>4. ASSUME NEW q \in Nat, h = q + a + Zero
      PROVE  h + n = q + n + a + Zero /\ h + n = q + n + a /\ h + n + 1 = q + n + a + 1
  BY <1>1, <1>4 DEF Zero
<1>. QED
  BY <1>1, <1>2, <1>3, <1>4

LEMMA DoOneForOne ==
  ASSUME NEW c, NEW v, NEW a, NEW k, NEW h \in Nat, NEW j, NEW l,
         NEW kinds \in SUBSET Kinds, h > 0
  PROVE  Does(Op(1, kinds), S(c, v, a, k, h, j, l), S(c, v, a, k, h, j, "any"))
<1>1. 1 <= h /\ h = h - 1 + 1
  OBVIOUS
<1>. QED
  BY <1>1, DoOp

LEMMA DoTwoForOne ==
  ASSUME NEW c, NEW v, NEW a, NEW k, NEW h \in Nat, NEW j, NEW l,
         NEW kinds \in SUBSET Kinds, NEW g \in Nat, h = g + 1, g > 0
  PROVE  Does(Op(2, kinds), S(c, v, a, k, h, j, l), S(c, v, a, k, g, j, "any"))
<1>1. 2 <= h /\ g = h - 2 + 1
  OBVIOUS
<1>. QED
  BY <1>1, DoOp

Three == 3

(* Heights in a for clause, n variables above h *)
ForCounts(q, a, h, n, b) ==
  /\ h \in Nat /\ h + 1 \in Nat /\ h + 2 \in Nat /\ h + 3 \in Nat
  /\ b \in Nat /\ b + 1 \in Nat /\ b + 2 \in Nat /\ h + 2 > 0 /\ b + 1 > 0
  /\ h + 1 = q + Zero + a + 1 /\ h + 2 = q + One + a + 1 /\ h + 3 = q + Two + a + 1
  /\ h + 3 + 1 = q + Three + a + 1 /\ b + 1 = q + n + Zero + a + 1
  /\ h + 3 = h + Three /\ h + 1 = b + 1 - n /\ n < b + 1
  /\ b + 1 = b + 2 - One /\ One < b + 2 /\ b + One = b + 1
  /\ h + 2 = h + 1 + 1 /\ h + 3 = h + 2 + 1 /\ b + 2 = b + 1 + 1
  /\ (n = Three => b = h + 3) /\ (n = Three + 1 => b = h + 3 + 1)

LEMMA ForCounted ==
  ASSUME NEW q \in Nat, NEW a \in Nat, NEW h, h = q + a + Zero, NEW n \in Nat, NEW b,
         b = h + n
  PROVE  ForCounts(q, a, h, n, b)
  BY DEF ForCounts, Zero, One, Two, Three

LEMMA IfClauseYields ==
  ASSUME tail \in BOOLEAN, NEW inner, NEW X, YieldsIn(inner, X, "any")
  PROVE  YieldsIn(IfClause(inner), X, "any")
<1>. SUFFICES ASSUME NEW c, NEW v, NEW a, NEW h, NEW j, NEW l, Good(c, v, a, Zero, j),
                     h = v.count + a + Zero, l \in Known, \A x \in X : Declares(v, x)
              PROVE  Does(IfClause(inner), S(c, v, a, Zero, h, j, l),
                          S(c, v, a, Zero, h + 1, j, "any"))
  BY DEF YieldsIn
<1>0. h \in Nat /\ h + 1 \in Nat /\ j \in Seq(Int) /\ h = v.count + a + Zero /\ l \in Known
  BY GoodHeight
<1>j. Good(c, v, a, Zero, Append(j, h))
  BY <1>0, GoodJumps
<1>. DEFINE p1 == NoTail(0)
            p2 == p1 \o JumpIf
            p3 == p2 \o inner
            p4 == p3 \o OtherBranch
            p5 == p4 \o Value({"oth"})
            p6 == p5 \o Join
<1>. HIDE DEF p1, p2, p3, p4, p5, p6
<1>1. Does(p1, S(c, v, a, Zero, h, j, l), S(c, v, a, Zero, h + 1, j, "any"))
  BY <1>0, <1>j, KindSets, Literals, DoNoTail DEF p1
<1>2. Does(p2, S(c, v, a, Zero, h, j, l), S(c, v, a, Zero, h, Append(j, h), "any"))
  BY <1>0, <1>j, KindSets, Literals, <1>1, DoJumpIf, Then DEF p2
<1>3. Does(p3, S(c, v, a, Zero, h, j, l), S(c, v, a, Zero, h + 1, Append(j, h), "any"))
  BY <1>0, <1>j, KindSets, Literals, <1>2, DoYieldsIn, Then DEF p3
<1>4. Does(p4, S(c, v, a, Zero, h, j, l), S(c, v, a, Zero, h, Append(j, h + 1), "any"))
  BY <1>0, <1>j, KindSets, Literals, <1>3, DoOtherBranch, Then DEF p4
<1>5. Does(p5, S(c, v, a, Zero, h, j, l), S(c, v, a, Zero, h + 1, Append(j, h + 1), "any"))
  BY <1>0, <1>j, KindSets, Literals, <1>4, DoValue, Then DEF p5
<1>6. Does(p6, S(c, v, a, Zero, h, j, l), S(c, v, a, Zero, h + 1, j, "any"))
  BY <1>0, <1>j, KindSets, Literals, <1>5, DoJoin, Then DEF p6
<1>. QED
  BY <1>6 DEF p1, p2, p3, p4, p5, p6, IfClause

LEMMA ForClauseYields ==
  ASSUME tail \in BOOLEAN, NEW clause, clause.name \in AllNames, NEW hoisted \in BOOLEAN,
         NEW hoist \in BOOLEAN, NEW inner, NEW X, NEW Y, YieldsIn(inner, Y, "any"),
         hoisted => "__comp_hoisted_source" \in X,
         \A y \in Y : y \in X \/ (hoist /\ y = "__comp_hoisted_source")
  PROVE  YieldsIn(ForClause(clause, hoisted, hoist, inner), X, "any")
<1>. SUFFICES ASSUME NEW c, NEW v, NEW a, NEW h, NEW j, NEW l, Good(c, v, a, Zero, j),
                     h = v.count + a + Zero, l \in Known, \A x \in X : Declares(v, x)
              PROVE  Does(ForClause(clause, hoisted, hoist, inner),
                          S(c, v, a, Zero, h, j, l), S(c, v, a, Zero, h + 1, j, "any"))
  BY DEF YieldsIn
<1>. DEFINE src == "__comp_source"
            len == "__comp_length"
            cnt == "__comp_counter"
            hsrc == "__comp_hoisted_source"
            name == clause.name
            n == IF hoist THEN Three + 1 ELSE Three
            N1 == {src}
            N2 == N1 \cup {len}
            N3 == N2 \cup {cnt}
            N == IF hoist THEN N3 \cup {hsrc} ELSE N3
            M == Nothing \cup {name}
            w0 == With(v, Zero, Nothing)
            w1 == With(v, One, N1)
            w2 == With(v, Two, N2)
            w3 == With(v, Three, N3)
            w == With(v, n, N)
            u0 == With(w, Zero, Nothing)
            u == With(w, One, M)
            b == h + n
            j1 == Append(j, b)
            j2 == Append(j1, b)
            first == IF hoisted THEN LoadName(hsrc) ELSE NoTail(0)
            more == IF hoist THEN NoTail(0) \o Declare(hsrc) ELSE <<>>
<1>0. /\ h \in Nat /\ h + 1 \in Nat /\ h + 2 \in Nat /\ h + 3 \in Nat
      /\ j \in Seq(Int) /\ a \in Nat /\ v.count \in Nat
      /\ h = v.count + a + Zero /\ l \in Known /\ IsVars(v) /\ Good(c, v, a, Zero, j)
  BY SMTT(30), GoodHeight
<1>n. /\ src \in AllNames /\ len \in AllNames /\ cnt \in AllNames /\ hsrc \in AllNames
      /\ name \in AllNames /\ N1 \in SUBSET AllNames /\ N2 \in SUBSET AllNames
      /\ N3 \in SUBSET AllNames /\ N \in SUBSET AllNames /\ M \in SUBSET AllNames
      /\ Nothing \in SUBSET AllNames /\ N1 = Nothing \cup {src}
  BY DEF AllNames, Nothing
<1>m. /\ One \in Nat /\ Two \in Nat /\ Three \in Nat /\ n \in Nat /\ Zero \in Nat
      /\ One = Zero + 1 /\ Two = One + 1 /\ Three = Two + 1 /\ b = h + n
  BY DEF Zero, One, Two, Three
<1>a. ForCounts(v.count, a, h, n, b)
  <2>. HIDE DEF n, b
  <2>. QED
    BY <1>0, <1>m, ForCounted
<1>d. /\ Declares(w1, src)
      /\ Declares(w, src) /\ Declares(w, len) /\ Declares(w, cnt)
      /\ \A y \in Y : Declares(u, y)
  <2>1. src \in N1 /\ src \in N /\ len \in N /\ cnt \in N
    OBVIOUS
  <2>2. \A y \in Y : y \in N \/ Declares(v, y)
    BY DEF N
  <2>3. IsVars(w)
    <3>. HIDE DEF n, N
    <3>. QED
      BY <1>0, <1>n, <1>m, WithVars
  <2>. HIDE DEF n, N, N1, src, len, cnt, hsrc, name, M
  <2>4. /\ Declares(w1, src) /\ Declares(w, src) /\ Declares(w, len) /\ Declares(w, cnt)
        /\ \A y \in Y : Declares(w, y)
    BY ZenonT(40), <1>0, <1>n, <1>m, <2>1, <2>2, WithDeclares
  <2>. HIDE DEF w
  <2>. QED
    BY <2>3, <2>4, <1>m, WithDeclares
<1>g. /\ IsVars(w) /\ Good(c, w, a, Zero, j) /\ w.count = v.count + n /\ b = w.count + a + Zero
      /\ Good(c, u, a, Zero, j2) /\ b + 1 = u.count + a + Zero
      /\ j1 \in Seq(Int) /\ j2 \in Seq(Int) /\ Good(c, w3, a, Zero, j)
      /\ h + 3 = w3.count + a + Zero
  <2>. HIDE DEF n, N, N1, N2, N3, src, len, cnt, hsrc, name, M
  <2>0. /\ Good(c, v, a, Zero, j) /\ h = v.count + a + Zero /\ n \in Nat
        /\ N \in SUBSET AllNames /\ N3 \in SUBSET AllNames /\ Three \in Nat
    BY <1>0, <1>n, <1>m
  <2>1. Good(c, w, a, Zero, j) /\ w.count = v.count + n /\ b = w.count + a + Zero
    BY <2>0, ScopeGood
  <2>2. Good(c, w3, a, Zero, j) /\ h + Three = w3.count + a + Zero
    BY <2>0, ScopeGood
  <2>. HIDE DEF w, w3, b, u0
  <2>3. Good(c, u, a, Zero, j) /\ b + One = u.count + a + Zero
    BY <2>1, <1>n, <1>m, ScopeGood
  <2>. HIDE DEF u
  <2>b. b \in Int
    BY <1>a DEF ForCounts
  <2>4. Good(c, u, a, Zero, j1) /\ j1 \in Seq(Int)
    BY <2>b, <2>3, GoodJumps DEF Good
  <2>. HIDE DEF j1
  <2>5. Good(c, u, a, Zero, j2) /\ j2 \in Seq(Int)
    BY <2>b, <2>4, GoodJumps DEF Good
  <2>. QED
    BY <1>a, <2>1, <2>2, <2>3, <2>4, <2>5 DEF Good, ForCounts
<1>1. Does(first, S(c, v, a, Zero, h, j, l), S(c, v, a, Zero, h + 1, j, "any"))
  <2>1. CASE hoisted
    BY <2>1, <1>0, DoLoad
  <2>2. CASE ~hoisted
    <3>. HIDE DEF n, N
    <3>. QED
      BY <2>2, <1>0, DoNoTail
  <2>. QED
    BY <2>1, <2>2
<1>2. Does(BeginScope, S(c, v, a, Zero, h + 1, j, "any"), S(c, w0, a, Zero, h + 1, j, "any"))
  BY DoBeginScope DEF Zero, Nothing
<1>. HIDE DEF src, len, cnt, hsrc, name, first
<1>3. Does(Declare(src), S(c, w0, a, Zero, h + 1, j, "any"), S(c, w1, a, Zero, h + 1, j, "any"))
  <2>1. h + 1 = v.count + Zero + a + 1
    BY <1>a DEF ForCounts
  <2>. HIDE DEF N1
  <2>. QED
    BY <2>1, <1>0, <1>n, <1>m, DoDeclare
<1>4. Does(Declare(len), S(c, w1, a, Zero, h + 2, j, "any"), S(c, w2, a, Zero, h + 2, j, "any"))
  <2>1. h + 2 = v.count + One + a + 1 /\ N2 = N1 \cup {len}
    BY <1>a DEF ForCounts
  <2>. HIDE DEF N1, N2
  <2>. QED
    BY <2>1, <1>0, <1>n, <1>m, DoDeclare
<1>5. Does(Declare(cnt), S(c, w2, a, Zero, h + 3, j, "any"), S(c, w3, a, Zero, h + 3, j, "any"))
  <2>1. h + 3 = v.count + Two + a + 1 /\ N3 = N2 \cup {cnt}
    BY <1>a DEF ForCounts
  <2>. HIDE DEF N3, N2
  <2>. QED
    BY <2>1, <1>0, <1>n, <1>m, DoDeclare
<1>6. Does(more, S(c, w3, a, Zero, h + 3, j, "any"), S(c, w, a, Zero, b, j, "any"))
  <2>1. CASE ~hoist
    <3>1. n = Three /\ N = N3 /\ more = <<>>
      BY <2>1
    <3>2. w = w3 /\ b = h + 3
      BY <3>1, <1>a DEF ForCounts
    <3>. HIDE DEF w, w3, b, more
    <3>. QED
      BY <3>1, <3>2, DoesNothing
  <2>2. CASE hoist
    <3>1. n = Three + 1 /\ N = N3 \cup {hsrc} /\ more = NoTail(0) \o Declare(hsrc)
      BY <2>2
    <3>2. b = v.count + Three + a + 1 /\ b = h + 3 + 1
      BY <3>1, <1>a DEF ForCounts
    <3>6. /\ IsVars(v) /\ a \in Nat /\ b \in Nat /\ Three \in Nat /\ hsrc \in AllNames
          /\ n = Three + 1 /\ N = N3 \cup {hsrc}
      BY <3>1, <1>0, <1>a, <1>n, <1>m DEF ForCounts
    <3>. HIDE DEF n, N, N3, b, more
    <3>3. Does(Declare(hsrc), S(c, w3, a, Zero, b, j, "any"), S(c, w, a, Zero, b, j, "any"))
      BY <3>2, <3>6, DoDeclare
    <3>. HIDE DEF w, w3
    <3>4. Does(NoTail(0), S(c, w3, a, Zero, h + 3, j, "any"), S(c, w3, a, Zero, b, j, "any"))
      BY <3>2, <1>g, <1>0, <1>m, DoNoTail
    <3>5. Does(NoTail(0) \o Declare(hsrc), S(c, w3, a, Zero, h + 3, j, "any"), S(c, w, a, Zero, b, j, "any"))
      BY <3>3, <3>4, Then
    <3>. QED
      BY <3>1, <3>5
  <2>. QED
    BY <2>1, <2>2
<1>7. Does(BeginScope, S(c, w, a, Zero, b + 1, j2, "any"), S(c, u0, a, Zero, b + 1, j2, "any"))
  <2>. HIDE DEF n, N, w, b, j2
  <2>. QED
    BY DoBeginScope DEF Zero, Nothing
<1>8. Does(Declare(name), S(c, u0, a, Zero, b + 1, j2, "any"), S(c, u, a, Zero, b + 1, j2, "any"))
  <2>. HIDE DEF n, N, w, b, j2
  <2>1. b + 1 = w.count + Zero + a + 1 /\ M = Nothing \cup {name}
    BY <1>a, <1>g DEF ForCounts
  <2>2. IsVars(w) /\ a \in Nat /\ b + 1 \in Nat /\ Zero \in Nat /\ name \in AllNames /\ One = Zero + 1
    BY <1>0, <1>a, <1>g, <1>n, <1>m DEF ForCounts
  <2>. HIDE DEF M
  <2>. QED
    BY <2>1, <2>2, DoDeclare
<1>9. Does(EndScope, S(c, u, a, Zero, b + 2, j2, "any"), S(c, w, a, Zero, b + 1, j2, "any"))
  <2>. HIDE DEF n, N, w, b, j2, M
  <2>1. b + 1 = b + 2 - One /\ One < b + 2 /\ b + 2 \in Nat
    BY <1>a DEF ForCounts
  <2>2. IsVars(w) /\ One \in Nat /\ b \in Nat
    BY <1>a, <1>g, <1>m DEF ForCounts
  <2>. DEFINE h2 == b + 2
              h1 == b + 1
  <2>3. h1 = h2 - One /\ One < h2 /\ h2 \in Nat
    BY <2>1, <2>2 DEF h1, h2
  <2>. HIDE DEF h1, h2
  <2>4. Does(EndScope, S(c, u, a, Zero, h2, j2, "any"), S(c, w, a, Zero, h1, j2, "any"))
    BY <2>2, <2>3, DoEndScope
  <2>. QED
    BY <2>4 DEF h1, h2
<1>10. Does(EndScope, S(c, w, a, Zero, b + 1, j, "any"), S(c, v, a, Zero, h + 1, j, "any"))
  <2>1. h + 1 = b + 1 - n /\ n < b + 1 /\ b + 1 \in Nat
    BY <1>a DEF ForCounts
  <2>. HIDE DEF n, N, b
  <2>2. IsVars(v) /\ n \in Nat /\ b \in Nat /\ h \in Nat
    BY <1>0, <1>a, <1>m DEF ForCounts
  <2>. DEFINE h2 == b + 1
              h1 == h + 1
  <2>3. h1 = h2 - n /\ n < h2 /\ h2 \in Nat
    BY <2>1, <2>2 DEF h1, h2
  <2>. HIDE DEF h1, h2
  <2>4. Does(EndScope, S(c, w, a, Zero, h2, j, "any"), S(c, v, a, Zero, h1, j, "any"))
    BY <2>2, <2>3, DoEndScope
  <2>. QED
    BY <2>4 DEF h1, h2
<1>11. Does(inner, S(c, u, a, Zero, b + 1, j2, "any"), S(c, u, a, Zero, b + 2, j2, "any"))
  <2>1. b + 2 = b + 1 + 1
    BY <1>a DEF ForCounts
  <2>. HIDE DEF n, N, u, b, j2
  <2>. QED
    BY <1>d, <1>g, <1>m, <2>1, DoYieldsIn, Literals
<1>12. Does(Loop, S(c, w, a, Zero, b, j2, "any"), S(c, w, a, Zero, b, j, "any"))
  <2>. HIDE DEF w, b
  <2>. QED
    BY <1>0, <1>m, DoLoop
<1>b. /\ b \in Nat /\ b + 1 \in Nat /\ b + 2 \in Nat /\ j1 \in Seq(Int) /\ j2 \in Seq(Int)
      /\ j1 = Append(j, b) /\ j2 = Append(j1, b) /\ j \in Seq(Int) /\ h + 1 \in Nat
      /\ h + 2 \in Nat /\ h + 3 \in Nat /\ n \in Nat /\ h + 2 > 0 /\ b + 1 > 0
      /\ h + 2 = h + 1 + 1 /\ h + 3 = h + 2 + 1 /\ b + 2 = b + 1 + 1
  BY <1>0, <1>a, <1>m, <1>g DEF ForCounts
<1>. HIDE DEF w0, w1, w2, w3, w, u0, u, b, j1, j2, n, N, M, N1, N2, N3, more
<1>. DEFINE p1 == first
            p2 == p1 \o BeginScope
            p3 == p2 \o Declare(src)
            p4 == p3 \o LoadName(src)
            p5 == p4 \o Op(1, {"num"})
            p6 == p5 \o Declare(len)
            p7 == p6 \o Value({"num"})
            p8 == p7 \o Declare(cnt)
            p9 == p8 \o more
            p10 == p9 \o Mark
            p11 == p10 \o LoadName(cnt)
            p12 == p11 \o LoadName(len)
            p13 == p12 \o Op(2, {"oth"})
            p14 == p13 \o JumpIf
            p15 == p14 \o LoadName(src)
            p16 == p15 \o LoadName(cnt)
            p17 == p16 \o Op(2, AnyKind)
            p18 == p17 \o BeginScope
            p19 == p18 \o Declare(name)
            p20 == p19 \o inner
            p21 == p20 \o EndScope
            p22 == p21 \o Discard(1)
            p23 == p22 \o LoadName(cnt)
            p24 == p23 \o Value({"num"})
            p25 == p24 \o Op(2, {"num"})
            p26 == p25 \o Store(cnt)
            p27 == p26 \o Loop
            p28 == p27 \o Value({"oth"})
            p29 == p28 \o EndScope
<1>. HIDE DEF p1, p2, p3, p4, p5, p6, p7, p8, p9, p10, p11, p12, p13, p14, p15, p16, p17, p18, p19, p20, p21, p22, p23, p24, p25, p26, p27, p28, p29
<1>s1. Does(p1, S(c, v, a, Zero, h, j, l), S(c, v, a, Zero, h + 1, j, "any"))
  BY <1>1 DEF p1
<1>s2. Does(p2, S(c, v, a, Zero, h, j, l), S(c, w0, a, Zero, h + 1, j, "any"))
  BY <1>s1, <1>2, Then DEF p2
<1>s3. Does(p3, S(c, v, a, Zero, h, j, l), S(c, w1, a, Zero, h + 1, j, "any"))
  BY <1>s2, <1>3, Then DEF p3
<1>s4. Does(p4, S(c, v, a, Zero, h, j, l), S(c, w1, a, Zero, h + 2, j, "any"))
  BY <1>b, <1>d, KindSets, <1>s3, DoLoad, Then DEF p4
<1>s5. Does(p5, S(c, v, a, Zero, h, j, l), S(c, w1, a, Zero, h + 2, j, "any"))
  BY <1>b, <1>d, KindSets, <1>s4, DoOneForOne, Then DEF p5
<1>s6. Does(p6, S(c, v, a, Zero, h, j, l), S(c, w2, a, Zero, h + 2, j, "any"))
  BY <1>s5, <1>4, Then DEF p6
<1>s7. Does(p7, S(c, v, a, Zero, h, j, l), S(c, w2, a, Zero, h + 3, j, "any"))
  BY <1>b, <1>d, KindSets, <1>s6, DoValue, Then DEF p7
<1>s8. Does(p8, S(c, v, a, Zero, h, j, l), S(c, w3, a, Zero, h + 3, j, "any"))
  BY <1>s7, <1>5, Then DEF p8
<1>s9. Does(p9, S(c, v, a, Zero, h, j, l), S(c, w, a, Zero, b, j, "any"))
  BY <1>s8, <1>6, Then DEF p9
<1>s10. Does(p10, S(c, v, a, Zero, h, j, l), S(c, w, a, Zero, b, j1, "any"))
  BY <1>b, <1>d, KindSets, <1>s9, DoMark, Then DEF p10
<1>s11. Does(p11, S(c, v, a, Zero, h, j, l), S(c, w, a, Zero, b + 1, j1, "any"))
  BY <1>b, <1>d, KindSets, <1>s10, DoLoad, Then DEF p11
<1>s12. Does(p12, S(c, v, a, Zero, h, j, l), S(c, w, a, Zero, b + 2, j1, "any"))
  BY <1>b, <1>d, KindSets, <1>s11, DoLoad, Then DEF p12
<1>s13. Does(p13, S(c, v, a, Zero, h, j, l), S(c, w, a, Zero, b + 1, j1, "any"))
  BY <1>b, <1>d, KindSets, <1>s12, DoTwoForOne, Then DEF p13
<1>s14. Does(p14, S(c, v, a, Zero, h, j, l), S(c, w, a, Zero, b, j2, "any"))
  BY <1>b, <1>d, KindSets, <1>s13, DoJumpIf, Then DEF p14
<1>s15. Does(p15, S(c, v, a, Zero, h, j, l), S(c, w, a, Zero, b + 1, j2, "any"))
  BY <1>b, <1>d, KindSets, <1>s14, DoLoad, Then DEF p15
<1>s16. Does(p16, S(c, v, a, Zero, h, j, l), S(c, w, a, Zero, b + 2, j2, "any"))
  BY <1>b, <1>d, KindSets, <1>s15, DoLoad, Then DEF p16
<1>s17. Does(p17, S(c, v, a, Zero, h, j, l), S(c, w, a, Zero, b + 1, j2, "any"))
  BY <1>b, <1>d, KindSets, <1>s16, DoTwoForOne, Then DEF p17
<1>s18. Does(p18, S(c, v, a, Zero, h, j, l), S(c, u0, a, Zero, b + 1, j2, "any"))
  BY <1>s17, <1>7, Then DEF p18
<1>s19. Does(p19, S(c, v, a, Zero, h, j, l), S(c, u, a, Zero, b + 1, j2, "any"))
  BY <1>s18, <1>8, Then DEF p19
<1>s20. Does(p20, S(c, v, a, Zero, h, j, l), S(c, u, a, Zero, b + 2, j2, "any"))
  BY <1>s19, <1>11, Then DEF p20
<1>s21. Does(p21, S(c, v, a, Zero, h, j, l), S(c, w, a, Zero, b + 1, j2, "any"))
  BY <1>s20, <1>9, Then DEF p21
<1>s22. Does(p22, S(c, v, a, Zero, h, j, l), S(c, w, a, Zero, b, j2, "any"))
  BY <1>b, <1>d, KindSets, <1>s21, DoDiscard, Then DEF p22
<1>s23. Does(p23, S(c, v, a, Zero, h, j, l), S(c, w, a, Zero, b + 1, j2, "any"))
  BY <1>b, <1>d, KindSets, <1>s22, DoLoad, Then DEF p23
<1>s24. Does(p24, S(c, v, a, Zero, h, j, l), S(c, w, a, Zero, b + 2, j2, "any"))
  BY <1>b, <1>d, KindSets, <1>s23, DoValue, Then DEF p24
<1>s25. Does(p25, S(c, v, a, Zero, h, j, l), S(c, w, a, Zero, b + 1, j2, "any"))
  BY <1>b, <1>d, KindSets, <1>s24, DoTwoForOne, Then DEF p25
<1>s26. Does(p26, S(c, v, a, Zero, h, j, l), S(c, w, a, Zero, b, j2, "any"))
  BY <1>b, <1>d, KindSets, <1>s25, DoStore, Then DEF p26
<1>s27. Does(p27, S(c, v, a, Zero, h, j, l), S(c, w, a, Zero, b, j, "any"))
  BY <1>s26, <1>12, Then DEF p27
<1>s28. Does(p28, S(c, v, a, Zero, h, j, l), S(c, w, a, Zero, b + 1, j, "any"))
  BY <1>b, <1>d, KindSets, <1>s27, DoValue, Then DEF p28
<1>s29. Does(p29, S(c, v, a, Zero, h, j, l), S(c, v, a, Zero, h + 1, j, "any"))
  BY <1>s28, <1>10, Then DEF p29
<1>. QED
  BY <1>s29 DEF p1, p2, p3, p4, p5, p6, p7, p8, p9, p10, p11, p12, p13, p14, p15, p16, p17, p18, p19, p20, p21, p22, p23, p24, p25, p26, p27, p28, p29, ForClause, first, more, src, len, cnt, hsrc, name


(* The clauses, from the last one on *)
EmitStep(cs, base, f, i) ==
  IF i > Len(cs) THEN base
  ELSE IF cs[i].name = "" THEN IfClause(f[i + 1])
  ELSE ForClause(cs[i], i > 1 /\ cs[i - 1].hoist, cs[i].hoist, f[i + 1])

LEMMA EmitExists ==
  ASSUME NEW cs, Len(cs) \in Nat, NEW base
  PROVE  \E f : f = [i \in 1..(Len(cs) + 1) |-> EmitStep(cs, base, f, i)]
<1>. DEFINE n == Len(cs)
            from(m) == n + 2 - m
            Built(f, m) == \A i \in from(m)..(n + 1) : f[i] = EmitStep(cs, base, f, i)
            Bad == {m \in 0..(n + 1) : ~ \E f : Built(f, m)}
<1>0. n \in Nat
  OBVIOUS
<1>. HIDE DEF n
<1>1. Bad = {}
  <2>. SUFFICES ASSUME Bad # {} PROVE FALSE
    OBVIOUS
  <2>1. PICK m \in Bad : \A i \in Bad : m <= i
    <3>1. Bad \in SUBSET Nat
      BY <1>0
    <3>. HIDE DEF Bad
    <3>. QED
      BY <3>1, LeastIn
  <2>2. m # 0
    <3>1. \A f : Built(f, 0)
      BY <1>0
    <3>. QED
      BY <3>1
  <2>a. m \in 0..(n + 1)
    BY <2>1
  <2>3. m \in Nat /\ m - 1 \in 0..(n + 1) /\ m - 1 \notin Bad /\ m \in 1..(n + 1)
    <3>. HIDE DEF Built
    <3>1. m \in Nat /\ m - 1 \in 0..(n + 1) /\ m \in 1..(n + 1) /\ ~(m <= m - 1)
      BY <1>0, <2>a, <2>2
    <3>. HIDE DEF Bad
    <3>. QED
      BY <2>1, <3>1
  <2>4. PICK f : Built(f, m - 1)
    BY <2>3
  <2>. DEFINE q == from(m)
              g == [i \in 1..(n + 1) |-> IF i = q THEN EmitStep(cs, base, f, q) ELSE f[i]]
  <2>5. q \in 1..(n + 1) /\ from(m - 1) = q + 1
    BY <1>0, <2>3
  <2>6. ASSUME NEW i \in q..(n + 1) PROVE g[i] = EmitStep(cs, base, g, i)
    <3>1. i \in 1..(n + 1) /\ (i <= Len(cs) => i + 1 \in 1..(n + 1) /\ i + 1 # q)
      BY <1>0, <2>5 DEF n
    <3>2. i <= Len(cs) => g[i + 1] = f[i + 1]
      BY <3>1
    <3>3. g[i] = EmitStep(cs, base, f, i)
      <4>1. CASE i = q
        BY <4>1, <3>1
      <4>2. CASE i # q
        <5>1. i \in from(m - 1)..(n + 1)
          BY <4>2, <2>5, <1>0
        <5>. HIDE DEF from
        <5>2. f[i] = EmitStep(cs, base, f, i)
          BY <5>1, <2>4
        <5>. QED
          BY <4>2, <3>1, <5>2
      <4>. QED
        BY <4>1, <4>2
    <3>4. i > Len(cs) \/ i <= Len(cs)
      BY <1>0, <3>1 DEF n
    <3>. HIDE DEF g, q, from
    <3>. QED
      BY <3>2, <3>3, <3>4 DEF EmitStep
  <2>. HIDE DEF g
  <2>7. Built(g, m)
    BY <2>6
  <2>. QED
    BY <2>1, <2>7
<1>2. PICK f : Built(f, n + 1)
  <2>1. n + 1 \in 0..(n + 1)
    BY <1>0
  <2>. HIDE DEF Built
  <2>. QED
    BY <2>1, <1>1
<1>. DEFINE g == [i \in 1..(n + 1) |-> f[i]]
<1>3. ASSUME NEW i \in 1..(n + 1) PROVE g[i] = EmitStep(cs, base, g, i)
  <2>1. from(n + 1) = 1
    BY <1>0
  <2>2. g[i] = f[i] /\ f[i] = EmitStep(cs, base, f, i)
    BY <1>2, <2>1
  <2>3. (i <= Len(cs) => g[i + 1] = f[i + 1]) /\ (i > Len(cs) \/ i <= Len(cs))
    BY <1>0 DEF n
  <2>. HIDE DEF g
  <2>. QED
    BY <2>2, <2>3 DEF EmitStep
<1>4. g = [i \in 1..(n + 1) |-> g[i]]
  OBVIOUS
<1>. HIDE DEF g
<1>5. g = [i \in 1..(n + 1) |-> EmitStep(cs, base, g, i)]
  BY <1>3, <1>4
<1>. QED
  BY <1>5 DEF n

LEMMA YieldsMore ==
  ASSUME NEW items, NEW X, NEW Y, NEW m, YieldsIn(items, X, m), X \subseteq Y
  PROVE  YieldsIn(items, Y, m)
  BY DEF YieldsIn

LEMMA ClausesYields ==
  ASSUME tail \in BOOLEAN, NEW cs \in ForLists, NEW base, NEW X, YieldsIn(base, X, "any")
  PROVE  YieldsIn(Clauses(cs, base), X, "any")
<1>. DEFINE n == Len(cs)
            hsrc == "__comp_hoisted_source"
            H(i) == IF i > 1 /\ i <= n /\ cs[i - 1].hoist THEN {hsrc} ELSE {}
            emit == CHOOSE f : f = [i \in 1..(n + 1) |-> EmitStep(cs, base, f, i)]
<1>a. /\ cs \in Seq([name : Names \cup {""}, hoist : BOOLEAN])
      /\ \A i \in DOMAIN cs :
           cs[i].hoist => cs[i].name # "" /\ i < Len(cs) /\ cs[i + 1].name # ""
  BY ListsAssumption DEF IsClauseList
<1>n. n \in Nat /\ DOMAIN cs = 1..n
  <2>. DEFINE R == [name : Names \cup {""}, hoist : BOOLEAN]
  <2>1. cs \in Seq(R)
    BY <1>a
  <2>. HIDE DEF R
  <2>. QED
    BY <2>1
<1>1. ASSUME NEW i \in 1..n
      PROVE  /\ cs[i].hoist \in BOOLEAN
             /\ cs[i].name # "" => cs[i].name \in AllNames
             /\ cs[i].hoist => cs[i].name # "" /\ i < n /\ cs[i + 1].name # ""
  <2>. DEFINE R == [name : Names \cup {""}, hoist : BOOLEAN]
  <2>0. cs \in Seq(R)
    BY <1>a
  <2>1. cs[i] \in R
    <3>. HIDE DEF R
    <3>. QED
      BY <2>0, <1>n
  <2>2. cs[i].hoist \in BOOLEAN /\ cs[i].name \in Names \cup {""}
    BY <2>1
  <2>3. cs[i].name # "" => cs[i].name \in AllNames
    BY <2>2 DEF AllNames
  <2>4. i \in DOMAIN cs
    BY <1>n
  <2>. HIDE DEF R
  <2>. QED
    BY <2>2, <2>3, <2>4, <1>a
<1>2. emit = [i \in 1..(n + 1) |-> EmitStep(cs, base, emit, i)]
  BY <1>n, EmitExists
<1>3. Clauses(cs, base) = emit[1]
  BY DEF Clauses, EmitStep
<1>. HIDE DEF emit, n
<1>4. \A i \in 1..(n + 1) : emit[i] = EmitStep(cs, base, emit, i)
  BY <1>2
<1>. DEFINE Holds(i) == YieldsIn(emit[i], X \cup H(i), "any")
            Bad == {m \in 0..n : ~Holds(n + 1 - m)}
<1>5. Holds(n + 1)
  <2>1. emit[n + 1] = EmitStep(cs, base, emit, n + 1) /\ n + 1 > Len(cs)
    BY <1>n, <1>4 DEF n
  <2>. HIDE DEF H
  <2>2. YieldsIn(base, X \cup H(n + 1), "any")
    BY YieldsMore
  <2>. QED
    BY <2>1, <2>2 DEF EmitStep
<1>6. ASSUME NEW i \in 1..n, Holds(i + 1)
      PROVE  Holds(i)
  <2>1. i \in 1..(n + 1) /\ i <= n /\ ~(i > Len(cs)) /\ i + 1 > 1 /\ i + 1 - 1 = i
    BY <1>n DEF n
  <2>. DEFINE inner == emit[i + 1]
  <2>2. YieldsIn(inner, X \cup H(i + 1), "any")
    BY <1>6
  <2>3. CASE cs[i].name = ""
    <3>0. ~cs[i].hoist
      BY <1>1, <2>3
    <3>1. H(i + 1) = {}
      BY <3>0, <2>1
    <3>2. emit[i] = IfClause(inner)
      BY <1>4, <2>1, <2>3 DEF EmitStep
    <3>3. X \cup H(i + 1) = X
      BY <3>1
    <3>. HIDE DEF H, inner
    <3>4. YieldsIn(IfClause(inner), X, "any")
      BY <2>2, <3>3, IfClauseYields
    <3>5. YieldsIn(IfClause(inner), X \cup H(i), "any")
      BY <3>4, YieldsMore
    <3>. QED
      BY <3>2, <3>5
  <2>4. CASE cs[i].name # ""
    <3>. DEFINE hoisted == i > 1 /\ cs[i - 1].hoist
                hoist == cs[i].hoist
                Y == X \cup H(i + 1)
                Q == X \cup H(i)
                clause == cs[i]
    <3>1. emit[i] = ForClause(clause, hoisted, hoist, inner)
      BY <1>4, <2>1, <2>4 DEF EmitStep
    <3>2. hoisted \in BOOLEAN /\ hoist \in BOOLEAN /\ clause.name \in AllNames
      BY <1>1, <2>1, <2>4
    <3>3. hoisted => hsrc \in Q
      BY <2>1
    <3>4. \A y \in Y : y \in Q \/ (hoist /\ y = hsrc)
      BY <2>1
    <3>. HIDE DEF H, inner, hoisted, hoist, Q, clause, Y
    <3>5. YieldsIn(inner, Y, "any")
      BY <2>2 DEF Y
    <3>6. YieldsIn(ForClause(clause, hoisted, hoist, inner), Q, "any")
      BY <3>2, <3>3, <3>4, <3>5, ForClauseYields
    <3>. QED
      BY <3>1, <3>6 DEF Q
  <2>. QED
    BY <2>3, <2>4
<1>7. Bad = {}
  <2>. SUFFICES ASSUME Bad # {} PROVE FALSE
    OBVIOUS
  <2>1. PICK m \in Bad : \A i \in Bad : m <= i
    <3>1. Bad \in SUBSET Nat
      BY <1>n
    <3>. HIDE DEF Bad
    <3>. QED
      BY <3>1, LeastIn
  <2>. HIDE DEF Holds
  <2>2. m # 0
    <3>1. n + 1 - 0 = n + 1
      BY <1>n
    <3>. QED
      BY <1>5, <3>1
  <2>a. m \in 0..n
    BY <2>1
  <2>3. /\ m \in Nat /\ m - 1 \in 0..n /\ n + 1 - m \in 1..n /\ ~(m <= m - 1)
        /\ n + 1 - (m - 1) = (n + 1 - m) + 1
    <3>. HIDE DEF Bad
    <3>. QED
      BY <1>n, <2>a, <2>2
  <2>b. m - 1 \notin Bad
    <3>. HIDE DEF Bad
    <3>. QED
      BY <2>1, <2>3
  <2>4. Holds((n + 1 - m) + 1)
    BY <2>3, <2>b
  <2>5. Holds(n + 1 - m)
    BY <2>3, <2>4, <1>6
  <2>. QED
    BY <2>1, <2>5
<1>8. Holds(1)
  <2>1. n \in 0..n /\ n + 1 - n = 1
    BY <1>n
  <2>. HIDE DEF Holds
  <2>2. Holds(n + 1 - n)
    BY <2>1, <1>7
  <2>. QED
    BY <2>1, <2>2
<1>9. X \cup H(1) = X
  OBVIOUS
<1>. HIDE DEF H
<1>. QED
  BY <1>3, <1>8, <1>9

(* The body of an array comprehension is appended in place *)
LEMMA AppendYields ==
  ASSUME tail \in BOOLEAN
  PROVE  Yields(NoTail(0) \o Discard(1) \o Value({"oth"}), "any")
<1>. SUFFICES ASSUME NEW c, NEW v, NEW a, NEW k, NEW h, NEW j, NEW l,
                     Good(c, v, a, k, j), h = v.count + a + k, l \in Known
              PROVE  Does(NoTail(0) \o Discard(1) \o Value({"oth"}), S(c, v, a, k, h, j, l),
                          S(c, v, a, k, h + 1, j, "any"))
  BY DEF Yields
<1>0. /\ h \in Nat /\ h + 1 \in Nat /\ h + 2 \in Nat /\ j \in Seq(Int) /\ a \in Nat /\ k \in Nat
      /\ c \in Contexts /\ IsVars(v) /\ h = v.count + a + k /\ l \in Known
  BY GoodHeight
<1>. DEFINE p1 == NoTail(0)
            p2 == p1 \o Discard(1)
            p3 == p2 \o Value({"oth"})
<1>. HIDE DEF p1, p2, p3
<1>1. Does(p1, S(c, v, a, k, h, j, l), S(c, v, a, k, h + 1, j, "any"))
  BY <1>0, KindSets, DoNoTail DEF p1
<1>2. Does(p2, S(c, v, a, k, h, j, l), S(c, v, a, k, h, j, "any"))
  BY <1>0, KindSets, <1>1, DoDiscard, Then DEF p2
<1>3. Does(p3, S(c, v, a, k, h, j, l), S(c, v, a, k, h + 1, j, "any"))
  BY <1>0, KindSets, <1>2, DoValue, Then DEF p3
<1>. QED
  BY <1>3 DEF p1, p2, p3

LEMMA ArrayCompYields ==
  ASSUME tail \in BOOLEAN, NEW cs \in ForLists
  PROVE  YieldsIn(parse_array_comprehension(cs), {}, "sealed")
<1>. SUFFICES ASSUME NEW c, NEW v, NEW a, NEW h, NEW j, NEW l, Good(c, v, a, Zero, j),
                     h = v.count + a + Zero, l \in Known, \A x \in {} : Declares(v, x)
              PROVE  Does(parse_array_comprehension(cs), S(c, v, a, Zero, h, j, l),
                          S(c, v, a, Zero, h + 1, j, "sealed"))
  BY DEF YieldsIn
<1>0. /\ h \in Nat /\ h + 1 \in Nat /\ h + 2 \in Nat /\ j \in Seq(Int) /\ l \in Known
      /\ h = v.count + a + Zero /\ h + 2 = h + 1 + 1 /\ h + 1 > 0 /\ IsVars(v) /\ c \in Contexts
  <2>1. h \in Nat /\ j \in Seq(Int) /\ IsVars(v) /\ c \in Contexts
    BY GoodHeight
  <2>. QED
    BY <2>1
<1>. DEFINE result == "__comp_result"
            N == {result}
            w0 == With(v, Zero, Nothing)
            w == With(v, One, N)
<1>w. /\ Good(c, w, a, Zero, j) /\ h + 1 = w.count + a + Zero /\ Declares(w, result)
      /\ \A x \in N : Declares(w, x)
  <2>0. N \in SUBSET AllNames /\ One \in Nat /\ h + One = h + 1 /\ result \in N
    BY <1>0, Literals DEF AllNames, One
  <2>. HIDE DEF N, result
  <2>1. Declares(w, result) /\ \A x \in N : Declares(w, x)
    BY <1>0, <2>0, WithDeclares
  <2>2. Good(c, w, a, Zero, j) /\ h + One = w.count + a + Zero
    <3>1. N \in SUBSET AllNames /\ One \in Nat
      BY <2>0
    <3>. QED
      BY <3>1, ScopeGood
  <2>. QED
    BY <2>0, <2>1, <2>2
<1>b. Does(BeginScope, S(c, v, a, Zero, h, j, l), S(c, w0, a, Zero, h, j, "any"))
  BY DoBeginScope DEF Zero, Nothing
<1>d. Does(Declare(result), S(c, w0, a, Zero, h + 1, j, "any"), S(c, w, a, Zero, h + 1, j, "any"))
  <2>1. N = Nothing \cup {result} /\ result \in AllNames /\ Zero \in Nat /\ One = Zero + 1
    BY Literals DEF AllNames, Nothing
  <2>2. h + 1 = v.count + Zero + a + 1 /\ IsVars(v) /\ a \in Nat /\ h + 1 \in Nat
    <3>1. v.count \in Nat /\ a \in Nat
      BY GoodHeight
    <3>. QED
      BY <1>0, <3>1 DEF Zero
  <2>. HIDE DEF N, result
  <2>. QED
    BY <2>1, <2>2, DoDeclare
<1>e. Does(EndScope, S(c, w, a, Zero, h + 2, j, "any"), S(c, v, a, Zero, h + 1, j, "any"))
  <2>. DEFINE h2 == h + 2
              h1 == h + 1
  <2>1. h1 = h2 - One /\ One < h2 /\ h2 \in Nat /\ One \in Nat /\ IsVars(v)
    BY <1>0, Literals DEF One
  <2>. HIDE DEF h1, h2, N
  <2>2. Does(EndScope, S(c, w, a, Zero, h2, j, "any"), S(c, v, a, Zero, h1, j, "any"))
    BY <2>1, DoEndScope
  <2>. QED
    BY <2>2 DEF h1, h2
<1>. DEFINE base == NoTail(0) \o Discard(1) \o Value({"oth"})
<1>c. YieldsIn(Clauses(cs, base), {}, "any")
  <2>1. Yields(base, "any")
    BY AppendYields
  <2>. HIDE DEF base
  <2>. QED
    BY <2>1, YieldsAnywhere, ClausesYields
<1>t. "Unknown" \in Types \ {"Std", "Native"}
  BY DEF Types
<1>. HIDE DEF result, N, w0, w, base
<1>. DEFINE p1 == BeginScope
            p2 == p1 \o Value({"oth"})
            p3 == p2 \o Declare(result)
            p4 == p3 \o Clauses(cs, base)
            p5 == p4 \o Discard(1)
            p6 == p5 \o LoadName(result)
            p7 == p6 \o EndScope
            p8 == p7 \o Close
            p9 == p8 \o PushT("Unknown")
<1>. HIDE DEF p1, p2, p3, p4, p5, p6, p7, p8, p9
<1>1. Does(p1, S(c, v, a, Zero, h, j, l), S(c, w0, a, Zero, h, j, "any"))
  BY <1>0, <1>w, <1>t, KindSets, Literals, <1>b DEF p1
<1>2. Does(p2, S(c, v, a, Zero, h, j, l), S(c, w0, a, Zero, h + 1, j, "any"))
  BY <1>0, <1>w, <1>t, KindSets, Literals, <1>1, DoValue, Then DEF p2
<1>3. Does(p3, S(c, v, a, Zero, h, j, l), S(c, w, a, Zero, h + 1, j, "any"))
  BY <1>0, <1>w, <1>t, KindSets, Literals, <1>2, <1>d, Then DEF p3
<1>4. Does(p4, S(c, v, a, Zero, h, j, l), S(c, w, a, Zero, h + 2, j, "any"))
  BY SMTT(30), <1>0, <1>w, <1>t, KindSets, Literals, <1>3, <1>c, DoYieldsIn, Then DEF p4
<1>5. Does(p5, S(c, v, a, Zero, h, j, l), S(c, w, a, Zero, h + 1, j, "any"))
  BY <1>0, <1>w, <1>t, KindSets, Literals, <1>4, DoDiscard, Then DEF p5
<1>6. Does(p6, S(c, v, a, Zero, h, j, l), S(c, w, a, Zero, h + 2, j, "any"))
  BY <1>0, <1>w, <1>t, KindSets, Literals, <1>5, DoLoad, Then DEF p6
<1>7. Does(p7, S(c, v, a, Zero, h, j, l), S(c, v, a, Zero, h + 1, j, "any"))
  BY <1>0, <1>w, <1>t, KindSets, Literals, <1>6, <1>e, Then DEF p7
<1>8. Does(p8, S(c, v, a, Zero, h, j, l), S(c, v, a, Zero, h + 1, j, "any"))
  BY <1>0, <1>w, <1>t, KindSets, Literals, <1>7, DoClose, Then DEF p8
<1>9. Does(p9, S(c, v, a, Zero, h, j, l), S(c, v, a, Zero, h + 1, j, "sealed"))
  BY <1>0, <1>w, <1>t, KindSets, Literals, <1>8, DoPushT, Then DEF p9
<1>. QED
  BY <1>9 DEF p1, p2, p3, p4, p5, p6, p7, p8, p9, parse_array_comprehension, base, result

LEMMA ObjectBaseYields ==
  ASSUME tail \in BOOLEAN, NEW bs \in Bindings \cup {<<>>}, NEW computed \in BOOLEAN
  PROVE  YieldsIn(ObjectBase(bs, computed), {"__comp_result"}, "any")
<1>. SUFFICES ASSUME NEW c, NEW v, NEW a, NEW h, NEW j, NEW l, Good(c, v, a, Zero, j),
                     h = v.count + a + Zero, l \in Known, \A x \in {"__comp_result"} : Declares(v, x)
              PROVE  Does(ObjectBase(bs, computed), S(c, v, a, Zero, h, j, l),
                          S(c, v, a, Zero, h + 1, j, "any"))
  BY DEF YieldsIn
<1>0. /\ h \in Nat /\ h + 1 \in Nat /\ h + 2 \in Nat /\ j \in Seq(Int) /\ l \in Known
      /\ h = v.count + a + Zero /\ h + 2 = h + 1 + 1 /\ h + 1 > 0 /\ IsVars(v) /\ c \in Contexts
  <2>1. h \in Nat /\ j \in Seq(Int) /\ IsVars(v) /\ c \in Contexts
    BY GoodHeight
  <2>. QED
    BY <2>1
<1>. DEFINE result == "__comp_result"
            key == IF computed THEN ComputedKey ELSE LiteralKey
            yes == TRUE
<1>d. Declares(v, result) /\ yes \in BOOLEAN
  OBVIOUS
<1>k. PICK known \in Known : Does(key, S(c, v, a, Zero, h + 1, j, "any"), S(c, v, a, Zero, h + 2, j, known))
  <2>1. h + 1 = v.count + a + Zero + 1 /\ h + 2 = h + 1 + 1
    BY <1>0
  <2>2. \E q \in Known : Does(key, S(c, v, a, Zero, h + 1, j, "any"), S(c, v, a, Zero, h + 1 + 1, j, q))
    BY <1>0, <2>1, KeyDoes
  <2>. HIDE DEF key
  <2>. QED
    BY <2>1, <2>2
<1>y. Yields(NoTail(0), "any")
  BY NoTailYields
<1>n. h + 3 \in Nat /\ h + 3 = h + 2 + 1 /\ h + 3 = h + 1 + 2
  BY <1>0
<1>. HIDE DEF result, key, yes
<1>. DEFINE p1 == LoadName(result)
            p2 == p1 \o key
            p3 == p2 \o MemberThunk(bs, yes, NoTail(0))
            p4 == p3 \o PopT(1)
            p5 == p4 \o Discard(2)
            p6 == p5 \o Store(result)
            p7 == p6 \o Value({"oth"})
<1>. HIDE DEF p1, p2, p3, p4, p5, p6, p7
<1>1. Does(p1, S(c, v, a, Zero, h, j, l), S(c, v, a, Zero, h + 1, j, "any"))
  BY <1>0, <1>d, <1>y, <1>n, KindSets, Literals, DoLoad DEF p1
<1>2. Does(p2, S(c, v, a, Zero, h, j, l), S(c, v, a, Zero, h + 2, j, known))
  BY <1>0, <1>d, <1>y, <1>n, KindSets, Literals, <1>1, <1>k, Then DEF p2
<1>3. Does(p3, S(c, v, a, Zero, h, j, l), S(c, v, a, Zero, h + 3, j, "any"))
  BY <1>0, <1>d, <1>y, <1>n, KindSets, Literals, <1>2, MemberThunkDoes, Then DEF p3
<1>4. Does(p4, S(c, v, a, Zero, h, j, l), S(c, v, a, Zero, h + 3, j, "any"))
  BY <1>0, <1>d, <1>y, <1>n, KindSets, Literals, <1>3, DoPopT, Then DEF p4
<1>5. Does(p5, S(c, v, a, Zero, h, j, l), S(c, v, a, Zero, h + 1, j, "any"))
  BY <1>0, <1>d, <1>y, <1>n, KindSets, Literals, <1>4, DoDiscard, Then DEF p5
<1>6. Does(p6, S(c, v, a, Zero, h, j, l), S(c, v, a, Zero, h, j, "any"))
  BY <1>0, <1>d, <1>y, <1>n, KindSets, Literals, <1>5, DoStore, Then DEF p6
<1>7. Does(p7, S(c, v, a, Zero, h, j, l), S(c, v, a, Zero, h + 1, j, "any"))
  BY <1>0, <1>d, <1>y, <1>n, KindSets, Literals, <1>6, DoValue, Then DEF p7
<1>. QED
  BY <1>7 DEF p1, p2, p3, p4, p5, p6, p7, ObjectBase, result, key, yes

LEMMA ObjectCompYields ==
  ASSUME tail \in BOOLEAN, NEW cs \in ForLists, NEW bs \in Bindings \cup {<<>>},
         NEW computed \in BOOLEAN
  PROVE  YieldsIn(parse_object_comprehension(cs, bs, computed), {}, "any")
<1>. SUFFICES ASSUME NEW c, NEW v, NEW a, NEW h, NEW j, NEW l, Good(c, v, a, Zero, j),
                     h = v.count + a + Zero, l \in Known, \A x \in {} : Declares(v, x)
              PROVE  Does(parse_object_comprehension(cs, bs, computed), S(c, v, a, Zero, h, j, l),
                          S(c, v, a, Zero, h + 1, j, "any"))
  BY DEF YieldsIn
<1>0. /\ h \in Nat /\ h + 1 \in Nat /\ h + 2 \in Nat /\ j \in Seq(Int) /\ l \in Known
      /\ h = v.count + a + Zero /\ h + 2 = h + 1 + 1 /\ h + 1 > 0 /\ IsVars(v) /\ c \in Contexts
  <2>1. h \in Nat /\ j \in Seq(Int) /\ IsVars(v) /\ c \in Contexts
    BY GoodHeight
  <2>. QED
    BY <2>1
<1>. DEFINE q == Deeper(c, 1)
<1>q. Good(q, v, a, Zero, j) /\ Deeper(q, -1) = c /\ q.depth + (-1) \in Nat /\ c.depth + 1 \in Nat
  <2>1. q \in Contexts /\ Deeper(q, -1) = c
    BY <1>0, CountedContext
  <2>2. c.depth \in Nat /\ q.depth = c.depth + 1
    BY <1>0 DEF Contexts, Deeper
  <2>3. Good(q, v, a, Zero, j)
    BY <2>1 DEF Good
  <2>. QED
    BY <2>1, <2>2, <2>3
<1>h. Does(Depth(-1), S(q, v, a, Zero, h + 1, j, "any"), S(c, v, a, Zero, h + 1, j, "any"))
  <2>. DEFINE back == Deeper(q, -1)
  <2>1. back = c /\ q.depth + (-1) \in Nat /\ -1 \in Int
    BY <1>q
  <2>. HIDE DEF q
  <2>2. Does(Depth(-1), S(q, v, a, Zero, h + 1, j, "any"), S(back, v, a, Zero, h + 1, j, "any"))
    BY <2>1, DoDepth
  <2>. HIDE DEF back
  <2>. QED
    BY <2>1, <2>2
<1>. HIDE DEF q
<1>. DEFINE result == "__comp_result"
            N == {result}
            w0 == With(v, Zero, Nothing)
            w == With(v, One, N)
<1>w. /\ Good(q, w, a, Zero, j) /\ h + 1 = w.count + a + Zero /\ Declares(w, result)
      /\ \A x \in N : Declares(w, x)
  <2>0. N \in SUBSET AllNames /\ One \in Nat /\ h + One = h + 1 /\ result \in N
    BY <1>0, Literals DEF AllNames, One
  <2>. HIDE DEF N, result
  <2>1. Declares(w, result) /\ \A x \in N : Declares(w, x)
    BY <1>0, <2>0, WithDeclares
  <2>2. Good(q, w, a, Zero, j) /\ h + One = w.count + a + Zero
    <3>1. N \in SUBSET AllNames /\ One \in Nat
      BY <2>0
    <3>. QED
      BY <1>q, <3>1, ScopeGood
  <2>. QED
    BY <2>0, <2>1, <2>2
<1>b. Does(BeginScope, S(q, v, a, Zero, h, j, l), S(q, w0, a, Zero, h, j, "any"))
  BY DoBeginScope DEF Zero, Nothing
<1>d. Does(Declare(result), S(q, w0, a, Zero, h + 1, j, "any"), S(q, w, a, Zero, h + 1, j, "any"))
  <2>1. N = Nothing \cup {result} /\ result \in AllNames /\ Zero \in Nat /\ One = Zero + 1
    BY Literals DEF AllNames, Nothing
  <2>2. h + 1 = v.count + Zero + a + 1 /\ IsVars(v) /\ a \in Nat /\ h + 1 \in Nat
    <3>1. v.count \in Nat /\ a \in Nat
      BY GoodHeight
    <3>. QED
      BY <1>0, <3>1 DEF Zero
  <2>. HIDE DEF N, result
  <2>. QED
    BY <2>1, <2>2, DoDeclare
<1>e. Does(EndScope, S(q, w, a, Zero, h + 2, j, "any"), S(q, v, a, Zero, h + 1, j, "any"))
  <2>. DEFINE h2 == h + 2
              h1 == h + 1
  <2>1. h1 = h2 - One /\ One < h2 /\ h2 \in Nat /\ One \in Nat /\ IsVars(v)
    BY <1>0, Literals DEF One
  <2>. HIDE DEF h1, h2, N
  <2>2. Does(EndScope, S(q, w, a, Zero, h2, j, "any"), S(q, v, a, Zero, h1, j, "any"))
    BY <2>1, DoEndScope
  <2>. QED
    BY <2>2 DEF h1, h2
<1>. DEFINE base == ObjectBase(bs, computed)
<1>c. YieldsIn(ObjectClauses(cs, base), N, "any")
  <2>1. YieldsIn(base, N, "any")
    BY ObjectBaseYields
  <2>. HIDE DEF base, N
  <2>. QED
    BY <2>1, ClausesYields DEF ObjectClauses
<1>. HIDE DEF result, N, w0, w, base
<1>. DEFINE p1 == Depth(1)
            p2 == p1 \o BeginScope
            p3 == p2 \o Value({"obj"})
            p4 == p3 \o Declare(result)
            p5 == p4 \o ObjectClauses(cs, base)
            p6 == p5 \o Discard(1)
            p7 == p6 \o LoadName(result)
            p8 == p7 \o EndScope
            p9 == p8 \o Close
            p10 == p9 \o Depth(-1)
<1>. HIDE DEF p1, p2, p3, p4, p5, p6, p7, p8, p9, p10
<1>1. Does(p1, S(c, v, a, Zero, h, j, l), S(q, v, a, Zero, h, j, l))
  BY <1>0, <1>q, <1>w, KindSets, Literals, DoDepth DEF p1, q
<1>2. Does(p2, S(c, v, a, Zero, h, j, l), S(q, w0, a, Zero, h, j, "any"))
  BY <1>0, <1>q, <1>w, KindSets, Literals, <1>1, <1>b, Then DEF p2
<1>3. Does(p3, S(c, v, a, Zero, h, j, l), S(q, w0, a, Zero, h + 1, j, "any"))
  BY <1>0, <1>q, <1>w, KindSets, Literals, <1>2, DoValue, Then DEF p3
<1>4. Does(p4, S(c, v, a, Zero, h, j, l), S(q, w, a, Zero, h + 1, j, "any"))
  BY <1>0, <1>q, <1>w, KindSets, Literals, <1>3, <1>d, Then DEF p4
<1>5. Does(p5, S(c, v, a, Zero, h, j, l), S(q, w, a, Zero, h + 2, j, "any"))
  BY <1>0, <1>q, <1>w, KindSets, Literals, <1>4, <1>c, DoYieldsIn, Then DEF p5
<1>6. Does(p6, S(c, v, a, Zero, h, j, l), S(q, w, a, Zero, h + 1, j, "any"))
  BY <1>0, <1>q, <1>w, KindSets, Literals, <1>5, DoDiscard, Then DEF p6
<1>7. Does(p7, S(c, v, a, Zero, h, j, l), S(q, w, a, Zero, h + 2, j, "any"))
  BY <1>0, <1>q, <1>w, KindSets, Literals, <1>6, DoLoad, Then DEF p7
<1>8. Does(p8, S(c, v, a, Zero, h, j, l), S(q, v, a, Zero, h + 1, j, "any"))
  BY <1>0, <1>q, <1>w, KindSets, Literals, <1>7, <1>e, Then DEF p8
<1>9. Does(p9, S(c, v, a, Zero, h, j, l), S(q, v, a, Zero, h + 1, j, "any"))
  BY <1>0, <1>q, <1>w, KindSets, Literals, <1>8, DoClose, Then DEF p9
<1>10. Does(p10, S(c, v, a, Zero, h, j, l), S(c, v, a, Zero, h + 1, j, "any"))
  BY <1>0, <1>q, <1>w, KindSets, Literals, <1>9, <1>h, Then DEF p10
<1>. QED
  BY <1>10 DEF p1, p2, p3, p4, p5, p6, p7, p8, p9, p10, parse_object_comprehension, base, result


(***************************************************************************)
(* The forms that begin an expression                                       *)
(***************************************************************************)
LEMMA TypeNames ==
  /\ "Unknown" \in Types \ {"Std", "Native"} /\ "String" \in Types \ {"Std", "Native"}
  /\ "Number" \in Types \ {"Std", "Native"} /\ "Object" \in Types \ {"Std", "Native"}
  BY DEF Types

LEMMA TypedYields ==
  ASSUME NEW kinds \in SUBSET Kinds, NEW type \in Types \ {"Std", "Native"}
  PROVE  Yields(Typed(kinds, type), "sealed")
<1>. SUFFICES ASSUME NEW c, NEW v, NEW a, NEW k, NEW h, NEW j, NEW l,
                     Good(c, v, a, k, j), h = v.count + a + k, l \in Known
              PROVE  Does(Typed(kinds, type), S(c, v, a, k, h, j, l),
                          S(c, v, a, k, h + 1, j, "sealed"))
  BY DEF Yields
<1>0. /\ h \in Nat /\ h + 1 \in Nat /\ h + 2 \in Nat /\ j \in Seq(Int) /\ a \in Nat /\ k \in Nat
      /\ c \in Contexts /\ IsVars(v) /\ h = v.count + a + k /\ l \in Known
  BY SMTT(30), GoodHeight
<1>. DEFINE p1 == Value(kinds)
            p2 == p1 \o PushT(type)
<1>. HIDE DEF p1, p2
<1>1. Does(p1, S(c, v, a, k, h, j, l), S(c, v, a, k, h + 1, j, "any"))
  BY <1>0, DoValue DEF p1
<1>2. Does(p2, S(c, v, a, k, h, j, l), S(c, v, a, k, h + 1, j, "sealed"))
  BY <1>0, <1>1, DoPushT, Then DEF p2
<1>. QED
  BY <1>2 DEF p1, p2, Typed

(* What the compiler says is std or a native function is one *)
LEMMA KnownTyped ==
  ASSUME NEW kinds, NEW type, NEW l, NEW c, NEW v, NEW a, NEW k, NEW h \in Nat, NEW j, NEW m,
         NEW g, g = h + 1,
         \/ kinds = {"std"} /\ type = "Std" /\ l = "std"
         \/ kinds = {"nat"} /\ type = "Native" /\ l = "nat"
  PROVE  Does(Typed(kinds, type), S(c, v, a, k, h, j, m), S(c, v, a, k, g, j, "sealed"))
<1>0. kinds \in SUBSET Kinds /\ type \in Types /\ l \in LastOf(kinds) /\ "sealed" \in LastAfter(type, l)
  BY DEF Kinds, Types, LastOf, LastAfter
<1>1. Step(<<"op", 0, kinds>>, S(c, v, a, k, h, j, m), S(c, v, a, k, g, j, l))
  <2>1. TakeStep(S(c, v, a, k, h, j, m), S(c, v, a, k, g, j, l), 0, 1, l)
    BY DEF TakeStep, Moved, S, Fun
  <2>2. OpStep(S(c, v, a, k, h, j, m), S(c, v, a, k, g, j, l), 0, kinds)
    BY <1>0, <2>1 DEF OpStep
  <2>. QED
    BY <2>2 DEF Step
<1>2. Step(<<"tpush", type>>, S(c, v, a, k, g, j, l), S(c, v, a, k, g, j, "sealed"))
  <2>0. g \in Nat
    OBVIOUS
  <2>1. TakeStep(S(c, v, a, k, g, j, l), S(c, v, a, k, g, j, "sealed"), 0, 0, "sealed")
    BY <2>0 DEF TakeStep, Moved, S, Fun
  <2>2. S(c, v, a, k, g, j, l).fun.last = l
    BY DEF S, Fun
  <2>3. TypeStep(S(c, v, a, k, g, j, l), S(c, v, a, k, g, j, "sealed"), type)
    BY <1>0, <2>1, <2>2 DEF TypeStep
  <2>. QED
    BY <2>3 DEF Step
<1>3. Does(Value(kinds), S(c, v, a, k, h, j, m), S(c, v, a, k, g, j, l))
  BY <1>1, DoesOne DEF Value
<1>4. Does(PushT(type), S(c, v, a, k, g, j, l), S(c, v, a, k, g, j, "sealed"))
  BY <1>2, DoesOne DEF PushT
<1>. QED
  BY <1>3, <1>4, Then DEF Typed

LEMMA StdYields == Yields(Typed({"std"}, "Std"), "sealed")
<1>. SUFFICES ASSUME NEW c, NEW v, NEW a, NEW k, NEW h, NEW j, NEW l,
                     Good(c, v, a, k, j), h = v.count + a + k, l \in Known
              PROVE  Does(Typed({"std"}, "Std"), S(c, v, a, k, h, j, l),
                          S(c, v, a, k, h + 1, j, "sealed"))
  BY DEF Yields
<1>1. h \in Nat
  BY GoodHeight
<1>. QED
  BY <1>1, KnownTyped

LEMMA SelfYields ==
  Yields(LoadSelf \o PushT("Object"), "sealed")
<1>. SUFFICES ASSUME NEW c, NEW v, NEW a, NEW k, NEW h, NEW j, NEW l,
                     Good(c, v, a, k, j), h = v.count + a + k, l \in Known
              PROVE  Does(LoadSelf \o PushT("Object"), S(c, v, a, k, h, j, l),
                          S(c, v, a, k, h + 1, j, "sealed"))
  BY DEF Yields
<1>0. /\ h \in Nat /\ h + 1 \in Nat /\ h + 2 \in Nat /\ j \in Seq(Int) /\ a \in Nat /\ k \in Nat
      /\ c \in Contexts /\ IsVars(v) /\ h = v.count + a + k /\ l \in Known
  BY GoodHeight
<1>. DEFINE p1 == LoadSelf
            p2 == p1 \o PushT("Object")
<1>. HIDE DEF p1, p2
<1>1. Does(p1, S(c, v, a, k, h, j, l), S(c, v, a, k, h + 1, j, "any"))
  BY <1>0, DoSelf DEF p1
<1>2. Does(p2, S(c, v, a, k, h, j, l), S(c, v, a, k, h + 1, j, "sealed"))
  BY <1>0, <1>1, DoPushT, TypeNames, Then DEF p2
<1>. QED
  BY <1>2 DEF p1, p2

LEMMA SuperFieldYields ==
  Yields(Value({"str"}) \o Op(1, AnyKind) \o PushT("Unknown"), "sealed")
<1>. SUFFICES ASSUME NEW c, NEW v, NEW a, NEW k, NEW h, NEW j, NEW l,
                     Good(c, v, a, k, j), h = v.count + a + k, l \in Known
              PROVE  Does(Value({"str"}) \o Op(1, AnyKind) \o PushT("Unknown"), S(c, v, a, k, h, j, l),
                          S(c, v, a, k, h + 1, j, "sealed"))
  BY DEF Yields
<1>0. /\ h \in Nat /\ h + 1 \in Nat /\ h + 2 \in Nat /\ j \in Seq(Int) /\ a \in Nat /\ k \in Nat
      /\ c \in Contexts /\ IsVars(v) /\ h = v.count + a + k /\ l \in Known
  BY GoodHeight
<1>a. h + 1 > 0
  BY <1>0
<1>. DEFINE p1 == Value({"str"})
            p2 == p1 \o Op(1, AnyKind)
            p3 == p2 \o PushT("Unknown")
<1>. HIDE DEF p1, p2, p3
<1>1. Does(p1, S(c, v, a, k, h, j, l), S(c, v, a, k, h + 1, j, "any"))
  BY <1>0, <1>a, KindSets, TypeNames, DoValue DEF p1
<1>2. Does(p2, S(c, v, a, k, h, j, l), S(c, v, a, k, h + 1, j, "any"))
  BY <1>0, <1>a, KindSets, TypeNames, <1>1, DoOneForOne, Then DEF p2
<1>3. Does(p3, S(c, v, a, k, h, j, l), S(c, v, a, k, h + 1, j, "sealed"))
  BY <1>0, <1>a, KindSets, TypeNames, <1>2, DoPushT, Then DEF p3
<1>. QED
  BY <1>3 DEF p1, p2, p3

LEMMA LeafYields ==
  ASSUME NEW form \in Leaves
  PROVE  Yields(LeafItems[form], "sealed")
<1>1. /\ Yields(Typed({"num"}, "Number"), "sealed") /\ Yields(Typed({"str"}, "String"), "sealed")
      /\ Yields(Typed({"oth"}, "Unknown"), "sealed") /\ Yields(Typed(AnyKind, "Unknown"), "sealed")
      /\ Yields(Typed({"obj"}, "Object"), "sealed")
  BY KindSets, TypeNames, TypedYields
<1>2. form \in {"number", "string", "literal", "import", "self", "std", "baresuper", "superfield"}
  BY BoundsAssumption
<1>3. /\ LeafItems["number"] = Typed({"num"}, "Number") /\ LeafItems["string"] = Typed({"str"}, "String")
      /\ LeafItems["literal"] = Typed({"oth"}, "Unknown") /\ LeafItems["import"] = Typed(AnyKind, "Unknown")
      /\ LeafItems["baresuper"] = Typed({"obj"}, "Object") /\ LeafItems["std"] = Typed({"std"}, "Std")
  BY DEF LeafItems
<1>4. /\ LeafItems["self"] = LoadSelf \o PushT("Object")
      /\ LeafItems["superfield"] = Value({"str"}) \o Op(1, AnyKind) \o PushT("Unknown")
  BY DEF LeafItems
<1>a. CASE form = "self"
  BY <1>a, <1>4, SelfYields
<1>b. CASE form = "superfield"
  BY <1>b, <1>4, SuperFieldYields
<1>c. CASE form = "std"
  BY <1>c, <1>3, StdYields
<1>d. CASE form \notin {"self", "superfield", "std"}
  BY <1>d, <1>1, <1>2, <1>3
<1>. QED
  BY <1>a, <1>b, <1>c, <1>d

LEMMA UnaryYields ==
  ASSUME tail \in BOOLEAN
  PROVE  Yields(NoTail(Unary) \o Op(1, {"num"}) \o Negate, "sealed")
<1>. SUFFICES ASSUME NEW c, NEW v, NEW a, NEW k, NEW h, NEW j, NEW l,
                     Good(c, v, a, k, j), h = v.count + a + k, l \in Known
              PROVE  Does(NoTail(Unary) \o Op(1, {"num"}) \o Negate, S(c, v, a, k, h, j, l),
                          S(c, v, a, k, h + 1, j, "sealed"))
  BY DEF Yields
<1>0. /\ h \in Nat /\ h + 1 \in Nat /\ h + 2 \in Nat /\ j \in Seq(Int) /\ a \in Nat /\ k \in Nat
      /\ c \in Contexts /\ IsVars(v) /\ h = v.count + a + k /\ l \in Known
  BY GoodHeight
<1>a. h + 1 > 0
  BY <1>0
<1>j. Good(c, v, a, k, Append(j, h))
  BY <1>0, GoodJumps
<1>u. Unary \in Nat
  BY DEF Unary
<1>. DEFINE p1 == NoTail(Unary)
            p2 == p1 \o Op(1, {"num"})
            p3 == p2 \o Negate
<1>. HIDE DEF p1, p2, p3
<1>1. Does(p1, S(c, v, a, k, h, j, l), S(c, v, a, k, h + 1, j, "any"))
  BY <1>0, <1>a, <1>j, KindSets, TypeNames, Literals, <1>u, DoNoTail DEF p1
<1>2. Does(p2, S(c, v, a, k, h, j, l), S(c, v, a, k, h + 1, j, "any"))
  BY <1>0, <1>a, <1>j, KindSets, TypeNames, Literals, <1>1, DoOneForOne, Then DEF p2
<1>3. Does(p3, S(c, v, a, k, h, j, l), S(c, v, a, k, h + 1, j, "sealed"))
  BY <1>0, <1>a, <1>j, KindSets, TypeNames, Literals, <1>2, DoNegate, Then DEF p3
<1>. QED
  BY <1>3 DEF p1, p2, p3

LEMMA ParensYields ==
  ASSUME tail \in BOOLEAN
  PROVE  Yields(NoTail(0) \o Close, "sealed")
<1>. SUFFICES ASSUME NEW c, NEW v, NEW a, NEW k, NEW h, NEW j, NEW l,
                     Good(c, v, a, k, j), h = v.count + a + k, l \in Known
              PROVE  Does(NoTail(0) \o Close, S(c, v, a, k, h, j, l),
                          S(c, v, a, k, h + 1, j, "sealed"))
  BY DEF Yields
<1>0. /\ h \in Nat /\ h + 1 \in Nat /\ h + 2 \in Nat /\ j \in Seq(Int) /\ a \in Nat /\ k \in Nat
      /\ c \in Contexts /\ IsVars(v) /\ h = v.count + a + k /\ l \in Known
  BY GoodHeight
<1>a. h + 1 > 0
  BY <1>0
<1>j. Good(c, v, a, k, Append(j, h))
  BY <1>0, GoodJumps
<1>. DEFINE p1 == NoTail(0)
            p2 == p1 \o Close
<1>. HIDE DEF p1, p2
<1>1. Does(p1, S(c, v, a, k, h, j, l), S(c, v, a, k, h + 1, j, "sealed"))
  BY <1>0, <1>a, <1>j, KindSets, TypeNames, Literals, DoNoTail DEF p1
<1>2. Does(p2, S(c, v, a, k, h, j, l), S(c, v, a, k, h + 1, j, "sealed"))
  BY <1>0, <1>a, <1>j, KindSets, TypeNames, Literals, <1>1, DoClose, Then DEF p2
<1>. QED
  BY <1>2 DEF p1, p2

LEMMA SuperIndexYields ==
  ASSUME tail \in BOOLEAN
  PROVE  Yields(NoTail(0) \o Close \o Op(1, AnyKind) \o PushT("Unknown"), "sealed")
<1>. SUFFICES ASSUME NEW c, NEW v, NEW a, NEW k, NEW h, NEW j, NEW l,
                     Good(c, v, a, k, j), h = v.count + a + k, l \in Known
              PROVE  Does(NoTail(0) \o Close \o Op(1, AnyKind) \o PushT("Unknown"), S(c, v, a, k, h, j, l),
                          S(c, v, a, k, h + 1, j, "sealed"))
  BY DEF Yields
<1>0. /\ h \in Nat /\ h + 1 \in Nat /\ h + 2 \in Nat /\ j \in Seq(Int) /\ a \in Nat /\ k \in Nat
      /\ c \in Contexts /\ IsVars(v) /\ h = v.count + a + k /\ l \in Known
  BY GoodHeight
<1>a. h + 1 > 0
  BY <1>0
<1>j. Good(c, v, a, k, Append(j, h))
  BY <1>0, GoodJumps
<1>. DEFINE p1 == NoTail(0)
            p2 == p1 \o Close
            p3 == p2 \o Op(1, AnyKind)
            p4 == p3 \o PushT("Unknown")
<1>. HIDE DEF p1, p2, p3, p4
<1>1. Does(p1, S(c, v, a, k, h, j, l), S(c, v, a, k, h + 1, j, "any"))
  BY <1>0, <1>a, <1>j, KindSets, TypeNames, Literals, DoNoTail DEF p1
<1>2. Does(p2, S(c, v, a, k, h, j, l), S(c, v, a, k, h + 1, j, "any"))
  BY <1>0, <1>a, <1>j, KindSets, TypeNames, Literals, <1>1, DoClose, Then DEF p2
<1>3. Does(p3, S(c, v, a, k, h, j, l), S(c, v, a, k, h + 1, j, "any"))
  BY <1>0, <1>a, <1>j, KindSets, TypeNames, Literals, <1>2, DoOneForOne, Then DEF p3
<1>4. Does(p4, S(c, v, a, k, h, j, l), S(c, v, a, k, h + 1, j, "sealed"))
  BY <1>0, <1>a, <1>j, KindSets, TypeNames, Literals, <1>3, DoPushT, Then DEF p4
<1>. QED
  BY <1>4 DEF p1, p2, p3, p4

LEMMA ErrorYields ==
  Yields(parse_error, "sealed")
<1>. SUFFICES ASSUME NEW c, NEW v, NEW a, NEW k, NEW h, NEW j, NEW l,
                     Good(c, v, a, k, j), h = v.count + a + k, l \in Known
              PROVE  Does(parse_error, S(c, v, a, k, h, j, l),
                          S(c, v, a, k, h + 1, j, "sealed"))
  BY DEF Yields
<1>0. /\ h \in Nat /\ h + 1 \in Nat /\ h + 2 \in Nat /\ j \in Seq(Int) /\ a \in Nat /\ k \in Nat
      /\ c \in Contexts /\ IsVars(v) /\ h = v.count + a + k /\ l \in Known
  BY GoodHeight
<1>a. h + 1 > 0
  BY <1>0
<1>j. Good(c, v, a, k, Append(j, h))
  BY <1>0, GoodJumps
<1>. DEFINE p1 == Expr(0)
            p2 == p1 \o Op(1, Nothing)
            p3 == p2 \o PushT("Unknown")
<1>. HIDE DEF p1, p2, p3
<1>1. Does(p1, S(c, v, a, k, h, j, l), S(c, v, a, k, h + 1, j, "any"))
  BY <1>0, <1>a, <1>j, KindSets, TypeNames, Literals, DoExpr DEF p1
<1>2. Does(p2, S(c, v, a, k, h, j, l), S(c, v, a, k, h + 1, j, "any"))
  BY <1>0, <1>a, <1>j, KindSets, TypeNames, Literals, <1>1, DoOneForOne, Then DEF p2
<1>3. Does(p3, S(c, v, a, k, h, j, l), S(c, v, a, k, h + 1, j, "sealed"))
  BY <1>0, <1>a, <1>j, KindSets, TypeNames, Literals, <1>2, DoPushT, Then DEF p3
<1>. QED
  BY <1>3 DEF p1, p2, p3, parse_error, Nothing

LEMMA AssertYields ==
  ASSUME tail \in BOOLEAN, NEW msg \in BOOLEAN
  PROVE  Yields(parse_assert_expression(msg), "sealed")
<1>. SUFFICES ASSUME NEW c, NEW v, NEW a, NEW k, NEW h, NEW j, NEW l,
                     Good(c, v, a, k, j), h = v.count + a + k, l \in Known
              PROVE  Does(parse_assert_expression(msg), S(c, v, a, k, h, j, l),
                          S(c, v, a, k, h + 1, j, "sealed"))
  BY DEF Yields
<1>0. /\ h \in Nat /\ h + 1 \in Nat /\ h + 2 \in Nat /\ j \in Seq(Int) /\ a \in Nat /\ k \in Nat
      /\ c \in Contexts /\ IsVars(v) /\ h = v.count + a + k /\ l \in Known
  BY GoodHeight
<1>a. h + 1 > 0
  BY <1>0
<1>j. Good(c, v, a, k, Append(j, h))
  BY <1>0, GoodJumps
<1>. DEFINE p1 == NoTail(0)
            p2 == p1 \o PopT(1)
            p3 == p2 \o JumpIf
            p4 == p3 \o OtherBranch
            p5 == p4 \o Message(msg)
            p6 == p5 \o Op(1, Nothing)
            p7 == p6 \o Discard(1)
            p8 == p7 \o Join
            p9 == p8 \o Expr(0)
            p10 == p9 \o PushT("Unknown")
<1>. HIDE DEF p1, p2, p3, p4, p5, p6, p7, p8, p9, p10
<1>1. Does(p1, S(c, v, a, k, h, j, l), S(c, v, a, k, h + 1, j, "any"))
  BY <1>0, <1>a, <1>j, KindSets, TypeNames, Literals, DoNoTail DEF p1
<1>2. Does(p2, S(c, v, a, k, h, j, l), S(c, v, a, k, h + 1, j, "any"))
  BY <1>0, <1>a, <1>j, KindSets, TypeNames, Literals, <1>1, DoPopT, Then DEF p2
<1>3. Does(p3, S(c, v, a, k, h, j, l), S(c, v, a, k, h, Append(j, h), "any"))
  BY <1>0, <1>a, <1>j, KindSets, TypeNames, Literals, <1>2, DoJumpIf, Then DEF p3
<1>4. Does(p4, S(c, v, a, k, h, j, l), S(c, v, a, k, h, Append(j, h), "any"))
  BY <1>0, <1>a, <1>j, KindSets, TypeNames, Literals, <1>3, DoOtherBranch, Then DEF p4
<1>5. Does(p5, S(c, v, a, k, h, j, l), S(c, v, a, k, h + 1, Append(j, h), "any"))
  BY <1>0, <1>a, <1>j, KindSets, TypeNames, Literals, <1>4, MessageYields, DoYields, Then DEF p5
<1>6. Does(p6, S(c, v, a, k, h, j, l), S(c, v, a, k, h + 1, Append(j, h), "any"))
  BY <1>0, <1>a, <1>j, KindSets, TypeNames, Literals, <1>5, DoOneForOne, Then DEF p6
<1>7. Does(p7, S(c, v, a, k, h, j, l), S(c, v, a, k, h, Append(j, h), "any"))
  BY <1>0, <1>a, <1>j, KindSets, TypeNames, Literals, <1>6, DoDiscard, Then DEF p7
<1>8. Does(p8, S(c, v, a, k, h, j, l), S(c, v, a, k, h, j, "any"))
  BY <1>0, <1>a, <1>j, KindSets, TypeNames, Literals, <1>7, DoJoin, Then DEF p8
<1>9. Does(p9, S(c, v, a, k, h, j, l), S(c, v, a, k, h + 1, j, "any"))
  BY <1>0, <1>a, <1>j, KindSets, TypeNames, Literals, <1>8, DoExpr, Then DEF p9
<1>10. Does(p10, S(c, v, a, k, h, j, l), S(c, v, a, k, h + 1, j, "sealed"))
  BY <1>0, <1>a, <1>j, KindSets, TypeNames, Literals, <1>9, DoPushT, Then DEF p10
<1>. QED
  BY <1>10 DEF p1, p2, p3, p4, p5, p6, p7, p8, p9, p10, parse_assert_expression, Nothing

LEMMA IfYields ==
  ASSUME tail \in BOOLEAN, NEW else \in BOOLEAN
  PROVE  Yields(parse_if_expression(else), "sealed")
<1>. SUFFICES ASSUME NEW c, NEW v, NEW a, NEW k, NEW h, NEW j, NEW l,
                     Good(c, v, a, k, j), h = v.count + a + k, l \in Known
              PROVE  Does(parse_if_expression(else), S(c, v, a, k, h, j, l),
                          S(c, v, a, k, h + 1, j, "sealed"))
  BY DEF Yields
<1>0. /\ h \in Nat /\ h + 1 \in Nat /\ h + 2 \in Nat /\ j \in Seq(Int) /\ a \in Nat /\ k \in Nat
      /\ c \in Contexts /\ IsVars(v) /\ h = v.count + a + k /\ l \in Known
  BY GoodHeight
<1>a. h + 1 > 0
  BY <1>0
<1>j. Good(c, v, a, k, Append(j, h))
  BY <1>0, GoodJumps
<1>. DEFINE other == IF else THEN Expr(0) ELSE Value({"oth"})
<1>o. Does(other, S(c, v, a, k, h, Append(j, h + 1), "any"),
           S(c, v, a, k, h + 1, Append(j, h + 1), "any"))
  BY <1>0, KindSets, DoExpr, DoValue
<1>. HIDE DEF other
<1>. DEFINE p1 == NoTail(0)
            p2 == p1 \o PopT(1)
            p3 == p2 \o JumpIf
            p4 == p3 \o Expr(0)
            p5 == p4 \o OtherBranch
            p6 == p5 \o other
            p7 == p6 \o Join
            p8 == p7 \o PushT("Unknown")
<1>. HIDE DEF p1, p2, p3, p4, p5, p6, p7, p8
<1>1. Does(p1, S(c, v, a, k, h, j, l), S(c, v, a, k, h + 1, j, "any"))
  BY <1>0, <1>a, <1>j, KindSets, TypeNames, Literals, DoNoTail DEF p1
<1>2. Does(p2, S(c, v, a, k, h, j, l), S(c, v, a, k, h + 1, j, "any"))
  BY <1>0, <1>a, <1>j, KindSets, TypeNames, Literals, <1>1, DoPopT, Then DEF p2
<1>3. Does(p3, S(c, v, a, k, h, j, l), S(c, v, a, k, h, Append(j, h), "any"))
  BY <1>0, <1>a, <1>j, KindSets, TypeNames, Literals, <1>2, DoJumpIf, Then DEF p3
<1>4. Does(p4, S(c, v, a, k, h, j, l), S(c, v, a, k, h + 1, Append(j, h), "any"))
  BY <1>0, <1>a, <1>j, KindSets, TypeNames, Literals, <1>3, DoExpr, Then DEF p4
<1>5. Does(p5, S(c, v, a, k, h, j, l), S(c, v, a, k, h, Append(j, h + 1), "any"))
  BY <1>0, <1>a, <1>j, KindSets, TypeNames, Literals, <1>4, DoOtherBranch, Then DEF p5
<1>6. Does(p6, S(c, v, a, k, h, j, l), S(c, v, a, k, h + 1, Append(j, h + 1), "any"))
  BY <1>0, <1>a, <1>j, KindSets, TypeNames, Literals, <1>5, <1>o, Then DEF p6
<1>7. Does(p7, S(c, v, a, k, h, j, l), S(c, v, a, k, h + 1, j, "any"))
  BY <1>0, <1>a, <1>j, KindSets, TypeNames, Literals, <1>6, DoJoin, Then DEF p7
<1>8. Does(p8, S(c, v, a, k, h, j, l), S(c, v, a, k, h + 1, j, "sealed"))
  BY <1>0, <1>a, <1>j, KindSets, TypeNames, Literals, <1>7, DoPushT, Then DEF p8
<1>. QED
  BY <1>8 DEF p1, p2, p3, p4, p5, p6, p7, p8, parse_if_expression, other

LEMMA FunctionYields ==
  ASSUME tail \in BOOLEAN, NEW ps \in Params
  PROVE  Yields(parse_function_expression(ps), "sealed")
<1>. SUFFICES ASSUME NEW c, NEW v, NEW a, NEW k, NEW h, NEW j, NEW l,
                     Good(c, v, a, k, j), h = v.count + a + k, l \in Known
              PROVE  Does(parse_function_expression(ps), S(c, v, a, k, h, j, l),
                          S(c, v, a, k, h + 1, j, "sealed"))
  BY DEF Yields
<1>0. /\ h \in Nat /\ h + 1 \in Nat /\ h + 2 \in Nat /\ j \in Seq(Int) /\ a \in Nat /\ k \in Nat
      /\ c \in Contexts /\ IsVars(v) /\ h = v.count + a + k /\ l \in Known
  BY GoodHeight
<1>a. h + 1 > 0
  BY <1>0
<1>j. Good(c, v, a, k, Append(j, h))
  BY <1>0, GoodJumps
<1>. DEFINE p1 == FunctionBody(ps)
            p2 == p1 \o PushT("Unknown")
<1>. HIDE DEF p1, p2
<1>1. Does(p1, S(c, v, a, k, h, j, l), S(c, v, a, k, h + 1, j, "any"))
  BY <1>0, <1>a, <1>j, KindSets, TypeNames, Literals, FunctionBodyYields, DoYields DEF p1
<1>2. Does(p2, S(c, v, a, k, h, j, l), S(c, v, a, k, h + 1, j, "sealed"))
  BY <1>0, <1>a, <1>j, KindSets, TypeNames, Literals, <1>1, DoPushT, Then DEF p2
<1>. QED
  BY <1>2 DEF p1, p2, parse_function_expression

LEMMA EmptyObjectExprYields ==
  Yields(empty_object \o PushT("Object"), "sealed")
<1>. SUFFICES ASSUME NEW c, NEW v, NEW a, NEW k, NEW h, NEW j, NEW l,
                     Good(c, v, a, k, j), h = v.count + a + k, l \in Known
              PROVE  Does(empty_object \o PushT("Object"), S(c, v, a, k, h, j, l),
                          S(c, v, a, k, h + 1, j, "sealed"))
  BY DEF Yields
<1>0. /\ h \in Nat /\ h + 1 \in Nat /\ h + 2 \in Nat /\ j \in Seq(Int) /\ a \in Nat /\ k \in Nat
      /\ c \in Contexts /\ IsVars(v) /\ h = v.count + a + k /\ l \in Known
  BY GoodHeight
<1>a. h + 1 > 0
  BY <1>0
<1>j. Good(c, v, a, k, Append(j, h))
  BY <1>0, GoodJumps
<1>. DEFINE p1 == empty_object
            p2 == p1 \o PushT("Object")
<1>. HIDE DEF p1, p2
<1>1. Does(p1, S(c, v, a, k, h, j, l), S(c, v, a, k, h + 1, j, "any"))
  BY <1>0, <1>a, <1>j, KindSets, TypeNames, Literals, EmptyObjectYields, DoYields DEF p1
<1>2. Does(p2, S(c, v, a, k, h, j, l), S(c, v, a, k, h + 1, j, "sealed"))
  BY <1>0, <1>a, <1>j, KindSets, TypeNames, Literals, <1>1, DoPushT, Then DEF p2
<1>. QED
  BY <1>2 DEF p1, p2

LEMMA ObjectExprYields ==
  ASSUME NEW bs \in Bindings \cup {<<>>}
  PROVE  Yields(parse_object_literal(bs) \o PushT("Object"), "sealed")
<1>. SUFFICES ASSUME NEW c, NEW v, NEW a, NEW k, NEW h, NEW j, NEW l,
                     Good(c, v, a, k, j), h = v.count + a + k, l \in Known
              PROVE  Does(parse_object_literal(bs) \o PushT("Object"), S(c, v, a, k, h, j, l),
                          S(c, v, a, k, h + 1, j, "sealed"))
  BY DEF Yields
<1>0. /\ h \in Nat /\ h + 1 \in Nat /\ h + 2 \in Nat /\ j \in Seq(Int) /\ a \in Nat /\ k \in Nat
      /\ c \in Contexts /\ IsVars(v) /\ h = v.count + a + k /\ l \in Known
  BY GoodHeight
<1>a. h + 1 > 0
  BY <1>0
<1>j. Good(c, v, a, k, Append(j, h))
  BY <1>0, GoodJumps
<1>. DEFINE p1 == parse_object_literal(bs)
            p2 == p1 \o PushT("Object")
<1>. HIDE DEF p1, p2
<1>1. Does(p1, S(c, v, a, k, h, j, l), S(c, v, a, k, h + 1, j, "any"))
  BY <1>0, <1>a, <1>j, KindSets, TypeNames, Literals, ObjectYields, DoYields DEF p1
<1>2. Does(p2, S(c, v, a, k, h, j, l), S(c, v, a, k, h + 1, j, "sealed"))
  BY <1>0, <1>a, <1>j, KindSets, TypeNames, Literals, <1>1, DoPushT, Then DEF p2
<1>. QED
  BY <1>2 DEF p1, p2

LEMMA ObjectCompExprYields ==
  ASSUME tail \in BOOLEAN, NEW cs \in ForLists, NEW bs \in Bindings \cup {<<>>},
         NEW computed \in BOOLEAN
  PROVE  YieldsIn(parse_object_comprehension(cs, bs, computed) \o PushT("Object"), {}, "sealed")
<1>. SUFFICES ASSUME NEW c, NEW v, NEW a, NEW h, NEW j, NEW l, Good(c, v, a, Zero, j),
                     h = v.count + a + Zero, l \in Known, \A x \in {} : Declares(v, x)
              PROVE  Does(parse_object_comprehension(cs, bs, computed) \o PushT("Object"), S(c, v, a, Zero, h, j, l),
                          S(c, v, a, Zero, h + 1, j, "sealed"))
  BY DEF YieldsIn
<1>0. /\ h \in Nat /\ h + 1 \in Nat /\ h + 2 \in Nat /\ j \in Seq(Int) /\ l \in Known
      /\ h = v.count + a + Zero /\ h + 2 = h + 1 + 1 /\ h + 1 > 0 /\ IsVars(v) /\ c \in Contexts
  <2>1. h \in Nat /\ j \in Seq(Int) /\ IsVars(v) /\ c \in Contexts
    BY GoodHeight
  <2>. QED
    BY <2>1
<1>1. YieldsIn(parse_object_comprehension(cs, bs, computed), {}, "any")
  BY ObjectCompYields
<1>2. Does(parse_object_comprehension(cs, bs, computed), S(c, v, a, Zero, h, j, l), S(c, v, a, Zero, h + 1, j, "any"))
  BY <1>0, <1>1, DoYieldsIn
<1>3. Does(PushT("Object"), S(c, v, a, Zero, h + 1, j, "any"), S(c, v, a, Zero, h + 1, j, "sealed"))
  BY <1>0, TypeNames, DoPushT
<1>. QED
  BY <1>2, <1>3, Then

(* local: all names first, then the right-hand sides *)
LEMMA LocalYields ==
  ASSUME tail \in BOOLEAN, NEW bs \in Bindings
  PROVE  YieldsIn(parse_local_statement(bs), {}, "sealed")
<1>. SUFFICES ASSUME NEW c, NEW v, NEW a, NEW h, NEW j, NEW l, Good(c, v, a, Zero, j),
                     h = v.count + a + Zero, l \in Known, \A x \in {} : Declares(v, x)
              PROVE  Does(parse_local_statement(bs), S(c, v, a, Zero, h, j, l),
                          S(c, v, a, Zero, h + 1, j, "sealed"))
  BY DEF YieldsIn
<1>0. /\ h \in Nat /\ h + 1 \in Nat /\ h + 2 \in Nat /\ j \in Seq(Int) /\ l \in Known
      /\ h = v.count + a + Zero /\ h + 2 = h + 1 + 1 /\ h + 1 > 0 /\ IsVars(v) /\ c \in Contexts
  <2>1. h \in Nat /\ j \in Seq(Int) /\ IsVars(v) /\ c \in Contexts
    BY GoodHeight
  <2>. QED
    BY <2>1
<1>. DEFINE n == Len(bs)
            N == NamesIn(bs)
            Q == Nothing \cup N
            b == h + n
            w0 == With(v, Zero, Nothing)
            w == With(v, n, Q)
            oth == {"oth"}
            body == ThunkOf(Expr(0))
            seqs == [i \in DOMAIN bs |-> RightHandSide(bs[i], body)]
<1>n. /\ n \in Nat /\ N \in SUBSET AllNames /\ Q = Nothing \cup N /\ Q \in SUBSET AllNames /\ DOMAIN bs = 1..n
      /\ oth \in SUBSET Kinds /\ b \in Nat /\ b + 1 \in Nat
  <2>1. bs \in Bindings \cup {<<>>}
    OBVIOUS
  <2>2. n \in Nat /\ N \in SUBSET AllNames /\ DOMAIN bs = 1..n
    BY <2>1, BindingsList
  <2>. HIDE DEF n, N
  <2>. QED
    BY SMTT(30), <2>2, <1>0, KindSets DEF Nothing
<1>w. Good(c, w, a, Zero, j) /\ b = w.count + a + Zero
  <2>. HIDE DEF n, N, Q
  <2>. QED
    BY <1>n, ScopeGood
<1>a. Does(BeginScope, S(c, v, a, Zero, h, j, l), S(c, w0, a, Zero, h, j, "any"))
  BY DoBeginScope DEF Zero, Nothing
<1>b. Does(DeclareAll(bs, oth), S(c, w0, a, Zero, h, j, "any"), S(c, w, a, Zero, b, j, "any"))
  <2>1. PICK R : bs \in Seq(R)
    <3>1. bs \in Bindings \cup {<<>>}
      OBVIOUS
    <3>. QED
      BY <3>1, BindingsList
  <2>2. h = v.count + Zero + a /\ n = Zero + n /\ a \in Nat /\ Zero \in Nat
    <3>1. v.count \in Nat /\ a \in Nat
      BY GoodHeight
    <3>2. h = v.count + a + Zero
      BY <1>0
    <3>3. n \in Nat
      BY <1>n
    <3>. HIDE DEF n
    <3>. QED
      BY <3>1, <3>2, <3>3 DEF Zero
  <2>3. n = Zero + Len(bs) /\ b = h + Len(bs) /\ NamesIn(bs) \subseteq AllNames /\ Q = Nothing \cup NamesIn(bs)
    BY <1>n, <2>2
  <2>4. oth \in SUBSET Kinds
    BY <1>n
  <2>5. h \in Nat /\ IsVars(v)
    BY <1>0
  <2>. HIDE DEF n, N, Q, b, oth
  <2>. QED
    BY <2>1, <2>2, <2>3, <2>4, <2>5, DoDeclareAll
<1>. DEFINE full == S(c, w, a, Zero, b, j, "any")
<1>c. Does(Concat(seqs), full, full)
  <2>1. seqs = [i \in 1..n |-> seqs[i]]
    BY <1>n
  <2>y. Yields(body, "any")
    <3>1. Yields(Expr(0), "any")
      BY ExprYields
    <3>. QED
      BY <3>1, ThunkOfYields, Literals
  <2>2. ASSUME NEW i \in 1..n PROVE Does(seqs[i], full, full)
    <3>0. i \in DOMAIN bs /\ bs \in Bindings \cup {<<>>}
      BY <1>n
    <3>1. bs[i].name \in N /\ (bs[i].fun = {} \/ \E ps \in Params : bs[i].fun = {ps})
      BY <3>0, BindingsList
    <3>2. Declares(w, bs[i].name)
      <4>1. bs[i].name \in Q
        BY <3>1
      <4>2. IsVars(v)
        BY <1>0
      <4>3. n \in Nat
        BY <1>n
      <4>. HIDE DEF Q, n, N
      <4>. QED
        BY <4>1, <4>2, <4>3, WithDeclares DEF w
    <3>3. seqs[i] = RightHandSide(bs[i], body)
      BY <3>0
    <3>. DEFINE x == bs[i]
    <3>. HIDE DEF body, seqs, w, b
    <3>4. Does(RightHandSide(bs[i], body), full, full)
      BY <2>y, <3>1, <3>2, <1>w, RightHandSideDoes
    <3>. QED
      BY <3>3, <3>4
  <2>. HIDE DEF seqs, full
  <2>. QED
    BY <2>1, <2>2, <1>n, DoEach
<1>d. Does(EndScope, S(c, w, a, Zero, b + 1, j, "any"), S(c, v, a, Zero, h + 1, j, "any"))
  <2>. DEFINE h2 == b + 1
              h1 == h + 1
  <2>0. n \in Nat
    BY <1>n
  <2>1. h1 = h2 - n /\ n < h2 /\ h2 \in Nat /\ n \in Nat /\ IsVars(v)
    <3>1. h \in Nat /\ IsVars(v)
      BY <1>0
    <3>. HIDE DEF n
    <3>. QED
      BY <2>0, <3>1
  <2>. HIDE DEF h1, h2, Q, n
  <2>2. Does(EndScope, S(c, w, a, Zero, h2, j, "any"), S(c, v, a, Zero, h1, j, "any"))
    BY <2>1, DoEndScope
  <2>. QED
    BY <2>2 DEF h1, h2
<1>e. full = S(c, w, a, Zero, b, j, "any")
  OBVIOUS
<1>. HIDE DEF n, N, Q, b, w0, w, oth, body, seqs, full
<1>. DEFINE p1 == BeginScope
            p2 == p1 \o DeclareAll(bs, oth)
            p3 == p2 \o Concat(seqs)
            p4 == p3 \o Expr(0)
            p5 == p4 \o EndScope
            p6 == p5 \o PushT("Unknown")
<1>. HIDE DEF p1, p2, p3, p4, p5, p6
<1>1. Does(p1, S(c, v, a, Zero, h, j, l), S(c, w0, a, Zero, h, j, "any"))
  BY <1>0, <1>n, <1>w, <1>e, TypeNames, Literals, <1>a DEF p1
<1>2. Does(p2, S(c, v, a, Zero, h, j, l), full)
  BY <1>0, <1>n, <1>w, <1>e, TypeNames, Literals, <1>1, <1>b, Then DEF p2
<1>3. Does(p3, S(c, v, a, Zero, h, j, l), full)
  BY <1>0, <1>n, <1>w, <1>e, TypeNames, Literals, <1>2, <1>c, Then DEF p3
<1>4. Does(p4, S(c, v, a, Zero, h, j, l), S(c, w, a, Zero, b + 1, j, "any"))
  BY <1>0, <1>n, <1>w, <1>e, TypeNames, Literals, <1>3, DoExpr, Then DEF p4
<1>5. Does(p5, S(c, v, a, Zero, h, j, l), S(c, v, a, Zero, h + 1, j, "any"))
  BY <1>0, <1>n, <1>w, <1>e, TypeNames, Literals, <1>4, <1>d, Then DEF p5
<1>6. Does(p6, S(c, v, a, Zero, h, j, l), S(c, v, a, Zero, h + 1, j, "sealed"))
  BY <1>0, <1>n, <1>w, <1>e, TypeNames, Literals, <1>5, DoPushT, Then DEF p6
<1>. QED
  BY <1>6 DEF p1, p2, p3, p4, p5, p6, parse_local_statement, oth, seqs, body


(***************************************************************************)
(* Elements and arguments, each counted as a temporary                      *)
(***************************************************************************)
(* The items leave d values and count them *)
Adds(items, d) ==
  \A c, v, a, k, h, j, l :
    Good(c, v, a, k, j) /\ h = v.count + a + k /\ l \in Known =>
      Does(items, S(c, v, a, k, h, j, l), S(c, v, a + d, k, h + d, j, "any"))

Multiple(n, d) == IF d = 1 THEN n ELSE 2 * n

LEMMA Multiples ==
  ASSUME NEW n \in Nat, NEW d \in {1, 2}
  PROVE  /\ d \in Nat /\ Multiple(0, d) = 0 /\ Multiple(n, d) \in Nat
         /\ \A i \in 1..n : /\ i \in Nat /\ i - 1 \in Nat /\ Multiple(i - 1, d) \in Nat
                            /\ Multiple(i, d) = Multiple(i - 1, d) + d
  BY DEF Multiple

LEMMA TimesDoes ==
  ASSUME NEW items, NEW d \in {1, 2}, Adds(items, d), NEW n \in Nat, NEW c, NEW v, NEW a, NEW k,
         NEW h, NEW j, NEW l \in Known, Good(c, v, a, k, j), h = v.count + a + k,
         NEW b, NEW g, b = a + Multiple(n, d), g = h + Multiple(n, d)
  PROVE  \E m \in Known : Does(Times(n, items), S(c, v, a, k, h, j, l), S(c, v, b, k, g, j, m))
<1>. DEFINE M(i) == Multiple(i, d)
            at(i) == IF i = 0 THEN l ELSE "any"
            st == [i \in 0..n |-> S(c, v, a + M(i), k, h + M(i), j, at(i))]
            seqs == [i \in 1..n |-> items]
<1>0. /\ v.count \in Nat /\ a \in Nat /\ k \in Nat /\ h \in Nat /\ c \in Contexts /\ IsVars(v)
      /\ j \in Seq(Int)
  BY GoodHeight
<1>1. Chain(n, seqs, st)
  <2>. SUFFICES ASSUME NEW i \in 1..n PROVE Does(seqs[i], st[i - 1], st[i])
    BY DEF Chain
  <2>. DEFINE a1 == a + M(i - 1)
              h1 == h + M(i - 1)
  <2>1. M(i - 1) \in Nat /\ M(i) = M(i - 1) + d /\ d \in Nat /\ i \in Nat /\ i - 1 \in Nat
    BY Multiples
  <2>2. a1 \in Nat /\ h1 = v.count + a1 + k /\ a + M(i) = a1 + d /\ h + M(i) = h1 + d
    <3>. DEFINE m1 == M(i - 1)
                m2 == M(i)
    <3>1. v.count \in Nat /\ a \in Nat /\ k \in Nat /\ h = v.count + a + k /\ h \in Nat
      BY <1>0
    <3>2. m1 \in Nat /\ m2 = m1 + d /\ d \in Nat
      BY <2>1
    <3>. HIDE DEF M, m1, m2
    <3>3. a + m1 \in Nat /\ h + m1 = v.count + (a + m1) + k /\ a + m2 = a + m1 + d /\ h + m2 = h + m1 + d
      BY <3>1, <3>2
    <3>. QED
      BY <3>3 DEF m1, m2
  <2>3. at(i - 1) \in Known /\ at(i) = "any"
    BY <2>1 DEF Known
  <2>4. Good(c, v, a1, k, j)
    BY <1>0, <2>2 DEF Good
  <2>5. st[i - 1] = S(c, v, a1, k, h1, j, at(i - 1)) /\ st[i] = S(c, v, a1 + d, k, h1 + d, j, "any")
    BY <2>2, <2>3
  <2>6. seqs[i] = items
    OBVIOUS
  <2>. HIDE DEF st, seqs, a1, h1, at
  <2>. QED
    BY <2>2, <2>3, <2>4, <2>5, <2>6 DEF Adds
<1>2. st[0] = S(c, v, a, k, h, j, l) /\ st[n] = S(c, v, b, k, g, j, at(n)) /\ at(n) \in Known
  <2>1. M(0) = 0
    BY Multiples
  <2>2. at(0) = l /\ a + M(0) = a /\ h + M(0) = h
    <3>. HIDE DEF M
    <3>. QED
      BY <1>0, <2>1
  <2>3. b = a + M(n) /\ g = h + M(n) /\ at(n) \in Known
    BY DEF Known
  <2>. HIDE DEF M, at
  <2>. QED
    BY <2>2, <2>3
<1>3. seqs = [i \in 1..n |-> seqs[i]] /\ Times(n, items) = Concat(seqs)
  BY DEF Times
<1>. HIDE DEF st, seqs
<1>4. Does(Concat(seqs), st[0], st[n])
  BY <1>1, <1>3, DoConcat
<1>. QED
  BY <1>2, <1>3, <1>4

LEMMA OneMore ==
  ASSUME NEW items, Yields(items, "any")
  PROVE  Adds(items \o Anon(1), 1)
<1>. SUFFICES ASSUME NEW c, NEW v, NEW a, NEW k, NEW h, NEW j, NEW l, Good(c, v, a, k, j),
                     h = v.count + a + k, l \in Known
              PROVE  Does(items \o Anon(1), S(c, v, a, k, h, j, l), S(c, v, a + 1, k, h + 1, j, "any"))
  BY DEF Adds
<1>. DEFINE b == a + 1
            g == h + 1
            one == 1
<1>0. a \in Nat /\ h \in Nat
  BY GoodHeight
<1>1. b \in Nat /\ b = a + one /\ one \in Int /\ g = h + 1
  BY <1>0
<1>. HIDE DEF b, g, one
<1>2. Does(items, S(c, v, a, k, h, j, l), S(c, v, a, k, g, j, "any"))
  BY <1>1, DoYields
<1>3. Does(Anon(one), S(c, v, a, k, g, j, "any"), S(c, v, b, k, g, j, "any"))
  BY <1>1, DoAnon
<1>4. Does(items \o Anon(one), S(c, v, a, k, h, j, l), S(c, v, b, k, g, j, "any"))
  BY <1>2, <1>3, Then
<1>. QED
  BY <1>4 DEF b, g, one

LEMMA ArrayYields ==
  ASSUME tail \in BOOLEAN, NEW n \in Nat
  PROVE  Yields(parse_array_literal(n), "sealed")
<1>. SUFFICES ASSUME NEW c, NEW v, NEW a, NEW k, NEW h, NEW j, NEW l,
                     Good(c, v, a, k, j), h = v.count + a + k, l \in Known
              PROVE  Does(parse_array_literal(n), S(c, v, a, k, h, j, l),
                          S(c, v, a, k, h + 1, j, "sealed"))
  BY DEF Yields
<1>0. /\ h \in Nat /\ h + 1 \in Nat /\ h + 2 \in Nat /\ j \in Seq(Int) /\ a \in Nat /\ k \in Nat
      /\ c \in Contexts /\ IsVars(v) /\ h = v.count + a + k /\ l \in Known
  BY GoodHeight
<1>. DEFINE b == a + n
            g == h + n
            down == -n
            item == Thunk \o Anon(1)
<1>a. /\ b = a + n /\ g = h + n /\ b \in Nat /\ g \in Nat /\ down \in Int /\ a = b + down /\ n <= g
      /\ h + 1 = g - n + 1
  <2>1. h \in Nat /\ a \in Nat
    BY <1>0
  <2>. QED
    BY <2>1
<1>b. PICK m \in Known : Does(Times(n, item), S(c, v, a, k, h, j, l), S(c, v, b, k, g, j, m))
  <2>1. Adds(item, 1)
    BY ThunkYields, OneMore
  <2>2. b = a + Multiple(n, 1) /\ g = h + Multiple(n, 1)
    BY DEF Multiple
  <2>3. l \in Known
    BY <1>0
  <2>. DEFINE one == 1
  <2>4. one \in {1, 2} /\ Adds(item, one) /\ b = a + Multiple(n, one) /\ g = h + Multiple(n, one)
    BY <2>1, <2>2
  <2>. HIDE DEF item, b, g, one
  <2>. QED
    BY <2>3, <2>4, TimesDoes
<1>. HIDE DEF b, g, down, item
<1>. DEFINE p1 == Times(n, item)
            p2 == p1 \o Anon(down)
            p3 == p2 \o PopT(n)
            p4 == p3 \o Op(n, {"oth"})
            p5 == p4 \o Close
            p6 == p5 \o PushT("Unknown")
<1>. HIDE DEF p1, p2, p3, p4, p5, p6
<1>1. Does(p1, S(c, v, a, k, h, j, l), S(c, v, b, k, g, j, m))
  BY <1>0, <1>a, TypeNames, <1>b DEF p1
<1>2. Does(p2, S(c, v, a, k, h, j, l), S(c, v, a, k, g, j, m))
  BY <1>0, <1>a, TypeNames, <1>1, DoAnon, Then DEF p2
<1>3. Does(p3, S(c, v, a, k, h, j, l), S(c, v, a, k, g, j, "any"))
  BY <1>0, <1>a, TypeNames, <1>2, DoPopT, Then DEF p3
<1>4. Does(p4, S(c, v, a, k, h, j, l), S(c, v, a, k, h + 1, j, "any"))
  BY <1>0, <1>a, TypeNames, <1>3, DoOp, KindSets, Then DEF p4
<1>5. Does(p5, S(c, v, a, k, h, j, l), S(c, v, a, k, h + 1, j, "any"))
  BY <1>0, <1>a, TypeNames, <1>4, DoClose, Then DEF p5
<1>6. Does(p6, S(c, v, a, k, h, j, l), S(c, v, a, k, h + 1, j, "sealed"))
  BY <1>0, <1>a, TypeNames, <1>5, DoPushT, Then DEF p6
<1>. QED
  BY <1>6 DEF p1, p2, p3, p4, p5, p6, parse_array_literal, item, down


(***************************************************************************)
(* The operators: a value on the stack becomes another                      *)
(***************************************************************************)
Operates(items) ==
  \A c, v, a, k, h, j :
    Good(c, v, a, k, j) /\ h = v.count + a + k + 1 =>
      Does(items, S(c, v, a, k, h, j, "sealed"), S(c, v, a, k, h, j, "sealed"))

BesideAt(c, v, a, k, h, j, b, g) ==
  /\ b = a + 1 /\ a = b + (-1) /\ b \in Nat /\ h = v.count + b + k
  /\ h = g + 1 /\ g \in Nat /\ g = v.count + a + k
  /\ Good(c, v, b, k, j) /\ h \in Nat /\ h + 1 \in Nat /\ h > 0
  /\ h = h + 1 - 2 + 1 /\ 2 <= h + 1

LEMMA Beside ==
  ASSUME NEW c, NEW v, NEW a, NEW k, NEW j, Good(c, v, a, k, j), NEW h, h = v.count + a + k + 1
  PROVE  \E b, g : BesideAt(c, v, a, k, h, j, b, g)
<1>. DEFINE b == a + 1
            g == v.count + a + k
<1>1. v.count \in Nat /\ a \in Nat /\ k \in Nat /\ j \in Seq(Int) /\ c \in Contexts /\ IsVars(v)
  BY GoodHeight
<1>2. /\ b = a + 1 /\ a = b + (-1) /\ b \in Nat /\ h = v.count + b + k
      /\ h = g + 1 /\ g \in Nat /\ g = v.count + a + k /\ h \in Nat /\ h + 1 \in Nat /\ h > 0
      /\ h = h + 1 - 2 + 1 /\ 2 <= h + 1
  BY SMTT(30), <1>1
<1>3. Good(c, v, b, k, j)
  BY <1>1, <1>2 DEF Good
<1>. HIDE DEF b, g
<1>4. BesideAt(c, v, a, k, h, j, b, g)
  BY <1>2, <1>3 DEF BesideAt
<1>. QED
  BY <1>4

(* The right operand, the left one counted *)
LEMMA RightOperand ==
  ASSUME tail \in BOOLEAN, NEW bp \in Nat, NEW c, NEW v, NEW a, NEW k, NEW h, NEW j, NEW l,
         Good(c, v, a, k, j), h = v.count + a + k + 1
  PROVE  Does(Anon(1) \o NoTail(bp) \o Anon(-1), S(c, v, a, k, h, j, l),
              S(c, v, a, k, h + 1, j, "any"))
<1>r. PICK b, g : BesideAt(c, v, a, k, h, j, b, g)
  BY Beside
<1>a. /\ b = a + 1 /\ a = b + (-1) /\ b \in Nat /\ h = v.count + b + k
      /\ h = g + 1 /\ g \in Nat /\ g = v.count + a + k
      /\ Good(c, v, b, k, j) /\ h \in Nat /\ h + 1 \in Nat /\ h > 0
      /\ h = h + 1 - 2 + 1 /\ 2 <= h + 1
  BY <1>r DEF BesideAt
<1>0. /\ j \in Seq(Int) /\ a \in Nat /\ k \in Nat /\ c \in Contexts /\ IsVars(v)
      /\ Good(c, v, a, k, j) /\ Good(c, v, a, k, Append(j, h))
  <2>1. j \in Seq(Int) /\ a \in Nat /\ k \in Nat /\ c \in Contexts /\ IsVars(v)
    BY GoodHeight
  <2>2. h \in Int
    BY <1>a
  <2>3. Good(c, v, a, k, Append(j, h))
    BY <2>2, GoodJumps
  <2>. QED
    BY <2>1, <2>3
<1>. DEFINE down == -1
<1>m. down \in Int /\ a = b + down
  BY <1>a
<1>. HIDE DEF down
<1>. DEFINE p1 == Anon(1)
            p2 == p1 \o NoTail(bp)
            p3 == p2 \o Anon(down)
<1>. HIDE DEF p1, p2, p3
<1>1. Does(p1, S(c, v, a, k, h, j, l), S(c, v, b, k, h, j, l))
  BY <1>0, <1>a, <1>m, DoAnon DEF p1
<1>2. Does(p2, S(c, v, a, k, h, j, l), S(c, v, b, k, h + 1, j, "any"))
  BY <1>0, <1>a, <1>m, <1>1, DoNoTail, Then DEF p2
<1>3. Does(p3, S(c, v, a, k, h, j, l), S(c, v, a, k, h + 1, j, "any"))
  BY <1>0, <1>a, <1>m, <1>2, DoAnon, Then DEF p3
<1>. QED
  BY <1>3 DEF p1, p2, p3, down

LEMMA IndexOperates ==
  ASSUME tail \in BOOLEAN
  PROVE  Operates(parse_index)
<1>. SUFFICES ASSUME NEW c, NEW v, NEW a, NEW k, NEW h, NEW j, Good(c, v, a, k, j),
                     h = v.count + a + k + 1
              PROVE  Does(parse_index, S(c, v, a, k, h, j, "sealed"),
                          S(c, v, a, k, h, j, "sealed"))
  BY DEF Operates
<1>r. PICK b, g : BesideAt(c, v, a, k, h, j, b, g)
  BY Beside
<1>a. /\ b = a + 1 /\ a = b + (-1) /\ b \in Nat /\ h = v.count + b + k
      /\ h = g + 1 /\ g \in Nat /\ g = v.count + a + k
      /\ Good(c, v, b, k, j) /\ h \in Nat /\ h + 1 \in Nat /\ h > 0
      /\ h = h + 1 - 2 + 1 /\ 2 <= h + 1
  BY <1>r DEF BesideAt
<1>0. /\ j \in Seq(Int) /\ a \in Nat /\ k \in Nat /\ c \in Contexts /\ IsVars(v)
      /\ Good(c, v, a, k, j) /\ Good(c, v, a, k, Append(j, h))
  <2>1. j \in Seq(Int) /\ a \in Nat /\ k \in Nat /\ c \in Contexts /\ IsVars(v)
    BY GoodHeight
  <2>2. h \in Int
    BY <1>a
  <2>3. Good(c, v, a, k, Append(j, h))
    BY <2>2, GoodJumps
  <2>. QED
    BY <2>1, <2>3
<1>. DEFINE down == -1
<1>m. down \in Int /\ a = b + down
  BY <1>a
<1>. HIDE DEF down
<1>. DEFINE p1 == Anon(1) \o NoTail(0) \o Anon(-1)
            p2 == p1 \o Close
            p3 == p2 \o Op(2, AnyKind)
            p4 == p3 \o PopT(2)
            p5 == p4 \o PushT("Unknown")
<1>. HIDE DEF p1, p2, p3, p4, p5
<1>1. Does(p1, S(c, v, a, k, h, j, "sealed"), S(c, v, a, k, h + 1, j, "any"))
  BY <1>0, <1>a, KindSets, TypeNames, RightOperand DEF p1
<1>2. Does(p2, S(c, v, a, k, h, j, "sealed"), S(c, v, a, k, h + 1, j, "any"))
  BY <1>0, <1>a, KindSets, TypeNames, <1>1, DoClose, Then DEF p2
<1>3. Does(p3, S(c, v, a, k, h, j, "sealed"), S(c, v, a, k, h, j, "any"))
  BY <1>0, <1>a, KindSets, TypeNames, <1>2, DoTwoForOne, Then DEF p3
<1>4. Does(p4, S(c, v, a, k, h, j, "sealed"), S(c, v, a, k, h, j, "any"))
  BY <1>0, <1>a, KindSets, TypeNames, <1>3, DoPopT, Then DEF p4
<1>5. Does(p5, S(c, v, a, k, h, j, "sealed"), S(c, v, a, k, h, j, "sealed"))
  BY <1>0, <1>a, KindSets, TypeNames, <1>4, DoPushT, Then DEF p5
<1>. QED
  BY <1>5 DEF p1, p2, p3, p4, p5, parse_index

LEMMA SliceIndexDoes ==
  ASSUME tail \in BOOLEAN, NEW written, NEW n \in {2, 3, 4}, NEW c, NEW v, NEW a, NEW k, NEW j,
         NEW h, Good(c, v, a, k, j), h = v.count + (a + n) + k, NEW l, NEW g, g = h + 1
  PROVE  Does(SliceIndex(written, n), S(c, v, a, k, h, j, l), S(c, v, a, k, g, j, "any"))
<1>. DEFINE b == a + n
            down == -n
<1>0. v.count \in Nat /\ a \in Nat /\ k \in Nat /\ n \in Nat
  BY GoodHeight
<1>1. /\ b \in Nat /\ h \in Nat /\ h = v.count + b + k /\ down \in Int /\ n \in Int
      /\ b = a + n /\ a = b + down /\ g \in Nat
  BY <1>0
<1>. HIDE DEF b, down
<1>2. CASE written
  <2>1. Does(Anon(n), S(c, v, a, k, h, j, l), S(c, v, b, k, h, j, l))
    BY <1>1, DoAnon
  <2>2. Does(NoTail(0), S(c, v, b, k, h, j, l), S(c, v, b, k, g, j, "any"))
    BY <1>1, DoNoTail
  <2>3. Does(Anon(down), S(c, v, b, k, g, j, "any"), S(c, v, a, k, g, j, "any"))
    BY <1>0, <1>1, DoAnon
  <2>4. Does(Anon(n) \o NoTail(0), S(c, v, a, k, h, j, l), S(c, v, b, k, g, j, "any"))
    BY <2>1, <2>2, Then
  <2>5. Does(Anon(n) \o NoTail(0) \o Anon(down), S(c, v, a, k, h, j, l), S(c, v, a, k, g, j, "any"))
    BY <2>3, <2>4, Then
  <2>. QED
    BY <1>2, <2>5 DEF SliceIndex, down
<1>3. CASE ~written
  <2>0. {"oth"} \in SUBSET Kinds
    BY KindSets
  <2>1. Does(Value({"oth"}), S(c, v, a, k, h, j, l), S(c, v, a, k, g, j, "any"))
    BY <1>1, <2>0, DoValue
  <2>2. Step(<<"tpush", "Unknown">>, S(c, v, a, k, g, j, "any"), S(c, v, a, k, g, j, "any"))
    BY <1>1, TypeNames DEF Step, TypeStep, TakeStep, LastAfter, Moved, S, Fun
  <2>3. Does(PushT("Unknown"), S(c, v, a, k, g, j, "any"), S(c, v, a, k, g, j, "any"))
    BY <2>2, DoesOne DEF PushT
  <2>. QED
    BY <1>3, <2>1, <2>3, Then DEF SliceIndex
<1>. QED
  BY <1>2, <1>3

LEMMA SliceSugarDoes ==
  ASSUME tail \in BOOLEAN, NEW start, NEW end, NEW step, NEW c, NEW v, NEW a, NEW k, NEW h, NEW j,
         NEW l, Good(c, v, a, k, j), h = v.count + a + k + 1
  PROVE  Does(compile_slice_sugar(start, end, step), S(c, v, a, k, h, j, l),
              S(c, v, a, k, h, j, "sealed"))
<1>r. PICK b, g : BesideAt(c, v, a, k, h, j, b, g)
  BY Beside
<1>a. /\ b = a + 1 /\ a = b + (-1) /\ b \in Nat /\ h = v.count + b + k
      /\ h = g + 1 /\ g \in Nat /\ g = v.count + a + k
      /\ Good(c, v, b, k, j) /\ h \in Nat /\ h + 1 \in Nat /\ h > 0
      /\ h = h + 1 - 2 + 1 /\ 2 <= h + 1
  BY <1>r DEF BesideAt
<1>0. /\ j \in Seq(Int) /\ a \in Nat /\ k \in Nat /\ c \in Contexts /\ IsVars(v)
      /\ Good(c, v, a, k, j) /\ Good(c, v, a, k, Append(j, h))
  <2>1. j \in Seq(Int) /\ a \in Nat /\ k \in Nat /\ c \in Contexts /\ IsVars(v)
    BY GoodHeight
  <2>2. h \in Int
    BY <1>a
  <2>3. Good(c, v, a, k, Append(j, h))
    BY <2>2, GoodJumps
  <2>. QED
    BY <2>1, <2>3
<1>. DEFINE down == -1
<1>m. down \in Int /\ a = b + down
  BY <1>a
<1>. HIDE DEF down
<1>. DEFINE h1 == h + 1
            h2 == h + 2
            h3 == h + 3
            h4 == h + 4
<1>b. /\ h1 = h + 1 /\ h2 = h1 + 1 /\ h3 = h2 + 1 /\ h4 = h3 + 1
      /\ h1 = v.count + (a + 2) + k /\ h2 = v.count + (a + 3) + k /\ h3 = v.count + (a + 4) + k
      /\ h1 \in Nat /\ h2 \in Nat /\ h3 \in Nat /\ h4 \in Nat /\ 5 <= h4 /\ h = h4 - 5 + 1
  <2>1. v.count \in Nat /\ a \in Nat /\ k \in Nat
    BY GoodHeight
  <2>. QED
    BY <2>1
<1>. HIDE DEF h1, h2, h3, h4
<1>. DEFINE p1 == Value({"nat"})
            p2 == p1 \o PushT("Unknown")
            p3 == p2 \o SliceIndex(start, 2)
            p4 == p3 \o SliceIndex(end, 3)
            p5 == p4 \o SliceIndex(step, 4)
            p6 == p5 \o Close
            p7 == p6 \o Op(5, AnyKind)
            p8 == p7 \o PopT(5)
            p9 == p8 \o PushT("Unknown")
<1>. HIDE DEF p1, p2, p3, p4, p5, p6, p7, p8, p9
<1>1. Does(p1, S(c, v, a, k, h, j, l), S(c, v, a, k, h1, j, "any"))
  BY <1>0, <1>a, KindSets, TypeNames, <1>b, DoValue DEF p1
<1>2. Does(p2, S(c, v, a, k, h, j, l), S(c, v, a, k, h1, j, "sealed"))
  BY <1>0, <1>a, KindSets, TypeNames, <1>b, <1>1, DoPushT, Then DEF p2
<1>3. Does(p3, S(c, v, a, k, h, j, l), S(c, v, a, k, h2, j, "any"))
  BY <1>0, <1>a, KindSets, TypeNames, <1>b, <1>2, SliceIndexDoes, Then DEF p3
<1>4. Does(p4, S(c, v, a, k, h, j, l), S(c, v, a, k, h3, j, "any"))
  BY <1>0, <1>a, KindSets, TypeNames, <1>b, <1>3, SliceIndexDoes, Then DEF p4
<1>5. Does(p5, S(c, v, a, k, h, j, l), S(c, v, a, k, h4, j, "any"))
  BY <1>0, <1>a, KindSets, TypeNames, <1>b, <1>4, SliceIndexDoes, Then DEF p5
<1>6. Does(p6, S(c, v, a, k, h, j, l), S(c, v, a, k, h4, j, "any"))
  BY <1>0, <1>a, KindSets, TypeNames, <1>b, <1>5, DoClose, Then DEF p6
<1>7. Does(p7, S(c, v, a, k, h, j, l), S(c, v, a, k, h, j, "any"))
  BY <1>0, <1>a, KindSets, TypeNames, <1>b, <1>6, DoOp, Then DEF p7
<1>8. Does(p8, S(c, v, a, k, h, j, l), S(c, v, a, k, h, j, "any"))
  BY <1>0, <1>a, KindSets, TypeNames, <1>b, <1>7, DoPopT, Then DEF p8
<1>9. Does(p9, S(c, v, a, k, h, j, l), S(c, v, a, k, h, j, "sealed"))
  BY <1>0, <1>a, KindSets, TypeNames, <1>b, <1>8, DoPushT, Then DEF p9
<1>. QED
  BY <1>9 DEF p1, p2, p3, p4, p5, p6, p7, p8, p9, compile_slice_sugar

LEMMA SliceOperates ==
  ASSUME tail \in BOOLEAN, NEW start \in BOOLEAN, NEW end, NEW step
  PROVE  Operates(parse_slice(start, end, step))
<1>. SUFFICES ASSUME NEW c, NEW v, NEW a, NEW k, NEW h, NEW j, Good(c, v, a, k, j),
                     h = v.count + a + k + 1
              PROVE  Does(parse_slice(start, end, step), S(c, v, a, k, h, j, "sealed"),
                          S(c, v, a, k, h, j, "sealed"))
  BY DEF Operates
<1>r. PICK b, g : BesideAt(c, v, a, k, h, j, b, g)
  BY Beside
<1>a. /\ b = a + 1 /\ a = b + (-1) /\ b \in Nat /\ h = v.count + b + k
      /\ h = g + 1 /\ g \in Nat /\ g = v.count + a + k
      /\ Good(c, v, b, k, j) /\ h \in Nat /\ h + 1 \in Nat /\ h > 0
      /\ h = h + 1 - 2 + 1 /\ 2 <= h + 1
  BY <1>r DEF BesideAt
<1>0. /\ j \in Seq(Int) /\ a \in Nat /\ k \in Nat /\ c \in Contexts /\ IsVars(v)
      /\ Good(c, v, a, k, j) /\ Good(c, v, a, k, Append(j, h))
  <2>1. j \in Seq(Int) /\ a \in Nat /\ k \in Nat /\ c \in Contexts /\ IsVars(v)
    BY GoodHeight
  <2>2. h \in Int
    BY <1>a
  <2>3. Good(c, v, a, k, Append(j, h))
    BY <2>2, GoodJumps
  <2>. QED
    BY <2>1, <2>3
<1>. DEFINE down == -1
<1>m. down \in Int /\ a = b + down
  BY <1>a
<1>. HIDE DEF down
<1>. DEFINE J == Append(Append(j, -1), h)
<1>b. Good(c, v, a, k, J) /\ J = Append(Append(j, -1), h)
  <2>1. -1 \in Int
    OBVIOUS
  <2>. QED
    BY <1>0, <1>a, <2>1, GoodJumps
<1>d. CASE ~start
  <2>1. Does(<<>>, S(c, v, a, k, h, j, "sealed"), S(c, v, a, k, h, j, "sealed"))
    BY DoesNothing
  <2>2. Does(compile_slice_sugar(start, end, step), S(c, v, a, k, h, j, "sealed"), S(c, v, a, k, h, j, "sealed"))
    BY <1>0, SliceSugarDoes
  <2>. QED
    BY <1>d, <2>1, <2>2, Then DEF parse_slice
<1>e. CASE start
  <2>. DEFINE mid == Anon(1) \o NoTail(0) \o Anon(-1)
              half == Save \o mid
  <2>1. Does(Save, S(c, v, a, k, h, j, "sealed"), S(c, v, a, k, h, J, "any"))
    BY DoSave
  <2>. HIDE DEF J
  <2>2. Does(mid, S(c, v, a, k, h, J, "any"), S(c, v, a, k, h + 1, J, "any"))
    BY <1>b, RightOperand
  <2>3. Does(Rollback, S(c, v, a, k, h + 1, J, "any"), S(c, v, a, k, h, j, "any"))
    BY <1>0, <1>a, <1>b, DoRollback
  <2>4. Does(Save \o mid, S(c, v, a, k, h, j, "sealed"), S(c, v, a, k, h + 1, J, "any"))
    BY <2>1, <2>2, Then
  <2>5. Does(half \o Rollback, S(c, v, a, k, h, j, "sealed"), S(c, v, a, k, h, j, "any"))
    BY <2>3, <2>4, Then
  <2>6. half = Save \o Anon(1) \o NoTail(0) \o Anon(-1)
    BY SMTT(30), <2>1
  <2>7. Does(compile_slice_sugar(start, end, step), S(c, v, a, k, h, j, "any"), S(c, v, a, k, h, j, "sealed"))
    BY <1>0, SliceSugarDoes
  <2>. QED
    BY <1>e, <2>5, <2>6, <2>7, Then DEF parse_slice
<1>. QED
  BY <1>d, <1>e


(* Infix operators *)
LEMMA RightPowers ==
  ASSUME NEW o \in DOMAIN LeftPower
  PROVE  RightPower(o) \in Nat
  BY DEF LeftPower, RightPower

LEMMA StrictTail ==
  ASSUME NEW o, NEW c, NEW v, NEW a, NEW k, NEW h \in Nat, NEW j, h > 0, NEW g, g = h + 1
  PROVE  Does((CASE o = "plus" -> AddTop
                 [] o \in Arithmetic -> Op(2, ArithmeticKind(o)) \o PopT(2) \o PushT("Number")
                 [] OTHER -> Op(2, {"oth"}) \o PopT(2) \o PushT("Unknown")),
              S(c, v, a, k, g, j, "any"), S(c, v, a, k, h, j, "sealed"))
<1>0. g \in Nat /\ Two \in Nat
  BY Literals
<1>1. ASSUME NEW kinds \in SUBSET Kinds, NEW type \in Types \ {"Std", "Native"}
      PROVE  Does(Op(2, kinds) \o PopT(2) \o PushT(type), S(c, v, a, k, g, j, "any"), S(c, v, a, k, h, j, "sealed"))
  <2>1. Does(Op(2, kinds), S(c, v, a, k, g, j, "any"), S(c, v, a, k, h, j, "any"))
    BY <1>0, DoTwoForOne
  <2>2. Does(PopT(2), S(c, v, a, k, h, j, "any"), S(c, v, a, k, h, j, "any"))
    BY DoPopT
  <2>3. Does(PushT(type), S(c, v, a, k, h, j, "any"), S(c, v, a, k, h, j, "sealed"))
    BY DoPushT
  <2>4. Does(Op(2, kinds) \o PopT(2), S(c, v, a, k, g, j, "any"), S(c, v, a, k, h, j, "any"))
    BY <2>1, <2>2, Then
  <2>. QED
    BY <2>3, <2>4, Then
<1>2. CASE o = "plus"
  <2>1. Does(AddTop, S(c, v, a, k, g, j, "any"), S(c, v, a, k, h, j, "sealed"))
    BY <1>0, DoAddTop
  <2>. QED
    BY <1>2, <2>1 DEF Arithmetic
<1>3. CASE o # "plus" /\ o \in Arithmetic
  <2>1. ArithmeticKind(o) \in SUBSET Kinds
    BY DEF ArithmeticKind, Kinds
  <2>. QED
    BY <1>1, <1>3, <2>1, TypeNames
<1>4. CASE o # "plus" /\ o \notin Arithmetic
  BY <1>1, <1>4, TypeNames, KindSets
<1>. QED
  BY <1>2, <1>3, <1>4

LEMMA StrictOperates ==
  ASSUME tail \in BOOLEAN, NEW o \in DOMAIN LeftPower
  PROVE  Operates(Strict(o))
<1>. SUFFICES ASSUME NEW c, NEW v, NEW a, NEW k, NEW h, NEW j, Good(c, v, a, k, j),
                     h = v.count + a + k + 1
              PROVE  Does(Strict(o), S(c, v, a, k, h, j, "sealed"),
                          S(c, v, a, k, h, j, "sealed"))
  BY DEF Operates
<1>r. PICK b, g : BesideAt(c, v, a, k, h, j, b, g)
  BY Beside
<1>a. /\ b = a + 1 /\ a = b + (-1) /\ b \in Nat /\ h = v.count + b + k
      /\ h = g + 1 /\ g \in Nat /\ g = v.count + a + k
      /\ Good(c, v, b, k, j) /\ h \in Nat /\ h + 1 \in Nat /\ h > 0
      /\ h = h + 1 - 2 + 1 /\ 2 <= h + 1
  BY <1>r DEF BesideAt
<1>0. /\ j \in Seq(Int) /\ a \in Nat /\ k \in Nat /\ c \in Contexts /\ IsVars(v)
      /\ Good(c, v, a, k, j) /\ Good(c, v, a, k, Append(j, h))
  <2>1. j \in Seq(Int) /\ a \in Nat /\ k \in Nat /\ c \in Contexts /\ IsVars(v)
    BY GoodHeight
  <2>2. h \in Int
    BY <1>a
  <2>3. Good(c, v, a, k, Append(j, h))
    BY <2>2, GoodJumps
  <2>. QED
    BY <2>1, <2>3
<1>. DEFINE down == -1
<1>m. down \in Int /\ a = b + down
  BY <1>a
<1>. HIDE DEF down
<1>. DEFINE last == CASE o = "plus" -> AddTop
                       [] o \in Arithmetic -> Op(2, ArithmeticKind(o)) \o PopT(2) \o PushT("Number")
                       [] OTHER -> Op(2, {"oth"}) \o PopT(2) \o PushT("Unknown")
<1>l. Does(last, S(c, v, a, k, h + 1, j, "any"), S(c, v, a, k, h, j, "sealed"))
  BY <1>a, StrictTail
<1>. HIDE DEF last
<1>. DEFINE p1 == Anon(1) \o NoTail(RightPower(o)) \o Anon(-1)
            p2 == p1 \o last
<1>. HIDE DEF p1, p2
<1>1. Does(p1, S(c, v, a, k, h, j, "sealed"), S(c, v, a, k, h + 1, j, "any"))
  BY <1>0, <1>a, KindSets, TypeNames, RightOperand, RightPowers DEF p1
<1>2. Does(p2, S(c, v, a, k, h, j, "sealed"), S(c, v, a, k, h, j, "sealed"))
  BY <1>0, <1>a, KindSets, TypeNames, <1>1, <1>l, Then DEF p2
<1>. QED
  BY <1>2 DEF p1, p2, last, Strict

LEMMA ShortCircuitOperates ==
  ASSUME tail \in BOOLEAN, Last(Cur.stack) \in SUBSET Kinds, NEW o \in DOMAIN LeftPower
  PROVE  Operates(ShortCircuit(o))
<1>. SUFFICES ASSUME NEW c, NEW v, NEW a, NEW k, NEW h, NEW j, Good(c, v, a, k, j),
                     h = v.count + a + k + 1
              PROVE  Does(ShortCircuit(o), S(c, v, a, k, h, j, "sealed"),
                          S(c, v, a, k, h, j, "sealed"))
  BY DEF Operates
<1>r. PICK b, g : BesideAt(c, v, a, k, h, j, b, g)
  BY Beside
<1>a. /\ b = a + 1 /\ a = b + (-1) /\ b \in Nat /\ h = v.count + b + k
      /\ h = g + 1 /\ g \in Nat /\ g = v.count + a + k
      /\ Good(c, v, b, k, j) /\ h \in Nat /\ h + 1 \in Nat /\ h > 0
      /\ h = h + 1 - 2 + 1 /\ 2 <= h + 1
  BY <1>r DEF BesideAt
<1>0. /\ j \in Seq(Int) /\ a \in Nat /\ k \in Nat /\ c \in Contexts /\ IsVars(v)
      /\ Good(c, v, a, k, j) /\ Good(c, v, a, k, Append(j, h))
  <2>1. j \in Seq(Int) /\ a \in Nat /\ k \in Nat /\ c \in Contexts /\ IsVars(v)
    BY GoodHeight
  <2>2. h \in Int
    BY <1>a
  <2>3. Good(c, v, a, k, Append(j, h))
    BY <2>2, GoodJumps
  <2>. QED
    BY <2>1, <2>3
<1>. DEFINE down == -1
<1>m. down \in Int /\ a = b + down
  BY <1>a
<1>. HIDE DEF down
<1>o. One \in Nat /\ h = g + One
  BY <1>a DEF One
<1>. DEFINE p1 == Value(Last(Cur.stack))
            p2 == p1 \o JumpIf
            p3 == p2 \o Discard(One)
            p4 == p3 \o NoTail(RightPower(o))
            p5 == p4 \o PopT(1)
            p6 == p5 \o OtherBranch
            p7 == p6 \o Discard(One)
            p8 == p7 \o Value({"oth"})
            p9 == p8 \o Join
            p10 == p9 \o PopT(1)
            p11 == p10 \o PushT("Unknown")
<1>. HIDE DEF p1, p2, p3, p4, p5, p6, p7, p8, p9, p10, p11
<1>1. Does(p1, S(c, v, a, k, h, j, "sealed"), S(c, v, a, k, h + 1, j, "any"))
  BY <1>0, <1>a, KindSets, TypeNames, <1>o, DoValue DEF p1
<1>2. Does(p2, S(c, v, a, k, h, j, "sealed"), S(c, v, a, k, h, Append(j, h), "any"))
  BY <1>0, <1>a, KindSets, TypeNames, <1>o, <1>1, DoJumpIf, Then DEF p2
<1>3. Does(p3, S(c, v, a, k, h, j, "sealed"), S(c, v, a, k, g, Append(j, h), "any"))
  BY <1>0, <1>a, KindSets, TypeNames, <1>o, <1>2, DoDiscard, Then DEF p3
<1>4. Does(p4, S(c, v, a, k, h, j, "sealed"), S(c, v, a, k, h, Append(j, h), "any"))
  BY <1>0, <1>a, KindSets, TypeNames, <1>o, <1>3, DoNoTail, RightPowers, Then DEF p4
<1>5. Does(p5, S(c, v, a, k, h, j, "sealed"), S(c, v, a, k, h, Append(j, h), "any"))
  BY <1>0, <1>a, KindSets, TypeNames, <1>o, <1>4, DoPopT, Then DEF p5
<1>6. Does(p6, S(c, v, a, k, h, j, "sealed"), S(c, v, a, k, h, Append(j, h), "any"))
  BY <1>0, <1>a, KindSets, TypeNames, <1>o, <1>5, DoOtherBranch, Then DEF p6
<1>7. Does(p7, S(c, v, a, k, h, j, "sealed"), S(c, v, a, k, g, Append(j, h), "any"))
  BY <1>0, <1>a, KindSets, TypeNames, <1>o, <1>6, DoDiscard, Then DEF p7
<1>8. Does(p8, S(c, v, a, k, h, j, "sealed"), S(c, v, a, k, h, Append(j, h), "any"))
  BY <1>0, <1>a, KindSets, TypeNames, <1>o, <1>7, DoValue, Then DEF p8
<1>9. Does(p9, S(c, v, a, k, h, j, "sealed"), S(c, v, a, k, h, j, "any"))
  BY <1>0, <1>a, KindSets, TypeNames, <1>o, <1>8, DoJoin, Then DEF p9
<1>10. Does(p10, S(c, v, a, k, h, j, "sealed"), S(c, v, a, k, h, j, "any"))
  BY <1>0, <1>a, KindSets, TypeNames, <1>o, <1>9, DoPopT, Then DEF p10
<1>11. Does(p11, S(c, v, a, k, h, j, "sealed"), S(c, v, a, k, h, j, "sealed"))
  BY <1>0, <1>a, KindSets, TypeNames, <1>o, <1>10, DoPushT, Then DEF p11
<1>. QED
  BY <1>11 DEF p1, p2, p3, p4, p5, p6, p7, p8, p9, p10, p11, ShortCircuit, One

LEMMA InfixOperates ==
  ASSUME tail \in BOOLEAN, Last(Cur.stack) \in SUBSET Kinds, NEW o \in DOMAIN LeftPower
  PROVE  Operates(parse_infix(o))
  BY StrictOperates, ShortCircuitOperates DEF parse_infix

(* A member of std is native, or a value of a type known when it is read *)
LEMMA DotOperates ==
  ASSUME NEW std \in {"native", "pi", "file"}
  PROVE  Operates(parse_dot(std))
<1>. SUFFICES ASSUME NEW c, NEW v, NEW a, NEW k, NEW h, NEW j, Good(c, v, a, k, j),
                     h = v.count + a + k + 1
              PROVE  Does(parse_dot(std), S(c, v, a, k, h, j, "sealed"),
                          S(c, v, a, k, h, j, "sealed"))
  BY DEF Operates
<1>r. PICK b, g : BesideAt(c, v, a, k, h, j, b, g)
  BY Beside
<1>a. /\ b = a + 1 /\ a = b + (-1) /\ b \in Nat /\ h = v.count + b + k
      /\ h = g + 1 /\ g \in Nat /\ g = v.count + a + k
      /\ Good(c, v, b, k, j) /\ h \in Nat /\ h + 1 \in Nat /\ h > 0
      /\ h = h + 1 - 2 + 1 /\ 2 <= h + 1
  BY <1>r DEF BesideAt
<1>0. /\ j \in Seq(Int) /\ a \in Nat /\ k \in Nat /\ c \in Contexts /\ IsVars(v)
      /\ Good(c, v, a, k, j) /\ Good(c, v, a, k, Append(j, h))
  <2>1. j \in Seq(Int) /\ a \in Nat /\ k \in Nat /\ c \in Contexts /\ IsVars(v)
    BY GoodHeight
  <2>2. h \in Int
    BY <1>a
  <2>3. Good(c, v, a, k, Append(j, h))
    BY <2>2, GoodJumps
  <2>. QED
    BY <2>1, <2>3
<1>. DEFINE down == -1
<1>m. down \in Int /\ a = b + down
  BY <1>a
<1>. HIDE DEF down
<1>. DEFINE pick == CASE std = "native" -> Typed({"nat"}, "Native")
                      [] std = "pi"     -> Typed({"num"}, "Number")
                      [] std = "file"   -> Typed({"str"}, "String")
<1>b. Does(pick, S(c, v, a, k, g, j, "any"), S(c, v, a, k, h, j, "sealed"))
  <2>1. Does(Typed({"nat"}, "Native"), S(c, v, a, k, g, j, "any"), S(c, v, a, k, h, j, "sealed"))
    BY <1>a, KnownTyped
  <2>2. ASSUME NEW kinds \in SUBSET Kinds, NEW type \in Types \ {"Std", "Native"}
        PROVE  Does(Typed(kinds, type), S(c, v, a, k, g, j, "any"), S(c, v, a, k, h, j, "sealed"))
    BY <1>0, <1>a, Literals, TypedYields, DoYields
  <2>3. /\ Does(Typed({"num"}, "Number"), S(c, v, a, k, g, j, "any"), S(c, v, a, k, h, j, "sealed"))
        /\ Does(Typed({"str"}, "String"), S(c, v, a, k, g, j, "any"), S(c, v, a, k, h, j, "sealed"))
    BY <2>2, KindSets, TypeNames
  <2>4. CASE std = "native"
    BY <2>1, <2>4
  <2>5. CASE std = "pi"
    BY <2>3, <2>5
  <2>6. CASE std = "file"
    BY <2>3, <2>6
  <2>. QED
    BY <2>4, <2>5, <2>6
<1>o. One \in Nat /\ h = g + One
  BY <1>a DEF One
<1>. HIDE DEF pick
<1>c. Does(PopT(1) \o Discard(One) \o pick, S(c, v, a, k, h, j, "sealed"), S(c, v, a, k, h, j, "sealed"))
  <2>. DEFINE p1 == PopT(1)
              p2 == p1 \o Discard(One)
              p3 == p2 \o pick
  <2>. HIDE DEF p1, p2, p3
  <2>1. Does(p1, S(c, v, a, k, h, j, "sealed"), S(c, v, a, k, h, j, "any"))
    BY <1>0, <1>a, <1>o, DoPopT DEF p1
  <2>2. Does(p2, S(c, v, a, k, h, j, "sealed"), S(c, v, a, k, g, j, "any"))
    BY <1>0, <1>a, <1>o, <2>1, DoDiscard, Then DEF p2
  <2>3. Does(p3, S(c, v, a, k, h, j, "sealed"), S(c, v, a, k, h, j, "sealed"))
    BY <1>0, <1>a, <1>o, <2>2, <1>b, Then DEF p3
  <2>. QED
    BY <2>3 DEF p1, p2, p3
<1>d. Does(Value({"str"}) \o Op(2, AnyKind) \o PopT(1) \o PushT("Unknown"), S(c, v, a, k, h, j, "sealed"), S(c, v, a, k, h, j, "sealed"))
  <2>. DEFINE p1 == Value({"str"})
              p2 == p1 \o Op(2, AnyKind)
              p3 == p2 \o PopT(1)
              p4 == p3 \o PushT("Unknown")
  <2>. HIDE DEF p1, p2, p3, p4
  <2>1. Does(p1, S(c, v, a, k, h, j, "sealed"), S(c, v, a, k, h + 1, j, "any"))
    BY <1>0, <1>a, KindSets, TypeNames, DoValue DEF p1
  <2>2. Does(p2, S(c, v, a, k, h, j, "sealed"), S(c, v, a, k, h, j, "any"))
    BY <1>0, <1>a, KindSets, TypeNames, <2>1, DoTwoForOne, Then DEF p2
  <2>3. Does(p3, S(c, v, a, k, h, j, "sealed"), S(c, v, a, k, h, j, "any"))
    BY <1>0, <1>a, KindSets, TypeNames, <2>2, DoPopT, Then DEF p3
  <2>4. Does(p4, S(c, v, a, k, h, j, "sealed"), S(c, v, a, k, h, j, "sealed"))
    BY <1>0, <1>a, KindSets, TypeNames, <2>3, DoPushT, Then DEF p4
  <2>. QED
    BY <2>4 DEF p1, p2, p3, p4
<1>. QED
  BY <1>c, <1>d DEF parse_dot, pick, One

(* Arguments, by position or by name *)
LEMMA NamedArgument ==
  ASSUME tail \in BOOLEAN
  PROVE  Adds(Value({"str"}) \o Anon(1) \o NoTail(0) \o Anon(1), 2)
<1>. SUFFICES ASSUME NEW c, NEW v, NEW a, NEW k, NEW h, NEW j, NEW l, Good(c, v, a, k, j),
                     h = v.count + a + k, l \in Known
              PROVE  Does(Value({"str"}) \o Anon(1) \o NoTail(0) \o Anon(1), S(c, v, a, k, h, j, l),
                          S(c, v, a + 2, k, h + 2, j, "any"))
  BY DEF Adds
<1>. DEFINE b == a + 1
            d == a + 2
            h1 == h + 1
            h2 == h + 2
<1>0. /\ h \in Nat /\ h1 \in Nat /\ h2 \in Nat /\ h1 = h + 1 /\ h2 = h1 + 1 /\ b = a + One /\ d = b + One
      /\ One \in Int /\ b \in Nat /\ d \in Nat /\ h1 = v.count + b + k
  <2>1. v.count \in Nat /\ a \in Nat /\ k \in Nat
    BY GoodHeight
  <2>. QED
    BY <2>1 DEF One
<1>. HIDE DEF b, d, h1, h2
<1>. DEFINE p1 == Value({"str"})
            p2 == p1 \o Anon(One)
            p3 == p2 \o NoTail(0)
            p4 == p3 \o Anon(One)
<1>. HIDE DEF p1, p2, p3, p4
<1>1. Does(p1, S(c, v, a, k, h, j, l), S(c, v, a, k, h1, j, "any"))
  BY <1>0, KindSets, DoValue DEF p1
<1>2. Does(p2, S(c, v, a, k, h, j, l), S(c, v, b, k, h1, j, "any"))
  BY <1>0, KindSets, <1>1, DoAnon, Then DEF p2
<1>3. Does(p3, S(c, v, a, k, h, j, l), S(c, v, b, k, h2, j, "any"))
  BY <1>0, KindSets, <1>2, DoNoTail, Then DEF p3
<1>4. Does(p4, S(c, v, a, k, h, j, l), S(c, v, d, k, h2, j, "any"))
  BY <1>0, KindSets, <1>3, DoAnon, Then DEF p4
<1>. QED
  BY <1>4 DEF p1, p2, p3, p4, One, d, h2

LEMMA CallOperates ==
  ASSUME tail \in BOOLEAN, NEW p \in Nat, NEW n \in Nat, NEW tailstrict \in BOOLEAN
  PROVE  Operates(parse_call(p, n, tailstrict))
<1>. SUFFICES ASSUME NEW c, NEW v, NEW a, NEW k, NEW h, NEW j, Good(c, v, a, k, j),
                     h = v.count + a + k + 1
              PROVE  Does(parse_call(p, n, tailstrict), S(c, v, a, k, h, j, "sealed"),
                          S(c, v, a, k, h, j, "sealed"))
  BY DEF Operates
<1>r. PICK b, g : BesideAt(c, v, a, k, h, j, b, g)
  BY Beside
<1>a. /\ b = a + 1 /\ a = b + (-1) /\ b \in Nat /\ h = v.count + b + k
      /\ h = g + 1 /\ g \in Nat /\ g = v.count + a + k
      /\ Good(c, v, b, k, j) /\ h \in Nat /\ h + 1 \in Nat /\ h > 0
      /\ h = h + 1 - 2 + 1 /\ 2 <= h + 1
  BY <1>r DEF BesideAt
<1>0. /\ j \in Seq(Int) /\ a \in Nat /\ k \in Nat /\ c \in Contexts /\ IsVars(v)
      /\ Good(c, v, a, k, j) /\ Good(c, v, a, k, Append(j, h))
  <2>1. j \in Seq(Int) /\ a \in Nat /\ k \in Nat /\ c \in Contexts /\ IsVars(v)
    BY GoodHeight
  <2>2. h \in Int
    BY <1>a
  <2>3. Good(c, v, a, k, Append(j, h))
    BY <2>2, GoodJumps
  <2>. QED
    BY <2>1, <2>3
<1>. DEFINE down == -1
<1>m. down \in Int /\ a = b + down
  BY <1>a
<1>. HIDE DEF down
<1>. DEFINE value == NoTail(0) \o Anon(1)
            named == Value({"str"}) \o Anon(1) \o NoTail(0) \o Anon(1)
            q == p + 2 * n
            b1 == b + p
            h1 == h + p
            b2 == b + q
            h2 == h + q
            back == -(1 + p + 2 * n)
            kinds == IF tailstrict /\ tail /\ LastType(Cur) # "Native" THEN {"gone"} ELSE AnyKind
            all == 1 + p + 2 * n
<1>b. /\ q \in Nat /\ b1 \in Nat /\ h1 \in Nat /\ b2 \in Nat /\ h2 \in Nat /\ all \in Nat /\ back \in Int
      /\ a = b2 + back /\ h1 = v.count + b1 + k /\ all <= h2 /\ h = h2 - all + 1
      /\ b2 = b1 + 2 * n /\ h2 = h1 + 2 * n
  <2>1. v.count \in Nat /\ a \in Nat /\ k \in Nat
    BY GoodHeight
  <2>2. b = a + 1 /\ h = v.count + b + k
    BY <1>a
  <2>3. h = v.count + a + k + 1
    OBVIOUS
  <2>. QED
    BY <2>1, <2>2, <2>3
<1>c. PICK m1 \in Known : Does(Times(p, value), S(c, v, b, k, h, j, "sealed"), S(c, v, b1, k, h1, j, m1))
  <2>. DEFINE one == 1
  <2>1. one \in {1, 2} /\ Adds(value, one)
    BY NoTailYields, OneMore
  <2>2. b1 = b + Multiple(p, one) /\ h1 = h + Multiple(p, one)
    BY DEF Multiple
  <2>3. "sealed" \in Known /\ Good(c, v, b, k, j) /\ h = v.count + b + k
    BY <1>a DEF Known
  <2>. HIDE DEF one, value, b1, h1
  <2>. QED
    BY <2>1, <2>2, <2>3, TimesDoes
<1>d. PICK m2 \in Known : Does(Times(n, named), S(c, v, b1, k, h1, j, m1), S(c, v, b2, k, h2, j, m2))
  <2>. DEFINE two == 2
  <2>1. two \in {1, 2} /\ Adds(named, two)
    BY NamedArgument
  <2>2. b2 = b1 + Multiple(n, two) /\ h2 = h1 + Multiple(n, two)
    <3>1. Multiple(n, two) = 2 * n
      BY DEF Multiple
    <3>2. b2 = b1 + 2 * n /\ h2 = h1 + 2 * n
      BY <1>b
    <3>. HIDE DEF two, b1, b2, h1, h2
    <3>. QED
      BY <3>1, <3>2
  <2>3. Good(c, v, b1, k, j) /\ h1 = v.count + b1 + k
    <3>1. b1 \in Nat
      BY <1>b
    <3>. HIDE DEF b1
    <3>. QED
      BY <1>b, <3>1 DEF Good
  <2>. HIDE DEF two, named, b1, h1, b2, h2
  <2>. QED
    BY <2>1, <2>2, <2>3, TimesDoes
<1>e. kinds \in SUBSET Kinds
  BY DEF Kinds, AnyKind
<1>. HIDE DEF value, named, q, b1, h1, b2, h2, back, kinds, all
<1>. DEFINE p1 == Anon(1)
            p2 == p1 \o Times(p, value)
            p3 == p2 \o Times(n, named)
            p4 == p3 \o Close
            p5 == p4 \o Anon(back)
            p6 == p5 \o PopT(q)
            p7 == p6 \o PopT(1)
            p8 == p7 \o Op(all, kinds)
            p9 == p8 \o PushT("Unknown")
<1>. HIDE DEF p1, p2, p3, p4, p5, p6, p7, p8, p9
<1>1. Does(p1, S(c, v, a, k, h, j, "sealed"), S(c, v, b, k, h, j, "sealed"))
  BY <1>0, <1>a, <1>b, <1>e, TypeNames, DoAnon DEF p1
<1>2. Does(p2, S(c, v, a, k, h, j, "sealed"), S(c, v, b1, k, h1, j, m1))
  BY <1>0, <1>a, <1>b, <1>e, TypeNames, <1>1, <1>c, Then DEF p2
<1>3. Does(p3, S(c, v, a, k, h, j, "sealed"), S(c, v, b2, k, h2, j, m2))
  BY <1>0, <1>a, <1>b, <1>e, TypeNames, <1>2, <1>d, Then DEF p3
<1>4. Does(p4, S(c, v, a, k, h, j, "sealed"), S(c, v, b2, k, h2, j, m2))
  BY <1>0, <1>a, <1>b, <1>e, TypeNames, <1>3, DoClose, Then DEF p4
<1>5. Does(p5, S(c, v, a, k, h, j, "sealed"), S(c, v, a, k, h2, j, m2))
  BY <1>0, <1>a, <1>b, <1>e, TypeNames, <1>4, DoAnon, Then DEF p5
<1>6. Does(p6, S(c, v, a, k, h, j, "sealed"), S(c, v, a, k, h2, j, "any"))
  BY <1>0, <1>a, <1>b, <1>e, TypeNames, <1>5, DoPopT, Then DEF p6
<1>7. Does(p7, S(c, v, a, k, h, j, "sealed"), S(c, v, a, k, h2, j, "any"))
  BY <1>0, <1>a, <1>b, <1>e, TypeNames, <1>6, DoPopT, Then DEF p7
<1>8. Does(p8, S(c, v, a, k, h, j, "sealed"), S(c, v, a, k, h, j, "any"))
  BY <1>0, <1>a, <1>b, <1>e, TypeNames, <1>7, DoOp, Then DEF p8
<1>9. Does(p9, S(c, v, a, k, h, j, "sealed"), S(c, v, a, k, h, j, "sealed"))
  BY <1>0, <1>a, <1>b, <1>e, TypeNames, <1>8, DoPushT, Then DEF p9
<1>. QED
  BY <1>9 DEF p1, p2, p3, p4, p5, p6, p7, p8, p9, parse_call, value, named, q, back, kinds, all

LEMMA ApplyOperates ==
  ASSUME tail \in BOOLEAN, NEW bs, bs = {} \/ \E x \in Bindings \cup {<<>>} : bs = {x}
  PROVE  Operates(parse_apply(bs))
<1>. SUFFICES ASSUME NEW c, NEW v, NEW a, NEW k, NEW h, NEW j, Good(c, v, a, k, j),
                     h = v.count + a + k + 1
              PROVE  Does(parse_apply(bs), S(c, v, a, k, h, j, "sealed"),
                          S(c, v, a, k, h, j, "sealed"))
  BY DEF Operates
<1>r. PICK b, g : BesideAt(c, v, a, k, h, j, b, g)
  BY Beside
<1>a. /\ b = a + 1 /\ a = b + (-1) /\ b \in Nat /\ h = v.count + b + k
      /\ h = g + 1 /\ g \in Nat /\ g = v.count + a + k
      /\ Good(c, v, b, k, j) /\ h \in Nat /\ h + 1 \in Nat /\ h > 0
      /\ h = h + 1 - 2 + 1 /\ 2 <= h + 1
  BY <1>r DEF BesideAt
<1>0. /\ j \in Seq(Int) /\ a \in Nat /\ k \in Nat /\ c \in Contexts /\ IsVars(v)
      /\ Good(c, v, a, k, j) /\ Good(c, v, a, k, Append(j, h))
  <2>1. j \in Seq(Int) /\ a \in Nat /\ k \in Nat /\ c \in Contexts /\ IsVars(v)
    BY GoodHeight
  <2>2. h \in Int
    BY <1>a
  <2>3. Good(c, v, a, k, Append(j, h))
    BY <2>2, GoodJumps
  <2>. QED
    BY <2>1, <2>3
<1>. DEFINE down == -1
<1>m. down \in Int /\ a = b + down
  BY <1>a
<1>. HIDE DEF down
<1>. DEFINE object == IF bs = {} THEN empty_object ELSE parse_object_literal(CHOOSE x \in bs : TRUE)
            kinds == PlusKind(Last(Cur.stack), {"obj"})
            type == IF LastType(Cur) = "Object" THEN "Object" ELSE "Unknown"
<1>b. /\ Yields(object, "any") /\ kinds \in SUBSET Kinds /\ type \in Types \ {"Std", "Native"}
  <2>1. kinds \in SUBSET Kinds
    BY DEF PlusKind, Kinds
  <2>2. type \in Types \ {"Std", "Native"}
    BY TypeNames
  <2>3. CASE bs = {}
    BY <2>1, <2>2, <2>3, EmptyObjectYields
  <2>4. ASSUME NEW x \in Bindings \cup {<<>>}, bs = {x}
        PROVE  Yields(object, "any")
    <3>1. (CHOOSE y \in bs : TRUE) = x /\ bs # {}
      BY <2>4
    <3>2. Yields(parse_object_literal(x), "any")
      BY ObjectYields
    <3>. QED
      BY <3>1, <3>2
  <2>. QED
    BY <2>1, <2>2, <2>3, <2>4
<1>o. One \in Int /\ b = a + One
  BY <1>a DEF One
<1>. HIDE DEF object, kinds, type
<1>. DEFINE p1 == PopT(1)
            p2 == p1 \o Anon(One)
            p3 == p2 \o object
            p4 == p3 \o Anon(down)
            p5 == p4 \o Op(2, kinds)
            p6 == p5 \o PushT(type)
<1>. HIDE DEF p1, p2, p3, p4, p5, p6
<1>1. Does(p1, S(c, v, a, k, h, j, "sealed"), S(c, v, a, k, h, j, "any"))
  BY <1>0, <1>a, KindSets, TypeNames, <1>m, <1>b, Literals, DoPopT DEF p1
<1>2. Does(p2, S(c, v, a, k, h, j, "sealed"), S(c, v, b, k, h, j, "any"))
  BY <1>0, <1>a, KindSets, TypeNames, <1>m, <1>b, Literals, <1>1, <1>o, DoAnon, Then DEF p2
<1>3. Does(p3, S(c, v, a, k, h, j, "sealed"), S(c, v, b, k, h + 1, j, "any"))
  BY <1>0, <1>a, KindSets, TypeNames, <1>m, <1>b, Literals, <1>2, <1>b, DoYields, Then DEF p3
<1>4. Does(p4, S(c, v, a, k, h, j, "sealed"), S(c, v, a, k, h + 1, j, "any"))
  BY <1>0, <1>a, KindSets, TypeNames, <1>m, <1>b, Literals, <1>3, DoAnon, Then DEF p4
<1>5. Does(p5, S(c, v, a, k, h, j, "sealed"), S(c, v, a, k, h, j, "any"))
  BY <1>0, <1>a, KindSets, TypeNames, <1>m, <1>b, Literals, <1>4, DoTwoForOne, Then DEF p5
<1>6. Does(p6, S(c, v, a, k, h, j, "sealed"), S(c, v, a, k, h, j, "sealed"))
  BY <1>0, <1>a, KindSets, TypeNames, <1>m, <1>b, Literals, <1>5, DoPushT, Then DEF p6
<1>. QED
  BY <1>6 DEF p1, p2, p3, p4, p5, p6, parse_apply, object, down, kinds, type, One


(***************************************************************************)
(* A function under compilation and its shape                               *)
(***************************************************************************)
Variable == [name : AllNames, scope : Nat, slot : Nat, pos : Nat]
Upvalue == [local : BOOLEAN, index : Nat]
Saved == Seq(Types) \cup Seq(SUBSET Kinds)
Compiled ==
  [locals : Seq(Variable), scope : Nat, anon : Nat, types : Seq(Types), ups : Seq(Upvalue),
   stack : Seq(SUBSET Kinds), jumps : Seq(Saved), keys : Nat]

(* The locals of scope m are those after the ones there were when it began, *)
(* up to the ones there were when the next scope began.                     *)
InOrder(locals, v) ==
  /\ \A i \in DOMAIN locals, m \in DOMAIN v.scopes :
       locals[i].scope >= m <=> i > v.scopes[m].from
  /\ \A m \in DOMAIN v.scopes : v.scopes[m].from <= v.count
  /\ \A m, n \in DOMAIN v.scopes : m <= n => v.scopes[m].from <= v.scopes[n].from

Named(locals, v) ==
  /\ \A i \in DOMAIN locals : /\ locals[i].scope \in DOMAIN v.scopes
                              /\ locals[i].name \in v.scopes[locals[i].scope].names
  /\ \A m \in DOMAIN v.scopes : \A x \in v.scopes[m].names :
       \E i \in DOMAIN locals : locals[i].scope = m /\ locals[i].name = x

InPlace(locals) == \A i \in DOMAIN locals : locals[i].slot = locals[i].pos

Scoped(locals, scope, v) ==
  /\ Len(locals) = v.count /\ scope = Len(v.scopes)
  /\ InPlace(locals) /\ InOrder(locals, v) /\ Named(locals, v)

LEMMA ScopesOf ==
  ASSUME NEW v, IsVars(v)
  PROVE  /\ v.count \in Nat /\ Len(v.scopes) \in Nat
         /\ DOMAIN v.scopes = 1..Len(v.scopes)
         /\ \A m \in DOMAIN v.scopes : v.scopes[m].from \in Nat
<1>. DEFINE R == [from : Nat, names : SUBSET AllNames]
<1>1. v.count \in Nat /\ v.scopes \in Seq(R)
  BY DEF IsVars
<1>2. \A e \in R : e.from \in Nat
  OBVIOUS
<1>. HIDE DEF R
<1>. QED
  BY <1>1, <1>2

LEMMA WithScopes ==
  ASSUME NEW v, IsVars(v), NEW n, NEW N
  PROVE  /\ With(v, n, N).count = v.count + n
         /\ Len(With(v, n, N).scopes) = Len(v.scopes) + 1
         /\ DOMAIN With(v, n, N).scopes = 1..(Len(v.scopes) + 1)
         /\ \A m \in 1..Len(v.scopes) : With(v, n, N).scopes[m] = v.scopes[m]
         /\ With(v, n, N).scopes[Len(v.scopes) + 1].from = v.count
         /\ With(v, n, N).scopes[Len(v.scopes) + 1].names = N
<1>. DEFINE R == [from : Nat, names : SUBSET AllNames]
            e == [from |-> v.count, names |-> N]
<1>0. v.scopes \in Seq(R)
  BY DEF IsVars
<1>2. With(v, n, N).count = v.count + n /\ With(v, n, N).scopes = Append(v.scopes, e)
  BY DEF With
<1>3. e.from = v.count /\ e.names = N
  OBVIOUS
<1>. HIDE DEF R, e
<1>1. v.scopes \in Seq(R \cup {e})
  BY <1>0
<1>4. /\ Len(Append(v.scopes, e)) = Len(v.scopes) + 1
      /\ DOMAIN Append(v.scopes, e) = 1..(Len(v.scopes) + 1)
      /\ \A m \in 1..Len(v.scopes) : Append(v.scopes, e)[m] = v.scopes[m]
      /\ Append(v.scopes, e)[Len(v.scopes) + 1] = e
  BY <1>1
<1>. QED
  BY <1>2, <1>3, <1>4

LEMMA ScopedBegins ==
  ASSUME NEW R, NEW locals \in Seq(R), NEW scope, NEW v, IsVars(v), Scoped(locals, scope, v)
  PROVE  Scoped(locals, scope + 1, With(v, 0, {}))
<1>. DEFINE w == With(v, 0, {})
            q == Len(v.scopes)
<1>1. /\ v.count \in Nat /\ q \in Nat /\ DOMAIN v.scopes = 1..q
      /\ \A m \in 1..q : v.scopes[m].from \in Nat
  BY ScopesOf
<1>2. /\ w.count = v.count + 0 /\ Len(w.scopes) = q + 1 /\ DOMAIN w.scopes = 1..(q + 1)
      /\ \A m \in 1..q : w.scopes[m] = v.scopes[m]
      /\ w.scopes[q + 1].from = v.count /\ w.scopes[q + 1].names = {}
  BY WithScopes
<1>3. /\ Len(locals) = v.count /\ scope = q /\ DOMAIN locals = 1..v.count
      /\ InPlace(locals) /\ InOrder(locals, v) /\ Named(locals, v)
  BY DEF Scoped
<1>. HIDE DEF w, q
<1>4. InOrder(locals, w)
  <2>1. ASSUME NEW i \in DOMAIN locals, NEW m \in DOMAIN w.scopes
        PROVE  locals[i].scope >= m <=> i > w.scopes[m].from
    <3>1. CASE m \in 1..q
      BY <1>1, <1>2, <1>3, <3>1 DEF InOrder
    <3>2. CASE m = q + 1
      <4>1. locals[i].scope \in 1..q /\ i \in 1..v.count
        BY <1>1, <1>3 DEF Named
      <4>. QED
        BY <1>1, <1>2, <3>2, <4>1
    <3>. QED
      BY <1>1, <1>2, <3>1, <3>2
  <2>2. ASSUME NEW m \in DOMAIN w.scopes PROVE w.scopes[m].from <= w.count
    BY <1>1, <1>2, <1>3 DEF InOrder
  <2>3. ASSUME NEW m \in DOMAIN w.scopes, NEW n \in DOMAIN w.scopes, m <= n
        PROVE  w.scopes[m].from <= w.scopes[n].from
    <3>1. CASE n \in 1..q
      <4>1. m \in 1..q
        BY <1>1, <1>2, <2>3, <3>1
      <4>. QED
        BY <1>1, <1>2, <1>3, <2>3, <3>1, <4>1 DEF InOrder
    <3>2. CASE n = q + 1
      BY <1>1, <1>2, <2>2, <3>2
    <3>. QED
      BY <1>1, <1>2, <3>1, <3>2
  <2>. QED
    BY <2>1, <2>2, <2>3 DEF InOrder
<1>5. Named(locals, w)
  <2>1. ASSUME NEW i \in DOMAIN locals
        PROVE  locals[i].scope \in DOMAIN w.scopes /\ locals[i].name \in w.scopes[locals[i].scope].names
    <3>1. locals[i].scope \in 1..q /\ locals[i].name \in v.scopes[locals[i].scope].names
      BY <1>1, <1>3 DEF Named
    <3>. QED
      BY <1>1, <1>2, <3>1
  <2>2. ASSUME NEW m \in DOMAIN w.scopes, NEW x \in w.scopes[m].names
        PROVE  \E i \in DOMAIN locals : locals[i].scope = m /\ locals[i].name = x
    <3>1. m \in 1..q
      <4>1. m # q + 1
        BY <1>2
      <4>. QED
        BY <1>1, <1>2, <4>1
    <3>. QED
      BY <1>1, <1>2, <1>3, <3>1 DEF Named
  <2>. QED
    BY <2>1, <2>2 DEF Named
<1>. QED
  BY <1>1, <1>2, <1>3, <1>4, <1>5 DEF Scoped, w

LEMMA ScopedDeclares ==
  ASSUME NEW R, NEW locals \in Seq(R), NEW scope, NEW v, IsVars(v), NEW n \in Nat, NEW N, NEW x,
         Scoped(locals, scope, With(v, n, N)),
         NEW e \in R, e.name = x, e.scope = scope, e.slot = e.pos
  PROVE  Scoped(Append(locals, e), scope, With(v, n + 1, N \cup {x}))
<1>. DEFINE w == With(v, n, N)
            u == With(v, n + 1, N \cup {x})
            q == Len(v.scopes)
            more == Append(locals, e)
            len == v.count + n
<1>1. /\ v.count \in Nat /\ q \in Nat /\ len \in Nat /\ len >= v.count
      /\ \A m \in 1..q : v.scopes[m].from \in Nat
  BY ScopesOf
<1>2. /\ w.count = len /\ Len(w.scopes) = q + 1 /\ DOMAIN w.scopes = 1..(q + 1)
      /\ \A m \in 1..q : w.scopes[m] = v.scopes[m]
      /\ w.scopes[q + 1].from = v.count /\ w.scopes[q + 1].names = N
  BY WithScopes
<1>3. /\ u.count = len + 1 /\ Len(u.scopes) = q + 1 /\ DOMAIN u.scopes = 1..(q + 1)
      /\ \A m \in 1..q : u.scopes[m] = v.scopes[m]
      /\ u.scopes[q + 1].from = v.count /\ u.scopes[q + 1].names = N \cup {x}
  <2>1. /\ u.count = v.count + (n + 1) /\ Len(u.scopes) = q + 1 /\ DOMAIN u.scopes = 1..(q + 1)
        /\ \A m \in 1..q : u.scopes[m] = v.scopes[m]
        /\ u.scopes[q + 1].from = v.count /\ u.scopes[q + 1].names = N \cup {x}
    BY WithScopes
  <2>2. v.count + (n + 1) = len + 1
    BY <1>1
  <2>. HIDE DEF u, q, len
  <2>. QED
    BY <2>1, <2>2
<1>4. /\ Len(locals) = len /\ scope = q + 1 /\ DOMAIN locals = 1..len
      /\ InPlace(locals) /\ InOrder(locals, w) /\ Named(locals, w)
  BY <1>2 DEF Scoped
<1>5. /\ Len(more) = len + 1 /\ DOMAIN more = 1..(len + 1)
      /\ \A i \in 1..len : more[i] = locals[i]
      /\ more[len + 1] = e
  BY <1>4
<1>. HIDE DEF w, u, q, more, len
<1>6. \A m \in 1..(q + 1) : u.scopes[m].from = w.scopes[m].from /\ w.scopes[m].from \in Nat /\ w.scopes[m].from <= len
  <2>. SUFFICES ASSUME NEW m \in 1..(q + 1)
                PROVE  u.scopes[m].from = w.scopes[m].from /\ w.scopes[m].from \in Nat /\ w.scopes[m].from <= len
    OBVIOUS
  <2>1. w.scopes[m].from <= len
    BY <1>2, <1>4 DEF InOrder
  <2>2. CASE m \in 1..q
    BY <1>1, <1>2, <1>3, <2>1, <2>2
  <2>3. CASE m = q + 1
    BY <1>1, <1>2, <1>3, <2>1, <2>3
  <2>. QED
    BY <1>1, <2>2, <2>3
<1>7. InPlace(more)
  BY <1>1, <1>4, <1>5 DEF InPlace
<1>8. InOrder(more, u)
  <2>1. ASSUME NEW i \in DOMAIN more, NEW m \in DOMAIN u.scopes
        PROVE  more[i].scope >= m <=> i > u.scopes[m].from
    <3>1. CASE i \in 1..len
      BY <1>1, <1>2, <1>3, <1>4, <1>5, <1>6, <3>1 DEF InOrder
    <3>2. CASE i = len + 1
      <4>1. more[i].scope = q + 1 /\ m \in 1..(q + 1) /\ u.scopes[m].from \in Nat /\ u.scopes[m].from <= len
        BY <1>3, <1>4, <1>5, <1>6, <3>2
      <4>. QED
        BY <1>1, <3>2, <4>1
    <3>. QED
      BY <1>1, <1>5, <3>1, <3>2
  <2>2. ASSUME NEW m \in DOMAIN u.scopes PROVE u.scopes[m].from <= u.count
    <3>1. u.scopes[m].from \in Nat /\ u.scopes[m].from <= len
      BY <1>3, <1>6
    <3>2. len \in Nat /\ u.count = len + 1
      BY <1>1, <1>3
    <3>. QED
      BY <3>1, <3>2
  <2>3. ASSUME NEW m \in DOMAIN u.scopes, NEW k \in DOMAIN u.scopes, m <= k
        PROVE  u.scopes[m].from <= u.scopes[k].from
    BY <1>2, <1>3, <1>4, <1>6, <2>3 DEF InOrder
  <2>. QED
    BY <2>1, <2>2, <2>3 DEF InOrder
<1>9. Named(more, u)
  <2>0. /\ \A i \in 1..len : locals[i].scope \in 1..(q + 1) /\ locals[i].name \in w.scopes[locals[i].scope].names
        /\ \A m \in 1..(q + 1) : \A y \in w.scopes[m].names : \E i \in 1..len : locals[i].scope = m /\ locals[i].name = y
    <3>1. Named(locals, w) /\ DOMAIN locals = 1..len /\ DOMAIN w.scopes = 1..(q + 1)
      BY <1>2, <1>4
    <3>2. \A i \in 1..len : locals[i].scope \in 1..(q + 1) /\ locals[i].name \in w.scopes[locals[i].scope].names
      BY <3>1 DEF Named
    <3>3. \A m \in 1..(q + 1) : \A y \in w.scopes[m].names : \E i \in 1..len : locals[i].scope = m /\ locals[i].name = y
      <4>. SUFFICES ASSUME NEW m \in 1..(q + 1), NEW y \in w.scopes[m].names
                    PROVE  \E i \in 1..len : locals[i].scope = m /\ locals[i].name = y
        OBVIOUS
      <4>1. PICK i \in DOMAIN locals : locals[i].scope = m /\ locals[i].name = y
        BY <3>1 DEF Named
      <4>. QED
        BY <3>1, <4>1
    <3>. QED
      BY <3>2, <3>3
  <2>1. ASSUME NEW i \in DOMAIN more
        PROVE  more[i].scope \in DOMAIN u.scopes /\ more[i].name \in u.scopes[more[i].scope].names
    <3>1. CASE i \in 1..len
      <4>1. more[i] = locals[i] /\ locals[i].scope \in 1..(q + 1) /\ locals[i].name \in w.scopes[locals[i].scope].names
        BY <1>5, <2>0, <3>1
      <4>2. CASE locals[i].scope \in 1..q
        BY <1>1, <1>2, <1>3, <4>1, <4>2
      <4>3. CASE locals[i].scope = q + 1
        BY <1>1, <1>2, <1>3, <4>1, <4>3
      <4>. QED
        BY <1>1, <4>1, <4>2, <4>3
    <3>2. CASE i = len + 1
      BY <1>1, <1>3, <1>4, <1>5, <3>2
    <3>. QED
      BY <1>1, <1>5, <3>1, <3>2
  <2>2. ASSUME NEW m \in DOMAIN u.scopes, NEW y \in u.scopes[m].names
        PROVE  \E i \in DOMAIN more : more[i].scope = m /\ more[i].name = y
    <3>1. CASE y \in w.scopes[m].names
      <4>1. PICK i \in 1..len : locals[i].scope = m /\ locals[i].name = y
        BY <1>3, <2>0, <3>1
      <4>2. i \in 1..(len + 1) /\ more[i] = locals[i]
        BY <1>1, <1>5
      <4>. QED
        BY <1>5, <4>1, <4>2
    <3>2. CASE y \notin w.scopes[m].names
      <4>1. m = q + 1 /\ y = x
        BY <1>1, <1>2, <1>3, <3>2
      <4>2. len + 1 \in DOMAIN more
        BY <1>1, <1>5
      <4>. QED
        BY <1>4, <1>5, <4>1, <4>2
    <3>. QED
      BY <3>1, <3>2
  <2>. QED
    BY <2>1, <2>2 DEF Named
<1>. QED
  BY <1>1, <1>3, <1>4, <1>5, <1>7, <1>8, <1>9 DEF Scoped, u, more

(* end_scope finds exactly the locals of the innermost scope *)
LEMMA ScopedEnds ==
  ASSUME NEW R, NEW locals \in Seq(R), NEW scope, NEW v, IsVars(v), NEW n \in Nat, NEW N,
         Scoped(locals, scope, With(v, n, N))
  PROVE  /\ Kept(locals, scope) = v.count /\ Len(locals) = v.count + n
         /\ Scoped(SubSeq(locals, 1, v.count), scope - 1, v) /\ scope > 0
<1>. DEFINE w == With(v, n, N)
            q == Len(v.scopes)
            less == SubSeq(locals, 1, v.count)
            len == v.count + n
            b == v.count
<1>1. /\ b \in Nat /\ q \in Nat /\ len \in Nat /\ len >= b /\ DOMAIN v.scopes = 1..q
      /\ \A m \in 1..q : v.scopes[m].from \in Nat
  BY ScopesOf
<1>2. /\ w.count = len /\ Len(w.scopes) = q + 1 /\ DOMAIN w.scopes = 1..(q + 1)
      /\ \A m \in 1..q : w.scopes[m] = v.scopes[m]
      /\ w.scopes[q + 1].from = b /\ w.scopes[q + 1].names = N
  BY WithScopes
<1>4. /\ Len(locals) = len /\ scope = q + 1 /\ DOMAIN locals = 1..len
      /\ InPlace(locals) /\ InOrder(locals, w) /\ Named(locals, w)
  BY <1>2 DEF Scoped
<1>5. Len(less) = b /\ DOMAIN less = 1..b /\ \A i \in 1..b : less[i] = locals[i] /\ i \in 1..len
  BY <1>1, <1>4
<1>. HIDE DEF w, q, less, len, b
<1>6. \A i \in 1..len : locals[i].scope \in 1..(q + 1) /\ (locals[i].scope = q + 1 <=> i > b)
  <2>. SUFFICES ASSUME NEW i \in 1..len
                PROVE  locals[i].scope \in 1..(q + 1) /\ (locals[i].scope = q + 1 <=> i > b)
    OBVIOUS
  <2>1. locals[i].scope \in 1..(q + 1)
    BY <1>2, <1>4 DEF Named
  <2>2. q + 1 \in DOMAIN w.scopes
    BY <1>1, <1>2
  <2>3. locals[i].scope >= q + 1 <=> i > b
    BY <2>2, <1>2, <1>4 DEF InOrder
  <2>. QED
    BY <1>1, <2>1, <2>3
<1>7. Kept(locals, scope) = b
  <2>. DEFINE P(m) == /\ m > 0 => locals[m].scope # scope
                      /\ \A i \in (m + 1)..Len(locals) : locals[i].scope = scope
  <2>1. b \in 0..Len(locals) /\ P(b)
    BY <1>1, <1>4, <1>6
  <2>2. ASSUME NEW m \in 0..Len(locals), P(m) PROVE m = b
    <3>1. CASE m < b
      <4>1. b \in (m + 1)..Len(locals) /\ b \in 1..len
        BY <1>1, <1>4, <3>1
      <4>2. locals[b].scope = scope
        BY <2>2, <4>1
      <4>3. b > b
        BY <1>4, <1>6, <4>1, <4>2
      <4>. QED
        BY <4>3, <1>1
    <3>2. CASE m > b
      <4>1. m \in 1..len /\ m > 0
        BY <1>1, <1>4, <3>2
      <4>2. locals[m].scope = scope
        BY <1>4, <1>6, <3>2, <4>1
      <4>. QED
        BY <2>2, <4>1, <4>2
    <3>. QED
      BY <1>1, <1>4, <3>1, <3>2
  <2>. QED
    BY <2>1, <2>2 DEF Kept
<1>8. InPlace(less)
  BY <1>4, <1>5 DEF InPlace
<1>9. InOrder(less, v)
  <2>0. \A m \in 1..q : m \in DOMAIN w.scopes /\ v.scopes[m].from = w.scopes[m].from
    BY <1>1, <1>2
  <2>1. ASSUME NEW i \in DOMAIN less, NEW m \in DOMAIN v.scopes
        PROVE  less[i].scope >= m <=> i > v.scopes[m].from
    BY <1>1, <1>4, <1>5, <2>0 DEF InOrder
  <2>2. ASSUME NEW m \in DOMAIN v.scopes PROVE v.scopes[m].from <= b
    <3>1. m <= q + 1 /\ q + 1 \in DOMAIN w.scopes /\ m \in DOMAIN w.scopes
      BY <1>1, <1>2
    <3>2. w.scopes[m].from <= w.scopes[q + 1].from
      BY <1>4, <3>1 DEF InOrder
    <3>. QED
      BY <1>1, <1>2, <3>2
  <2>3. ASSUME NEW m \in DOMAIN v.scopes, NEW k \in DOMAIN v.scopes, m <= k
        PROVE  v.scopes[m].from <= v.scopes[k].from
    BY SMTT(30), <1>1, <1>4, <2>0, <2>3 DEF InOrder
  <2>. QED
    BY <2>1, <2>2, <2>3 DEF InOrder, b
<1>10. Named(less, v)
  <2>1. ASSUME NEW i \in DOMAIN less
        PROVE  less[i].scope \in DOMAIN v.scopes /\ less[i].name \in v.scopes[less[i].scope].names
    <3>1. i \in 1..b /\ i \in 1..len /\ less[i] = locals[i]
      BY <1>5
    <3>2. locals[i].scope \in 1..q
      <4>1. ~(i > b)
        BY <1>1, <3>1
      <4>2. locals[i].scope \in 1..(q + 1) /\ locals[i].scope # q + 1
        BY <1>6, <3>1, <4>1
      <4>. QED
        BY <1>1, <4>2
    <3>3. locals[i].name \in w.scopes[locals[i].scope].names
      BY <1>4, <3>1 DEF Named
    <3>. QED
      BY <1>1, <1>2, <3>1, <3>2, <3>3
  <2>2. ASSUME NEW m \in DOMAIN v.scopes, NEW x \in v.scopes[m].names
        PROVE  \E i \in DOMAIN less : less[i].scope = m /\ less[i].name = x
    <3>1. m \in 1..q /\ m \in DOMAIN w.scopes /\ x \in w.scopes[m].names
      BY <1>1, <1>2
    <3>2. PICK i \in 1..len : locals[i].scope = m /\ locals[i].name = x
      BY <1>4, <3>1 DEF Named
    <3>3. i \in 1..b
      <4>1. ~(i > b)
        BY <1>1, <1>6, <3>1, <3>2
      <4>. QED
        BY <1>1, <4>1
    <3>. QED
      BY <1>5, <3>2, <3>3
  <2>. QED
    BY <2>1, <2>2 DEF Named
<1>. QED
  BY <1>1, <1>4, <1>5, <1>7, <1>8, <1>9, <1>10 DEF Scoped, b, less, len, q

(* What the shape says is declared is, and nothing else *)
LEMMA DeclaredIsHeld ==
  ASSUME NEW R, NEW locals \in Seq(R), NEW scope, NEW v, IsVars(v), Scoped(locals, scope, v), NEW x
  PROVE  Declares(v, x) <=> \E i \in DOMAIN locals : locals[i].name = x
  BY DEF Scoped, Named, Declares


(***************************************************************************)
(* A function and its shape: jumps, types, and what is known of the top     *)
(***************************************************************************)
Recalls(saved, height) ==
  IF height = -1 THEN saved \in Seq(Types)
  ELSE saved \in Seq(SUBSET Kinds) /\ Len(saved) = height

JumpsFit(saved, heights) ==
  /\ Len(saved) = Len(heights)
  /\ \A i \in DOMAIN heights : Recalls(saved[i], heights[i])

TopIs(f, kind) == f.stack # <<>> /\ Last(f.stack) \subseteq {kind}
NotMistaken(f) ==
  /\ LastType(f) = "Std" => Last(f.stack) \subseteq {"std"}
  /\ LastType(f) = "Native" => Last(f.stack) \subseteq {"nat"}
LastFits(f, l) ==
  /\ l = "std" => TopIs(f, "std")
  /\ l = "nat" => TopIs(f, "nat")
  /\ l = "sealed" => NotMistaken(f)

Fits(f, u) ==
  /\ f \in Compiled /\ u \in Shapes
  /\ Scoped(f.locals, f.scope, u.vars)
  /\ f.anon = u.anon /\ f.keys = u.keys /\ Len(f.stack) = u.height
  /\ JumpsFit(f.jumps, u.jumps) /\ LastFits(f, u.last)

(* Only the stack and the types differ *)
Kin(f, g) ==
  /\ g.locals = f.locals /\ g.scope = f.scope /\ g.anon = f.anon /\ g.keys = f.keys
  /\ g.jumps = f.jumps /\ g.ups = f.ups

Effect(f, it, s, t) ==
  /\ t.ctx = s.ctx /\ Fits(ExecLocal(f, it), t.fun)
  /\ ExecLocal(f, it).ups = f.ups /\ "join" \notin FaultIn(f, it)

LEMMA ShapeParts ==
  ASSUME NEW u \in Shapes
  PROVE  /\ IsVars(u.vars) /\ u.anon \in Nat /\ u.keys \in Nat /\ u.height \in Nat
         /\ u.jumps \in Seq(Int) /\ u.last \in Known
  BY DEF Shapes, IsVars

LEMMA FunParts ==
  ASSUME NEW v, NEW a, NEW k, NEW h, NEW j, NEW l
  PROVE  /\ Fun(v, a, k, h, j, l).vars = v /\ Fun(v, a, k, h, j, l).anon = a
         /\ Fun(v, a, k, h, j, l).keys = k /\ Fun(v, a, k, h, j, l).height = h
         /\ Fun(v, a, k, h, j, l).jumps = j /\ Fun(v, a, k, h, j, l).last = l
  BY DEF Fun

LEMMA IsShape ==
  ASSUME NEW v, IsVars(v), NEW a \in Nat, NEW k \in Nat, NEW h \in Nat, NEW j \in Seq(Int),
         NEW l \in Known
  PROVE  Fun(v, a, k, h, j, l) \in Shapes
  BY DEF Fun, Shapes, IsVars

LEMMA CompiledParts ==
  ASSUME NEW f \in Compiled
  PROVE  /\ f.locals \in Seq(Variable) /\ f.scope \in Nat /\ f.anon \in Nat /\ f.types \in Seq(Types)
         /\ f.ups \in Seq(Upvalue) /\ f.stack \in Seq(SUBSET Kinds) /\ f.jumps \in Seq(Saved)
         /\ f.keys \in Nat /\ Len(f.stack) \in Nat /\ Len(f.locals) \in Nat
  BY DEF Compiled

LEMMA Taken ==
  ASSUME NEW f, NEW g, NEW s, NEW t, NEW n, NEW m, NEW l \in Known, Fits(f, s.fun),
         TakeStep(s, t, n, m, l), g \in Compiled, Kin(f, g),
         Len(g.stack) = s.fun.height - n + m, LastFits(g, l)
  PROVE  t.ctx = s.ctx /\ Fits(g, t.fun)
<1>1. t = S(s.ctx, s.fun.vars, s.fun.anon, s.fun.keys, Len(g.stack), s.fun.jumps, l)
  BY DEF TakeStep, Moved
<1>2. t.ctx = s.ctx /\ t.fun = Fun(s.fun.vars, s.fun.anon, s.fun.keys, Len(g.stack), s.fun.jumps, l)
  BY <1>1 DEF S
<1>3. s.fun \in Shapes /\ Len(g.stack) \in Nat
  BY CompiledParts DEF Fits
<1>4. t.fun \in Shapes
  <2>1. /\ IsVars(s.fun.vars) /\ s.fun.anon \in Nat /\ s.fun.keys \in Nat /\ s.fun.jumps \in Seq(Int)
    BY <1>3, ShapeParts
  <2>2. Fun(s.fun.vars, s.fun.anon, s.fun.keys, Len(g.stack), s.fun.jumps, l) \in Shapes
    BY <1>3, <2>1, IsShape
  <2>. QED
    BY <1>2, <2>2
<1>. QED
  BY <1>2, <1>4, FunParts DEF Fits, Kin

LEMMA PushKeeps ==
  ASSUME NEW f \in Compiled, NEW k \in SUBSET Kinds
  PROVE  /\ Push(f, k) \in Compiled /\ Kin(f, Push(f, k)) /\ Push(f, k).types = f.types
         /\ Len(Push(f, k).stack) = Len(f.stack) + 1
         /\ Push(f, k).stack # <<>> /\ Last(Push(f, k).stack) = k
<1>. DEFINE K == SUBSET Kinds
<1>1. f.stack \in Seq(K) /\ k \in K
  BY CompiledParts
<1>. HIDE DEF K
<1>2. /\ Append(f.stack, k) \in Seq(K) /\ Len(Append(f.stack, k)) = Len(f.stack) + 1
      /\ Append(f.stack, k) # <<>> /\ Last(Append(f.stack, k)) = k
  BY <1>1 DEF Last
<1>. QED
  BY <1>2 DEF Push, Compiled, Kin, K

LEMMA DropKeeps ==
  ASSUME NEW f \in Compiled, NEW n \in 0..Len(f.stack)
  PROVE  /\ Drop(f, n) \in Compiled /\ Kin(f, Drop(f, n)) /\ Drop(f, n).types = f.types
         /\ Len(Drop(f, n).stack) = Len(f.stack) - n
<1>. DEFINE K == SUBSET Kinds
<1>1. f.stack \in Seq(K)
  BY CompiledParts
<1>. HIDE DEF K
<1>2. /\ SubSeq(f.stack, 1, Len(f.stack) - n) \in Seq(K)
      /\ Len(SubSeq(f.stack, 1, Len(f.stack) - n)) = Len(f.stack) - n
  BY <1>1
<1>. QED
  BY <1>2 DEF Drop, Compiled, Kin, K

LEMMA TypesKeep ==
  ASSUME NEW f \in Compiled, NEW n \in Nat, NEW type \in Types
  PROVE  /\ PopTypes(f, n) \in Compiled /\ Kin(f, PopTypes(f, n)) /\ PopTypes(f, n).stack = f.stack
         /\ PushType(f, type) \in Compiled /\ Kin(f, PushType(f, type))
         /\ PushType(f, type).stack = f.stack /\ LastType(PushType(f, type)) = type
<1>. DEFINE m == IF Len(f.types) > n THEN Len(f.types) - n ELSE 0
<1>1. f.types \in Seq(Types)
  BY CompiledParts
<1>2. m \in 0..Len(f.types)
  BY <1>1
<1>. HIDE DEF m
<1>3. SubSeq(f.types, 1, m) \in Seq(Types)
  BY <1>1, <1>2
<1>4. /\ Append(f.types, type) \in Seq(Types) /\ Append(f.types, type) # <<>>
      /\ Last(Append(f.types, type)) = type
  BY <1>1 DEF Last
<1>5. /\ PopTypes(f, n) \in Compiled /\ Kin(f, PopTypes(f, n)) /\ PopTypes(f, n).stack = f.stack
  BY <1>3 DEF PopTypes, Compiled, Kin, m
<1>6. /\ PushType(f, type) \in Compiled /\ Kin(f, PushType(f, type))
      /\ PushType(f, type).stack = f.stack /\ PushType(f, type).types = Append(f.types, type)
  BY <1>4 DEF PushType, Compiled, Kin
<1>7. LastType(PushType(f, type)) = type
  BY <1>4, <1>6 DEF LastType
<1>. QED
  BY <1>5, <1>6, <1>7

LEMMA KinTrans ==
  ASSUME NEW f, NEW g, NEW h, Kin(f, g), Kin(g, h)
  PROVE  Kin(f, h)
  BY DEF Kin

LEMMA JumpsPush ==
  ASSUME NEW saved \in Seq(Saved), NEW heights \in Seq(Int), JumpsFit(saved, heights),
         NEW e \in Saved, NEW x \in Int, Recalls(e, x)
  PROVE  JumpsFit(Append(saved, e), Append(heights, x)) /\ Append(saved, e) \in Seq(Saved)
<1>. DEFINE q == Len(heights)
            more == Append(saved, e)
            up == Append(heights, x)
<1>1. q \in Nat /\ Len(saved) = q /\ DOMAIN heights = 1..q
  BY DEF JumpsFit
<1>. HIDE DEF Saved
<1>2. /\ more \in Seq(Saved) /\ Len(more) = q + 1 /\ Len(up) = q + 1 /\ DOMAIN up = 1..(q + 1)
      /\ \A i \in 1..q : more[i] = saved[i] /\ up[i] = heights[i]
      /\ more[q + 1] = e /\ up[q + 1] = x
  BY <1>1
<1>3. \A i \in 1..q : Recalls(saved[i], heights[i])
  BY <1>1 DEF JumpsFit
<1>. HIDE DEF q, more, up
<1>4. ASSUME NEW i \in DOMAIN up PROVE Recalls(more[i], up[i])
  <2>1. CASE i \in 1..q
    BY <1>2, <1>3, <2>1
  <2>2. CASE i = q + 1
    BY <1>2, <2>2
  <2>. QED
    BY <1>1, <1>2, <2>1, <2>2
<1>. QED
  BY <1>2, <1>4 DEF JumpsFit, more, up

LEMMA JumpsPop ==
  ASSUME NEW saved \in Seq(Saved), NEW heights \in Seq(Int), NEW x \in Int,
         JumpsFit(saved, Append(heights, x))
  PROVE  /\ saved # <<>> /\ Front(saved) \in Seq(Saved) /\ JumpsFit(Front(saved), heights)
         /\ Recalls(Last(saved), x) /\ Last(saved) \in Saved
         /\ Front(saved) = SubSeq(saved, 1, Len(saved) - 1) /\ Len(saved) = Len(heights) + 1
<1>. DEFINE q == Len(heights)
            up == Append(heights, x)
<1>. HIDE DEF Saved
<1>1. /\ q \in Nat /\ DOMAIN heights = 1..q /\ Len(up) = q + 1 /\ DOMAIN up = 1..(q + 1)
      /\ (\A i \in 1..q : up[i] = heights[i]) /\ up[q + 1] = x
  OBVIOUS
<1>2. Len(saved) = q + 1 /\ \A i \in 1..(q + 1) : Recalls(saved[i], up[i])
  BY <1>1 DEF JumpsFit
<1>3. /\ saved # <<>> /\ Front(saved) \in Seq(Saved) /\ Len(Front(saved)) = q
      /\ Front(saved) = SubSeq(saved, 1, Len(saved) - 1)
      /\ (\A i \in 1..q : Front(saved)[i] = saved[i]) /\ Last(saved) = saved[q + 1]
      /\ Last(saved) \in Saved
  BY <1>1, <1>2 DEF Front, Last
<1>. HIDE DEF q, up
<1>4. Recalls(Last(saved), x) /\ \A i \in 1..q : Recalls(Front(saved)[i], heights[i])
  BY <1>1, <1>2, <1>3
<1>. QED
  BY <1>1, <1>2, <1>3, <1>4 DEF JumpsFit, q


(***************************************************************************)
(* What one step does to the function, case by case                         *)
(***************************************************************************)
LEMMA AnyFits == \A f : LastFits(f, "any")
  BY DEF LastFits

LEMMA SealedFits ==
  ASSUME NEW f, LastType(f) \notin {"Std", "Native"}
  PROVE  LastFits(f, "sealed")
  BY DEF LastFits, NotMistaken

LEMMA OpEffect ==
  ASSUME NEW f, NEW s, NEW t, NEW it, it[1] = "op", Step(it, s, t), Fits(f, s.fun)
  PROVE  Effect(f, it, s, t)
<1>1. OpStep(s, t, it[2], it[3])
  BY DEF Step
<1>2. ExecLocal(f, it) = Push(Drop(f, it[2]), it[3])
  BY DEF ExecLocal
<1>3. "join" \notin FaultIn(f, it)
  BY DEF FaultIn
<1>4. /\ f \in Compiled /\ s.fun \in Shapes /\ Len(f.stack) = s.fun.height /\ Len(f.stack) \in Nat
  BY CompiledParts DEF Fits
<1>5. PICK l \in LastOf(it[3]) : TakeStep(s, t, it[2], 1, l)
  BY <1>1 DEF OpStep
<1>6. it[3] \in SUBSET Kinds /\ it[2] \in 0..Len(f.stack) /\ l \in Known
  BY <1>1, <1>4, <1>5 DEF OpStep, TakeStep, LastOf, Known
<1>. DEFINE d == Drop(f, it[2])
            g == Push(d, it[3])
<1>7. d \in Compiled /\ Kin(f, d) /\ Len(d.stack) = Len(f.stack) - it[2]
  BY <1>4, <1>6, DropKeeps
<1>. HIDE DEF d
<1>8. /\ g \in Compiled /\ Kin(d, g) /\ Len(g.stack) = Len(d.stack) + 1
      /\ g.stack # <<>> /\ Last(g.stack) = it[3]
  BY <1>6, <1>7, PushKeeps
<1>. HIDE DEF g
<1>9. Kin(f, g) /\ Len(g.stack) = s.fun.height - it[2] + 1
  BY <1>4, <1>7, <1>8, KinTrans
<1>10. LastFits(g, l)
  BY <1>8 DEF LastOf, LastFits, TopIs
<1>11. ExecLocal(f, it) = g
  BY <1>2 DEF g, d
<1>12. t.ctx = s.ctx /\ Fits(g, t.fun)
  BY <1>5, <1>6, <1>8, <1>9, <1>10, Taken
<1>. QED
  BY <1>3, <1>9, <1>11, <1>12 DEF Effect, Kin

LEMMA DropEffect ==
  ASSUME NEW f, NEW s, NEW t, NEW it, it[1] = "drop", Step(it, s, t), Fits(f, s.fun)
  PROVE  Effect(f, it, s, t)
<1>1. TakeStep(s, t, it[2], 0, "any")
  BY DEF Step
<1>2. ExecLocal(f, it) = Drop(f, it[2])
  BY DEF ExecLocal
<1>3. "join" \notin FaultIn(f, it)
  BY DEF FaultIn
<1>4. /\ f \in Compiled /\ s.fun \in Shapes /\ Len(f.stack) = s.fun.height /\ Len(f.stack) \in Nat
  BY CompiledParts DEF Fits
<1>5. it[2] \in 0..Len(f.stack)
  BY <1>1, <1>4 DEF TakeStep
<1>. DEFINE g == Drop(f, it[2])
<1>6. g \in Compiled /\ Kin(f, g) /\ Len(g.stack) = Len(f.stack) - it[2]
  BY <1>4, <1>5, DropKeeps
<1>. HIDE DEF g
<1>7. Len(g.stack) = s.fun.height - it[2] + 0
  BY <1>4, <1>5, <1>6
<1>8. t.ctx = s.ctx /\ Fits(g, t.fun)
  BY <1>1, <1>6, <1>7, AnyFits, Taken DEF Known
<1>. QED
  BY <1>2, <1>3, <1>6, <1>8 DEF Effect, Kin, g

LEMMA ClosureEffect ==
  ASSUME NEW f, NEW s, NEW t, NEW it, it[1] = "closure", Step(it, s, t), Fits(f, s.fun)
  PROVE  Effect(f, it, s, t)
<1>1. TakeStep(s, t, 0, 1, "any")
  BY DEF Step
<1>2. ExecLocal(f, it) = EmitClosure(f)
  BY DEF ExecLocal
<1>3. "join" \notin FaultIn(f, it)
  BY DEF FaultIn
<1>4. /\ f \in Compiled /\ s.fun \in Shapes /\ Len(f.stack) = s.fun.height /\ Len(f.stack) \in Nat
  BY CompiledParts DEF Fits
<1>. DEFINE g == Push(f, {"oth"})
<1>5. {"oth"} \in SUBSET Kinds
  BY KindSets
<1>6. g \in Compiled /\ Kin(f, g) /\ Len(g.stack) = Len(f.stack) + 1
  BY <1>4, <1>5, PushKeeps
<1>. HIDE DEF g
<1>7. Len(g.stack) = s.fun.height - 0 + 1
  BY <1>4, <1>6
<1>8. t.ctx = s.ctx /\ Fits(g, t.fun)
  BY <1>1, <1>6, <1>7, AnyFits, Taken DEF Known
<1>. QED
  BY <1>2, <1>3, <1>6, <1>8 DEF Effect, Kin, g, EmitClosure

LEMMA ThunkEffect ==
  ASSUME NEW f, NEW s, NEW t, NEW it, it[1] = "thunk", Step(it, s, t), Fits(f, s.fun)
  PROVE  Effect(f, it, s, t)
<1>1. TakeStep(s, t, 0, 1, "any")
  BY DEF Step
<1>2. ExecLocal(f, it) = EmitThunk(f)
  BY DEF ExecLocal
<1>3. "join" \notin FaultIn(f, it)
  BY DEF FaultIn
<1>4. /\ f \in Compiled /\ s.fun \in Shapes /\ Len(f.stack) = s.fun.height /\ Len(f.stack) \in Nat
  BY CompiledParts DEF Fits
<1>. DEFINE g == Push(f, {"oth"})
<1>5. {"oth"} \in SUBSET Kinds
  BY KindSets
<1>6. g \in Compiled /\ Kin(f, g) /\ Len(g.stack) = Len(f.stack) + 1
  BY <1>4, <1>5, PushKeeps
<1>. HIDE DEF g
<1>7. Len(g.stack) = s.fun.height - 0 + 1
  BY <1>4, <1>6
<1>8. t.ctx = s.ctx /\ Fits(g, t.fun)
  BY <1>1, <1>6, <1>7, AnyFits, Taken DEF Known
<1>. QED
  BY <1>2, <1>3, <1>6, <1>8 DEF Effect, Kin, g, EmitThunk

LEMMA PushTypeEffect ==
  ASSUME NEW f, NEW s, NEW t, NEW it, it[1] = "tpush", Step(it, s, t), Fits(f, s.fun)
  PROVE  Effect(f, it, s, t)
<1>1. TypeStep(s, t, it[2])
  BY DEF Step
<1>2. ExecLocal(f, it) = PushType(f, it[2])
  BY DEF ExecLocal
<1>3. "join" \notin FaultIn(f, it)
  BY DEF FaultIn
<1>4. /\ f \in Compiled /\ s.fun \in Shapes /\ Len(f.stack) = s.fun.height /\ Len(f.stack) \in Nat
  BY CompiledParts DEF Fits
<1>5. PICK l \in LastAfter(it[2], s.fun.last) : TakeStep(s, t, 0, 0, l)
  BY <1>1 DEF TypeStep
<1>6. it[2] \in Types /\ l \in Known /\ LastFits(f, s.fun.last)
  BY <1>1 DEF TypeStep, LastAfter, Known, Fits
<1>. DEFINE g == PushType(f, it[2])
<1>7. g \in Compiled /\ Kin(f, g) /\ g.stack = f.stack /\ LastType(g) = it[2]
  BY <1>4, <1>6, TypesKeep
<1>. HIDE DEF g
<1>8. LastFits(g, l)
  <2>1. CASE l = "any"
    BY <2>1, AnyFits
  <2>2. CASE l = "sealed"
    <3>1. (it[2] = "Std" => s.fun.last = "std") /\ (it[2] = "Native" => s.fun.last = "nat")
      BY <2>2 DEF LastAfter
    <3>2. NotMistaken(g)
      BY <1>6, <1>7, <3>1 DEF NotMistaken, LastFits, TopIs
    <3>. QED
      BY <2>2, <3>2 DEF LastFits
  <2>. QED
    BY <2>1, <2>2 DEF LastAfter
<1>9. Len(g.stack) = s.fun.height - 0 + 0
  BY <1>4, <1>7
<1>10. t.ctx = s.ctx /\ Fits(g, t.fun)
  BY <1>5, <1>6, <1>7, <1>8, <1>9, Taken
<1>. QED
  BY <1>2, <1>3, <1>7, <1>10 DEF Effect, Kin, g

LEMMA PopTypesEffect ==
  ASSUME NEW f, NEW s, NEW t, NEW it, it[1] = "tpop", Step(it, s, t), Fits(f, s.fun)
  PROVE  Effect(f, it, s, t)
<1>1. UntypeStep(s, t, it[2])
  BY DEF Step
<1>2. ExecLocal(f, it) = PopTypes(f, it[2])
  BY DEF ExecLocal
<1>3. "join" \notin FaultIn(f, it)
  BY DEF FaultIn
<1>4. /\ f \in Compiled /\ s.fun \in Shapes /\ Len(f.stack) = s.fun.height /\ Len(f.stack) \in Nat
  BY CompiledParts DEF Fits
<1>5. TakeStep(s, t, 0, 0, "any") /\ it[2] \in Nat
  BY <1>1 DEF UntypeStep
<1>. DEFINE g == PopTypes(f, it[2])
<1>6. g \in Compiled /\ Kin(f, g) /\ g.stack = f.stack
  <2>1. "Unknown" \in Types
    BY DEF Types
  <2>. QED
    BY <1>4, <1>5, <2>1, TypesKeep
<1>. HIDE DEF g
<1>7. Len(g.stack) = s.fun.height - 0 + 0
  BY <1>4, <1>6
<1>8. t.ctx = s.ctx /\ Fits(g, t.fun)
  BY <1>5, <1>6, <1>7, AnyFits, Taken DEF Known
<1>. QED
  BY <1>2, <1>3, <1>6, <1>8 DEF Effect, Kin, g

LEMMA NegateEffect ==
  ASSUME NEW f, NEW s, NEW t, NEW it, it[1] = "unary", Step(it, s, t), Fits(f, s.fun)
  PROVE  Effect(f, it, s, t)
<1>1. TakeStep(s, t, 0, 0, "sealed")
  BY DEF Step
<1>2. ExecLocal(f, it) = PushType(PopTypes(f, 1), IF LastType(f) = "Number" THEN "Number" ELSE "Unknown")
  BY DEF ExecLocal
<1>3. "join" \notin FaultIn(f, it)
  BY DEF FaultIn
<1>4. /\ f \in Compiled /\ s.fun \in Shapes /\ Len(f.stack) = s.fun.height /\ Len(f.stack) \in Nat
  BY CompiledParts DEF Fits
<1>. DEFINE type == IF LastType(f) = "Number" THEN "Number" ELSE "Unknown"
            d == PopTypes(f, 1)
            g == PushType(d, type)
<1>5. type \in Types \ {"Std", "Native"}
  BY TypeNames
<1>6. d \in Compiled /\ Kin(f, d) /\ d.stack = f.stack
  BY <1>4, <1>5, TypesKeep
<1>. HIDE DEF d, type
<1>7. g \in Compiled /\ Kin(d, g) /\ g.stack = d.stack /\ LastType(g) = type
  <2>1. 1 \in Nat
    OBVIOUS
  <2>. QED
    BY <1>5, <1>6, <2>1, TypesKeep
<1>. HIDE DEF g
<1>8. LastFits(g, "sealed") /\ Kin(f, g) /\ Len(g.stack) = s.fun.height - 0 + 0
  BY <1>4, <1>5, <1>6, <1>7, SealedFits, KinTrans
<1>9. t.ctx = s.ctx /\ Fits(g, t.fun)
  BY <1>1, <1>7, <1>8, Taken DEF Known
<1>. QED
  BY <1>2, <1>3, <1>8, <1>9 DEF Effect, Kin, g, d, type

LEMMA PlusEffect ==
  ASSUME NEW f, NEW s, NEW t, NEW it, it[1] = "plus", Step(it, s, t), Fits(f, s.fun)
  PROVE  Effect(f, it, s, t)
<1>1. TakeStep(s, t, 2, 1, "sealed")
  BY DEF Step
<1>2. ExecLocal(f, it) = Plus(f)
  BY DEF ExecLocal
<1>3. "join" \notin FaultIn(f, it)
  BY DEF FaultIn
<1>4. /\ f \in Compiled /\ s.fun \in Shapes /\ Len(f.stack) = s.fun.height /\ Len(f.stack) \in Nat
  BY CompiledParts DEF Fits
<1>. DEFINE type == PlusType(LastType(PopTypes(f, 1)), LastType(f))
            kinds == PlusKind(TopOf(f, 2)[1], TopOf(f, 2)[2])
            d == Drop(f, 2)
            e == Push(d, kinds)
            b == PopTypes(e, 2)
            g == PushType(b, type)
<1>5. type \in Types \ {"Std", "Native"} /\ kinds \in SUBSET Kinds
  BY TypeNames DEF PlusType, PlusKind, Kinds
<1>6. 2 \in 0..Len(f.stack)
  BY <1>1, <1>4 DEF TakeStep
<1>7. d \in Compiled /\ Kin(f, d) /\ Len(d.stack) = Len(f.stack) - 2
  BY <1>4, <1>6, DropKeeps
<1>. HIDE DEF d, type, kinds
<1>8. e \in Compiled /\ Kin(d, e) /\ Len(e.stack) = Len(d.stack) + 1
  BY <1>5, <1>7, PushKeeps
<1>. HIDE DEF e
<1>9. b \in Compiled /\ Kin(e, b) /\ b.stack = e.stack
  <2>1. 2 \in Nat
    OBVIOUS
  <2>. QED
    BY <1>5, <1>8, <2>1, TypesKeep
<1>. HIDE DEF b
<1>10. g \in Compiled /\ Kin(b, g) /\ g.stack = b.stack /\ LastType(g) = type
  <2>1. 2 \in Nat
    OBVIOUS
  <2>. QED
    BY <1>5, <1>9, <2>1, TypesKeep
<1>. HIDE DEF g
<1>11. LastFits(g, "sealed") /\ Kin(f, g) /\ Len(g.stack) = s.fun.height - 2 + 1
  BY <1>4, <1>5, <1>7, <1>8, <1>9, <1>10, SealedFits, KinTrans
<1>12. t.ctx = s.ctx /\ Fits(g, t.fun)
  BY <1>1, <1>10, <1>11, Taken DEF Known
<1>13. ExecLocal(f, it) = g
  BY <1>2 DEF Plus, g, b, e, d, kinds, type
<1>. QED
  BY <1>3, <1>11, <1>12, <1>13 DEF Effect, Kin



LEMMA Fitting ==
  ASSUME NEW g \in Compiled, NEW v, IsVars(v), NEW h, NEW j \in Seq(Int), NEW a, NEW k, NEW l \in Known,
         Scoped(g.locals, g.scope, v), g.anon = a, g.keys = k, Len(g.stack) = h,
         JumpsFit(g.jumps, j), LastFits(g, l)
  PROVE  Fits(g, Fun(v, a, k, h, j, l))
<1>1. g.anon \in Nat /\ g.keys \in Nat /\ Len(g.stack) \in Nat
  BY CompiledParts
<1>2. Fun(v, a, k, h, j, l) \in Shapes
  BY <1>1, IsShape
<1>. QED
  BY <1>2, FunParts DEF Fits

LEMMA AnonEffect ==
  ASSUME NEW f, NEW s, NEW t, NEW it, it[1] = "anon", Step(it, s, t), Fits(f, s.fun)
  PROVE  Effect(f, it, s, t)
<1>1. AnonStep(s, t, it[2])
  BY DEF Step
<1>2. ExecLocal(f, it) = [f EXCEPT !.anon = @ + it[2]]
  BY DEF ExecLocal
<1>3. "join" \notin FaultIn(f, it)
  BY DEF FaultIn
<1>4. /\ f \in Compiled /\ s.fun \in Shapes /\ Len(f.stack) = s.fun.height /\ Len(f.stack) \in Nat
  BY CompiledParts DEF Fits
<1>5. /\ IsVars(s.fun.vars) /\ s.fun.anon \in Nat /\ s.fun.keys \in Nat /\ s.fun.height \in Nat
      /\ s.fun.jumps \in Seq(Int) /\ s.fun.last \in Known
  BY <1>4, ShapeParts
<1>6. /\ Scoped(f.locals, f.scope, s.fun.vars) /\ f.anon = s.fun.anon /\ f.keys = s.fun.keys
      /\ JumpsFit(f.jumps, s.fun.jumps) /\ LastFits(f, s.fun.last)
  BY DEF Fits
<1>7. /\ f.locals \in Seq(Variable) /\ f.scope \in Nat /\ f.stack \in Seq(SUBSET Kinds)
      /\ f.jumps \in Seq(Saved) /\ f.types \in Seq(Types)
  BY <1>4, CompiledParts
<1>. DEFINE g == [f EXCEPT !.anon = @ + it[2]]
            x == s.fun.anon + it[2]
<1>8. /\ x \in Nat /\ t.ctx = s.ctx
      /\ t.fun = Fun(s.fun.vars, x, s.fun.keys, s.fun.height, s.fun.jumps, s.fun.last)
  BY <1>1 DEF AnonStep, S
<1>9. g \in Compiled
  BY <1>4, <1>6, <1>8 DEF Compiled
<1>10. /\ g.anon = x /\ g.locals = f.locals /\ g.scope = f.scope /\ g.stack = f.stack /\ g.types = f.types
       /\ g.jumps = f.jumps /\ g.ups = f.ups /\ g.keys = f.keys
  BY <1>4, <1>6 DEF Compiled
<1>. HIDE DEF g, x
<1>11. LastFits(g, s.fun.last)
  BY <1>6, <1>10 DEF LastFits, TopIs, NotMistaken, LastType
<1>12. Fits(g, t.fun)
  BY <1>4, <1>5, <1>6, <1>8, <1>9, <1>10, <1>11, Fitting
<1>. QED
  BY <1>2, <1>3, <1>8, <1>10, <1>12 DEF Effect, g

LEMMA KeyEffect ==
  ASSUME NEW f, NEW s, NEW t, NEW it, it[1] = "key", Step(it, s, t), Fits(f, s.fun)
  PROVE  Effect(f, it, s, t)
<1>1. KeyStep(s, t, it[2])
  BY DEF Step
<1>2. ExecLocal(f, it) = [f EXCEPT !.keys = @ + it[2]]
  BY DEF ExecLocal
<1>3. "join" \notin FaultIn(f, it)
  BY DEF FaultIn
<1>4. /\ f \in Compiled /\ s.fun \in Shapes /\ Len(f.stack) = s.fun.height /\ Len(f.stack) \in Nat
  BY CompiledParts DEF Fits
<1>5. /\ IsVars(s.fun.vars) /\ s.fun.anon \in Nat /\ s.fun.keys \in Nat /\ s.fun.height \in Nat
      /\ s.fun.jumps \in Seq(Int) /\ s.fun.last \in Known
  BY <1>4, ShapeParts
<1>6. /\ Scoped(f.locals, f.scope, s.fun.vars) /\ f.anon = s.fun.anon /\ f.keys = s.fun.keys
      /\ JumpsFit(f.jumps, s.fun.jumps) /\ LastFits(f, s.fun.last)
  BY DEF Fits
<1>7. /\ f.locals \in Seq(Variable) /\ f.scope \in Nat /\ f.stack \in Seq(SUBSET Kinds)
      /\ f.jumps \in Seq(Saved) /\ f.types \in Seq(Types)
  BY <1>4, CompiledParts
<1>. DEFINE g == [f EXCEPT !.keys = @ + it[2]]
            x == s.fun.keys + it[2]
<1>8. /\ x \in Nat /\ t.ctx = s.ctx
      /\ t.fun = Fun(s.fun.vars, s.fun.anon, x, s.fun.height, s.fun.jumps, s.fun.last)
  BY <1>1 DEF KeyStep, S
<1>9. g \in Compiled
  BY <1>4, <1>6, <1>8 DEF Compiled
<1>10. /\ g.keys = x /\ g.locals = f.locals /\ g.scope = f.scope /\ g.stack = f.stack /\ g.types = f.types
       /\ g.jumps = f.jumps /\ g.ups = f.ups /\ g.anon = f.anon
  BY <1>4, <1>6 DEF Compiled
<1>. HIDE DEF g, x
<1>11. LastFits(g, s.fun.last)
  BY <1>6, <1>10 DEF LastFits, TopIs, NotMistaken, LastType
<1>12. Fits(g, t.fun)
  BY <1>4, <1>5, <1>6, <1>8, <1>9, <1>10, <1>11, Fitting
<1>. QED
  BY <1>2, <1>3, <1>8, <1>10, <1>12 DEF Effect, g

LEMMA BeginScopeEffect ==
  ASSUME NEW f, NEW s, NEW t, NEW it, it[1] = "begin_scope", Step(it, s, t), Fits(f, s.fun)
  PROVE  Effect(f, it, s, t)
<1>1. BeginScopeStep(s, t)
  BY DEF Step
<1>2. ExecLocal(f, it) = begin_scope(f)
  BY DEF ExecLocal
<1>3. "join" \notin FaultIn(f, it)
  BY DEF FaultIn
<1>4. /\ f \in Compiled /\ s.fun \in Shapes /\ Len(f.stack) = s.fun.height /\ Len(f.stack) \in Nat
  BY CompiledParts DEF Fits
<1>5. /\ IsVars(s.fun.vars) /\ s.fun.anon \in Nat /\ s.fun.keys \in Nat /\ s.fun.height \in Nat
      /\ s.fun.jumps \in Seq(Int) /\ s.fun.last \in Known
  BY <1>4, ShapeParts
<1>6. /\ Scoped(f.locals, f.scope, s.fun.vars) /\ f.anon = s.fun.anon /\ f.keys = s.fun.keys
      /\ JumpsFit(f.jumps, s.fun.jumps) /\ LastFits(f, s.fun.last)
  BY DEF Fits
<1>7. /\ f.locals \in Seq(Variable) /\ f.scope \in Nat /\ f.stack \in Seq(SUBSET Kinds)
      /\ f.jumps \in Seq(Saved) /\ f.types \in Seq(Types)
  BY <1>4, CompiledParts
<1>. DEFINE g == begin_scope(f)
            w == With(s.fun.vars, 0, {})
<1>8. t.ctx = s.ctx /\ t.fun = Fun(w, s.fun.anon, s.fun.keys, s.fun.height, s.fun.jumps, "any")
  BY <1>1 DEF BeginScopeStep, Bound, S
<1>9. /\ g \in Compiled /\ g.scope = f.scope + 1 /\ g.locals = f.locals /\ g.stack = f.stack
      /\ g.anon = f.anon /\ g.keys = f.keys /\ g.jumps = f.jumps /\ g.ups = f.ups
  <2>. DEFINE x == f.scope + 1
  <2>1. x \in Nat /\ g = [f EXCEPT !.scope = x]
    BY <1>7 DEF begin_scope
  <2>. HIDE DEF g, x
  <2>2. /\ g \in Compiled /\ g.scope = x /\ g.locals = f.locals /\ g.stack = f.stack
        /\ g.anon = f.anon /\ g.keys = f.keys /\ g.jumps = f.jumps /\ g.ups = f.ups
    BY <1>4, <2>1 DEF Compiled
  <2>. QED
    BY <2>2 DEF x
<1>10. IsVars(w)
  <2>1. 0 \in Nat /\ {} \in SUBSET AllNames
    OBVIOUS
  <2>. QED
    BY <1>5, <2>1, WithVars
<1>11. Scoped(f.locals, f.scope + 1, w)
  BY <1>5, <1>6, <1>7, ScopedBegins
<1>. HIDE DEF g, w
<1>12. Fits(g, t.fun)
  BY <1>4, <1>5, <1>6, <1>8, <1>9, <1>10, <1>11, AnyFits, Fitting DEF Known
<1>. QED
  BY <1>2, <1>3, <1>8, <1>9, <1>12 DEF Effect, g

LEMMA DeclareFits ==
  ASSUME NEW f, NEW s, NEW t, NEW x, DeclareStep(s, t, x), Fits(f, s.fun)
  PROVE  /\ t.ctx = s.ctx /\ Fits(declare_local(f, x), t.fun) /\ declare_local(f, x).ups = f.ups
<1>4. /\ f \in Compiled /\ s.fun \in Shapes /\ Len(f.stack) = s.fun.height /\ Len(f.stack) \in Nat
  BY CompiledParts DEF Fits
<1>5. /\ IsVars(s.fun.vars) /\ s.fun.anon \in Nat /\ s.fun.keys \in Nat /\ s.fun.height \in Nat
      /\ s.fun.jumps \in Seq(Int) /\ s.fun.last \in Known
  BY <1>4, ShapeParts
<1>6. /\ Scoped(f.locals, f.scope, s.fun.vars) /\ f.anon = s.fun.anon /\ f.keys = s.fun.keys
      /\ JumpsFit(f.jumps, s.fun.jumps) /\ LastFits(f, s.fun.last)
  BY DEF Fits
<1>7. /\ f.locals \in Seq(Variable) /\ f.scope \in Nat /\ f.stack \in Seq(SUBSET Kinds)
      /\ f.jumps \in Seq(Saved) /\ f.types \in Seq(Types)
  BY <1>4, CompiledParts
<1>. DEFINE e == [name |-> x, scope |-> f.scope, slot |-> Len(f.locals) + f.anon, pos |-> Len(f.stack) - 1]
            g == declare_local(f, x)
<1>8. PICK v, n, N : /\ s.fun.vars = With(v, n, N) /\ n \in Nat /\ IsVars(v)
                     /\ t = Bound(s, With(v, n + 1, N \cup {x}), s.fun.height)
  BY DEF DeclareStep
<1>. DEFINE w == With(v, n + 1, N \cup {x})
<1>9. t.ctx = s.ctx /\ t.fun = Fun(w, s.fun.anon, s.fun.keys, s.fun.height, s.fun.jumps, "any")
  BY <1>8 DEF Bound, S
<1>10. /\ x \in AllNames /\ Len(f.locals) = s.fun.vars.count /\ Len(f.locals) \in Nat
       /\ s.fun.height = s.fun.vars.count + s.fun.anon + 1
  BY <1>4, <1>6, CompiledParts DEF DeclareStep, Scoped
<1>11. Len(f.locals) + f.anon = Len(f.stack) - 1 /\ Len(f.stack) - 1 \in Nat
  <2>1. /\ Len(f.stack) = s.fun.height /\ Len(f.locals) = s.fun.vars.count /\ f.anon = s.fun.anon
        /\ s.fun.height = s.fun.vars.count + s.fun.anon + 1
    BY <1>4, <1>6, <1>10
  <2>2. s.fun.vars.count \in Nat /\ s.fun.anon \in Nat
    BY <1>5, <1>10
  <2>. QED
    BY SMTT(30), <2>1, <2>2
<1>12. e \in Variable /\ e.name = x /\ e.scope = f.scope /\ e.slot = e.pos
  BY <1>7, <1>10, <1>11 DEF Variable
<1>13. IsVars(w)
  <2>1. n + 1 \in Nat
    BY <1>8
  <2>2. N \cup {x} \in SUBSET AllNames
    <3>1. IsVars(With(v, n, N))
      BY <1>5, <1>8
    <3>2. With(v, n, N).scopes[Len(v.scopes) + 1].names = N /\ Len(v.scopes) \in Nat
          /\ DOMAIN With(v, n, N).scopes = 1..(Len(v.scopes) + 1)
      BY <1>8, WithScopes, ScopesOf
    <3>3. Len(v.scopes) + 1 \in DOMAIN With(v, n, N).scopes
      BY <3>2
    <3>4. \A sc \in Seq([from : Nat, names : SUBSET AllNames]) : \A i \in DOMAIN sc : sc[i].names \in SUBSET AllNames
      <4>. DEFINE R == [from : Nat, names : SUBSET AllNames]
      <4>1. \A r \in R : r.names \in SUBSET AllNames
        OBVIOUS
      <4>. HIDE DEF R
      <4>2. \A sc \in Seq(R) : \A i \in DOMAIN sc : sc[i].names \in SUBSET AllNames
        BY <4>1
      <4>. QED
        BY <4>2 DEF R
    <3>5. N \in SUBSET AllNames
      <4>1. With(v, n, N).scopes \in Seq([from : Nat, names : SUBSET AllNames])
        BY <3>1 DEF IsVars
      <4>2. With(v, n, N).scopes[Len(v.scopes) + 1].names \in SUBSET AllNames
        BY <3>3, <3>4, <4>1
      <4>. QED
        BY <3>2, <4>2
    <3>. QED
      BY <1>10, <3>5
  <2>. QED
    BY <1>8, <2>1, <2>2, WithVars
<1>14. Scoped(Append(f.locals, e), f.scope, w)
  <2>1. Scoped(f.locals, f.scope, With(v, n, N)) /\ IsVars(v) /\ n \in Nat
    BY <1>6, <1>8
  <2>. HIDE DEF e
  <2>. QED
    BY <1>7, <1>12, <2>1, ScopedDeclares
<1>15. /\ g \in Compiled /\ g.locals = Append(f.locals, e) /\ g.scope = f.scope /\ g.stack = f.stack
       /\ g.anon = f.anon /\ g.keys = f.keys /\ g.jumps = f.jumps /\ g.ups = f.ups
  <2>1. Append(f.locals, e) \in Seq(Variable)
    BY <1>7, <1>12
  <2>2. g = [f EXCEPT !.locals = Append(@, e)]
    BY DEF declare_local
  <2>. HIDE DEF e, g
  <2>. QED
    BY <1>4, <2>1, <2>2 DEF Compiled
<1>. HIDE DEF g, w, e
<1>16. Fits(g, t.fun)
  BY ZenonT(40), <1>4, <1>5, <1>6, <1>9, <1>13, <1>14, <1>15, AnyFits, Fitting DEF Known
<1>. QED
  BY <1>9, <1>15, <1>16 DEF g

LEMMA DeclareEffect ==
  ASSUME NEW f, NEW s, NEW t, NEW it, it[1] = "declare", Step(it, s, t), Fits(f, s.fun)
  PROVE  Effect(f, it, s, t)
<1>1. DeclareStep(s, t, it[2])
  BY DEF Step
<1>2. ExecLocal(f, it) = declare_local(f, it[2])
  BY DEF ExecLocal
<1>3. "join" \notin FaultIn(f, it)
  BY DEF FaultIn
<1>4. /\ f \in Compiled /\ s.fun \in Shapes /\ Len(f.stack) = s.fun.height /\ Len(f.stack) \in Nat
  BY CompiledParts DEF Fits
<1>. QED
  BY <1>1, <1>2, <1>3, DeclareFits DEF Effect

LEMMA EndScopeEffect ==
  ASSUME NEW f, NEW s, NEW t, NEW it, it[1] = "end_scope", Step(it, s, t), Fits(f, s.fun)
  PROVE  Effect(f, it, s, t)
<1>1. EndScopeStep(s, t)
  BY DEF Step
<1>2. ExecLocal(f, it) = end_scope(f)
  BY DEF ExecLocal
<1>3. "join" \notin FaultIn(f, it)
  BY DEF FaultIn
<1>4. /\ f \in Compiled /\ s.fun \in Shapes /\ Len(f.stack) = s.fun.height /\ Len(f.stack) \in Nat
  BY CompiledParts DEF Fits
<1>5. /\ IsVars(s.fun.vars) /\ s.fun.anon \in Nat /\ s.fun.keys \in Nat /\ s.fun.height \in Nat
      /\ s.fun.jumps \in Seq(Int) /\ s.fun.last \in Known
  BY <1>4, ShapeParts
<1>6. /\ Scoped(f.locals, f.scope, s.fun.vars) /\ f.anon = s.fun.anon /\ f.keys = s.fun.keys
      /\ JumpsFit(f.jumps, s.fun.jumps) /\ LastFits(f, s.fun.last)
  BY DEF Fits
<1>7. /\ f.locals \in Seq(Variable) /\ f.scope \in Nat /\ f.stack \in Seq(SUBSET Kinds)
      /\ f.jumps \in Seq(Saved) /\ f.types \in Seq(Types)
  BY <1>4, CompiledParts
<1>8. PICK v, n, N : /\ s.fun.vars = With(v, n, N) /\ n \in Nat /\ IsVars(v)
                     /\ n < s.fun.height /\ t = Bound(s, v, s.fun.height - n)
  BY <1>1 DEF EndScopeStep
<1>. DEFINE b == v.count
            g == end_scope(f)
            low == Len(f.stack) - 1 - n
            below == SubSeq(f.stack, 1, low)
            kept == SubSeq(f.locals, 1, b)
<1>9. t.ctx = s.ctx /\ t.fun = Fun(v, s.fun.anon, s.fun.keys, s.fun.height - n, s.fun.jumps, "any")
  BY <1>8 DEF Bound, S
<1>10. /\ Kept(f.locals, f.scope) = b /\ Len(f.locals) = b + n
       /\ Scoped(kept, f.scope - 1, v) /\ f.scope > 0 /\ b \in Nat
  <2>1. Scoped(f.locals, f.scope, With(v, n, N))
    BY <1>6, <1>8
  <2>. QED
    BY <1>7, <1>8, <2>1, ScopedEnds, ScopesOf
<1>11. g = [f EXCEPT !.locals = kept, !.stack = Append(below, Last(f.stack)), !.scope = @ - 1]
  <2>1. Len(f.locals) - b = n /\ Len(f.locals) - n = b
    BY <1>8, <1>10
  <2>. QED
    BY <1>10, <2>1 DEF end_scope
<1>12. Append(below, Last(f.stack)) \in Seq(SUBSET Kinds) /\ Len(Append(below, Last(f.stack))) = s.fun.height - n
  <2>. DEFINE K == SUBSET Kinds
  <2>1. f.stack \in Seq(K) /\ Len(f.stack) \in 1..Len(f.stack) /\ low \in 0..Len(f.stack) /\ low + 1 = s.fun.height - n
    BY SMTT(30), <1>4, <1>7, <1>8
  <2>. HIDE DEF K, low
  <2>2. Last(f.stack) \in K /\ below \in Seq(K) /\ Len(below) = low
    BY <2>1 DEF Last
  <2>. HIDE DEF below
  <2>3. Append(below, Last(f.stack)) \in Seq(K) /\ Len(Append(below, Last(f.stack))) = low + 1
    BY <2>2
  <2>. QED
    BY <2>1, <2>3 DEF K
<1>13. kept \in Seq(Variable) /\ f.scope - 1 \in Nat
  BY <1>7, <1>8, <1>10
<1>. HIDE DEF below, kept, b, low
<1>14. /\ g \in Compiled /\ g.locals = kept /\ g.scope = f.scope - 1 /\ Len(g.stack) = s.fun.height - n
       /\ g.anon = f.anon /\ g.keys = f.keys /\ g.jumps = f.jumps /\ g.ups = f.ups
  <2>. DEFINE st == Append(below, Last(f.stack))
              h == s.fun.height - n
  <2>1. st \in Seq(SUBSET Kinds) /\ Len(st) = h /\ g = [f EXCEPT !.locals = kept, !.stack = st, !.scope = @ - 1]
    BY <1>11, <1>12
  <2>. HIDE DEF g, st, h
  <2>2. Len(g.stack) = h
    BY <1>4, <2>1 DEF Compiled
  <2>3. /\ g \in Compiled /\ g.locals = kept /\ g.scope = f.scope - 1
        /\ g.anon = f.anon /\ g.keys = f.keys /\ g.jumps = f.jumps /\ g.ups = f.ups
    BY <1>4, <1>13, <2>1 DEF Compiled
  <2>. QED
    BY <2>2, <2>3 DEF h
<1>. HIDE DEF g
<1>15. Fits(g, t.fun)
  BY ZenonT(40), <1>4, <1>5, <1>6, <1>8, <1>9, <1>10, <1>14, AnyFits, Fitting DEF Known
<1>. QED
  BY <1>2, <1>3, <1>9, <1>14, <1>15 DEF Effect, g



LEMMA StoreEffect ==
  ASSUME NEW f, NEW s, NEW t, NEW it, it[1] = "store", Step(it, s, t), Fits(f, s.fun)
  PROVE  Effect(f, it, s, t)
<1>1. StoreStep(s, t, it[2])
  BY DEF Step
<1>2. ExecLocal(f, it) = Drop([f EXCEPT !.stack[Innermost(f, it[2]).slot + 1] = Last(f.stack)], 1)
  BY DEF ExecLocal
<1>3. "join" \notin FaultIn(f, it)
  BY DEF FaultIn
<1>4. /\ f \in Compiled /\ s.fun \in Shapes /\ Len(f.stack) = s.fun.height /\ Len(f.stack) \in Nat
  BY CompiledParts DEF Fits
<1>. DEFINE i == Innermost(f, it[2]).slot + 1
            set == [f.stack EXCEPT ![i] = Last(f.stack)]
            d == [f EXCEPT !.stack = set]
            g == Drop(d, 1)
            K == SUBSET Kinds
<1>5. TakeStep(s, t, 1, 0, "any") /\ 1 \in 0..Len(f.stack)
  BY <1>1, <1>4 DEF StoreStep, TakeStep
<1>6. set \in Seq(K) /\ Len(set) = Len(f.stack)
  <2>1. f.stack \in Seq(K)
    BY <1>4, CompiledParts
  <2>2. Last(f.stack) \in K
    <3>. HIDE DEF K
    <3>. QED
      BY <1>5, <2>1 DEF Last
  <2>. HIDE DEF K, i
  <2>3. f.stack \in [1..Len(f.stack) -> K]
    BY <2>1
  <2>4. set \in [1..Len(f.stack) -> K]
    BY <2>2, <2>3
  <2>. HIDE DEF set
  <2>. QED
    BY <1>4, <2>4
<1>. HIDE DEF set
<1>7. d \in Compiled /\ Kin(f, d) /\ Len(d.stack) = Len(f.stack)
  BY <1>4, <1>6 DEF Compiled, Kin
<1>. HIDE DEF d, K
<1>8. g \in Compiled /\ Kin(d, g) /\ Len(g.stack) = Len(d.stack) - 1
  BY <1>5, <1>7, DropKeeps
<1>9. ExecLocal(f, it) = g
  <2>1. [f EXCEPT !.stack[i] = Last(f.stack)] = d
    BY <1>4 DEF d, set, Compiled
  <2>. QED
    BY <1>2, <2>1
<1>. HIDE DEF g
<1>10. Kin(f, g) /\ Len(g.stack) = s.fun.height - 1 + 0
  BY <1>4, <1>7, <1>8, KinTrans
<1>11. t.ctx = s.ctx /\ Fits(g, t.fun)
  BY <1>5, <1>8, <1>10, AnyFits, Taken DEF Known
<1>. QED
  BY <1>3, <1>9, <1>10, <1>11 DEF Effect, Kin

(* The stack changes, and the jumps with it *)
Jumped(f, g, st, js, types) == g = [f EXCEPT !.stack = st, !.jumps = js, !.types = types]
Lands(s, t, st, hs) == t = Moved(s, Len(st), hs, "any")
Jumpable(st, js, hs, types) ==
  /\ st \in Seq(SUBSET Kinds) /\ js \in Seq(Saved) /\ hs \in Seq(Int) /\ JumpsFit(js, hs)
  /\ types \in Seq(Types)

LEMMA Jumping ==
  ASSUME NEW f, NEW s, Fits(f, s.fun), NEW st, NEW js, NEW hs, NEW types,
         Jumpable(st, js, hs, types), NEW g, Jumped(f, g, st, js, types), NEW t, Lands(s, t, st, hs)
  PROVE  t.ctx = s.ctx /\ Fits(g, t.fun) /\ g.ups = f.ups
<1>4. /\ f \in Compiled /\ s.fun \in Shapes /\ Len(f.stack) = s.fun.height /\ Len(f.stack) \in Nat
  BY CompiledParts DEF Fits
<1>5. /\ IsVars(s.fun.vars) /\ s.fun.anon \in Nat /\ s.fun.keys \in Nat /\ s.fun.height \in Nat
      /\ s.fun.jumps \in Seq(Int) /\ s.fun.last \in Known
  BY <1>4, ShapeParts
<1>6. /\ Scoped(f.locals, f.scope, s.fun.vars) /\ f.anon = s.fun.anon /\ f.keys = s.fun.keys
      /\ JumpsFit(f.jumps, s.fun.jumps) /\ LastFits(f, s.fun.last)
  BY DEF Fits
<1>7. /\ f.locals \in Seq(Variable) /\ f.scope \in Nat /\ f.stack \in Seq(SUBSET Kinds)
      /\ f.jumps \in Seq(Saved) /\ f.types \in Seq(Types)
  BY <1>4, CompiledParts
<1>0. /\ st \in Seq(SUBSET Kinds) /\ js \in Seq(Saved) /\ hs \in Seq(Int) /\ JumpsFit(js, hs)
      /\ types \in Seq(Types)
  BY DEF Jumpable
<1>8. t.ctx = s.ctx /\ t.fun = Fun(s.fun.vars, s.fun.anon, s.fun.keys, Len(st), hs, "any")
  BY DEF Moved, S, Lands
<1>9. /\ g \in Compiled /\ g.locals = f.locals /\ g.scope = f.scope /\ g.stack = st
      /\ g.anon = f.anon /\ g.keys = f.keys /\ g.jumps = js /\ g.ups = f.ups
  BY <1>0, <1>4 DEF Compiled, Jumped
<1>10. "any" \in Known /\ LastFits(g, "any")
  BY AnyFits DEF Known
<1>11. Scoped(g.locals, g.scope, s.fun.vars) /\ JumpsFit(g.jumps, hs) /\ Len(g.stack) = Len(st)
  BY <1>0, <1>6, <1>9
<1>12. g.anon = s.fun.anon /\ g.keys = s.fun.keys /\ g \in Compiled
  BY <1>6, <1>9
<1>13. Fits(g, Fun(s.fun.vars, s.fun.anon, s.fun.keys, Len(st), hs, "any"))
  BY <1>0, <1>5, <1>10, <1>11, <1>12, Fitting
<1>. QED
  BY <1>8, <1>9, <1>13

LEMMA RecallsHeight ==
  ASSUME NEW e \in Saved, NEW h \in Nat, Recalls(e, h)
  PROVE  e \in Seq(SUBSET Kinds) /\ Len(e) = h
<1>1. h # -1
  OBVIOUS
<1>. QED
  BY <1>1 DEF Recalls

LEMMA StackRecalled ==
  ASSUME NEW e \in Seq(SUBSET Kinds)
  PROVE  e \in Saved /\ Len(e) \in Int /\ Recalls(e, Len(e))
<1>1. Len(e) \in Nat /\ Len(e) # -1
  OBVIOUS
<1>. QED
  BY <1>1 DEF Saved, Recalls

LEMMA SameTypes ==
  ASSUME NEW f \in Compiled, NEW st, NEW js
  PROVE  [f EXCEPT !.stack = st, !.jumps = js] = [f EXCEPT !.stack = st, !.jumps = js, !.types = f.types]
  BY DEF Compiled

LEMMA JumpIfEffect ==
  ASSUME NEW f, NEW s, NEW t, NEW it, it[1] = "jumpif", Step(it, s, t), Fits(f, s.fun)
  PROVE  Effect(f, it, s, t)
<1>1. JumpIfStep(s, t)
  BY DEF Step
<1>2. ExecLocal(f, it) = JumpIfFalse(f)
  BY DEF ExecLocal
<1>3. "join" \notin FaultIn(f, it)
  BY DEF FaultIn
<1>4. /\ f \in Compiled /\ s.fun \in Shapes /\ Len(f.stack) = s.fun.height /\ Len(f.stack) \in Nat
  BY CompiledParts DEF Fits
<1>5. /\ IsVars(s.fun.vars) /\ s.fun.anon \in Nat /\ s.fun.keys \in Nat /\ s.fun.height \in Nat
      /\ s.fun.jumps \in Seq(Int) /\ s.fun.last \in Known
  BY <1>4, ShapeParts
<1>6. /\ Scoped(f.locals, f.scope, s.fun.vars) /\ f.anon = s.fun.anon /\ f.keys = s.fun.keys
      /\ JumpsFit(f.jumps, s.fun.jumps) /\ LastFits(f, s.fun.last)
  BY DEF Fits
<1>7. /\ f.locals \in Seq(Variable) /\ f.scope \in Nat /\ f.stack \in Seq(SUBSET Kinds)
      /\ f.jumps \in Seq(Saved) /\ f.types \in Seq(Types)
  BY <1>4, CompiledParts
<1>8. PICK h \in Nat : s.fun.height = h + 1 /\ t = Moved(s, h, Append(s.fun.jumps, h), "any")
  BY <1>1 DEF JumpIfStep
<1>. DEFINE st == SubSeq(f.stack, 1, Len(f.stack) - 1)
            js == Append(f.jumps, st)
            hs == Append(s.fun.jumps, h)
            types == f.types
<1>9. st \in Seq(SUBSET Kinds) /\ Len(st) = h
  <2>. DEFINE K == SUBSET Kinds
  <2>1. f.stack \in Seq(K) /\ Len(f.stack) = h + 1
    BY <1>4, <1>7, <1>8
  <2>. HIDE DEF K
  <2>2. st \in Seq(K) /\ Len(st) = h
    BY <2>1
  <2>. QED
    BY <2>2 DEF K
<1>f. st \in Seq(SUBSET Kinds) /\ js \in Seq(Saved) /\ hs \in Seq(Int) /\ JumpsFit(js, hs) /\ types \in Seq(Types) /\ Fits(f, s.fun)
  <2>. HIDE DEF st
  <2>1. st \in Saved /\ Recalls(st, h) /\ h \in Int
    BY <1>9, StackRecalled
  <2>2. js \in Seq(Saved) /\ JumpsFit(js, hs) /\ hs \in Seq(Int)
    BY <1>5, <1>6, <1>7, <2>1, JumpsPush
  <2>. QED
    BY <1>7, <1>9, <2>2
<1>m. t = Moved(s, Len(st), hs, "any")
  BY <1>8, <1>9
<1>e. ExecLocal(f, it) = [f EXCEPT !.stack = st, !.jumps = js, !.types = types]
  <2>1. JumpIfFalse(f) = [f EXCEPT !.stack = st, !.jumps = js]
    BY <1>4 DEF JumpIfFalse, Drop, Compiled
  <2>. HIDE DEF st, js
  <2>. QED
    BY <1>2, <1>4, <2>1, SameTypes
<1>. HIDE DEF st, js, hs, types
<1>y. Jumped(f, ExecLocal(f, it), st, js, types) /\ Lands(s, t, st, hs) /\ Jumpable(st, js, hs, types)
  BY <1>e, <1>f, <1>m DEF Jumped, Lands, Jumpable
<1>x. t.ctx = s.ctx /\ Fits(ExecLocal(f, it), t.fun) /\ ExecLocal(f, it).ups = f.ups
  BY <1>y, Jumping
<1>. QED
  BY <1>3, <1>x DEF Effect

LEMMA JumpEffect ==
  ASSUME NEW f, NEW s, NEW t, NEW it, it[1] = "jump", Step(it, s, t), Fits(f, s.fun)
  PROVE  Effect(f, it, s, t)
<1>1. JumpStep(s, t)
  BY DEF Step
<1>2. ExecLocal(f, it) = SwapBranch(f)
  BY DEF ExecLocal
<1>3. "join" \notin FaultIn(f, it)
  BY DEF FaultIn
<1>4. /\ f \in Compiled /\ s.fun \in Shapes /\ Len(f.stack) = s.fun.height /\ Len(f.stack) \in Nat
  BY CompiledParts DEF Fits
<1>5. /\ IsVars(s.fun.vars) /\ s.fun.anon \in Nat /\ s.fun.keys \in Nat /\ s.fun.height \in Nat
      /\ s.fun.jumps \in Seq(Int) /\ s.fun.last \in Known
  BY <1>4, ShapeParts
<1>6. /\ Scoped(f.locals, f.scope, s.fun.vars) /\ f.anon = s.fun.anon /\ f.keys = s.fun.keys
      /\ JumpsFit(f.jumps, s.fun.jumps) /\ LastFits(f, s.fun.last)
  BY DEF Fits
<1>7. /\ f.locals \in Seq(Variable) /\ f.scope \in Nat /\ f.stack \in Seq(SUBSET Kinds)
      /\ f.jumps \in Seq(Saved) /\ f.types \in Seq(Types)
  BY <1>4, CompiledParts
<1>8. PICK j, h : /\ s.fun.jumps = Append(j, h) /\ h \in Nat /\ j \in Seq(Int)
                 /\ t = Moved(s, h, Append(j, s.fun.height), "any")
  BY <1>1 DEF JumpStep
<1>. DEFINE st == Last(f.jumps)
            js == Append(Front(f.jumps), f.stack)
            hs == Append(j, Len(f.stack))
            types == f.types
<1>9. st \in Seq(SUBSET Kinds) /\ Len(st) = h /\ Front(f.jumps) \in Seq(Saved) /\ JumpsFit(Front(f.jumps), j)
  <2>1. JumpsFit(f.jumps, Append(j, h)) /\ h \in Int
    BY <1>6, <1>8
  <2>2. /\ Front(f.jumps) \in Seq(Saved) /\ JumpsFit(Front(f.jumps), j)
        /\ Recalls(Last(f.jumps), h) /\ Last(f.jumps) \in Saved
    BY <1>7, <1>8, <2>1, JumpsPop
  <2>. QED
    BY <1>8, <2>2, RecallsHeight
<1>f. st \in Seq(SUBSET Kinds) /\ js \in Seq(Saved) /\ hs \in Seq(Int) /\ JumpsFit(js, hs) /\ types \in Seq(Types) /\ Fits(f, s.fun)
  <2>1. f.stack \in Saved /\ Recalls(f.stack, Len(f.stack)) /\ Len(f.stack) \in Int
    BY <1>7, StackRecalled
  <2>2. js \in Seq(Saved) /\ JumpsFit(js, hs) /\ hs \in Seq(Int)
    BY <1>8, <1>9, <2>1, JumpsPush
  <2>. QED
    BY <1>7, <1>9, <2>2
<1>m. t = Moved(s, Len(st), hs, "any")
  BY <1>4, <1>8, <1>9
<1>e. ExecLocal(f, it) = [f EXCEPT !.stack = st, !.jumps = js, !.types = types]
  <2>1. SwapBranch(f) = [f EXCEPT !.stack = st, !.jumps = js]
    BY DEF SwapBranch
  <2>. HIDE DEF st, js
  <2>. QED
    BY <1>2, <1>4, <2>1, SameTypes
<1>. HIDE DEF st, js, hs, types
<1>y. Jumped(f, ExecLocal(f, it), st, js, types) /\ Lands(s, t, st, hs) /\ Jumpable(st, js, hs, types)
  BY <1>e, <1>f, <1>m DEF Jumped, Lands, Jumpable
<1>x. t.ctx = s.ctx /\ Fits(ExecLocal(f, it), t.fun) /\ ExecLocal(f, it).ups = f.ups
  BY <1>y, Jumping
<1>. QED
  BY <1>3, <1>x DEF Effect

LEMMA JoinEffect ==
  ASSUME NEW f, NEW s, NEW t, NEW it, it[1] = "join", Step(it, s, t), Fits(f, s.fun)
  PROVE  Effect(f, it, s, t)
<1>1. JoinStep(s, t)
  BY DEF Step
<1>2. ExecLocal(f, it) = JoinBranch(f)
  BY DEF ExecLocal
<1>4. /\ f \in Compiled /\ s.fun \in Shapes /\ Len(f.stack) = s.fun.height /\ Len(f.stack) \in Nat
  BY CompiledParts DEF Fits
<1>5. /\ IsVars(s.fun.vars) /\ s.fun.anon \in Nat /\ s.fun.keys \in Nat /\ s.fun.height \in Nat
      /\ s.fun.jumps \in Seq(Int) /\ s.fun.last \in Known
  BY <1>4, ShapeParts
<1>6. /\ Scoped(f.locals, f.scope, s.fun.vars) /\ f.anon = s.fun.anon /\ f.keys = s.fun.keys
      /\ JumpsFit(f.jumps, s.fun.jumps) /\ LastFits(f, s.fun.last)
  BY DEF Fits
<1>7. /\ f.locals \in Seq(Variable) /\ f.scope \in Nat /\ f.stack \in Seq(SUBSET Kinds)
      /\ f.jumps \in Seq(Saved) /\ f.types \in Seq(Types)
  BY <1>4, CompiledParts
<1>8. PICK j : /\ s.fun.jumps = Append(j, s.fun.height) /\ j \in Seq(Int)
              /\ t = Moved(s, s.fun.height, j, "any")
  BY <1>1 DEF JoinStep
<1>. DEFINE old == Last(f.jumps)
            st == [i \in DOMAIN f.stack |-> f.stack[i] \cup old[i]]
            js == Front(f.jumps)
            hs == j
            types == f.types
<1>9. old \in Seq(SUBSET Kinds) /\ Len(old) = Len(f.stack) /\ js \in Seq(Saved) /\ JumpsFit(js, j)
  <2>1. JumpsFit(f.jumps, Append(j, s.fun.height)) /\ s.fun.height \in Int
    BY <1>5, <1>6, <1>8
  <2>2. /\ Front(f.jumps) \in Seq(Saved) /\ JumpsFit(Front(f.jumps), j)
        /\ Recalls(Last(f.jumps), s.fun.height) /\ Last(f.jumps) \in Saved
    BY <1>7, <1>8, <2>1, JumpsPop
  <2>. QED
    BY <1>4, <1>5, <2>2, RecallsHeight
<1>3. "join" \notin FaultIn(f, it)
  BY <1>9 DEF FaultIn
<1>10. st \in Seq(SUBSET Kinds) /\ Len(st) = Len(f.stack)
  <2>1. \A i \in 1..Len(f.stack) : st[i] \in SUBSET Kinds
    BY <1>7, <1>9
  <2>2. st \in [1..Len(f.stack) -> SUBSET Kinds]
    BY <1>4, <1>7, <2>1
  <2>. DEFINE K == SUBSET Kinds
  <2>3. st \in [1..Len(f.stack) -> K] /\ Len(f.stack) \in Nat
    BY <1>4, <2>2
  <2>. HIDE DEF K, st
  <2>4. st \in Seq(K) /\ Len(st) = Len(f.stack)
    BY <2>3
  <2>. QED
    BY <2>4 DEF K
<1>f. st \in Seq(SUBSET Kinds) /\ js \in Seq(Saved) /\ hs \in Seq(Int) /\ JumpsFit(js, hs) /\ types \in Seq(Types) /\ Fits(f, s.fun)
  BY <1>7, <1>8, <1>9, <1>10
<1>m. t = Moved(s, Len(st), hs, "any")
  BY <1>4, <1>8, <1>10
<1>e. ExecLocal(f, it) = [f EXCEPT !.stack = st, !.jumps = js, !.types = types]
  <2>1. JoinBranch(f) = [f EXCEPT !.stack = st, !.jumps = js]
    BY <1>4, <1>9 DEF JoinBranch, Compiled
  <2>. HIDE DEF st, js
  <2>. QED
    BY <1>2, <1>4, <2>1, SameTypes
<1>. HIDE DEF st, js, hs, types
<1>y. Jumped(f, ExecLocal(f, it), st, js, types) /\ Lands(s, t, st, hs) /\ Jumpable(st, js, hs, types)
  BY <1>e, <1>f, <1>m DEF Jumped, Lands, Jumpable
<1>x. t.ctx = s.ctx /\ Fits(ExecLocal(f, it), t.fun) /\ ExecLocal(f, it).ups = f.ups
  BY <1>y, Jumping
<1>. QED
  BY <1>3, <1>x DEF Effect

LEMMA MarkEffect ==
  ASSUME NEW f, NEW s, NEW t, NEW it, it[1] = "mark", Step(it, s, t), Fits(f, s.fun)
  PROVE  Effect(f, it, s, t)
<1>1. MarkStep(s, t)
  BY DEF Step
<1>2. ExecLocal(f, it) = [f EXCEPT !.jumps = Append(@, f.stack)]
  BY DEF ExecLocal
<1>3. "join" \notin FaultIn(f, it)
  BY DEF FaultIn
<1>4. /\ f \in Compiled /\ s.fun \in Shapes /\ Len(f.stack) = s.fun.height /\ Len(f.stack) \in Nat
  BY CompiledParts DEF Fits
<1>5. /\ IsVars(s.fun.vars) /\ s.fun.anon \in Nat /\ s.fun.keys \in Nat /\ s.fun.height \in Nat
      /\ s.fun.jumps \in Seq(Int) /\ s.fun.last \in Known
  BY <1>4, ShapeParts
<1>6. /\ Scoped(f.locals, f.scope, s.fun.vars) /\ f.anon = s.fun.anon /\ f.keys = s.fun.keys
      /\ JumpsFit(f.jumps, s.fun.jumps) /\ LastFits(f, s.fun.last)
  BY DEF Fits
<1>7. /\ f.locals \in Seq(Variable) /\ f.scope \in Nat /\ f.stack \in Seq(SUBSET Kinds)
      /\ f.jumps \in Seq(Saved) /\ f.types \in Seq(Types)
  BY <1>4, CompiledParts
<1>. DEFINE st == f.stack
            js == Append(f.jumps, f.stack)
            hs == Append(s.fun.jumps, Len(f.stack))
            types == f.types
<1>f. st \in Seq(SUBSET Kinds) /\ js \in Seq(Saved) /\ hs \in Seq(Int) /\ JumpsFit(js, hs) /\ types \in Seq(Types) /\ Fits(f, s.fun)
  <2>1. f.stack \in Saved /\ Recalls(f.stack, Len(f.stack)) /\ Len(f.stack) \in Int
    BY <1>7, StackRecalled
  <2>2. js \in Seq(Saved) /\ JumpsFit(js, hs) /\ hs \in Seq(Int)
    BY <1>5, <1>6, <1>7, <2>1, JumpsPush
  <2>. QED
    BY <1>7, <2>2
<1>m. t = Moved(s, Len(st), hs, "any")
  BY <1>1, <1>4 DEF MarkStep
<1>e. ExecLocal(f, it) = [f EXCEPT !.stack = st, !.jumps = js, !.types = types]
  BY <1>2, <1>4 DEF Compiled
<1>. HIDE DEF st, js, hs, types
<1>y. Jumped(f, ExecLocal(f, it), st, js, types) /\ Lands(s, t, st, hs) /\ Jumpable(st, js, hs, types)
  BY <1>e, <1>f, <1>m DEF Jumped, Lands, Jumpable
<1>x. t.ctx = s.ctx /\ Fits(ExecLocal(f, it), t.fun) /\ ExecLocal(f, it).ups = f.ups
  BY <1>y, Jumping
<1>. QED
  BY <1>3, <1>x DEF Effect

LEMMA LoopEffect ==
  ASSUME NEW f, NEW s, NEW t, NEW it, it[1] = "loop", Step(it, s, t), Fits(f, s.fun)
  PROVE  Effect(f, it, s, t)
<1>1. LoopStep(s, t)
  BY DEF Step
<1>2. ExecLocal(f, it) = [f EXCEPT !.stack = Last(f.jumps), !.jumps = SubSeq(@, 1, Len(@) - 2)]
  BY DEF ExecLocal
<1>4. /\ f \in Compiled /\ s.fun \in Shapes /\ Len(f.stack) = s.fun.height /\ Len(f.stack) \in Nat
  BY CompiledParts DEF Fits
<1>5. /\ IsVars(s.fun.vars) /\ s.fun.anon \in Nat /\ s.fun.keys \in Nat /\ s.fun.height \in Nat
      /\ s.fun.jumps \in Seq(Int) /\ s.fun.last \in Known
  BY <1>4, ShapeParts
<1>6. /\ Scoped(f.locals, f.scope, s.fun.vars) /\ f.anon = s.fun.anon /\ f.keys = s.fun.keys
      /\ JumpsFit(f.jumps, s.fun.jumps) /\ LastFits(f, s.fun.last)
  BY DEF Fits
<1>7. /\ f.locals \in Seq(Variable) /\ f.scope \in Nat /\ f.stack \in Seq(SUBSET Kinds)
      /\ f.jumps \in Seq(Saved) /\ f.types \in Seq(Types)
  BY <1>4, CompiledParts
<1>. DEFINE x == s.fun.height
            st == Last(f.jumps)
            js == SubSeq(f.jumps, 1, Len(f.jumps) - 2)
            mid == f.jumps[Len(f.jumps) - 1]
            types == f.types
<1>8. PICK j, h : /\ s.fun.jumps = Append(Append(j, x), h) /\ h \in Nat
                 /\ j \in Seq(Int) /\ t = Moved(s, h, j, "any") /\ x \in Int
  BY SMTT(30), <1>1, <1>5 DEF LoopStep
<1>. DEFINE hs == j
<1>9. /\ Front(f.jumps) \in Seq(Saved) /\ JumpsFit(Front(f.jumps), Append(j, x))
      /\ Recalls(Last(f.jumps), h) /\ Last(f.jumps) \in Saved
      /\ Front(f.jumps) = SubSeq(f.jumps, 1, Len(f.jumps) - 1) /\ Len(f.jumps) = Len(Append(j, x)) + 1
  <2>. DEFINE hs1 == Append(j, x)
  <2>1. hs1 \in Seq(Int) /\ h \in Int /\ JumpsFit(f.jumps, Append(hs1, h))
    BY <1>6, <1>8
  <2>. HIDE DEF hs1
  <2>2. /\ Front(f.jumps) \in Seq(Saved) /\ JumpsFit(Front(f.jumps), hs1)
        /\ Recalls(Last(f.jumps), h) /\ Last(f.jumps) \in Saved
        /\ Front(f.jumps) = SubSeq(f.jumps, 1, Len(f.jumps) - 1) /\ Len(f.jumps) = Len(hs1) + 1
    BY <1>7, <2>1, JumpsPop
  <2>. QED
    BY <2>2 DEF hs1
<1>10. /\ js \in Seq(Saved) /\ JumpsFit(js, j) /\ Recalls(mid, x)
       /\ mid \in Saved
  <2>. DEFINE fr == Front(f.jumps)
  <2>1. fr \in Seq(Saved) /\ JumpsFit(fr, Append(j, x)) /\ x \in Int /\ j \in Seq(Int)
    BY <1>8, <1>9
  <2>. HIDE DEF fr
  <2>2. /\ Front(fr) \in Seq(Saved) /\ JumpsFit(Front(fr), j) /\ Recalls(Last(fr), x) /\ Last(fr) \in Saved
        /\ Front(fr) = SubSeq(fr, 1, Len(fr) - 1) /\ Len(fr) = Len(j) + 1
    BY <2>1, JumpsPop
  <2>3. Front(fr) = js /\ Last(fr) = mid
    <3>. DEFINE n == Len(f.jumps)
    <3>1. n \in Nat /\ n = Len(j) + 2 /\ Len(j) \in Nat
      BY <1>7, <1>8, <1>9
    <3>2. fr = SubSeq(f.jumps, 1, n - 1) /\ f.jumps \in Seq(Saved)
      BY <1>7, <1>9 DEF fr
    <3>. HIDE DEF Saved, n
    <3>3. Len(fr) = n - 1 /\ n - 1 - 1 = n - 2 /\ n - 1 >= 1
      BY <2>2, <3>1
    <3>4. n = Len(f.jumps)
      BY DEF n
    <3>5. Last(fr) = f.jumps[n - 1]
      BY <3>1, <3>2, <3>3, <3>4 DEF Last
    <3>6. SubSeq(fr, 1, n - 2) = SubSeq(f.jumps, 1, n - 2)
      BY <3>1, <3>2, <3>3, <3>4
    <3>. QED
      BY <2>2, <3>3, <3>4, <3>5, <3>6
  <2>. QED
    BY <2>2, <2>3
<1>11. /\ st \in Seq(SUBSET Kinds) /\ Len(st) = h /\ Len(mid) = Len(f.stack)
  BY <1>4, <1>5, <1>8, <1>9, <1>10, RecallsHeight
<1>3. "join" \notin FaultIn(f, it)
  BY <1>11 DEF FaultIn
<1>f. st \in Seq(SUBSET Kinds) /\ js \in Seq(Saved) /\ hs \in Seq(Int) /\ JumpsFit(js, hs) /\ types \in Seq(Types) /\ Fits(f, s.fun)
  BY <1>7, <1>8, <1>10, <1>11
<1>m. t = Moved(s, Len(st), hs, "any")
  BY <1>8, <1>11
<1>e. ExecLocal(f, it) = [f EXCEPT !.stack = st, !.jumps = js, !.types = types]
  BY <1>2, <1>4 DEF Compiled
<1>. HIDE DEF st, js, hs, types, mid
<1>y. Jumped(f, ExecLocal(f, it), st, js, types) /\ Lands(s, t, st, hs) /\ Jumpable(st, js, hs, types)
  BY <1>e, <1>f, <1>m DEF Jumped, Lands, Jumpable
<1>x. t.ctx = s.ctx /\ Fits(ExecLocal(f, it), t.fun) /\ ExecLocal(f, it).ups = f.ups
  BY <1>y, Jumping
<1>. QED
  BY <1>3, <1>x DEF Effect

LEMMA SaveEffect ==
  ASSUME NEW f, NEW s, NEW t, NEW it, it[1] = "save", Step(it, s, t), Fits(f, s.fun)
  PROVE  Effect(f, it, s, t)
<1>1. SaveStep(s, t)
  BY DEF Step
<1>2. ExecLocal(f, it) = [f EXCEPT !.jumps = @ \o <<f.types, f.stack>>]
  BY DEF ExecLocal
<1>3. "join" \notin FaultIn(f, it)
  BY DEF FaultIn
<1>4. /\ f \in Compiled /\ s.fun \in Shapes /\ Len(f.stack) = s.fun.height /\ Len(f.stack) \in Nat
  BY CompiledParts DEF Fits
<1>5. /\ IsVars(s.fun.vars) /\ s.fun.anon \in Nat /\ s.fun.keys \in Nat /\ s.fun.height \in Nat
      /\ s.fun.jumps \in Seq(Int) /\ s.fun.last \in Known
  BY <1>4, ShapeParts
<1>6. /\ Scoped(f.locals, f.scope, s.fun.vars) /\ f.anon = s.fun.anon /\ f.keys = s.fun.keys
      /\ JumpsFit(f.jumps, s.fun.jumps) /\ LastFits(f, s.fun.last)
  BY DEF Fits
<1>7. /\ f.locals \in Seq(Variable) /\ f.scope \in Nat /\ f.stack \in Seq(SUBSET Kinds)
      /\ f.jumps \in Seq(Saved) /\ f.types \in Seq(Types)
  BY <1>4, CompiledParts
<1>. DEFINE st == f.stack
            one == Append(f.jumps, f.types)
            js == Append(one, f.stack)
            hs1 == Append(s.fun.jumps, -1)
            hs == Append(hs1, Len(f.stack))
            types == f.types
<1>f. st \in Seq(SUBSET Kinds) /\ js \in Seq(Saved) /\ hs \in Seq(Int) /\ JumpsFit(js, hs) /\ types \in Seq(Types) /\ Fits(f, s.fun)
  <2>1. f.stack \in Saved /\ Recalls(f.stack, Len(f.stack)) /\ Len(f.stack) \in Int
    BY <1>7, StackRecalled
  <2>2. f.types \in Saved /\ Recalls(f.types, -1) /\ -1 \in Int
    BY <1>7 DEF Saved, Recalls
  <2>3. one \in Seq(Saved) /\ JumpsFit(one, hs1) /\ hs1 \in Seq(Int)
    BY <1>5, <1>6, <1>7, <2>2, JumpsPush
  <2>. HIDE DEF one, hs1
  <2>4. js \in Seq(Saved) /\ JumpsFit(js, hs) /\ hs \in Seq(Int)
    BY <2>1, <2>3, JumpsPush
  <2>. QED
    BY <1>7, <2>4
<1>m. t = Moved(s, Len(st), hs, "any")
  BY <1>1, <1>4 DEF SaveStep
<1>e. ExecLocal(f, it) = [f EXCEPT !.stack = st, !.jumps = js, !.types = types]
  <2>1. f.jumps \o <<f.types, f.stack>> = js
    BY SMTT(30), <1>7
  <2>2. [f EXCEPT !.jumps = js] = [f EXCEPT !.stack = st, !.jumps = js, !.types = types]
    <3>. HIDE DEF js
    <3>. QED
      BY <1>4 DEF Compiled
  <2>. QED
    BY <1>2, <2>1, <2>2
<1>. HIDE DEF st, js, hs, types
<1>y. Jumped(f, ExecLocal(f, it), st, js, types) /\ Lands(s, t, st, hs) /\ Jumpable(st, js, hs, types)
  BY <1>e, <1>f, <1>m DEF Jumped, Lands, Jumpable
<1>x. t.ctx = s.ctx /\ Fits(ExecLocal(f, it), t.fun) /\ ExecLocal(f, it).ups = f.ups
  BY <1>y, Jumping
<1>. QED
  BY <1>3, <1>x DEF Effect

LEMMA RollbackEffect ==
  ASSUME NEW f, NEW s, NEW t, NEW it, it[1] = "rollback", Step(it, s, t), Fits(f, s.fun)
  PROVE  Effect(f, it, s, t)
<1>1. RollbackStep(s, t)
  BY DEF Step
<1>2. ExecLocal(f, it) = [f EXCEPT !.stack = Last(f.jumps), !.types = f.jumps[Len(f.jumps) - 1], !.jumps = SubSeq(@, 1, Len(@) - 2)]
  BY DEF ExecLocal
<1>3. "join" \notin FaultIn(f, it)
  BY DEF FaultIn
<1>4. /\ f \in Compiled /\ s.fun \in Shapes /\ Len(f.stack) = s.fun.height /\ Len(f.stack) \in Nat
  BY CompiledParts DEF Fits
<1>5. /\ IsVars(s.fun.vars) /\ s.fun.anon \in Nat /\ s.fun.keys \in Nat /\ s.fun.height \in Nat
      /\ s.fun.jumps \in Seq(Int) /\ s.fun.last \in Known
  BY <1>4, ShapeParts
<1>6. /\ Scoped(f.locals, f.scope, s.fun.vars) /\ f.anon = s.fun.anon /\ f.keys = s.fun.keys
      /\ JumpsFit(f.jumps, s.fun.jumps) /\ LastFits(f, s.fun.last)
  BY DEF Fits
<1>7. /\ f.locals \in Seq(Variable) /\ f.scope \in Nat /\ f.stack \in Seq(SUBSET Kinds)
      /\ f.jumps \in Seq(Saved) /\ f.types \in Seq(Types)
  BY <1>4, CompiledParts
<1>. DEFINE x == -1
            st == Last(f.jumps)
            js == SubSeq(f.jumps, 1, Len(f.jumps) - 2)
            mid == f.jumps[Len(f.jumps) - 1]
            types == mid
<1>8. PICK j, h : /\ s.fun.jumps = Append(Append(j, x), h) /\ h \in Nat
                 /\ j \in Seq(Int) /\ t = Moved(s, h, j, "any") /\ x \in Int
  BY <1>1 DEF RollbackStep
<1>. DEFINE hs == j
<1>9. /\ Front(f.jumps) \in Seq(Saved) /\ JumpsFit(Front(f.jumps), Append(j, x))
      /\ Recalls(Last(f.jumps), h) /\ Last(f.jumps) \in Saved
      /\ Front(f.jumps) = SubSeq(f.jumps, 1, Len(f.jumps) - 1) /\ Len(f.jumps) = Len(Append(j, x)) + 1
  <2>. DEFINE hs1 == Append(j, x)
  <2>1. hs1 \in Seq(Int) /\ h \in Int /\ JumpsFit(f.jumps, Append(hs1, h))
    BY <1>6, <1>8
  <2>. HIDE DEF hs1
  <2>2. /\ Front(f.jumps) \in Seq(Saved) /\ JumpsFit(Front(f.jumps), hs1)
        /\ Recalls(Last(f.jumps), h) /\ Last(f.jumps) \in Saved
        /\ Front(f.jumps) = SubSeq(f.jumps, 1, Len(f.jumps) - 1) /\ Len(f.jumps) = Len(hs1) + 1
    BY <1>7, <2>1, JumpsPop
  <2>. QED
    BY <2>2 DEF hs1
<1>10. /\ js \in Seq(Saved) /\ JumpsFit(js, j) /\ Recalls(mid, x)
       /\ mid \in Saved
  <2>. DEFINE fr == Front(f.jumps)
  <2>1. fr \in Seq(Saved) /\ JumpsFit(fr, Append(j, x)) /\ x \in Int /\ j \in Seq(Int)
    BY <1>8, <1>9
  <2>. HIDE DEF fr
  <2>2. /\ Front(fr) \in Seq(Saved) /\ JumpsFit(Front(fr), j) /\ Recalls(Last(fr), x) /\ Last(fr) \in Saved
        /\ Front(fr) = SubSeq(fr, 1, Len(fr) - 1) /\ Len(fr) = Len(j) + 1
    BY <2>1, JumpsPop
  <2>3. Front(fr) = js /\ Last(fr) = mid
    <3>. DEFINE n == Len(f.jumps)
    <3>1. n \in Nat /\ n = Len(j) + 2 /\ Len(j) \in Nat
      BY <1>7, <1>8, <1>9
    <3>2. fr = SubSeq(f.jumps, 1, n - 1) /\ f.jumps \in Seq(Saved)
      BY <1>7, <1>9 DEF fr
    <3>. HIDE DEF Saved, n
    <3>3. Len(fr) = n - 1 /\ n - 1 - 1 = n - 2 /\ n - 1 >= 1
      BY <2>2, <3>1
    <3>4. n = Len(f.jumps)
      BY DEF n
    <3>5. Last(fr) = f.jumps[n - 1]
      BY <3>1, <3>2, <3>3, <3>4 DEF Last
    <3>6. SubSeq(fr, 1, n - 2) = SubSeq(f.jumps, 1, n - 2)
      BY <3>1, <3>2, <3>3, <3>4
    <3>. QED
      BY <2>2, <3>3, <3>4, <3>5, <3>6
  <2>. QED
    BY <2>2, <2>3
<1>11. /\ st \in Seq(SUBSET Kinds) /\ Len(st) = h /\ mid \in Seq(Types)
  <2>1. mid \in Seq(Types)
    BY <1>10 DEF Recalls
  <2>. HIDE DEF mid, x
  <2>. QED
    BY <1>8, <1>9, <2>1, RecallsHeight
<1>f. st \in Seq(SUBSET Kinds) /\ js \in Seq(Saved) /\ hs \in Seq(Int) /\ JumpsFit(js, hs) /\ types \in Seq(Types) /\ Fits(f, s.fun)
  BY <1>8, <1>10, <1>11
<1>m. t = Moved(s, Len(st), hs, "any")
  BY <1>8, <1>11
<1>e. ExecLocal(f, it) = [f EXCEPT !.stack = st, !.jumps = js, !.types = types]
  BY <1>2, <1>4 DEF Compiled
<1>. HIDE DEF st, js, hs, types, mid
<1>y. Jumped(f, ExecLocal(f, it), st, js, types) /\ Lands(s, t, st, hs) /\ Jumpable(st, js, hs, types)
  BY <1>e, <1>f, <1>m DEF Jumped, Lands, Jumpable
<1>x. t.ctx = s.ctx /\ Fits(ExecLocal(f, it), t.fun) /\ ExecLocal(f, it).ups = f.ups
  BY <1>y, Jumping
<1>. QED
  BY <1>3, <1>x DEF Effect


(***************************************************************************)
(* Steps on the function alone                                              *)
(***************************************************************************)
LocalItems ==
  {"op", "drop", "key", "closure", "thunk", "anon", "tpush",
   "tpop", "unary", "plus", "declare", "store", "begin_scope", "end_scope",
   "jumpif", "jump", "join", "mark", "loop", "save", "rollback"}

LEMMA LocalEffect ==
  ASSUME NEW f, NEW s, NEW t, NEW it, it[1] \in LocalItems, Step(it, s, t), Fits(f, s.fun)
  PROVE  Effect(f, it, s, t)
<1>1. CASE it[1] = "op"
  BY <1>1, OpEffect
<1>2. CASE it[1] = "drop"
  BY <1>2, DropEffect
<1>3. CASE it[1] = "key"
  BY <1>3, KeyEffect
<1>4. CASE it[1] = "closure"
  BY <1>4, ClosureEffect
<1>5. CASE it[1] = "thunk"
  BY <1>5, ThunkEffect
<1>6. CASE it[1] = "anon"
  BY <1>6, AnonEffect
<1>7. CASE it[1] = "tpush"
  BY <1>7, PushTypeEffect
<1>8. CASE it[1] = "tpop"
  BY <1>8, PopTypesEffect
<1>9. CASE it[1] = "unary"
  BY <1>9, NegateEffect
<1>10. CASE it[1] = "plus"
  BY <1>10, PlusEffect
<1>11. CASE it[1] = "declare"
  BY <1>11, DeclareEffect
<1>12. CASE it[1] = "store"
  BY <1>12, StoreEffect
<1>13. CASE it[1] = "begin_scope"
  BY <1>13, BeginScopeEffect
<1>14. CASE it[1] = "end_scope"
  BY <1>14, EndScopeEffect
<1>15. CASE it[1] = "jumpif"
  BY <1>15, JumpIfEffect
<1>16. CASE it[1] = "jump"
  BY <1>16, JumpEffect
<1>17. CASE it[1] = "join"
  BY <1>17, JoinEffect
<1>18. CASE it[1] = "mark"
  BY <1>18, MarkEffect
<1>19. CASE it[1] = "loop"
  BY <1>19, LoopEffect
<1>20. CASE it[1] = "save"
  BY <1>20, SaveEffect
<1>21. CASE it[1] = "rollback"
  BY <1>21, RollbackEffect
<1>. QED
  BY <1>1, <1>2, <1>3, <1>4, <1>5, <1>6, <1>7, <1>8, <1>9, <1>10, <1>11, <1>12, <1>13, <1>14, <1>15, <1>16, <1>17, <1>18, <1>19, <1>20, <1>21 DEF LocalItems

(***************************************************************************)
(* Upvalues                                                                 *)
(***************************************************************************)
LEMMA GreatestIn ==
  ASSUME NEW n \in Nat, NEW T \in SUBSET (1..n), T # {}
  PROVE  \E last \in T : \A j \in T : j <= last
<1>. DEFINE U == {x \in 0..n : n - x \in T}
<1>1. U \in SUBSET Nat /\ U # {}
  <2>1. PICK t \in T : TRUE
    OBVIOUS
  <2>2. t \in 1..n /\ n - t \in 0..n /\ n - (n - t) = t
    OBVIOUS
  <2>3. n - t \in U
    BY <2>1, <2>2
  <2>4. U \in SUBSET Nat
    OBVIOUS
  <2>. HIDE DEF U
  <2>. QED
    BY <2>3, <2>4
<1>2. PICK first \in U : \A j \in U : first <= j
  <2>. HIDE DEF U
  <2>. QED
    BY <1>1, LeastIn
<1>3. ASSUME NEW j \in T PROVE j <= n - first
  <2>1. j \in 1..n /\ n - j \in 0..n /\ n - (n - j) = j
    OBVIOUS
  <2>2. n - j \in U
    BY <2>1
  <2>3. first <= n - j /\ first \in 0..n
    BY <1>2, <2>2
  <2>. QED
    BY <2>1, <2>3
<1>. QED
  BY <1>2, <1>3

LEMMA UpvalueAdded ==
  ASSUME NEW ups \in Seq(Upvalue), NEW d \in Upvalue
  PROVE  /\ UpIndex(ups, d) \in Nat /\ add_upvalue(ups, d) \in Seq(Upvalue)
         /\ UpIndex(ups, d) + 1 \in DOMAIN add_upvalue(ups, d)
         /\ add_upvalue(ups, d)[UpIndex(ups, d) + 1] = d
         /\ \A i \in DOMAIN ups : i \in DOMAIN add_upvalue(ups, d) /\ add_upvalue(ups, d)[i] = ups[i]
         /\ \A i \in DOMAIN add_upvalue(ups, d) : i \in DOMAIN ups \/ add_upvalue(ups, d)[i] = d
<1>. HIDE DEF Upvalue
<1>1. CASE d \in ToSet(ups)
  <2>1. PICK i \in DOMAIN ups : ups[i] = d
    BY <1>1 DEF ToSet
  <2>. DEFINE x == CHOOSE m \in DOMAIN ups : ups[m] = d
  <2>2. x \in DOMAIN ups /\ ups[x] = d
    BY <2>1
  <2>3. UpIndex(ups, d) = x - 1 /\ add_upvalue(ups, d) = ups
    BY <1>1 DEF UpIndex, add_upvalue
  <2>. HIDE DEF x
  <2>4. x - 1 \in Nat /\ x - 1 + 1 = x
    BY <2>2
  <2>. QED
    BY <2>2, <2>3, <2>4
<1>2. CASE d \notin ToSet(ups)
  <2>1. UpIndex(ups, d) = Len(ups) /\ add_upvalue(ups, d) = Append(ups, d)
    BY <1>2 DEF UpIndex, add_upvalue
  <2>2. /\ Len(ups) \in Nat /\ Append(ups, d) \in Seq(Upvalue) /\ DOMAIN ups = 1..Len(ups)
        /\ DOMAIN Append(ups, d) = 1..(Len(ups) + 1) /\ Append(ups, d)[Len(ups) + 1] = d
        /\ \A i \in 1..Len(ups) : Append(ups, d)[i] = ups[i]
    OBVIOUS
  <2>3. Len(ups) + 1 \in 1..(Len(ups) + 1) /\ \A i \in 1..(Len(ups) + 1) : i \in 1..Len(ups) \/ i = Len(ups) + 1
    BY <2>2
  <2>4. \A i \in 1..Len(ups) : i \in 1..(Len(ups) + 1)
    BY <2>2
  <2>. QED
    BY <2>1, <2>2, <2>3, <2>4
<1>. QED
  BY <1>1, <1>2

(* Each function with its locals in place *)
Placed(fs) == fs \in Seq(Compiled) /\ \A k \in DOMAIN fs : InPlace(fs[k].locals)

LEMMA InnermostHeld ==
  ASSUME NEW f \in Compiled, NEW x, Holding(f, x) # {}, InPlace(f.locals)
  PROVE  \E i \in Holding(f, x) : /\ \A j \in Holding(f, x) : j <= i
                                 /\ i \in DOMAIN f.locals /\ Innermost(f, x) = f.locals[i]
                                 /\ f.locals[i].slot = f.locals[i].pos /\ f.locals[i].slot \in Nat
<1>. DEFINE n == Len(f.locals)
            H == Holding(f, x)
<1>1. n \in Nat /\ f.locals \in Seq(Variable) /\ DOMAIN f.locals = 1..n
  BY CompiledParts
<1>2. H \in SUBSET (1..n) /\ H # {}
  BY <1>1 DEF Holding
<1>. DEFINE i == CHOOSE m \in H : \A j \in H : j <= m
<1>3. i \in H /\ \A j \in H : j <= i
  <2>. HIDE DEF H, n
  <2>1. \E m \in H : \A j \in H : j <= m
    BY <1>1, <1>2, GreatestIn
  <2>. QED
    BY <2>1
<1>4. Innermost(f, x) = f.locals[i]
  BY DEF Innermost
<1>. HIDE DEF i
<1>5. i \in DOMAIN f.locals /\ f.locals[i] \in Variable
  <2>. HIDE DEF Variable
  <2>. QED
    BY <1>1, <1>2, <1>3
<1>6. f.locals[i].slot \in Nat /\ f.locals[i].slot = f.locals[i].pos
  BY <1>5 DEF Variable, InPlace
<1>. QED
  BY <1>3, <1>4, <1>5, <1>6

LEMMA DefinerFound ==
  ASSUME NEW fs, NEW n \in Nat, NEW x, Definer(fs, n, x) # 0
  PROVE  /\ Definer(fs, n, x) \in 1..(n - 1) /\ Holding(fs[Definer(fs, n, x)], x) # {}
         /\ \A k \in 1..(n - 1) : Holding(fs[k], x) # {} => k <= Definer(fs, n, x)
<1>. DEFINE D == {k \in 1..(n - 1) : resolve_local(fs[k], x)}
<1>1. D # {}
  BY DEF Definer
<1>2. n - 1 \in Nat /\ D \in SUBSET (1..(n - 1))
  <2>1. n # 0
    BY <1>1
  <2>. QED
    BY <2>1
<1>3. \E d \in D : \A j \in D : j <= d
  <2>. HIDE DEF D
  <2>. QED
    BY <1>1, <1>2, GreatestIn
<1>4. Definer(fs, n, x) = CHOOSE k \in D : \A j \in D : j <= k
  BY <1>1 DEF Definer
<1>5. Definer(fs, n, x) \in D /\ \A j \in D : j <= Definer(fs, n, x)
  <2>. HIDE DEF D
  <2>. QED
    BY <1>3, <1>4
<1>. QED
  BY <1>5 DEF resolve_local

(* The descriptor that the function at level k gets *)
DescriptorAt(fs, x, d, f, k) ==
  IF k = d + 1 THEN [local |-> TRUE, index |-> Innermost(fs[d], x).slot]
  ELSE [local |-> FALSE, index |-> UpIndex(fs[k - 1].ups, f[k - 1])]

LEMMA DescriptorsExist ==
  ASSUME NEW fs, NEW x, NEW d \in Nat, NEW n \in Nat
  PROVE  \E f : f = [i \in (d + 1)..(n) |-> DescriptorAt(fs, x, d, f, i)]
<1>. DEFINE lo == d + 1
            hi == n
            Built(f, m) == \A i \in lo..m : f[i] = DescriptorAt(fs, x, d, f, i)
            Bad == {m \in 0..(hi - lo) : ~ \E f : Built(f, lo + m)}
<1>0. lo \in Int /\ hi \in Int
  OBVIOUS
<1>a. ASSUME NEW f, NEW g, NEW i \in Int, i = lo \/ f[i - 1] = g[i - 1]
      PROVE  DescriptorAt(fs, x, d, f, i) = DescriptorAt(fs, x, d, g, i)
  BY <1>a DEF DescriptorAt
<1>. HIDE DEF lo, hi
<1>1. Bad = {}
  <2>. SUFFICES ASSUME Bad # {} PROVE FALSE
    OBVIOUS
  <2>1. PICK m \in Bad : \A i \in Bad : m <= i
    <3>1. Bad \in SUBSET Nat
      BY <1>0
    <3>. HIDE DEF Bad
    <3>. QED
      BY <3>1, LeastIn
  <2>. DEFINE e == lo + m
  <2>2. m \in 0..(hi - lo) /\ m \in Nat
    BY <1>0
  <2>3. \E f : \A i \in lo..(e - 1) : f[i] = DescriptorAt(fs, x, d, f, i)
    <3>1. CASE m = 0
      BY <1>0, <3>1
    <3>2. CASE m # 0
      <4>1. m - 1 \in 0..(hi - lo) /\ ~(m <= m - 1) /\ lo + (m - 1) = e - 1
        BY <1>0, <2>2, <3>2
      <4>2. m - 1 \notin Bad
        BY <2>1, <4>1
      <4>3. \E f : Built(f, lo + (m - 1))
        BY <4>1, <4>2
      <4>. QED
        BY <4>1, <4>3
    <3>. QED
      BY <3>1, <3>2
  <2>4. PICK f : \A i \in lo..(e - 1) : f[i] = DescriptorAt(fs, x, d, f, i)
    BY <2>3
  <2>. DEFINE g == [i \in lo..e |-> IF i < e THEN f[i] ELSE DescriptorAt(fs, x, d, f, e)]
  <2>5. ASSUME NEW i \in lo..e PROVE g[i] = DescriptorAt(fs, x, d, g, i)
    <3>0. e \in Int /\ i \in Int /\ e >= lo
      BY <1>0, <2>2
    <3>1. CASE i < e
      <4>1. i \in lo..(e - 1) /\ (i # lo => i - 1 \in lo..e /\ i - 1 < e)
        BY <1>0, <3>0, <3>1
      <4>2. g[i] = f[i] /\ f[i] = DescriptorAt(fs, x, d, f, i) /\ (i # lo => g[i - 1] = f[i - 1])
        BY <2>4, <3>1, <4>1
      <4>. HIDE DEF g
      <4>. QED
        BY <1>a, <3>0, <4>2
    <3>2. CASE i = e
      <4>1. i # lo => i - 1 \in lo..e /\ i - 1 < e
        BY <1>0, <3>0, <3>2
      <4>2. g[i] = DescriptorAt(fs, x, d, f, i) /\ (i # lo => g[i - 1] = f[i - 1])
        BY <3>0, <3>2, <4>1
      <4>. HIDE DEF g
      <4>. QED
        BY <1>a, <3>0, <4>2
    <3>. QED
      BY <3>0, <3>1, <3>2
  <2>. HIDE DEF g
  <2>6. Built(g, lo + m)
    BY <2>5
  <2>. QED
    BY <2>1, <2>6
<1>2. \E f : Built(f, hi)
  <2>1. CASE hi < lo
    <3>1. lo..hi = {}
      BY <1>0, <2>1
    <3>. QED
      BY <3>1
  <2>2. CASE hi >= lo
    <3>1. hi - lo \in 0..(hi - lo) /\ lo + (hi - lo) = hi
      BY <1>0, <2>2
    <3>. QED
      BY <1>1, <3>1
  <2>. QED
    BY <1>0, <2>1, <2>2
<1>3. PICK f : Built(f, hi)
  BY <1>2
<1>. DEFINE g == [i \in lo..hi |-> f[i]]
<1>4. ASSUME NEW i \in lo..hi PROVE g[i] = DescriptorAt(fs, x, d, g, i)
  <2>1. i \in Int /\ (i # lo => i - 1 \in lo..hi)
    BY <1>0
  <2>2. g[i] = f[i] /\ f[i] = DescriptorAt(fs, x, d, f, i) /\ (i # lo => g[i - 1] = f[i - 1])
    BY <1>3, <2>1
  <2>. HIDE DEF g
  <2>. QED
    BY <1>a, <2>1, <2>2
<1>5. g = [i \in lo..hi |-> g[i]]
  OBVIOUS
<1>. HIDE DEF g
<1>6. g = [i \in lo..hi |-> DescriptorAt(fs, x, d, g, i)]
  BY <1>4, <1>5
<1>. QED
  BY <1>6 DEF lo, hi


LEMMA DescriptorsAre ==
  ASSUME NEW fs, NEW x, NEW n \in Nat, Len(fs) = n, NEW d \in Nat, Definer(fs, n, x) = d
  PROVE  /\ DOMAIN Descriptors(fs, x) = (d + 1)..n
         /\ \A k \in (d + 1)..n :
              Descriptors(fs, x)[k] = DescriptorAt(fs, x, d, Descriptors(fs, x), k)
<1>. DEFINE desc == CHOOSE f : f = [k \in (d + 1)..n |-> DescriptorAt(fs, x, d, f, k)]
<1>1. desc = [k \in (d + 1)..n |-> DescriptorAt(fs, x, d, desc, k)]
  BY DescriptorsExist
<1>2. Descriptors(fs, x) = desc
  BY DEF Descriptors, DescriptorAt
<1>. HIDE DEF desc
<1>. QED
  BY <1>1, <1>2

LEMMA IndexNat ==
  ASSUME NEW R, NEW ups \in Seq(R), NEW e
  PROVE  UpIndex(ups, e) \in Nat
<1>1. CASE e \in ToSet(ups)
  <2>1. \E i \in DOMAIN ups : ups[i] = e
    BY <1>1 DEF ToSet
  <2>. DEFINE m == CHOOSE i \in DOMAIN ups : ups[i] = e
  <2>2. m \in 1..Len(ups) /\ UpIndex(ups, e) = m - 1
    BY <1>1, <2>1 DEF UpIndex
  <2>. QED
    BY <2>2
<1>2. CASE e \notin ToSet(ups)
  BY <1>2 DEF UpIndex
<1>. QED
  BY <1>1, <1>2

UpsTo(f, u) == [f EXCEPT !.ups = u]

LEMMA UpsKeep ==
  ASSUME NEW f \in Compiled, NEW u \in Seq(Upvalue)
  PROVE  /\ UpsTo(f, u) \in Compiled /\ UpsTo(f, u).ups = u /\ UpsTo(f, u).locals = f.locals
         /\ UpsTo(f, u).stack = f.stack
         /\ \A s : Fits(f, s) => Fits(UpsTo(f, u), s)
<1>1. /\ UpsTo(f, u) \in Compiled /\ UpsTo(f, u).ups = u /\ UpsTo(f, u).locals = f.locals
      /\ UpsTo(f, u).scope = f.scope /\ UpsTo(f, u).anon = f.anon /\ UpsTo(f, u).keys = f.keys
      /\ UpsTo(f, u).stack = f.stack /\ UpsTo(f, u).types = f.types /\ UpsTo(f, u).jumps = f.jumps
  BY DEF UpsTo, Compiled
<1>2. ASSUME NEW l, LastFits(f, l) PROVE LastFits(UpsTo(f, u), l)
  BY <1>1, <1>2 DEF LastFits, TopIs, NotMistaken, LastType
<1>. QED
  BY <1>1, <1>2 DEF Fits

LEMMA DescriptorsTyped ==
  ASSUME NEW fs, Placed(fs), NEW x, NEW n \in Nat, Len(fs) = n, NEW d \in 1..(n - 1),
         Definer(fs, n, x) = d, Holding(fs[d], x) # {}, NEW k \in (d + 1)..n
  PROVE  Descriptors(fs, x)[k] \in Upvalue
<1>. DEFINE e == Descriptors(fs, x)[k]
<1>1. e = DescriptorAt(fs, x, d, Descriptors(fs, x), k)
  BY DescriptorsAre
<1>2. d \in 1..n /\ k \in 1..n /\ (k # d + 1 => k - 1 \in 1..n) /\ DOMAIN fs = 1..n
  BY DEF Placed
<1>3. fs[d] \in Compiled /\ InPlace(fs[d].locals) /\ (k # d + 1 => fs[k - 1] \in Compiled)
  <2>. HIDE DEF Compiled
  <2>. QED
    BY <1>2 DEF Placed
<1>. HIDE DEF e
<1>4. CASE k = d + 1
  <2>1. e = [local |-> TRUE, index |-> Innermost(fs[d], x).slot]
    BY <1>1, <1>4 DEF DescriptorAt
  <2>2. Innermost(fs[d], x).slot \in Nat
    <3>1. PICK i \in Holding(fs[d], x) : Innermost(fs[d], x) = fs[d].locals[i] /\ fs[d].locals[i].slot \in Nat
      BY <1>3, InnermostHeld
    <3>. QED
      BY <3>1
  <2>. QED
    BY <2>1, <2>2 DEF Upvalue, e
<1>5. CASE k # d + 1
  <2>1. e = [local |-> FALSE, index |-> UpIndex(fs[k - 1].ups, Descriptors(fs, x)[k - 1])]
    BY <1>1, <1>5 DEF DescriptorAt
  <2>2. UpIndex(fs[k - 1].ups, Descriptors(fs, x)[k - 1]) \in Nat
    <3>1. fs[k - 1].ups \in Seq(Upvalue)
      BY <1>3, <1>5, CompiledParts
    <3>. QED
      BY <3>1, IndexNat
  <2>. QED
    BY <2>1, <2>2 DEF Upvalue, e
<1>. QED
  BY <1>4, <1>5

(* What reading x through the chain leaves *)
LEMMA Resolved ==
  ASSUME NEW fs, Placed(fs), NEW x, NEW n \in Nat, Len(fs) = n, NEW d \in 1..(n - 1),
         Definer(fs, n, x) = d, Holding(fs[d], x) # {}
  PROVE  /\ resolve_upvalue(fs, x) \in Seq(Compiled) /\ Len(resolve_upvalue(fs, x)) = n
         /\ \A k \in 1..d : resolve_upvalue(fs, x)[k] = fs[k]
         /\ \A k \in (d + 1)..n :
              resolve_upvalue(fs, x)[k] = UpsTo(fs[k], add_upvalue(fs[k].ups, Descriptors(fs, x)[k]))
<1>. DEFINE r == resolve_upvalue(fs, x)
            desc == Descriptors(fs, x)
<1>1. DOMAIN desc = (d + 1)..n /\ DOMAIN fs = 1..n
  BY DescriptorsAre DEF Placed
<1>2. r = [k \in 1..n |-> IF k \in (d + 1)..n THEN UpsTo(fs[k], add_upvalue(fs[k].ups, desc[k]))
                         ELSE fs[k]]
  BY <1>1 DEF resolve_upvalue, UpsTo
<1>. HIDE DEF r
<1>3. ASSUME NEW k \in 1..n PROVE r[k] \in Compiled
  <2>1. fs[k] \in Compiled
    <3>. HIDE DEF Compiled
    <3>. QED
      BY <1>1 DEF Placed
  <2>2. CASE k \in (d + 1)..n
    <3>1. fs[k].ups \in Seq(Upvalue)
      BY <2>1, CompiledParts
    <3>2. desc[k] \in Upvalue
      BY <2>2, DescriptorsTyped
    <3>. HIDE DEF desc
    <3>3. add_upvalue(fs[k].ups, desc[k]) \in Seq(Upvalue)
      BY <3>1, <3>2, UpvalueAdded
    <3>4. UpsTo(fs[k], add_upvalue(fs[k].ups, desc[k])) \in Compiled
      BY <2>1, <3>3, UpsKeep
    <3>. QED
      BY <1>2, <2>2, <3>4
  <2>3. CASE k \notin (d + 1)..n
    BY <1>2, <2>1, <2>3
  <2>. QED
    BY <2>2, <2>3
<1>4. r \in Seq(Compiled) /\ Len(r) = n
  <2>. HIDE DEF Compiled
  <2>1. r \in [1..n -> Compiled]
    BY <1>2, <1>3
  <2>2. DOMAIN r = 1..n
    BY <1>2
  <2>. QED
    BY <2>1, <2>2
<1>. HIDE DEF desc
<1>5. \A k \in 1..d : k \in 1..n /\ k \notin (d + 1)..n
  OBVIOUS
<1>6. \A k \in (d + 1)..n : k \in 1..n
  OBVIOUS
<1>7. /\ \A k \in 1..d : r[k] = fs[k]
      /\ \A k \in (d + 1)..n : r[k] = UpsTo(fs[k], add_upvalue(fs[k].ups, desc[k]))
  BY <1>2, <1>5, <1>6
<1>. QED
  BY <1>4, <1>7 DEF r, desc


(* An upvalue is a variable of the function around, or an upvalue of it     *)
Leading(fs, k, e) ==
  /\ k > 1
  /\ IF e.local THEN \E l \in DOMAIN fs[k - 1].locals : fs[k - 1].locals[l].pos = e.index
     ELSE e.index + 1 \in DOMAIN fs[k - 1].ups
Chained(fs) == \A k \in DOMAIN fs : \A i \in DOMAIN fs[k].ups : Leading(fs, k, fs[k].ups[i])

LEMMA LeadingKept ==
  ASSUME NEW fs, NEW gs, NEW k \in Nat, NEW e, Leading(fs, k, e),
         gs[k - 1].locals = fs[k - 1].locals, DOMAIN fs[k - 1].ups \subseteq DOMAIN gs[k - 1].ups
  PROVE  Leading(gs, k, e)
  BY DEF Leading

LEMMA ChainedOnCur ==
  ASSUME NEW R, NEW fs \in Seq(R), fs # <<>>, Chained(fs), NEW f, f.ups = CurIn(fs).ups
  PROVE  Chained([fs EXCEPT ![Len(fs)] = f])
<1>. DEFINE n == Len(fs)
            gs == [fs EXCEPT ![n] = f]
<1>1. n \in Nat /\ n > 0 /\ DOMAIN fs = 1..n
  OBVIOUS
<1>. HIDE DEF n
<1>2. /\ DOMAIN gs = 1..n /\ gs[n] = f /\ \A k \in 1..n : k # n => gs[k] = fs[k]
  <2>1. n \in 1..n
    BY <1>1
  <2>2. DOMAIN gs = DOMAIN fs /\ (n \in DOMAIN fs => gs[n] = f)
    OBVIOUS
  <2>3. ASSUME NEW k \in 1..n, k # n PROVE gs[k] = fs[k]
    BY <1>1, <2>3
  <2>. QED
    BY <1>1, <2>1, <2>2, <2>3
<1>3. f.ups = fs[n].ups
  BY DEF CurIn, n
<1>. HIDE DEF gs
<1>4. ASSUME NEW k \in 1..n, NEW i \in DOMAIN gs[k].ups PROVE Leading(gs, k, gs[k].ups[i])
  <2>1. gs[k].ups = fs[k].ups
    BY <1>2, <1>3
  <2>2. Leading(fs, k, fs[k].ups[i])
    BY <1>1, <2>1, <1>4 DEF Chained
  <2>3. k > 1 /\ k \in Nat /\ k - 1 \in 1..n /\ k - 1 # n
    BY <1>1, <2>2 DEF Leading
  <2>4. gs[k - 1] = fs[k - 1]
    BY <1>2, <2>3
  <2>5. Leading(gs, k, fs[k].ups[i])
    BY <2>2, <2>3, <2>4, LeadingKept
  <2>. QED
    BY <2>1, <2>5
<1>. QED
  BY <1>2, <1>4 DEF Chained, gs, n

LEMMA ChainedAppend ==
  ASSUME NEW R, NEW fs \in Seq(R), Chained(fs)
  PROVE  Chained(Append(fs, NewFunction))
<1>. DEFINE n == Len(fs)
            gs == Append(fs, NewFunction)
<1>1. n \in Nat /\ DOMAIN fs = 1..n
  OBVIOUS
<1>2. DOMAIN gs = 1..(n + 1) /\ gs[n + 1] = NewFunction /\ \A k \in 1..n : gs[k] = fs[k]
  <2>. HIDE DEF NewFunction
  <2>. QED
    BY <1>1
<1>3. DOMAIN NewFunction.ups = {}
  BY DEF NewFunction
<1>. HIDE DEF n, gs
<1>4. ASSUME NEW k \in 1..(n + 1), NEW i \in DOMAIN gs[k].ups PROVE Leading(gs, k, gs[k].ups[i])
  <2>1. k \in 1..n
    BY <1>1, <1>2, <1>3, <1>4
  <2>2. gs[k] = fs[k]
    BY <1>2, <2>1
  <2>3. Leading(fs, k, fs[k].ups[i])
    BY <1>1, <2>1, <2>2, <1>4 DEF Chained
  <2>4. k \in Nat /\ k - 1 \in 1..n
    BY <1>1, <2>1, <2>3 DEF Leading
  <2>5. gs[k - 1] = fs[k - 1]
    BY <1>2, <2>4
  <2>6. Leading(gs, k, fs[k].ups[i])
    BY <2>3, <2>4, <2>5, LeadingKept
  <2>. QED
    BY <2>2, <2>6
<1>. QED
  BY <1>2, <1>4 DEF Chained, gs

LEMMA ChainedFront ==
  ASSUME NEW R, NEW fs \in Seq(R), fs # <<>>, Chained(fs)
  PROVE  Chained(Front(fs))
<1>. DEFINE n == Len(fs)
            gs == Front(fs)
<1>1. n \in Nat /\ n > 0 /\ DOMAIN fs = 1..n
  OBVIOUS
<1>2. DOMAIN gs = 1..(n - 1) /\ \A k \in 1..(n - 1) : gs[k] = fs[k]
  BY <1>1 DEF Front
<1>. HIDE DEF n, gs
<1>4. ASSUME NEW k \in 1..(n - 1), NEW i \in DOMAIN gs[k].ups PROVE Leading(gs, k, gs[k].ups[i])
  <2>1. k \in 1..n
    BY <1>1
  <2>2. gs[k] = fs[k]
    BY <1>2
  <2>3. Leading(fs, k, fs[k].ups[i])
    BY <1>1, <2>1, <2>2, <1>4 DEF Chained
  <2>4. k \in Nat /\ k - 1 \in 1..(n - 1)
    BY <1>1, <2>1, <2>3 DEF Leading
  <2>5. gs[k - 1] = fs[k - 1]
    BY <1>2, <2>4
  <2>6. Leading(gs, k, fs[k].ups[i])
    BY <2>3, <2>4, <2>5, LeadingKept
  <2>. QED
    BY <2>2, <2>6
<1>. QED
  BY <1>2, <1>4 DEF Chained, gs

LEMMA ChainedResolve ==
  ASSUME NEW fs, Placed(fs), NEW x, NEW n \in Nat, Len(fs) = n, NEW d \in 1..(n - 1),
         Definer(fs, n, x) = d, Holding(fs[d], x) # {}, Chained(fs)
  PROVE  Chained(resolve_upvalue(fs, x))
<1>. DEFINE gs == resolve_upvalue(fs, x)
            desc == Descriptors(fs, x)
            more(k) == add_upvalue(fs[k].ups, desc[k])
<1>0. DOMAIN fs = 1..n /\ d \in 1..n /\ d \in Nat
  BY DEF Placed
<1>1. /\ DOMAIN gs = 1..n
      /\ \A k \in 1..d : gs[k] = fs[k]
      /\ \A k \in (d + 1)..n : gs[k] = UpsTo(fs[k], more(k))
  <2>1. gs \in Seq(Compiled) /\ Len(gs) = n
    BY Resolved
  <2>. HIDE DEF Compiled
  <2>2. DOMAIN gs = 1..n
    <3>. HIDE DEF gs
    <3>. QED
      BY <2>1
  <2>3. /\ \A k \in 1..d : gs[k] = fs[k]
        /\ \A k \in (d + 1)..n : gs[k] = UpsTo(fs[k], more(k))
    BY Resolved
  <2>. QED
    BY <2>2, <2>3
<1>. HIDE DEF gs
<1>2. ASSUME NEW k \in 1..n PROVE fs[k] \in Compiled /\ fs[k].ups \in Seq(Upvalue)
  <2>1. fs[k] \in Compiled
    <3>. HIDE DEF Compiled
    <3>. QED
      BY <1>0 DEF Placed
  <2>. QED
    BY <2>1, CompiledParts
<1>3. ASSUME NEW k \in (d + 1)..n
      PROVE  /\ desc[k] \in Upvalue
             /\ desc[k] = DescriptorAt(fs, x, d, desc, k)
  BY ZenonT(40), <1>0, DescriptorsTyped, DescriptorsAre
<1>. HIDE DEF desc
<1>4. ASSUME NEW k \in (d + 1)..n
      PROVE  /\ gs[k].locals = fs[k].locals /\ gs[k].ups = more(k)
             /\ DOMAIN fs[k].ups \subseteq DOMAIN gs[k].ups
             /\ UpIndex(fs[k].ups, desc[k]) + 1 \in DOMAIN gs[k].ups
             /\ \A i \in DOMAIN gs[k].ups : (i \in DOMAIN fs[k].ups /\ gs[k].ups[i] = fs[k].ups[i])
                                            \/ gs[k].ups[i] = desc[k]
  <2>1. k \in 1..n
    OBVIOUS
  <2>2. fs[k].ups \in Seq(Upvalue) /\ desc[k] \in Upvalue /\ fs[k] \in Compiled
    BY <1>2, <1>3, <2>1
  <2>3. /\ more(k) \in Seq(Upvalue)
        /\ \A i \in DOMAIN fs[k].ups : i \in DOMAIN more(k) /\ more(k)[i] = fs[k].ups[i]
        /\ \A i \in DOMAIN more(k) : i \in DOMAIN fs[k].ups \/ more(k)[i] = desc[k]
        /\ UpIndex(fs[k].ups, desc[k]) + 1 \in DOMAIN more(k)
    BY <2>2, UpvalueAdded
  <2>. HIDE DEF more
  <2>4. gs[k].locals = fs[k].locals /\ gs[k].ups = more(k)
    BY <1>1, <2>2, <2>3, UpsKeep
  <2>. QED
    BY <2>3, <2>4
<1>5. ASSUME NEW k \in 1..n
      PROVE  gs[k].locals = fs[k].locals /\ DOMAIN fs[k].ups \subseteq DOMAIN gs[k].ups
  <2>1. k \in 1..d \/ k \in (d + 1)..n
    BY <1>0
  <2>. QED
    BY <1>1, <1>4, <2>1
<1>6. ASSUME NEW k \in 1..n, NEW i \in DOMAIN fs[k].ups PROVE Leading(gs, k, fs[k].ups[i])
  <2>1. Leading(fs, k, fs[k].ups[i])
    BY <1>0, <1>6 DEF Chained
  <2>2. k \in Nat /\ k - 1 \in 1..n
    BY <1>0, <2>1 DEF Leading
  <2>. QED
    BY <1>5, <2>1, <2>2, LeadingKept
<1>7. ASSUME NEW k \in (d + 1)..n PROVE Leading(gs, k, desc[k])
  <2>0. k \in Nat /\ k > 1
    BY <1>0
  <2>1. CASE k = d + 1
    <3>1. desc[k] = [local |-> TRUE, index |-> Innermost(fs[d], x).slot]
      BY <1>3, <2>1 DEF DescriptorAt
    <3>2. k - 1 = d
      BY <1>0, <2>1
    <3>3. fs[d] \in Compiled /\ InPlace(fs[d].locals)
      BY <1>0, <1>2 DEF Placed
    <3>4. PICK i \in Holding(fs[d], x) :
            /\ i \in DOMAIN fs[d].locals /\ Innermost(fs[d], x) = fs[d].locals[i]
            /\ fs[d].locals[i].slot = fs[d].locals[i].pos
      BY <3>3, InnermostHeld
    <3>5. desc[k].local /\ desc[k].index = fs[d].locals[i].pos
      BY <3>1, <3>4
    <3>6. gs[d].locals = fs[d].locals
      BY <1>0, <1>5
    <3>. QED
      BY <2>0, <3>2, <3>4, <3>5, <3>6 DEF Leading
  <2>2. CASE k # d + 1
    <3>1. desc[k] = [local |-> FALSE, index |-> UpIndex(fs[k - 1].ups, desc[k - 1])]
      BY <1>3, <2>2 DEF DescriptorAt
    <3>2. k - 1 \in (d + 1)..n
      BY <1>0, <2>2
    <3>3. UpIndex(fs[k - 1].ups, desc[k - 1]) + 1 \in DOMAIN gs[k - 1].ups
      BY <1>4, <3>2
    <3>4. ~desc[k].local /\ desc[k].index = UpIndex(fs[k - 1].ups, desc[k - 1])
      BY <3>1
    <3>. QED
      BY <2>0, <3>3, <3>4 DEF Leading
  <2>. QED
    BY <2>1, <2>2
<1>8. ASSUME NEW k \in 1..n, NEW i \in DOMAIN gs[k].ups PROVE Leading(gs, k, gs[k].ups[i])
  <2>1. CASE k \in 1..d
    <3>1. gs[k] = fs[k]
      BY <1>1, <2>1
    <3>. QED
      BY <1>6, <1>8, <3>1
  <2>2. CASE k \in (d + 1)..n
    <3>1. (i \in DOMAIN fs[k].ups /\ gs[k].ups[i] = fs[k].ups[i]) \/ gs[k].ups[i] = desc[k]
      BY <1>4, <1>8, <2>2
    <3>. QED
      BY <1>6, <1>7, <2>2, <3>1
  <2>. QED
    BY <1>0, <2>1, <2>2
<1>. QED
  BY <1>1, <1>8 DEF Chained, gs


(***************************************************************************)
(* The functions under compilation and their shapes                         *)
(***************************************************************************)
Levels(fs, c, u) ==
  /\ fs \in Seq(Compiled) /\ c \in Contexts /\ Len(fs) = Len(c.base) + 1
  /\ \A k \in DOMAIN c.base : Fits(fs[k], c.base[k])
  /\ Fits(CurIn(fs), u) /\ Chained(fs)

LEMMA LevelParts ==
  ASSUME NEW fs, NEW c, NEW u, Levels(fs, c, u)
  PROVE  /\ Len(c.base) \in Nat /\ Len(fs) = Len(c.base) + 1 /\ fs # <<>>
         /\ DOMAIN fs = 1..(Len(c.base) + 1) /\ DOMAIN c.base = 1..Len(c.base)
         /\ CurIn(fs) = fs[Len(c.base) + 1] /\ c.base \in Seq(Shapes)
         /\ \A k \in 1..(Len(c.base) + 1) : fs[k] \in Compiled
         /\ \A k \in 1..Len(c.base) : Fits(fs[k], c.base[k])
<1>1. c.base \in Seq(Shapes)
  <2>. HIDE DEF Shapes
  <2>. QED
    BY DEF Levels, Contexts
<1>. DEFINE n == Len(c.base)
<1>2. n \in Nat /\ DOMAIN c.base = 1..n
  <2>. HIDE DEF Shapes
  <2>. QED
    BY <1>1
<1>3. fs \in Seq(Compiled) /\ Len(fs) = n + 1
  BY DEF Levels
<1>. HIDE DEF n
<1>4. fs # <<>> /\ DOMAIN fs = 1..(n + 1) /\ \A k \in 1..(n + 1) : fs[k] \in Compiled
  <2>. HIDE DEF Compiled
  <2>. QED
    BY <1>2, <1>3
<1>5. CurIn(fs) = fs[n + 1]
  BY <1>3 DEF CurIn
<1>6. \A k \in 1..n : Fits(fs[k], c.base[k])
  BY <1>2 DEF Levels
<1>. QED
  BY <1>1, <1>2, <1>3, <1>4, <1>5, <1>6 DEF n

LEMMA LevelsPlaced ==
  ASSUME NEW fs, NEW c, NEW u, Levels(fs, c, u)
  PROVE  Placed(fs)
<1>. DEFINE n == Len(c.base)
<1>1. /\ n \in Nat /\ DOMAIN fs = 1..(n + 1) /\ CurIn(fs) = fs[n + 1]
      /\ \A k \in 1..n : Fits(fs[k], c.base[k])
  BY LevelParts
<1>2. fs \in Seq(Compiled) /\ Fits(fs[n + 1], u)
  BY <1>1 DEF Levels
<1>. HIDE DEF n
<1>3. ASSUME NEW k \in 1..(n + 1) PROVE InPlace(fs[k].locals)
  <2>1. k \in 1..n \/ k = n + 1
    BY <1>1
  <2>2. \E v : Fits(fs[k], v)
    BY <1>1, <1>2, <2>1
  <2>. QED
    BY <2>2 DEF Fits, Scoped
<1>. QED
  BY <1>1, <1>2, <1>3 DEF Placed

LEMMA LevelsOnCur ==
  ASSUME NEW fs, NEW c, NEW u, NEW w, NEW f, Levels(fs, c, u), Fits(f, w), f.ups = CurIn(fs).ups
  PROVE  Levels([fs EXCEPT ![Len(fs)] = f], c, w)
<1>. DEFINE n == Len(c.base)
            gs == [fs EXCEPT ![Len(fs)] = f]
<1>1. /\ n \in Nat /\ Len(fs) = n + 1 /\ fs # <<>> /\ DOMAIN fs = 1..(n + 1)
      /\ DOMAIN c.base = 1..n /\ \A k \in 1..n : Fits(fs[k], c.base[k])
  BY LevelParts
<1>2. fs \in Seq(Compiled) /\ c \in Contexts /\ Chained(fs)
  BY DEF Levels
<1>3. f \in Compiled
  BY DEF Fits
<1>. HIDE DEF Compiled
<1>4. gs \in Seq(Compiled) /\ Len(gs) = n + 1 /\ Chained(gs)
  <2>1. Chained(gs)
    BY <1>1, <1>2, ChainedOnCur
  <2>. HIDE DEF n
  <2>2. gs \in Seq(Compiled) /\ Len(gs) = n + 1
    BY <1>1, <1>2, <1>3
  <2>. QED
    BY <2>1, <2>2
<1>5. CurIn(gs) = f /\ \A k \in 1..n : gs[k] = fs[k]
  <2>. HIDE DEF n
  <2>1. n + 1 \in DOMAIN fs /\ \A k \in 1..n : k \in DOMAIN fs /\ k # n + 1
    BY <1>1
  <2>2. gs[n + 1] = f /\ \A k \in 1..n : gs[k] = fs[k]
    BY <1>1, <2>1
  <2>. HIDE DEF gs
  <2>. QED
    BY <1>4, <2>2 DEF CurIn
<1>. HIDE DEF gs
<1>. QED
  BY <1>1, <1>2, <1>4, <1>5 DEF Levels, gs

LEMMA NewFits == Fits(NewFunction, Fun(NoVars, 0, 0, 0, <<>>, "any"))
<1>. DEFINE g == NewFunction
<1>1. g \in Compiled /\ g.locals = <<>> /\ g.scope = 0 /\ g.anon = 0 /\ g.keys = 0
      /\ Len(g.stack) = 0 /\ g.jumps = <<>>
  <2>1. <<>> \in Seq(Variable) /\ <<>> \in Seq(Types) /\ <<>> \in Seq(Upvalue) /\ <<>> \in Seq(Saved)
    BY EmptySeq
  <2>2. <<>> \in Seq(SUBSET Kinds)
    BY EmptySeq
  <2>. QED
    BY <2>1, <2>2 DEF NewFunction, Compiled
<1>2. IsVars(NoVars)
  <2>. DEFINE E == [from : Nat, names : SUBSET AllNames]
  <2>1. <<>> \in Seq(E)
    <3>. HIDE DEF E
    <3>. QED
      BY EmptySeq
  <2>. QED
    BY <2>1 DEF NoVars, IsVars
<1>3. Scoped(g.locals, g.scope, NoVars)
  BY <1>1 DEF Scoped, InPlace, InOrder, Named, NoVars
<1>4. JumpsFit(g.jumps, <<>>)
  BY <1>1 DEF JumpsFit
<1>5. <<>> \in Seq(Int) /\ 0 \in Nat /\ "any" \in Known
  BY DEF Known
<1>. HIDE DEF g
<1>. QED
  BY <1>1, <1>2, <1>3, <1>4, <1>5, AnyFits, Fitting DEF g

LEMMA LevelsBegin ==
  ASSUME NEW fs, NEW c, NEW u, Levels(fs, c, u)
  PROVE  Levels(Append(fs, NewFunction), Within(c, u), Fun(NoVars, 0, 0, 0, <<>>, "any"))
<1>. DEFINE n == Len(c.base)
            gs == Append(fs, NewFunction)
            b == Append(c.base, u)
<1>1. /\ n \in Nat /\ Len(fs) = n + 1 /\ DOMAIN fs = 1..(n + 1)
      /\ CurIn(fs) = fs[n + 1] /\ c.base \in Seq(Shapes)
      /\ \A k \in 1..n : Fits(fs[k], c.base[k])
  BY LevelParts
<1>2. fs \in Seq(Compiled) /\ c \in Contexts /\ Chained(fs) /\ Fits(fs[n + 1], u)
  BY <1>1 DEF Levels
<1>3. u \in Shapes /\ NewFunction \in Compiled
  BY <1>2, NewFits DEF Fits
<1>4. Chained(gs)
  BY <1>2, ChainedAppend
<1>5. gs \in Seq(Compiled) /\ Len(gs) = n + 2 /\ gs[n + 2] = NewFunction /\ \A k \in 1..(n + 1) : gs[k] = fs[k]
  <2>. HIDE DEF Compiled, NewFunction, n
  <2>. QED
    BY <1>1, <1>2, <1>3
<1>6. b \in Seq(Shapes) /\ Len(b) = n + 1 /\ DOMAIN b = 1..(n + 1) /\ b[n + 1] = u /\ \A k \in 1..n : b[k] = c.base[k]
  <2>. HIDE DEF Shapes
  <2>. QED
    BY <1>1, <1>3
<1>. HIDE DEF gs, b, n
<1>7. CurIn(gs) = NewFunction
  BY <1>5 DEF CurIn
<1>8. ASSUME NEW k \in 1..(n + 1) PROVE Fits(gs[k], b[k])
  <2>1. k \in 1..n \/ k = n + 1
    BY <1>1
  <2>. QED
    BY <1>1, <1>2, <1>5, <1>6, <2>1
<1>9. Within(c, u) \in Contexts /\ Within(c, u).base = b
  BY <1>2, <1>6 DEF Within, Contexts, b
<1>10. Len(gs) = Len(b) + 1
  BY <1>1, <1>5, <1>6
<1>. QED
  BY <1>4, <1>5, <1>6, <1>7, <1>8, <1>9, <1>10, NewFits DEF Levels, gs

LEMMA LevelsEnd ==
  ASSUME NEW fs, NEW c, NEW u, Levels(fs, c, u), NEW b \in Seq(Shapes), NEW g \in Shapes,
         c.base = Append(b, g), NEW d, d \in Contexts, d.base = b
  PROVE  Levels(Front(fs), d, g)
<1>. DEFINE n == Len(b)
            gs == Front(fs)
<1>1. n \in Nat /\ DOMAIN b = 1..n /\ Len(c.base) = n + 1 /\ c.base[n + 1] = g /\ \A k \in 1..n : c.base[k] = b[k]
  <2>. HIDE DEF Shapes
  <2>. QED
    OBVIOUS
<1>. HIDE DEF n
<1>2. /\ Len(fs) = n + 2 /\ fs # <<>>
      /\ \A k \in 1..(n + 1) : Fits(fs[k], c.base[k])
  <2>1. Len(fs) = Len(c.base) + 1 /\ fs # <<>> /\ \A k \in 1..Len(c.base) : Fits(fs[k], c.base[k])
    BY LevelParts
  <2>. QED
    BY <1>1, <2>1
<1>3. fs \in Seq(Compiled) /\ Chained(fs)
  BY DEF Levels
<1>4. Chained(gs)
  BY <1>2, <1>3, ChainedFront
<1>5. gs \in Seq(Compiled) /\ Len(gs) = n + 1 /\ \A k \in 1..(n + 1) : gs[k] = fs[k]
  <2>. HIDE DEF Compiled
  <2>. QED
    BY <1>1, <1>2, <1>3 DEF Front
<1>. HIDE DEF gs
<1>6. CurIn(gs) = fs[n + 1] /\ n + 1 \in 1..(n + 1)
  BY <1>1, <1>5 DEF CurIn
<1>7. Fits(CurIn(gs), g)
  BY <1>1, <1>2, <1>6
<1>8. ASSUME NEW k \in 1..n PROVE Fits(gs[k], b[k])
  <2>1. k \in 1..(n + 1)
    BY <1>1
  <2>. QED
    BY <1>1, <1>2, <1>5, <2>1
<1>. QED
  BY <1>1, <1>4, <1>5, <1>7, <1>8 DEF Levels, gs, n


LEMMA LevelsResolve ==
  ASSUME NEW fs, NEW c, NEW u, Levels(fs, c, u), NEW x, Definer(fs, Len(fs), x) # 0
  PROVE  Levels(resolve_upvalue(fs, x), c, u)
<1>. DEFINE n == Len(fs)
            d == Definer(fs, n, x)
            gs == resolve_upvalue(fs, x)
            m == Len(c.base)
            more(k) == add_upvalue(fs[k].ups, Descriptors(fs, x)[k])
<1>1. /\ m \in Nat /\ n = m + 1 /\ n \in Nat /\ DOMAIN fs = 1..n /\ DOMAIN c.base = 1..m
      /\ CurIn(fs) = fs[n] /\ \A k \in 1..m : Fits(fs[k], c.base[k])
  <2>1. /\ m \in Nat /\ n = m + 1 /\ DOMAIN fs = 1..(m + 1) /\ DOMAIN c.base = 1..m
        /\ CurIn(fs) = fs[m + 1] /\ \A k \in 1..m : Fits(fs[k], c.base[k])
    BY LevelParts
  <2>. QED
    BY <2>1
<1>2. Placed(fs) /\ Chained(fs) /\ Fits(fs[n], u) /\ c \in Contexts
  BY <1>1, LevelsPlaced DEF Levels
<1>. HIDE DEF n
<1>3. d \in 1..(n - 1) /\ Holding(fs[d], x) # {}
  BY <1>1, DefinerFound DEF n
<1>4. /\ gs \in Seq(Compiled) /\ Len(gs) = n
      /\ \A k \in 1..d : gs[k] = fs[k]
      /\ \A k \in (d + 1)..n : gs[k] = UpsTo(fs[k], more(k))
  <2>1. Len(fs) = n /\ Definer(fs, n, x) = d
    BY DEF n
  <2>2. Placed(fs) /\ n \in Nat /\ d \in 1..(n - 1) /\ Holding(fs[d], x) # {}
    BY <1>1, <1>2, <1>3
  <2>. HIDE DEF d
  <2>. QED
    BY <2>1, <2>2, Resolved
<1>5. Chained(gs)
  BY <1>1, <1>2, <1>3, ChainedResolve DEF n
<1>6. ASSUME NEW k \in 1..n, NEW s, Fits(fs[k], s) PROVE Fits(gs[k], s)
  <2>1. CASE k \in 1..d
    BY <1>4, <1>6, <2>1
  <2>2. CASE k \in (d + 1)..n
    <3>1. fs[k] \in Compiled
      BY <1>6 DEF Fits
    <3>2. fs[k].ups \in Seq(Upvalue)
      BY <3>1, CompiledParts
    <3>3. Descriptors(fs, x)[k] \in Upvalue
      BY <1>1, <1>2, <1>3, <2>2, DescriptorsTyped DEF n
    <3>4. more(k) \in Seq(Upvalue)
      BY <3>2, <3>3, UpvalueAdded
    <3>. HIDE DEF more
    <3>5. Fits(UpsTo(fs[k], more(k)), s)
      BY <1>6, <3>1, <3>4, UpsKeep
    <3>. QED
      BY <1>4, <2>2, <3>5
  <2>. HIDE DEF d
  <2>3. k \in 1..d \/ k \in (d + 1)..n
    BY <1>1, <1>3
  <2>. QED
    BY <2>1, <2>2, <2>3
<1>. HIDE DEF gs, d
<1>7. CurIn(gs) = gs[n] /\ n \in 1..n
  BY <1>1, <1>4 DEF CurIn
<1>8. Fits(CurIn(gs), u)
  BY <1>2, <1>6, <1>7
<1>9. ASSUME NEW k \in 1..m PROVE Fits(gs[k], c.base[k])
  <2>1. k \in 1..n
    BY <1>1
  <2>. QED
    BY <1>1, <1>6, <2>1
<1>. QED
  BY <1>1, <1>2, <1>4, <1>5, <1>8, <1>9 DEF Levels, gs

Pushed(u) == Fun(u.vars, u.anon, u.keys, u.height + 1, u.jumps, "any")

LEMMA PushFits ==
  ASSUME NEW f, NEW u, Fits(f, u), NEW k \in SUBSET Kinds
  PROVE  Fits(Push(f, k), Pushed(u)) /\ Push(f, k).ups = f.ups
<1>1. /\ f \in Compiled /\ u \in Shapes /\ Scoped(f.locals, f.scope, u.vars) /\ f.anon = u.anon
      /\ f.keys = u.keys /\ Len(f.stack) = u.height /\ JumpsFit(f.jumps, u.jumps)
  BY DEF Fits
<1>2. /\ Push(f, k) \in Compiled /\ Kin(f, Push(f, k)) /\ Len(Push(f, k).stack) = u.height + 1
  BY <1>1, PushKeeps
<1>3. IsVars(u.vars) /\ u.jumps \in Seq(Int) /\ "any" \in Known
  BY <1>1, ShapeParts DEF Known
<1>4. /\ Push(f, k).locals = f.locals /\ Push(f, k).scope = f.scope /\ Push(f, k).anon = f.anon
      /\ Push(f, k).keys = f.keys /\ Push(f, k).jumps = f.jumps /\ Push(f, k).ups = f.ups
  BY <1>2 DEF Kin
<1>. DEFINE g == Push(f, k)
            h == u.height + 1
<1>5. g \in Compiled /\ Scoped(g.locals, g.scope, u.vars) /\ g.anon = u.anon /\ g.keys = u.keys
      /\ Len(g.stack) = h /\ JumpsFit(g.jumps, u.jumps) /\ LastFits(g, "any")
  BY <1>1, <1>2, <1>4, AnyFits
<1>. HIDE DEF g, h
<1>6. Fits(g, Fun(u.vars, u.anon, u.keys, h, u.jumps, "any"))
  BY <1>3, <1>5, Fitting
<1>. QED
  BY <1>4, <1>6 DEF Pushed, g, h

LEMMA LevelsPush ==
  ASSUME NEW fs, NEW c, NEW u, Levels(fs, c, u), NEW k \in SUBSET Kinds
  PROVE  Levels([fs EXCEPT ![Len(fs)] = Push(CurIn(fs), k)], c, Pushed(u))
<1>1. Fits(CurIn(fs), u)
  BY DEF Levels
<1>2. Fits(Push(CurIn(fs), k), Pushed(u)) /\ Push(CurIn(fs), k).ups = CurIn(fs).ups
  BY <1>1, PushFits
<1>. QED
  BY <1>2, LevelsOnCur

(* A name that the shapes declare is one that the compiler finds *)
LEMMA FitHolds ==
  ASSUME NEW f, NEW u, Fits(f, u), NEW x
  PROVE  Declares(u.vars, x) <=> Holding(f, x) # {}
<1>1. f.locals \in Seq(Variable) /\ IsVars(u.vars) /\ Scoped(f.locals, f.scope, u.vars)
  BY CompiledParts, ShapeParts DEF Fits
<1>2. Declares(u.vars, x) <=> \E i \in DOMAIN f.locals : f.locals[i].name = x
  BY <1>1, DeclaredIsHeld
<1>. QED
  BY <1>2 DEF Holding

LEMMA ReachesIs ==
  ASSUME NEW fs, NEW c, NEW u, Levels(fs, c, u), NEW x
  PROVE  Reaches(c, u.vars, x) <=> InScope(fs, x)
<1>. DEFINE m == Len(c.base)
            D == {k \in 1..(Len(fs) - 1) : resolve_local(fs[k], x)}
<1>1. /\ m \in Nat /\ Len(fs) = m + 1 /\ DOMAIN c.base = 1..m
      /\ \A k \in 1..m : Fits(fs[k], c.base[k])
  BY LevelParts
<1>2. Fits(CurIn(fs), u)
  BY DEF Levels
<1>3. Declares(u.vars, x) <=> resolve_local(CurIn(fs), x)
  BY <1>2, FitHolds DEF resolve_local
<1>4. \A k \in 1..m : Declares(c.base[k].vars, x) <=> resolve_local(fs[k], x)
  BY <1>1, FitHolds DEF resolve_local
<1>5. Definer(fs, Len(fs), x) # 0 <=> D # {}
  <2>1. CASE D = {}
    BY <2>1 DEF Definer
  <2>2. CASE D # {}
    <3>1. D \in SUBSET (1..m)
      BY <1>1
    <3>2. \E d \in D : \A j \in D : j <= d
      <4>. HIDE DEF D, m
      <4>. QED
        BY <1>1, <2>2, <3>1, GreatestIn
    <3>3. Definer(fs, Len(fs), x) = CHOOSE k \in D : \A j \in D : j <= k
      BY <2>2 DEF Definer
    <3>4. Definer(fs, Len(fs), x) \in D
      <4>. HIDE DEF D
      <4>. QED
        BY <3>2, <3>3
    <3>. HIDE DEF D
    <3>5. Definer(fs, Len(fs), x) \in 1..m
      BY <3>1, <3>4
    <3>. QED
      BY <2>2, <3>5
  <2>. QED
    BY <2>1, <2>2
<1>6. D # {} <=> \E k \in 1..m : resolve_local(fs[k], x)
  BY <1>1
<1>. HIDE DEF D, m
<1>7. (\E i \in DOMAIN c.base : Declares(c.base[i].vars, x)) <=> D # {}
  BY <1>1, <1>4, <1>6
<1>. QED
  BY <1>3, <1>5, <1>7 DEF Reaches, InScope

LEMMA LevelsLoad ==
  ASSUME NEW fs, NEW c, NEW u, Levels(fs, c, u), NEW x, InScope(fs, x)
  PROVE  Levels(Load(fs, x), c, Pushed(u))
<1>. DEFINE cs == IF resolve_local(CurIn(fs), x) THEN fs ELSE resolve_upvalue(fs, x)
<1>1. Levels(cs, c, u)
  BY LevelsResolve DEF InScope
<1>2. Load(fs, x) = [cs EXCEPT ![Len(cs)] = Push(CurIn(cs), AnyKind)]
  BY DEF Load, CurIn
<1>3. AnyKind \in SUBSET Kinds
  BY DEF AnyKind
<1>. HIDE DEF cs
<1>4. Levels([cs EXCEPT ![Len(cs)] = Push(CurIn(cs), AnyKind)], c, Pushed(u))
  <2>. HIDE DEF AnyKind
  <2>. QED
    BY <1>1, <1>3, LevelsPush
<1>. QED
  BY <1>2, <1>4


(***************************************************************************)
(* The state of the compiler and its shape                                  *)
(***************************************************************************)
M(fs, ta, de, ro, li, fa) ==
  [fns |-> fs, tail |-> ta, depth |-> de, roots |-> ro, limit |-> li, faults |-> fa]

IsState(st) == \E fs, ta, de, ro, li, fa : st = M(fs, ta, de, ro, li, fa)

Matches(st, s) ==
  /\ IsState(st) /\ Levels(st.fns, s.ctx, s.fun) /\ st.tail \in BOOLEAN
  /\ st.depth = s.ctx.depth /\ st.roots = s.ctx.roots /\ "join" \notin st.faults

LEMMA MParts ==
  ASSUME NEW fs, NEW ta, NEW de, NEW ro, NEW li, NEW fa
  PROVE  /\ M(fs, ta, de, ro, li, fa).fns = fs /\ M(fs, ta, de, ro, li, fa).tail = ta
         /\ M(fs, ta, de, ro, li, fa).depth = de /\ M(fs, ta, de, ro, li, fa).roots = ro
         /\ M(fs, ta, de, ro, li, fa).limit = li /\ M(fs, ta, de, ro, li, fa).faults = fa
         /\ IsState(M(fs, ta, de, ro, li, fa))
<1>1. IsState(M(fs, ta, de, ro, li, fa))
  BY DEF IsState
<1>. QED
  BY <1>1 DEF M

LEMMA MatchesAs ==
  ASSUME NEW fs, NEW ta \in BOOLEAN, NEW de, NEW ro, NEW li, NEW fa, "join" \notin fa,
         NEW t, Levels(fs, t.ctx, t.fun), de = t.ctx.depth, ro = t.ctx.roots
  PROVE  Matches(M(fs, ta, de, ro, li, fa), t)
  BY MParts DEF Matches

LEMMA OnCurIs ==
  ASSUME NEW fs, NEW ta, NEW de, NEW ro, NEW li, NEW fa, NEW f
  PROVE  OnCur(M(fs, ta, de, ro, li, fa), f) = M([fs EXCEPT ![Len(fs)] = f], ta, de, ro, li, fa)
<1>. DEFINE st == M(fs, ta, de, ro, li, fa)
            gs == [fs EXCEPT ![Len(fs)] = f]
<1>1. st.fns = fs
  BY MParts
<1>. HIDE DEF st
<1>2. OnCur(st, f) = [st EXCEPT !.fns = [st.fns EXCEPT ![Len(st.fns)] = f]]
  BY DEF OnCur
<1>3. OnCur(st, f) = [st EXCEPT !.fns = gs]
  BY <1>1, <1>2
<1>. HIDE DEF gs
<1>4. [st EXCEPT !.fns = gs] = M(gs, ta, de, ro, li, fa)
  BY DEF st, M
<1>. QED
  BY <1>3, <1>4 DEF st, gs

NotOfFunction ==
  {"tail", "depth", "root", "close", "load", "self", "dollar", "begin_function", "end_function"}

LEMMA ExecOfFunction ==
  ASSUME NEW fs, NEW ta, NEW de, NEW ro, NEW li, NEW fa, NEW it, it[1] \notin NotOfFunction
  PROVE  Exec(M(fs, ta, de, ro, li, fa), it)
           = M([fs EXCEPT ![Len(fs)] = ExecLocal(CurIn(fs), it)], ta, de, ro, li,
               fa \cup FaultIn(CurIn(fs), it))
<1>. DEFINE f == CurIn(fs)
            st == [M(fs, ta, de, ro, li, fa) EXCEPT !.faults = @ \cup FaultIn(f, it)]
<1>1. M(fs, ta, de, ro, li, fa).fns = fs
  BY MParts
<1>2. st = M(fs, ta, de, ro, li, fa \cup FaultIn(f, it))
  <2>. HIDE DEF f
  <2>. QED
    BY DEF M
<1>3. Exec(M(fs, ta, de, ro, li, fa), it) = OnCur(st, ExecLocal(f, it))
  <2>. HIDE DEF M
  <2>. QED
    BY <1>1 DEF Exec, NotOfFunction
<1>. HIDE DEF st, f
<1>4. OnCur(M(fs, ta, de, ro, li, fa \cup FaultIn(f, it)), ExecLocal(f, it))
        = M([fs EXCEPT ![Len(fs)] = ExecLocal(f, it)], ta, de, ro, li, fa \cup FaultIn(f, it))
  BY OnCurIs
<1>. QED
  BY <1>2, <1>3, <1>4 DEF f

LEMMA NoFault ==
  ASSUME NEW f, NEW it,
         it[1] \in {"tail", "depth", "root", "close", "load", "self", "dollar", "begin_function"}
  PROVE  FaultIn(f, it) = {}
  BY DEF FaultIn

WithSelf(fs) ==
  IF InScope(fs, "<self>") THEN Load(fs, "<self>")
  ELSE [fs EXCEPT ![Len(fs)] = Push(CurIn(fs), {"obj"})]
WithDollar(fs, de) ==
  IF de = 1 THEN [fs EXCEPT ![Len(fs)] = declare_local(Push(CurIn(fs), {"obj"}), "$")] ELSE fs
Blamed(ga, fa, fs, it) == ga = fa \cup FaultIn(CurIn(fs), it)

(* The other steps: what is done to the state, apart from the fault *)
LEMMA ExecOfState ==
  ASSUME NEW fs, NEW ta, NEW de, NEW ro, NEW li, NEW fa, NEW it, NEW ga,
         Blamed(ga, fa, fs, it)
  PROVE  /\ it[1] = "tail"  => Exec(M(fs, ta, de, ro, li, fa), it) = M(fs, it[2], de, ro, li, ga)
         /\ it[1] = "depth" => Exec(M(fs, ta, de, ro, li, fa), it) = M(fs, ta, de + it[2], ro, li, ga)
         /\ it[1] = "root"  => Exec(M(fs, ta, de, ro, li, fa), it) = M(fs, ta, de, ro + it[2], li, ga)
         /\ it[1] = "close" => Exec(M(fs, ta, de, ro, li, fa), it) = M(fs, ta, de, ro, Tightest, ga)
         /\ it[1] = "load"  => Exec(M(fs, ta, de, ro, li, fa), it)
                                 = M(Load(fs, it[2]), ta, de, ro, li, ga)
         /\ it[1] = "begin_function" => Exec(M(fs, ta, de, ro, li, fa), it)
                                          = M(Append(fs, NewFunction), ta, de, ro, li, ga)
         /\ it[1] = "end_function" => Exec(M(fs, ta, de, ro, li, fa), it)
                                        = M(Front(fs), ta, de, ro, li, ga)
         /\ it[1] = "self" => Exec(M(fs, ta, de, ro, li, fa), it)
              = M(WithSelf(fs), ta, de, ro, li, ga)
         /\ it[1] = "dollar" => Exec(M(fs, ta, de, ro, li, fa), it)
              = M(WithDollar(fs, de), ta, de, ro, li, ga)
<1>. DEFINE f == CurIn(fs)
            st == [M(fs, ta, de, ro, li, fa) EXCEPT !.faults = @ \cup FaultIn(f, it)]
            gt == M(fs, ta, de, ro, li, ga)
<1>1. M(fs, ta, de, ro, li, fa).fns = fs
  BY MParts
<1>2. st = gt
  <2>. HIDE DEF f
  <2>1. st = M(fs, ta, de, ro, li, fa \cup FaultIn(f, it))
    BY DEF M
  <2>2. ga = fa \cup FaultIn(CurIn(fs), it)
    BY DEF Blamed
  <2>. QED
    BY <2>1, <2>2 DEF f
<1>3. gt.fns = fs /\ gt.depth = de
  BY MParts
<1>. HIDE DEF f
<1>4. it[1] = "tail"  => Exec(M(fs, ta, de, ro, li, fa), it) = [gt EXCEPT !.tail = it[2]]
  <2>1. it[1] = "tail" => Exec(M(fs, ta, de, ro, li, fa), it) = [st EXCEPT !.tail = it[2]]
    <3>. HIDE DEF M
    <3>. QED
      BY <1>1 DEF Exec, f
  <2>. HIDE DEF st, gt
  <2>. QED
    BY <1>2, <2>1
<1>5. it[1] = "depth"  => Exec(M(fs, ta, de, ro, li, fa), it) = [gt EXCEPT !.depth = @ + it[2]]
  <2>1. it[1] = "depth" => Exec(M(fs, ta, de, ro, li, fa), it) = [st EXCEPT !.depth = @ + it[2]]
    <3>. HIDE DEF M
    <3>. QED
      BY <1>1 DEF Exec, f
  <2>. HIDE DEF st, gt
  <2>. QED
    BY <1>2, <2>1
<1>6. it[1] = "root"  => Exec(M(fs, ta, de, ro, li, fa), it) = [gt EXCEPT !.roots = @ + it[2]]
  <2>1. it[1] = "root" => Exec(M(fs, ta, de, ro, li, fa), it) = [st EXCEPT !.roots = @ + it[2]]
    <3>. HIDE DEF M
    <3>. QED
      BY <1>1 DEF Exec, f
  <2>. HIDE DEF st, gt
  <2>. QED
    BY <1>2, <2>1
<1>7. it[1] = "close"  => Exec(M(fs, ta, de, ro, li, fa), it) = [gt EXCEPT !.limit = Tightest]
  <2>1. it[1] = "close" => Exec(M(fs, ta, de, ro, li, fa), it) = [st EXCEPT !.limit = Tightest]
    <3>. HIDE DEF M
    <3>. QED
      BY <1>1 DEF Exec, f
  <2>. HIDE DEF st, gt
  <2>. QED
    BY <1>2, <2>1
<1>8. it[1] = "load"  => Exec(M(fs, ta, de, ro, li, fa), it) = [gt EXCEPT !.fns = Load(@, it[2])]
  <2>1. it[1] = "load" => Exec(M(fs, ta, de, ro, li, fa), it) = [st EXCEPT !.fns = Load(@, it[2])]
    <3>. HIDE DEF M
    <3>. QED
      BY <1>1 DEF Exec, f
  <2>. HIDE DEF st, gt
  <2>. QED
    BY <1>2, <2>1
<1>9. it[1] = "begin_function" => Exec(M(fs, ta, de, ro, li, fa), it) = BeginFunction(gt)
  <2>1. it[1] = "begin_function" => Exec(M(fs, ta, de, ro, li, fa), it) = BeginFunction(st)
    <3>. HIDE DEF M
    <3>. QED
      BY <1>1 DEF Exec, f
  <2>. HIDE DEF st, gt
  <2>. QED
    BY <1>2, <2>1
<1>10. it[1] = "end_function" => Exec(M(fs, ta, de, ro, li, fa), it) = EndFunction(gt)
  <2>1. it[1] = "end_function" => Exec(M(fs, ta, de, ro, li, fa), it) = EndFunction(st)
    <3>. HIDE DEF M
    <3>. QED
      BY <1>1 DEF Exec, f
  <2>. HIDE DEF st, gt
  <2>. QED
    BY <1>2, <2>1
<1>11. it[1] = "self" => Exec(M(fs, ta, de, ro, li, fa), it)
         = IF InScope(gt.fns, "<self>") THEN [gt EXCEPT !.fns = Load(@, "<self>")]
           ELSE OnCur(gt, Push(f, {"obj"}))
  <2>1. it[1] = "self" => Exec(M(fs, ta, de, ro, li, fa), it)
         = IF InScope(st.fns, "<self>") THEN [st EXCEPT !.fns = Load(@, "<self>")]
           ELSE OnCur(st, Push(f, {"obj"}))
    <3>. HIDE DEF M
    <3>. QED
      BY <1>1 DEF Exec, f
  <2>. HIDE DEF st, gt
  <2>. QED
    BY <1>2, <2>1
<1>12. it[1] = "dollar" => Exec(M(fs, ta, de, ro, li, fa), it)
         = IF gt.depth = 1 THEN OnCur(gt, declare_local(Push(f, {"obj"}), "$")) ELSE gt
  <2>1. it[1] = "dollar" => Exec(M(fs, ta, de, ro, li, fa), it)
         = IF st.depth = 1 THEN OnCur(st, declare_local(Push(f, {"obj"}), "$")) ELSE st
    <3>. HIDE DEF M
    <3>. QED
      BY <1>1 DEF Exec, f
  <2>. HIDE DEF st, gt
  <2>. QED
    BY <1>2, <2>1
<1>. HIDE DEF st
<1>13. it[1] = "self" => Exec(M(fs, ta, de, ro, li, fa), it)
              = M(IF InScope(fs, "<self>") THEN Load(fs, "<self>")
                  ELSE [fs EXCEPT ![Len(fs)] = Push(f, {"obj"})], ta, de, ro, li, ga)
  <2>1. CASE InScope(fs, "<self>")
    <3>1. [gt EXCEPT !.fns = Load(@, "<self>")] = M(Load(fs, "<self>"), ta, de, ro, li, ga)
      BY DEF M
    <3>. HIDE DEF gt
    <3>. QED
      BY <1>3, <1>11, <2>1, <3>1
  <2>2. CASE ~InScope(fs, "<self>")
    <3>1. OnCur(gt, Push(f, {"obj"})) = M([fs EXCEPT ![Len(fs)] = Push(f, {"obj"})], ta, de, ro, li, ga)
      BY OnCurIs
    <3>. HIDE DEF gt
    <3>. QED
      BY <1>3, <1>11, <2>2, <3>1
  <2>. QED
    BY <2>1, <2>2
<1>14. it[1] = "dollar" => Exec(M(fs, ta, de, ro, li, fa), it)
              = M(IF de = 1 THEN [fs EXCEPT ![Len(fs)] = declare_local(Push(f, {"obj"}), "$")]
                  ELSE fs, ta, de, ro, li, ga)
  <2>1. CASE de = 1
    <3>1. OnCur(gt, declare_local(Push(f, {"obj"}), "$"))
            = M([fs EXCEPT ![Len(fs)] = declare_local(Push(f, {"obj"}), "$")], ta, de, ro, li, ga)
      BY OnCurIs
    <3>. HIDE DEF gt
    <3>. QED
      BY <1>3, <1>12, <2>1, <3>1
  <2>2. CASE de # 1
    <3>1. gt = M(fs, ta, de, ro, li, ga)
      OBVIOUS
    <3>. HIDE DEF gt
    <3>. QED
      BY <1>3, <1>12, <2>2, <3>1
  <2>. QED
    BY <2>1, <2>2
<1>15. /\ [gt EXCEPT !.tail = it[2]] = M(fs, it[2], de, ro, li, ga)
       /\ [gt EXCEPT !.depth = @ + it[2]] = M(fs, ta, de + it[2], ro, li, ga)
       /\ [gt EXCEPT !.roots = @ + it[2]] = M(fs, ta, de, ro + it[2], li, ga)
       /\ [gt EXCEPT !.limit = Tightest] = M(fs, ta, de, ro, Tightest, ga)
       /\ [gt EXCEPT !.fns = Load(@, it[2])] = M(Load(fs, it[2]), ta, de, ro, li, ga)
       /\ BeginFunction(gt) = M(Append(fs, NewFunction), ta, de, ro, li, ga)
       /\ EndFunction(gt) = M(Front(fs), ta, de, ro, li, ga)
  <2>1. gt.fns = fs
    BY MParts
  <2>2. /\ [gt EXCEPT !.tail = it[2]] = M(fs, it[2], de, ro, li, ga)
        /\ [gt EXCEPT !.depth = @ + it[2]] = M(fs, ta, de + it[2], ro, li, ga)
        /\ [gt EXCEPT !.roots = @ + it[2]] = M(fs, ta, de, ro + it[2], li, ga)
        /\ [gt EXCEPT !.limit = Tightest] = M(fs, ta, de, ro, Tightest, ga)
    BY DEF M
  <2>3. ASSUME NEW gs PROVE [gt EXCEPT !.fns = gs] = M(gs, ta, de, ro, li, ga)
    BY DEF M
  <2>. HIDE DEF gt
  <2>4. /\ BeginFunction(gt) = [gt EXCEPT !.fns = Append(fs, NewFunction)]
        /\ EndFunction(gt) = [gt EXCEPT !.fns = Front(fs)]
        /\ [gt EXCEPT !.fns = Load(@, it[2])] = [gt EXCEPT !.fns = Load(fs, it[2])]
    BY <2>1 DEF BeginFunction, EndFunction
  <2>. QED
    BY <2>2, <2>3, <2>4
<1>. HIDE DEF gt
<1>. QED
  BY <1>4, <1>5, <1>6, <1>7, <1>8, <1>9, <1>10, <1>13, <1>14, <1>15 DEF f, WithSelf, WithDollar


LEMMA StepKinds ==
  ASSUME NEW it, NEW s, NEW t, Step(it, s, t), ~Choice(it)
  PROVE  it[1] \in LocalItems \cup NotOfFunction
  BY DEF Step, Choice, LocalItems, NotOfFunction

LEMMA LevelsBase ==
  ASSUME NEW fs, NEW c, NEW u, Levels(fs, c, u), NEW d \in Contexts, d.base = c.base
  PROVE  Levels(fs, d, u)
  BY DEF Levels

LEMMA LocalMatches ==
  ASSUME NEW st, NEW s, NEW t, NEW it, Matches(st, s), Step(it, s, t), it[1] \in LocalItems
  PROVE  Matches(Exec(st, it), t)
<1>1. PICK fs, ta, de, ro, li, fa : st = M(fs, ta, de, ro, li, fa)
  BY DEF Matches, IsState
<1>2. /\ Levels(fs, s.ctx, s.fun) /\ ta \in BOOLEAN /\ de = s.ctx.depth /\ ro = s.ctx.roots
      /\ "join" \notin fa
  BY <1>1, MParts DEF Matches
<1>3. Fits(CurIn(fs), s.fun)
  BY <1>2 DEF Levels
<1>4. Effect(CurIn(fs), it, s, t)
  BY <1>3, LocalEffect
<1>. DEFINE g == ExecLocal(CurIn(fs), it)
            fb == fa \cup FaultIn(CurIn(fs), it)
<1>5. t.ctx = s.ctx /\ Fits(g, t.fun) /\ g.ups = CurIn(fs).ups /\ "join" \notin fb
  BY <1>2, <1>4 DEF Effect
<1>6. Exec(st, it) = M([fs EXCEPT ![Len(fs)] = g], ta, de, ro, li, fb)
  <2>1. it[1] \notin NotOfFunction
    BY DEF LocalItems, NotOfFunction
  <2>. QED
    BY <1>1, <2>1, ExecOfFunction
<1>. HIDE DEF g, fb
<1>7. Levels([fs EXCEPT ![Len(fs)] = g], s.ctx, t.fun)
  BY <1>2, <1>5, LevelsOnCur
<1>. DEFINE gs == [fs EXCEPT ![Len(fs)] = g]
<1>8. Levels(gs, t.ctx, t.fun) /\ de = t.ctx.depth /\ ro = t.ctx.roots
  BY <1>2, <1>5, <1>7
<1>9. Exec(st, it) = M(gs, ta, de, ro, li, fb)
  BY <1>6
<1>. HIDE DEF gs
<1>10. Matches(M(gs, ta, de, ro, li, fb), t)
  BY <1>2, <1>5, <1>8, MatchesAs
<1>. QED
  BY <1>9, <1>10

LEMMA TakenOne ==
  ASSUME NEW s, NEW t, s.fun \in Shapes, TakeStep(s, t, 0, 1, "any")
  PROVE  t.ctx = s.ctx /\ t.fun = Pushed(s.fun)
<1>1. s.fun.height \in Nat
  BY ShapeParts
<1>2. s.fun.height - 0 + 1 = s.fun.height + 1
  BY <1>1
<1>3. t = Moved(s, s.fun.height + 1, s.fun.jumps, "any")
  BY <1>2 DEF TakeStep
<1>. QED
  BY <1>3 DEF Moved, S, Pushed

LEMMA StateMatches ==
  ASSUME NEW st, NEW s, NEW t, NEW it, Matches(st, s), Step(it, s, t), it[1] \in NotOfFunction
  PROVE  Matches(Exec(st, it), t)
<1>1. PICK fs, ta, de, ro, li, fa : st = M(fs, ta, de, ro, li, fa)
  BY DEF Matches, IsState
<1>2. /\ Levels(fs, s.ctx, s.fun) /\ ta \in BOOLEAN /\ de = s.ctx.depth /\ ro = s.ctx.roots
      /\ "join" \notin fa
  BY <1>1, MParts DEF Matches
<1>3. /\ Fits(CurIn(fs), s.fun) /\ s.ctx \in Contexts /\ s.fun \in Shapes
      /\ s.ctx.depth \in Nat /\ s.ctx.roots \in Nat /\ s.ctx.base \in Seq(Shapes)
  BY <1>2 DEF Levels, Fits, Contexts
<1>. DEFINE ga == fa \cup FaultIn(CurIn(fs), it)
<1>4. /\ it[1] = "tail"  => Exec(st, it) = M(fs, it[2], de, ro, li, ga)
      /\ it[1] = "depth" => Exec(st, it) = M(fs, ta, de + it[2], ro, li, ga)
      /\ it[1] = "root"  => Exec(st, it) = M(fs, ta, de, ro + it[2], li, ga)
      /\ it[1] = "close" => Exec(st, it) = M(fs, ta, de, ro, Tightest, ga)
      /\ it[1] = "load"  => Exec(st, it) = M(Load(fs, it[2]), ta, de, ro, li, ga)
      /\ it[1] = "begin_function" => Exec(st, it) = M(Append(fs, NewFunction), ta, de, ro, li, ga)
      /\ it[1] = "end_function" => Exec(st, it) = M(Front(fs), ta, de, ro, li, ga)
      /\ it[1] = "self" => Exec(st, it)
           = M(WithSelf(fs), ta, de, ro, li, ga)
      /\ it[1] = "dollar" => Exec(st, it)
           = M(WithDollar(fs, de), ta, de, ro, li, ga)
  <2>1. Blamed(ga, fa, fs, it)
    BY DEF Blamed
  <2>. HIDE DEF ga
  <2>. QED
    BY SMTT(30), <1>1, <2>1, ExecOfState
<1>5. it[1] # "end_function" => "join" \notin ga
  BY <1>2, NoFault DEF NotOfFunction
<1>. HIDE DEF ga
<1>6. CASE it[1] = "tail"
  <2>1. it[2] \in BOOLEAN /\ t = s
    BY <1>6 DEF Step, TailStep
  <2>. QED
    BY <1>2, <1>4, <1>5, <1>6, <2>1, MatchesAs
<1>7. CASE it[1] = "depth"
  <2>1. DepthStep(s, t, it[2])
    BY <1>7 DEF Step
  <2>2. s.ctx.depth + it[2] \in Nat /\ t.ctx = Deeper(s.ctx, it[2]) /\ t.fun = s.fun
    BY <2>1 DEF DepthStep
  <2>3. /\ t.ctx \in Contexts /\ t.ctx.base = s.ctx.base /\ t.ctx.depth = s.ctx.depth + it[2]
        /\ t.ctx.roots = s.ctx.roots
    BY <1>3, <2>2 DEF Deeper, Contexts
  <2>4. Levels(fs, t.ctx, t.fun)
    BY <1>2, <2>2, <2>3, LevelsBase
  <2>. DEFINE e == de + it[2]
  <2>5. e = t.ctx.depth /\ ro = t.ctx.roots /\ Exec(st, it) = M(fs, ta, e, ro, li, ga) /\ "join" \notin ga
    BY <1>2, <1>4, <1>5, <1>7, <2>3
  <2>. HIDE DEF e
  <2>6. Matches(M(fs, ta, e, ro, li, ga), t)
    BY <1>2, <2>4, <2>5, MatchesAs
  <2>. QED
    BY <2>5, <2>6
<1>8. CASE it[1] = "root"
  <2>1. RootStep(s, t, it[2])
    BY <1>8 DEF Step
  <2>2. s.ctx.roots + it[2] \in Nat /\ t.ctx = Rooted(s.ctx, it[2]) /\ t.fun = s.fun
    BY <2>1 DEF RootStep
  <2>3. /\ t.ctx \in Contexts /\ t.ctx.base = s.ctx.base /\ t.ctx.depth = s.ctx.depth
        /\ t.ctx.roots = s.ctx.roots + it[2]
    BY <1>3, <2>2 DEF Rooted, Contexts
  <2>4. Levels(fs, t.ctx, t.fun)
    BY <1>2, <2>2, <2>3, LevelsBase
  <2>. DEFINE e == ro + it[2]
  <2>5. de = t.ctx.depth /\ e = t.ctx.roots /\ Exec(st, it) = M(fs, ta, de, e, li, ga) /\ "join" \notin ga
    BY <1>2, <1>4, <1>5, <1>8, <2>3
  <2>. HIDE DEF e
  <2>6. Matches(M(fs, ta, de, e, li, ga), t)
    BY <1>2, <2>4, <2>5, MatchesAs
  <2>. QED
    BY <2>5, <2>6
<1>9. CASE it[1] = "close"
  <2>1. t = s
    BY <1>9 DEF Step
  <2>2. Exec(st, it) = M(fs, ta, de, ro, Tightest, ga) /\ "join" \notin ga
    BY <1>4, <1>5, <1>9
  <2>. HIDE DEF Tightest
  <2>3. Matches(M(fs, ta, de, ro, Tightest, ga), s)
    BY <1>2, <2>2, MatchesAs
  <2>. QED
    BY <2>1, <2>2, <2>3
<1>10. CASE it[1] = "load"
  <2>1. LoadStep(s, t, it[2])
    BY <1>10 DEF Step
  <2>2. t.ctx = s.ctx /\ t.fun = Pushed(s.fun)
    BY <1>3, <2>1, TakenOne DEF LoadStep
  <2>3. InScope(fs, it[2])
    BY <1>2, <2>1, ReachesIs DEF LoadStep
  <2>4. Levels(Load(fs, it[2]), t.ctx, t.fun)
    BY <1>2, <2>2, <2>3, LevelsLoad
  <2>5. Exec(st, it) = M(Load(fs, it[2]), ta, de, ro, li, ga) /\ "join" \notin ga
    BY <1>4, <1>5, <1>10
  <2>6. de = t.ctx.depth /\ ro = t.ctx.roots
    BY <1>2, <2>2
  <2>7. Matches(M(Load(fs, it[2]), ta, de, ro, li, ga), t)
    BY <1>2, <2>4, <2>5, <2>6, MatchesAs
  <2>. QED
    BY <2>5, <2>7
<1>11. CASE it[1] = "self"
  <2>1. TakeStep(s, t, 0, 1, "any")
    BY <1>11 DEF Step
  <2>2. t.ctx = s.ctx /\ t.fun = Pushed(s.fun)
    BY <1>3, <2>1, TakenOne
  <2>. DEFINE gs == WithSelf(fs)
  <2>3. Levels(gs, s.ctx, Pushed(s.fun))
    <3>1. CASE InScope(fs, "<self>")
      <4>1. Levels(Load(fs, "<self>"), s.ctx, Pushed(s.fun))
        BY <1>2, <3>1, LevelsLoad
      <4>. QED
        BY <3>1, <4>1 DEF WithSelf
    <3>2. CASE ~InScope(fs, "<self>")
      <4>. DEFINE obj == {"obj"}
      <4>1. obj \in SUBSET Kinds
        BY DEF Kinds
      <4>. HIDE DEF obj
      <4>2. Levels([fs EXCEPT ![Len(fs)] = Push(CurIn(fs), obj)], s.ctx, Pushed(s.fun))
        BY <1>2, <4>1, LevelsPush
      <4>. QED
        BY <3>2, <4>2 DEF obj, WithSelf
    <3>. QED
      BY <3>1, <3>2
  <2>4. Exec(st, it) = M(gs, ta, de, ro, li, ga) /\ "join" \notin ga
    BY <1>4, <1>5, <1>11
  <2>. HIDE DEF gs
  <2>5. Levels(gs, t.ctx, t.fun) /\ de = t.ctx.depth /\ ro = t.ctx.roots
    BY <1>2, <2>2, <2>3
  <2>6. Matches(M(gs, ta, de, ro, li, ga), t)
    BY <1>2, <2>4, <2>5, MatchesAs
  <2>. QED
    BY <2>4, <2>6
<1>12. CASE it[1] = "dollar"
  <2>1. DollarStep(s, t)
    BY <1>12 DEF Step
  <2>. DEFINE gs == WithDollar(fs, de)
  <2>2. Levels(gs, t.ctx, t.fun) /\ t.ctx = s.ctx
    <3>1. CASE de # 1
      <4>1. t = s
        BY <1>2, <2>1, <3>1 DEF DollarStep
      <4>. QED
        BY <1>2, <3>1, <4>1 DEF WithDollar
    <3>2. CASE de = 1
      <4>. DEFINE s2 == Moved(s, s.fun.height + 1, s.fun.jumps, "any")
                  obj == {"obj"}
                  f == Push(CurIn(fs), obj)
      <4>1. DeclareStep(s2, t, "$")
        BY <1>2, <2>1, <3>2 DEF DollarStep
      <4>2. s2.ctx = s.ctx /\ s2.fun = Pushed(s.fun)
        BY DEF Moved, S, Pushed
      <4>3. obj \in SUBSET Kinds
        BY DEF Kinds
      <4>. HIDE DEF s2, obj
      <4>4. Fits(f, s2.fun) /\ f.ups = CurIn(fs).ups
        BY <1>3, <4>2, <4>3, PushFits
      <4>. HIDE DEF f
      <4>5. t.ctx = s.ctx /\ Fits(declare_local(f, "$"), t.fun) /\ declare_local(f, "$").ups = CurIn(fs).ups
        BY <4>1, <4>2, <4>4, DeclareFits
      <4>6. Levels([fs EXCEPT ![Len(fs)] = declare_local(f, "$")], s.ctx, t.fun)
        BY <1>2, <4>5, LevelsOnCur
      <4>. QED
        BY <3>2, <4>5, <4>6 DEF f, obj, WithDollar
    <3>. QED
      BY <3>1, <3>2
  <2>4. Exec(st, it) = M(gs, ta, de, ro, li, ga) /\ "join" \notin ga
    BY <1>4, <1>5, <1>12
  <2>. HIDE DEF gs
  <2>5. de = t.ctx.depth /\ ro = t.ctx.roots
    BY <1>2, <2>2
  <2>6. Matches(M(gs, ta, de, ro, li, ga), t)
    BY <1>2, <2>2, <2>4, <2>5, MatchesAs
  <2>. QED
    BY <2>4, <2>6
<1>13. CASE it[1] = "begin_function"
  <2>1. BeginFunctionStep(s, t)
    BY <1>13 DEF Step
  <2>2. t.ctx = Within(s.ctx, s.fun) /\ t.fun = Fun(NoVars, 0, 0, 0, <<>>, "any")
    BY <2>1 DEF BeginFunctionStep, S
  <2>. DEFINE gs == Append(fs, NewFunction)
  <2>3. Levels(gs, t.ctx, t.fun)
    <3>1. Levels(gs, Within(s.ctx, s.fun), Fun(NoVars, 0, 0, 0, <<>>, "any"))
      BY <1>2, LevelsBegin
    <3>. QED
      BY <2>2, <3>1
  <2>4. Exec(st, it) = M(gs, ta, de, ro, li, ga) /\ "join" \notin ga
    BY <1>4, <1>5, <1>13
  <2>. HIDE DEF gs
  <2>5. de = t.ctx.depth /\ ro = t.ctx.roots
    BY <1>2, <2>2 DEF Within
  <2>6. Matches(M(gs, ta, de, ro, li, ga), t)
    BY <1>2, <2>3, <2>4, <2>5, MatchesAs
  <2>. QED
    BY <2>4, <2>6
<1>14. CASE it[1] = "end_function"
  <2>1. EndFunctionStep(s, t)
    BY <1>14 DEF Step
  <2>2. PICK b, g : /\ s.ctx.base = Append(b, g) /\ b \in Seq(Shapes) /\ g \in Shapes
                    /\ t = [ctx |-> [base |-> b, depth |-> s.ctx.depth, roots |-> s.ctx.roots],
                            fun |-> g]
    BY <2>1 DEF EndFunctionStep
  <2>3. t.fun = g /\ t.ctx = [base |-> b, depth |-> s.ctx.depth, roots |-> s.ctx.roots]
    BY <2>2
  <2>4. t.ctx \in Contexts /\ t.ctx.base = b /\ t.ctx.depth = s.ctx.depth /\ t.ctx.roots = s.ctx.roots
    BY <1>3, <2>2, <2>3 DEF Contexts
  <2>. DEFINE gs == Front(fs)
  <2>5. Levels(gs, t.ctx, t.fun)
    <3>. HIDE DEF Shapes
    <3>1. s.ctx.base = Append(b, g) /\ b \in Seq(Shapes) /\ g \in Shapes
      BY <2>2
    <3>2. Levels(gs, t.ctx, g)
      BY <1>2, <2>4, <3>1, LevelsEnd
    <3>. QED
      BY <2>3, <3>2
  <2>6. "join" \notin ga
    <3>1. s.fun.height = 1 /\ s.fun.vars.count = 0 /\ s.fun.anon = 0
      BY <2>1 DEF EndFunctionStep
    <3>2. Len(CurIn(fs).stack) = 1 /\ CurIn(fs).anon = 0 /\ Len(CurIn(fs).locals) = 0
      BY <1>3, <3>1 DEF Fits, Scoped
    <3>3. CurIn(fs).locals \in Seq(Variable)
      BY <1>3, CompiledParts DEF Fits
    <3>4. CurIn(fs).locals = <<>>
      <4>. HIDE DEF Variable
      <4>. QED
        BY <3>2, <3>3, EmptySeq
    <3>5. FaultIn(CurIn(fs), it) = {}
      BY <1>14, <3>2, <3>4 DEF FaultIn
    <3>. QED
      BY <1>2, <3>5 DEF ga
  <2>7. Exec(st, it) = M(gs, ta, de, ro, li, ga)
    BY <1>4, <1>14
  <2>. HIDE DEF gs
  <2>8. de = t.ctx.depth /\ ro = t.ctx.roots
    BY <1>2, <2>4
  <2>9. Matches(M(gs, ta, de, ro, li, ga), t)
    BY <1>2, <2>5, <2>6, <2>8, MatchesAs
  <2>. QED
    BY <2>7, <2>9
<1>. QED
  BY <1>6, <1>7, <1>8, <1>9, <1>10, <1>11, <1>12, <1>13, <1>14 DEF NotOfFunction

(* One step of the handlers, done by the compiler and by the shapes *)
LEMMA ExecMatches ==
  ASSUME NEW st, NEW s, NEW t, NEW it, Matches(st, s), Step(it, s, t), ~Choice(it)
  PROVE  Matches(Exec(st, it), t)
  BY StepKinds, LocalMatches, StateMatches


(***************************************************************************)
(* The steps up to the next choice                                          *)
(***************************************************************************)
RunStep(st0, items, f, i) == IF i = 0 THEN st0 ELSE Exec(f[i - 1], items[i])

LEMMA RunExists ==
  ASSUME NEW st0, NEW items, NEW n \in Nat
  PROVE  \E f : f = [i \in (0)..(n) |-> RunStep(st0, items, f, i)]
<1>. DEFINE lo == 0
            hi == n
            Built(f, m) == \A i \in lo..m : f[i] = RunStep(st0, items, f, i)
            Bad == {m \in 0..(hi - lo) : ~ \E f : Built(f, lo + m)}
<1>0. lo \in Int /\ hi \in Int
  OBVIOUS
<1>a. ASSUME NEW f, NEW g, NEW i \in Int, i = lo \/ f[i - 1] = g[i - 1]
      PROVE  RunStep(st0, items, f, i) = RunStep(st0, items, g, i)
  BY <1>a DEF RunStep
<1>. HIDE DEF lo, hi
<1>1. Bad = {}
  <2>. SUFFICES ASSUME Bad # {} PROVE FALSE
    OBVIOUS
  <2>1. PICK m \in Bad : \A i \in Bad : m <= i
    <3>1. Bad \in SUBSET Nat
      BY <1>0
    <3>. HIDE DEF Bad
    <3>. QED
      BY <3>1, LeastIn
  <2>. DEFINE e == lo + m
  <2>2. m \in 0..(hi - lo) /\ m \in Nat
    BY <1>0
  <2>3. \E f : \A i \in lo..(e - 1) : f[i] = RunStep(st0, items, f, i)
    <3>1. CASE m = 0
      BY <1>0, <3>1
    <3>2. CASE m # 0
      <4>1. m - 1 \in 0..(hi - lo) /\ ~(m <= m - 1) /\ lo + (m - 1) = e - 1
        BY <1>0, <2>2, <3>2
      <4>2. m - 1 \notin Bad
        BY <2>1, <4>1
      <4>3. \E f : Built(f, lo + (m - 1))
        BY <4>1, <4>2
      <4>. QED
        BY <4>1, <4>3
    <3>. QED
      BY <3>1, <3>2
  <2>4. PICK f : \A i \in lo..(e - 1) : f[i] = RunStep(st0, items, f, i)
    BY <2>3
  <2>. DEFINE g == [i \in lo..e |-> IF i < e THEN f[i] ELSE RunStep(st0, items, f, e)]
  <2>5. ASSUME NEW i \in lo..e PROVE g[i] = RunStep(st0, items, g, i)
    <3>0. e \in Int /\ i \in Int /\ e >= lo
      BY <1>0, <2>2
    <3>1. CASE i < e
      <4>1. i \in lo..(e - 1) /\ (i # lo => i - 1 \in lo..e /\ i - 1 < e)
        BY <1>0, <3>0, <3>1
      <4>2. g[i] = f[i] /\ f[i] = RunStep(st0, items, f, i) /\ (i # lo => g[i - 1] = f[i - 1])
        BY <2>4, <3>1, <4>1
      <4>. HIDE DEF g
      <4>. QED
        BY <1>a, <3>0, <4>2
    <3>2. CASE i = e
      <4>1. i # lo => i - 1 \in lo..e /\ i - 1 < e
        BY <1>0, <3>0, <3>2
      <4>2. g[i] = RunStep(st0, items, f, i) /\ (i # lo => g[i - 1] = f[i - 1])
        BY <3>0, <3>2, <4>1
      <4>. HIDE DEF g
      <4>. QED
        BY <1>a, <3>0, <4>2
    <3>. QED
      BY <3>0, <3>1, <3>2
  <2>. HIDE DEF g
  <2>6. Built(g, lo + m)
    BY <2>5
  <2>. QED
    BY <2>1, <2>6
<1>2. \E f : Built(f, hi)
  <2>1. CASE hi < lo
    <3>1. lo..hi = {}
      BY <1>0, <2>1
    <3>. QED
      BY <3>1
  <2>2. CASE hi >= lo
    <3>1. hi - lo \in 0..(hi - lo) /\ lo + (hi - lo) = hi
      BY <1>0, <2>2
    <3>. QED
      BY <1>1, <3>1
  <2>. QED
    BY <1>0, <2>1, <2>2
<1>3. PICK f : Built(f, hi)
  BY <1>2
<1>. DEFINE g == [i \in lo..hi |-> f[i]]
<1>4. ASSUME NEW i \in lo..hi PROVE g[i] = RunStep(st0, items, g, i)
  <2>1. i \in Int /\ (i # lo => i - 1 \in lo..hi)
    BY <1>0
  <2>2. g[i] = f[i] /\ f[i] = RunStep(st0, items, f, i) /\ (i # lo => g[i - 1] = f[i - 1])
    BY <1>3, <2>1
  <2>. HIDE DEF g
  <2>. QED
    BY <1>a, <2>1, <2>2
<1>5. g = [i \in lo..hi |-> g[i]]
  OBVIOUS
<1>. HIDE DEF g
<1>6. g = [i \in lo..hi |-> RunStep(st0, items, g, i)]
  BY <1>4, <1>5
<1>. QED
  BY <1>6 DEF lo, hi

LEMMA RunMatches ==
  ASSUME NEW st, NEW s, Matches(st, s), NEW R, NEW items \in Seq(R), NEW sh, sh[0] = s,
         \A i \in 1..Len(items) : Step(items[i], sh[i - 1], sh[i]) /\ ~Choice(items[i])
  PROVE  Matches(RunFrom(st, items), sh[Len(items)])
<1>. DEFINE n == Len(items)
            after == CHOOSE f : f = [i \in 0..n |-> RunStep(st, items, f, i)]
<1>1. n \in Nat
  OBVIOUS
<1>2. after = [i \in 0..n |-> RunStep(st, items, after, i)]
  <2>. HIDE DEF n
  <2>1. \E f : f = [i \in 0..n |-> RunStep(st, items, f, i)]
    BY <1>1, RunExists
  <2>. QED
    BY <2>1
<1>3. RunFrom(st, items) = after[n]
  BY DEF RunFrom, RunStep
<1>4. \A i \in 1..n : Step(items[i], sh[i - 1], sh[i]) /\ ~Choice(items[i])
  OBVIOUS
<1>. HIDE DEF after, n
<1>5. \A i \in 0..n : after[i] = RunStep(st, items, after, i)
  BY <1>2
<1>. DEFINE Bad == {i \in 0..n : ~Matches(after[i], sh[i])}
<1>6. Bad = {}
  <2>. SUFFICES ASSUME Bad # {} PROVE FALSE
    OBVIOUS
  <2>1. PICK i \in Bad : \A j \in Bad : i <= j
    <3>1. Bad \in SUBSET Nat
      BY <1>1
    <3>. HIDE DEF Bad
    <3>. QED
      BY <3>1, LeastIn
  <2>2. i \in 0..n /\ ~Matches(after[i], sh[i])
    OBVIOUS
  <2>3. CASE i = 0
    <3>1. after[i] = st /\ sh[i] = s
      BY <1>5, <2>2, <2>3 DEF RunStep
    <3>. QED
      BY <2>2, <3>1
  <2>4. CASE i # 0
    <3>1. i \in 1..n /\ i - 1 \in 0..n /\ ~(i <= i - 1)
      BY <1>1, <2>2, <2>4
    <3>2. i - 1 \notin Bad
      BY <2>1, <3>1
    <3>3. Matches(after[i - 1], sh[i - 1])
      BY <3>1, <3>2
    <3>4. after[i] = Exec(after[i - 1], items[i])
      BY <1>5, <2>2, <2>4 DEF RunStep
    <3>5. Step(items[i], sh[i - 1], sh[i]) /\ ~Choice(items[i])
      BY <1>4, <3>1
    <3>6. Matches(Exec(after[i - 1], items[i]), sh[i])
      BY <3>3, <3>5, ExecMatches
    <3>. QED
      BY <2>2, <3>4, <3>6
  <2>. QED
    BY <2>3, <2>4
<1>7. n \in 0..n /\ n \notin Bad
  BY <1>1, <1>6
<1>8. Matches(after[n], sh[n])
  BY <1>7
<1>. QED
  BY <1>3, <1>8 DEF n

Cut(items, n) ==
  (\A i \in 1..n : ~Choice(items[i])) /\ (n < Len(items) => Choice(items[n + 1]))

LEMMA UpToChosen ==
  ASSUME NEW items
  PROVE  UpTo(items) = CHOOSE n \in 0..Len(items) : Cut(items, n)
  BY Zenon DEF UpTo, Cut

LEMMA UpToIs ==
  ASSUME NEW R, NEW items \in Seq(R)
  PROVE  /\ UpTo(items) \in 0..Len(items)
         /\ \A i \in 1..UpTo(items) : ~Choice(items[i])
         /\ UpTo(items) < Len(items) => Choice(items[UpTo(items) + 1])
<1>. DEFINE n == Len(items)
            T == {i \in 0..n : i = n \/ Choice(items[i + 1])}
            CutHere(m) == Cut(items, m)
<1>1. n \in Nat /\ n \in T /\ T \in SUBSET Nat
  OBVIOUS
<1>2. UpTo(items) = CHOOSE m \in 0..n : CutHere(m)
  BY UpToChosen
<1>0. \A m : CutHere(m) <=> (\A i \in 1..m : ~Choice(items[i])) /\ (m < n => Choice(items[m + 1]))
  BY DEF Cut
<1>. HIDE DEF n
<1>3. PICK m \in T : \A j \in T : m <= j
  <2>. HIDE DEF T
  <2>. QED
    BY <1>1, LeastIn
<1>4. ASSUME NEW i \in 1..m PROVE ~Choice(items[i])
  <2>1. i - 1 \in 0..n /\ ~(m <= i - 1) /\ (i - 1) + 1 = i
    BY <1>1
  <2>2. i - 1 \notin T
    BY <1>3, <2>1
  <2>3. ~Choice(items[(i - 1) + 1])
    BY <2>1, <2>2
  <2>. QED
    BY <2>1, <2>3
<1>5. m \in 0..n /\ CutHere(m)
  BY <1>0, <1>4
<1>. HIDE DEF CutHere
<1>6. UpTo(items) \in 0..n /\ CutHere(UpTo(items))
  BY <1>2, <1>5
<1>. QED
  BY <1>0, <1>6 DEF n

LEMMA DoesTyped ==
  ASSUME NEW items, NEW s, NEW t, Does(items, s, t)
  PROVE  \E R : items \in Seq(R)
  BY DEF Does

(* The first of several steps, and the others *)
LEMMA DoesFirst ==
  ASSUME NEW items, NEW s, NEW t, Does(items, s, t), items # <<>>
  PROVE  \E u : Step(items[1], s, u) /\ Does(Tail(items), u, t)
<1>1. PICK R, sh : /\ items \in Seq(R) /\ sh[0] = s /\ sh[Len(items)] = t
                   /\ \A i \in 1..Len(items) : Step(items[i], sh[i - 1], sh[i])
  BY DEF Does
<1>. DEFINE n == Len(items)
            rest == Tail(items)
            up == [i \in 0..(n - 1) |-> sh[i + 1]]
<1>2. n \in Nat /\ n > 0
  BY <1>1
<1>3. rest \in Seq(R) /\ Len(rest) = n - 1 /\ \A i \in 1..(n - 1) : rest[i] = items[i + 1]
  BY <1>1
<1>4. \A i \in 1..n : Step(items[i], sh[i - 1], sh[i])
  BY <1>1
<1>5. sh[0] = s /\ sh[n] = t
  BY <1>1
<1>. HIDE DEF n, rest
<1>6. Step(items[1], s, sh[1])
  <2>1. 1 \in 1..n /\ 1 - 1 = 0
    BY <1>2
  <2>2. Step(items[1], sh[1 - 1], sh[1])
    BY <1>4, <2>1
  <2>. QED
    BY <1>5, <2>1, <2>2
<1>7. up[0] = sh[1] /\ up[n - 1] = t
  BY <1>2, <1>5
<1>8. ASSUME NEW i \in 1..(n - 1) PROVE Step(rest[i], up[i - 1], up[i])
  <2>1. i + 1 \in 1..n /\ (i + 1) - 1 = i
    BY <1>2
  <2>2. Step(items[i + 1], sh[(i + 1) - 1], sh[i + 1])
    BY <1>4, <2>1
  <2>3. up[i] = sh[i + 1] /\ up[i - 1] = sh[i]
    BY <1>2
  <2>. HIDE DEF up
  <2>. QED
    BY <1>3, <2>1, <2>2, <2>3
<1>. HIDE DEF up
<1>9. Does(rest, sh[1], t)
  BY <1>3, <1>7, <1>8 DEF Does
<1>. QED
  BY <1>6, <1>9 DEF rest

(* A list of steps is done up to any point *)
LEMMA DoesUpTo ==
  ASSUME NEW st, NEW s, Matches(st, s), NEW items, NEW t, Does(items, s, t),
         NEW n \in 0..Len(items), \A i \in 1..n : ~Choice(items[i])
  PROVE  \E u : /\ Matches(RunFrom(st, SubSeq(items, 1, n)), u)
                /\ Does(SubSeq(items, n + 1, Len(items)), u, t)
<1>1. PICK R, sh : /\ items \in Seq(R) /\ sh[0] = s /\ sh[Len(items)] = t
                   /\ \A i \in 1..Len(items) : Step(items[i], sh[i - 1], sh[i])
  BY DEF Does
<1>. DEFINE m == Len(items)
            p == SubSeq(items, 1, n)
            q == SubSeq(items, n + 1, m)
            up == [i \in 0..(m - n) |-> sh[i + n]]
<1>2. m \in Nat /\ n \in Nat /\ n <= m
  BY <1>1
<1>3. p \in Seq(R) /\ Len(p) = n /\ \A i \in 1..n : p[i] = items[i]
  BY <1>1
<1>4. q \in Seq(R) /\ Len(q) = m - n /\ \A i \in 1..(m - n) : q[i] = items[i + n]
  <2>1. \A i \in (n + 1)..m : items[i] \in R
    BY <1>1
  <2>. HIDE DEF m
  <2>. QED
    BY <1>1, <1>2, <2>1
<1>5. sh[m] = t /\ \A i \in 1..m : Step(items[i], sh[i - 1], sh[i])
  BY <1>1
<1>. HIDE DEF m, p, q
<1>6. \A i \in 1..n : Step(p[i], sh[i - 1], sh[i]) /\ ~Choice(p[i])
  <2>. SUFFICES ASSUME NEW i \in 1..n PROVE Step(p[i], sh[i - 1], sh[i]) /\ ~Choice(p[i])
    OBVIOUS
  <2>1. i \in 1..m
    BY <1>2
  <2>. QED
    BY <1>3, <1>5, <2>1
<1>7. Matches(RunFrom(st, p), sh[n])
  BY <1>1, <1>3, <1>6, RunMatches
<1>8. up[0] = sh[n] /\ up[m - n] = t
  BY <1>2, <1>5
<1>9. ASSUME NEW i \in 1..(m - n) PROVE Step(q[i], up[i - 1], up[i])
  <2>1. i + n \in 1..m /\ (i + n) - 1 = (i - 1) + n
    BY <1>2
  <2>2. Step(items[i + n], sh[(i + n) - 1], sh[i + n])
    BY <1>5, <2>1
  <2>3. up[i] = sh[i + n] /\ up[i - 1] = sh[(i - 1) + n]
    BY <1>2
  <2>. HIDE DEF up
  <2>. QED
    BY <1>4, <2>1, <2>2, <2>3
<1>. HIDE DEF up
<1>10. Does(q, sh[n], t)
  BY <1>4, <1>8, <1>9 DEF Does
<1>. QED
  BY <1>7, <1>10 DEF p, q, m

(***************************************************************************)
(* The invariant: from here, the steps to do lead to the end                *)
(***************************************************************************)
Now == M(fns, tail, depth, roots, limit, faults)
Done == S([base |-> <<>>, depth |-> 0, roots |-> 0], NoVars, 0, 0, 1, <<>>, "any")

Shaped ==
  /\ todo = <<>> \/ Choice(todo[1])
  /\ \E s : Matches(Now, s) /\ Does(todo, s, Done)

LEMMA ProceedShaped ==
  ASSUME NEW items, NEW lim, Proceed(items, lim), NEW s, Matches(Now, s),
         Does(items \o Tail(todo), s, Done)
  PROVE  Shaped'
<1>. DEFINE all == items \o Tail(todo)
            n == UpTo(all)
            st0 == M(fns, tail, depth, roots, lim, faults)
            st == RunFrom(st0, SubSeq(all, 1, n))
<1>1. /\ todo' = SubSeq(all, n + 1, Len(all)) /\ fns' = st.fns /\ tail' = st.tail
      /\ depth' = st.depth /\ roots' = st.roots /\ limit' = st.limit /\ faults' = st.faults
  BY DEF Proceed, M
<1>2. Matches(st0, s)
  BY MParts DEF Matches, Now
<1>3. PICK R : all \in Seq(R)
  BY DoesTyped
<1>4. Does(all, s, Done)
  OBVIOUS
<1>. HIDE DEF all, st0
<1>5. /\ n \in 0..Len(all) /\ \A i \in 1..n : ~Choice(all[i])
      /\ n < Len(all) => Choice(all[n + 1])
  BY <1>3, UpToIs
<1>. HIDE DEF n
<1>6. PICK u : Matches(st, u) /\ Does(SubSeq(all, n + 1, Len(all)), u, Done)
  BY <1>2, <1>4, <1>5, DoesUpTo
<1>7. st = M(st.fns, st.tail, st.depth, st.roots, st.limit, st.faults)
  <2>. HIDE DEF st
  <2>1. PICK fs, ta, de, ro, li, fa : st = M(fs, ta, de, ro, li, fa)
    BY <1>6 DEF Matches, IsState
  <2>. QED
    BY <2>1, MParts
<1>. HIDE DEF st
<1>8. M(fns', tail', depth', roots', limit', faults') = st
  BY <1>1, <1>7
<1>9. Matches(M(fns', tail', depth', roots', limit', faults'), u) /\ Does(todo', u, Done)
  BY <1>1, <1>6, <1>8
<1>10. todo' = <<>> \/ Choice(todo'[1])
  <2>1. CASE n < Len(all)
    <3>1. SubSeq(all, n + 1, Len(all))[1] = all[n + 1]
      BY <1>3, <1>5, <2>1
    <3>. QED
      BY <1>1, <1>5, <2>1, <3>1
  <2>2. CASE ~(n < Len(all))
    <3>1. n = Len(all) /\ Len(all) \in Nat
      BY <1>3, <1>5, <2>2
    <3>2. SubSeq(all, n + 1, Len(all)) = <<>>
      BY <1>3, <3>1
    <3>. QED
      BY <1>1, <3>2
  <2>. QED
    BY <2>1, <2>2
<1>11. Done' = Done
  BY DEF Done
<1>. QED
  BY <1>9, <1>10, <1>11 DEF Shaped, Now


(***************************************************************************)
(* What the parser may choose, and where                                    *)
(***************************************************************************)
AsIs(s) == Moved(s, s.fun.height, s.fun.jumps, s.fun.last)
Vague(s) == Moved(s, s.fun.height, s.fun.jumps, "any")

LEMMA MovedParts ==
  ASSUME NEW s, NEW h, NEW j, NEW l
  PROVE  /\ Moved(s, h, j, l).ctx = s.ctx
         /\ Moved(s, h, j, l).fun = Fun(s.fun.vars, s.fun.anon, s.fun.keys, h, j, l)
  BY DEF Moved, S

LEMMA MatchesHere ==
  ASSUME NEW st, NEW s, Matches(st, s)
  PROVE  /\ Good(s.ctx, s.fun.vars, s.fun.anon, s.fun.keys, s.fun.jumps) /\ s.fun.last \in Known
         /\ s.fun.height \in Nat /\ s.fun \in Shapes /\ Fits(CurIn(st.fns), s.fun)
         /\ st.tail \in BOOLEAN
<1>1. /\ Levels(st.fns, s.ctx, s.fun) /\ st.tail \in BOOLEAN
  BY DEF Matches
<1>2. s.ctx \in Contexts /\ Fits(CurIn(st.fns), s.fun)
  BY <1>1 DEF Levels
<1>3. s.fun \in Shapes
  BY <1>2 DEF Fits
<1>4. /\ IsVars(s.fun.vars) /\ s.fun.anon \in Nat /\ s.fun.keys \in Nat /\ s.fun.height \in Nat
      /\ s.fun.jumps \in Seq(Int) /\ s.fun.last \in Known
  BY <1>3, ShapeParts
<1>. QED
  BY <1>1, <1>2, <1>3, <1>4 DEF Good

LEMMA FitsWeakened ==
  ASSUME NEW f, NEW u, Fits(f, u), NEW l \in Known, LastFits(f, l)
  PROVE  Fits(f, Fun(u.vars, u.anon, u.keys, u.height, u.jumps, l))
<1>1. /\ f \in Compiled /\ u \in Shapes /\ Scoped(f.locals, f.scope, u.vars) /\ f.anon = u.anon
      /\ f.keys = u.keys /\ Len(f.stack) = u.height /\ JumpsFit(f.jumps, u.jumps)
  BY DEF Fits
<1>2. IsVars(u.vars) /\ u.jumps \in Seq(Int)
  BY <1>1, ShapeParts
<1>. QED
  BY <1>1, <1>2, Fitting

LEMMA MatchesWeakened ==
  ASSUME NEW st, NEW s, Matches(st, s), NEW l \in Known, l \in {"any", s.fun.last}
  PROVE  Matches(st, Moved(s, s.fun.height, s.fun.jumps, l))
<1>. DEFINE t == Moved(s, s.fun.height, s.fun.jumps, l)
            f == CurIn(st.fns)
<1>1. Fits(f, s.fun)
  BY MatchesHere
<1>2. LastFits(f, l)
  BY <1>1, AnyFits DEF Fits
<1>3. t.ctx = s.ctx /\ t.fun = Fun(s.fun.vars, s.fun.anon, s.fun.keys, s.fun.height, s.fun.jumps, l)
  BY MovedParts
<1>. HIDE DEF t, f
<1>4. Fits(f, t.fun)
  BY <1>1, <1>2, <1>3, FitsWeakened
<1>. QED
  BY <1>3, <1>4 DEF Matches, Levels, f, t

LEMMA MatchesVague ==
  ASSUME NEW st, NEW s, Matches(st, s)
  PROVE  Matches(st, Vague(s)) /\ Matches(st, AsIs(s))
<1>1. s.fun.last \in Known /\ "any" \in Known
  BY MatchesHere DEF Known
<1>. QED
  BY <1>1, MatchesWeakened DEF Vague, AsIs

LEMMA NowIs == Now.fns = fns /\ Now.tail = tail /\ Now.depth = depth /\ Now.roots = roots /\ Now.faults = faults
  BY MParts DEF Now

LEMMA NowHere ==
  ASSUME NEW s, Matches(Now, s)
  PROVE  tail \in BOOLEAN /\ Fits(Cur, s.fun)
  BY MatchesHere, NowIs DEF Cur

(* The items leave a value wherever the compiler may be now *)
Evaluates(items) ==
  \A s : Matches(Now, s) /\ Ready(s.fun) =>
    Does(items, AsIs(s), Moved(s, s.fun.height + 1, s.fun.jumps, "sealed"))

LEMMA YieldsEvaluates ==
  ASSUME NEW items, Yields(items, "sealed")
  PROVE  Evaluates(items)
<1>. SUFFICES ASSUME NEW s, Matches(Now, s), Ready(s.fun)
              PROVE  Does(items, AsIs(s), Moved(s, s.fun.height + 1, s.fun.jumps, "sealed"))
  BY DEF Evaluates
<1>1. /\ Good(s.ctx, s.fun.vars, s.fun.anon, s.fun.keys, s.fun.jumps) /\ s.fun.last \in Known
      /\ s.fun.height = s.fun.vars.count + s.fun.anon + s.fun.keys
  BY MatchesHere DEF Ready
<1>2. Does(items, S(s.ctx, s.fun.vars, s.fun.anon, s.fun.keys, s.fun.height, s.fun.jumps, s.fun.last),
           S(s.ctx, s.fun.vars, s.fun.anon, s.fun.keys, s.fun.height + 1, s.fun.jumps, "sealed"))
  BY <1>1 DEF Yields
<1>. QED
  BY <1>2 DEF AsIs, Moved

LEMMA YieldsInEvaluates ==
  ASSUME NEW items, YieldsIn(items, {}, "sealed"), ~InKey
  PROVE  Evaluates(items)
<1>. SUFFICES ASSUME NEW s, Matches(Now, s), Ready(s.fun)
              PROVE  Does(items, AsIs(s), Moved(s, s.fun.height + 1, s.fun.jumps, "sealed"))
  BY DEF Evaluates
<1>1. Fits(Cur, s.fun)
  BY NowHere
<1>2. s.fun.keys = Zero
  <2>1. s.fun.keys \in Nat /\ Cur.keys = s.fun.keys
    BY <1>1, ShapeParts DEF Fits
  <2>. QED
    BY <2>1 DEF InKey, Zero
<1>3. /\ Good(s.ctx, s.fun.vars, s.fun.anon, Zero, s.fun.jumps) /\ s.fun.last \in Known
      /\ s.fun.height = s.fun.vars.count + s.fun.anon + Zero
  BY <1>2, MatchesHere DEF Ready
<1>4. Does(items, S(s.ctx, s.fun.vars, s.fun.anon, Zero, s.fun.height, s.fun.jumps, s.fun.last),
           S(s.ctx, s.fun.vars, s.fun.anon, Zero, s.fun.height + 1, s.fun.jumps, "sealed"))
  BY <1>3 DEF YieldsIn
<1>. QED
  BY <1>2, <1>4 DEF AsIs, Moved

LEMMA NameEvaluates ==
  ASSUME NEW x, InScope(fns, x), NEW type \in Types \ {"Std", "Native"}
  PROVE  Evaluates(LoadName(x) \o PushT(type))
<1>. SUFFICES ASSUME NEW s, Matches(Now, s), Ready(s.fun)
              PROVE  Does(LoadName(x) \o PushT(type), AsIs(s),
                          Moved(s, s.fun.height + 1, s.fun.jumps, "sealed"))
  BY DEF Evaluates
<1>1. Levels(fns, s.ctx, s.fun)
  BY NowIs DEF Matches
<1>2. Reaches(s.ctx, s.fun.vars, x)
  BY <1>1, ReachesIs
<1>3. s.fun.height \in Nat
  BY MatchesHere
<1>. DEFINE h == s.fun.height + 1
            m == Moved(s, h, s.fun.jumps, "any")
            t == Moved(s, h, s.fun.jumps, "sealed")
<1>4. Step(<<"load", x>>, AsIs(s), m)
  <2>1. AsIs(s).fun.height = s.fun.height /\ AsIs(s).fun.jumps = s.fun.jumps /\ AsIs(s).ctx = s.ctx
        /\ AsIs(s).fun.vars = s.fun.vars /\ AsIs(s).fun.anon = s.fun.anon /\ AsIs(s).fun.keys = s.fun.keys
    BY MovedParts, FunParts DEF AsIs
  <2>2. 0 \in 0..s.fun.height /\ s.fun.height - 0 + 1 = h
    BY <1>3
  <2>3. Moved(AsIs(s), h, s.fun.jumps, "any") = m
    BY <2>1 DEF Moved
  <2>4. TakeStep(AsIs(s), m, 0, 1, "any")
    BY <2>1, <2>2, <2>3 DEF TakeStep
  <2>5. LoadStep(AsIs(s), m, x)
    BY <1>2, <2>1, <2>4 DEF LoadStep
  <2>. QED
    BY <2>5 DEF Step
<1>5. Step(<<"tpush", type>>, m, t)
  <2>1. m.fun.height = h /\ m.fun.jumps = s.fun.jumps /\ m.ctx = s.ctx
        /\ m.fun.vars = s.fun.vars /\ m.fun.anon = s.fun.anon /\ m.fun.keys = s.fun.keys
    BY MovedParts, FunParts
  <2>2. h \in Nat /\ 0 \in 0..h /\ h - 0 + 0 = h
    BY <1>3
  <2>. HIDE DEF h
  <2>3. Moved(m, h, s.fun.jumps, "sealed") = t
    BY <2>1 DEF Moved
  <2>. HIDE DEF m, t
  <2>4. TakeStep(m, t, 0, 0, "sealed")
    BY <2>1, <2>2, <2>3 DEF TakeStep
  <2>5. type \in Types /\ "sealed" \in LastAfter(type, m.fun.last)
    BY DEF LastAfter
  <2>6. TypeStep(m, t, type)
    BY <2>4, <2>5 DEF TypeStep
  <2>. QED
    BY <2>6 DEF Step
<1>. HIDE DEF m, t
<1>6. Does(LoadName(x), AsIs(s), m)
  BY <1>4, DoesOne DEF LoadName
<1>7. Does(PushT(type), m, t)
  BY <1>5, DoesOne DEF PushT
<1>8. Does(LoadName(x) \o PushT(type), AsIs(s), t)
  BY <1>6, <1>7, Then
<1>. QED
  BY <1>8 DEF t, h


(* What is to do now: the choice, and then the others *)
LEMMA FirstChoice ==
  ASSUME Shaped, NEW name, At(name)
  PROVE  \E s, u : /\ Matches(Now, s) /\ Step(todo[1], s, u) /\ todo[1][1] = name
                   /\ Does(Tail(todo), u, Done)
<1>1. PICK s : Matches(Now, s) /\ Does(todo, s, Done)
  BY DEF Shaped
<1>2. todo # <<>> /\ todo[1][1] = name
  BY DEF At
<1>3. PICK u : Step(todo[1], s, u) /\ Does(Tail(todo), u, Done)
  BY <1>1, <1>2, DoesFirst
<1>. QED
  BY <1>1, <1>2, <1>3

LEMMA OperandAfter ==
  ASSUME NEW s, NEW h, NEW j, NEW l, h \in Nat, h > 0,
         h = s.fun.vars.count + s.fun.anon + s.fun.keys + 1
  PROVE  Operand(Moved(s, h, j, l).fun)
  BY MovedParts, FunParts DEF Operand

LEMMA MovedTwice ==
  ASSUME NEW s, NEW h, NEW j, NEW l, NEW g, NEW i, NEW m
  PROVE  Moved(Moved(s, h, j, l), g, i, m) = Moved(s, g, i, m)
  BY MovedParts, FunParts DEF Moved

LEMMA PrefixShaped ==
  ASSUME Shaped, NEW items, Evaluates(items), Prefix(items)
  PROVE  Shaped'
<1>1. At("expr") /\ Proceed(items \o More, Tightest)
  BY DEF Prefix, Continue
<1>2. PICK s, u : /\ Matches(Now, s) /\ Step(todo[1], s, u) /\ todo[1][1] = "expr"
                  /\ Does(Tail(todo), u, Done)
  BY <1>1, FirstChoice
<1>. DEFINE bp == todo[1][2]
            j == s.fun.jumps
            h == s.fun.height + 1
            m == Moved(s, h, j, "sealed")
<1>3. ExprStep(s, u, bp)
  BY <1>2 DEF Step
<1>4. PICK l \in {"any", "sealed"} : u = Moved(s, h, j, l)
  BY <1>3 DEF ExprStep
<1>5. bp \in Nat /\ Ready(s.fun)
  BY <1>3 DEF ExprStep
<1>6. h \in Nat /\ h > 0 /\ h = s.fun.vars.count + s.fun.anon + s.fun.keys + 1
  <2>1. s.fun.height \in Nat
    BY <1>2, MatchesHere
  <2>. QED
    BY <1>5, <2>1 DEF Ready
<1>7. Does(items, AsIs(s), m)
  BY <1>2, <1>5 DEF Evaluates
<1>. HIDE DEF h, j
<1>8. Operand(m.fun) /\ m.fun.last = "sealed" /\ m.fun.height = h /\ m.fun.jumps = j
  BY <1>6, OperandAfter, MovedParts, FunParts
<1>9. u = Moved(m, h, j, l)
  BY <1>4, MovedTwice
<1>. HIDE DEF m, bp
<1>10. MoreStep(m, u, bp)
  BY <1>5, <1>8, <1>9 DEF MoreStep
<1>11. Does(More, m, u)
  <2>1. More = <<<<"more", bp>>>>
    BY DEF More, bp
  <2>2. Step(<<"more", bp>>, m, u)
    BY <1>10 DEF Step
  <2>. QED
    BY <2>1, <2>2, DoesOne
<1>. HIDE DEF More
<1>12. Does(items \o More, AsIs(s), u)
  BY <1>7, <1>11, Then
<1>13. Does((items \o More) \o Tail(todo), AsIs(s), Done)
  BY <1>2, <1>12, Then
<1>14. Matches(Now, AsIs(s))
  BY <1>2, MatchesVague
<1>. DEFINE all == items \o More
<1>15. Proceed(all, Tightest) /\ Does(all \o Tail(todo), AsIs(s), Done)
  BY <1>1, <1>13
<1>. HIDE DEF all
<1>. QED
  BY <1>14, <1>15, ProceedShaped

LEMMA OperatorShaped ==
  ASSUME Shaped, NEW items, Operates(items), NEW power, Operator(power, items)
  PROVE  Shaped'
<1>1. At("more") /\ Proceed(items \o More, Tightest)
  BY DEF Operator, Continue
<1>2. PICK s, u : /\ Matches(Now, s) /\ Step(todo[1], s, u) /\ todo[1][1] = "more"
                  /\ Does(Tail(todo), u, Done)
  BY <1>1, FirstChoice
<1>. DEFINE bp == todo[1][2]
            j == s.fun.jumps
            h == s.fun.height
            m == Moved(s, h, j, "sealed")
<1>3. MoreStep(s, u, bp)
  BY <1>2 DEF Step
<1>4. PICK l \in {"any", "sealed"} : u = Moved(s, h, j, l)
  BY <1>3 DEF MoreStep
<1>5. bp \in Nat /\ Operand(s.fun) /\ s.fun.last = "sealed"
  BY <1>3 DEF MoreStep
<1>6. /\ h \in Nat /\ h > 0 /\ h = s.fun.vars.count + s.fun.anon + s.fun.keys + 1
      /\ Good(s.ctx, s.fun.vars, s.fun.anon, s.fun.keys, j)
  BY <1>2, <1>5, MatchesHere DEF Operand
<1>7. Does(items, m, m)
  <2>1. m = S(s.ctx, s.fun.vars, s.fun.anon, s.fun.keys, h, j, "sealed")
    BY DEF Moved
  <2>. HIDE DEF m, h, j
  <2>2. Does(items, S(s.ctx, s.fun.vars, s.fun.anon, s.fun.keys, h, j, "sealed"),
             S(s.ctx, s.fun.vars, s.fun.anon, s.fun.keys, h, j, "sealed"))
    BY <1>6 DEF Operates
  <2>. QED
    BY <2>1, <2>2
<1>8. m = AsIs(s)
  BY <1>5 DEF AsIs
<1>. HIDE DEF h, j
<1>9. Operand(m.fun) /\ m.fun.last = "sealed" /\ m.fun.height = h /\ m.fun.jumps = j
  BY <1>6, OperandAfter, MovedParts, FunParts
<1>10. u = Moved(m, h, j, l)
  BY <1>4, MovedTwice
<1>. HIDE DEF m, bp
<1>11. MoreStep(m, u, bp)
  BY <1>5, <1>9, <1>10 DEF MoreStep
<1>12. Does(More, m, u)
  <2>1. More = <<<<"more", bp>>>>
    BY DEF More, bp
  <2>2. Step(<<"more", bp>>, m, u)
    BY <1>11 DEF Step
  <2>. QED
    BY <2>1, <2>2, DoesOne
<1>. HIDE DEF More
<1>13. Does(items \o More, m, u)
  BY <1>7, <1>12, Then
<1>14. Does((items \o More) \o Tail(todo), m, Done)
  BY <1>2, <1>13, Then
<1>15. Matches(Now, m)
  BY <1>2, <1>8, MatchesVague
<1>. DEFINE all == items \o More
<1>16. Proceed(all, Tightest) /\ Does(all \o Tail(todo), m, Done)
  BY <1>1, <1>14
<1>. HIDE DEF all
<1>. QED
  BY <1>15, <1>16, ProceedShaped

LEMMA EndExprShaped ==
  ASSUME Shaped, EndExpr
  PROVE  Shaped'
<1>. DEFINE lim == IF todo[1][2] < limit THEN todo[1][2] ELSE limit
<1>1. At("more") /\ Proceed(<<>>, lim)
  BY DEF EndExpr
<1>2. PICK s, u : /\ Matches(Now, s) /\ Step(todo[1], s, u) /\ todo[1][1] = "more"
                  /\ Does(Tail(todo), u, Done)
  BY <1>1, FirstChoice
<1>3. MoreStep(s, u, todo[1][2])
  BY <1>2 DEF Step
<1>4. PICK l \in {"any", "sealed"} : u = Moved(s, s.fun.height, s.fun.jumps, l)
  BY <1>3 DEF MoreStep
<1>5. s.fun.last = "sealed"
  BY <1>3 DEF MoreStep
<1>6. Matches(Now, u)
  BY <1>2, <1>4, <1>5, MatchesWeakened DEF Known
<1>7. Does(<<>> \o Tail(todo), u, Done)
  BY <1>2, DoesNothing, Then
<1>. HIDE DEF lim
<1>. QED
  BY <1>1, <1>6, <1>7, ProceedShaped

LEMMA LastMemberShaped ==
  ASSUME Shaped, LastMember
  PROVE  Shaped'
<1>1. At("member") /\ Proceed(<<>>, Tightest)
  BY DEF LastMember, Continue
<1>2. PICK s, u : /\ Matches(Now, s) /\ Step(todo[1], s, u) /\ todo[1][1] = "member"
                  /\ Does(Tail(todo), u, Done)
  BY <1>1, FirstChoice
<1>3. MemberStep(s, u, todo[1][2], todo[1][3])
  BY <1>2 DEF Step
<1>4. u = Vague(s)
  BY <1>3 DEF MemberStep, Vague
<1>5. Matches(Now, u)
  BY <1>2, <1>4, MatchesVague
<1>6. Does(<<>> \o Tail(todo), u, Done)
  BY <1>2, DoesNothing, Then
<1>. HIDE DEF Tightest
<1>. QED
  BY <1>1, <1>5, <1>6, ProceedShaped

(* A member takes the object and leaves it *)
Adding(items) ==
  \A s : Matches(Now, s) /\ Operand(s.fun) => Does(items, Vague(s), Vague(s))

LEMMA MemberShaped ==
  ASSUME Shaped, NEW items, Adding(items), Member(items)
  PROVE  Shaped'
<1>. DEFINE bs == todo[1][2]
            n == todo[1][3]
            one == 1
            rest == Members(bs, n - one)
<1>1. At("member") /\ n > 0 /\ Proceed(items \o rest, Tightest)
  BY DEF Member, Continue
<1>2. PICK s, u : /\ Matches(Now, s) /\ Step(todo[1], s, u) /\ todo[1][1] = "member"
                  /\ Does(Tail(todo), u, Done)
  BY <1>1, FirstChoice
<1>3. MemberStep(s, u, bs, n)
  BY <1>2 DEF Step
<1>4. bs \in Bindings \cup {<<>>} /\ n \in Nat /\ Operand(s.fun) /\ u = Vague(s)
  BY <1>3 DEF MemberStep, Vague
<1>5. n - one \in Nat
  BY <1>1, <1>4
<1>6. /\ u.fun.height = s.fun.height /\ u.fun.jumps = s.fun.jumps /\ Operand(u.fun)
      /\ u = Vague(u)
  <2>1. Operand(u.fun)
    <3>. DEFINE h == s.fun.height
                j == s.fun.jumps
    <3>1. h \in Nat /\ h > 0 /\ h = s.fun.vars.count + s.fun.anon + s.fun.keys + 1
      BY <1>2, <1>4, MatchesHere DEF Operand
    <3>2. u = Moved(s, h, j, "any")
      BY <1>4 DEF Vague
    <3>. HIDE DEF h, j
    <3>3. Operand(Moved(s, h, j, "any").fun)
      BY <3>1, OperandAfter
    <3>. QED
      BY <3>2, <3>3
  <2>2. u.fun.height = s.fun.height /\ u.fun.jumps = s.fun.jumps
    BY <1>4, MovedParts, FunParts DEF Vague
  <2>3. u = Vague(u)
    BY <1>4, <2>2, MovedTwice DEF Vague
  <2>. QED
    BY <2>1, <2>2, <2>3
<1>. HIDE DEF bs, n, one
<1>7. Does(items, u, u)
  BY <1>2, <1>4 DEF Adding
<1>8. Does(rest, u, u)
  <2>1. MemberStep(u, u, bs, n - one)
    BY <1>4, <1>5, <1>6 DEF MemberStep, Vague
  <2>2. Step(<<"member", bs, n - one>>, u, u)
    BY <2>1 DEF Step
  <2>. QED
    BY <2>2, DoesOne DEF Members
<1>. HIDE DEF rest
<1>9. Does(items \o rest, u, u)
  BY <1>7, <1>8, Then
<1>10. Does((items \o rest) \o Tail(todo), u, Done)
  BY <1>2, <1>9, Then
<1>11. Matches(Now, u)
  BY <1>2, <1>4, MatchesVague
<1>. DEFINE all == items \o rest
<1>12. Proceed(all, Tightest) /\ Does(all \o Tail(todo), u, Done)
  BY <1>1, <1>10
<1>. HIDE DEF all
<1>. QED
  BY <1>11, <1>12, ProceedShaped


(***************************************************************************)
(* The actions                                                              *)
(***************************************************************************)
LEMMA ShapedTail ==
  ASSUME Shaped
  PROVE  tail \in BOOLEAN
  BY NowHere DEF Shaped

LEMMA ShapedTop ==
  ASSUME Shaped, At("more")
  PROVE  Last(Cur.stack) \in SUBSET Kinds
<1>1. PICK s, u : /\ Matches(Now, s) /\ Step(todo[1], s, u) /\ todo[1][1] = "more"
                  /\ Does(Tail(todo), u, Done)
  BY FirstChoice
<1>2. MoreStep(s, u, todo[1][2])
  BY <1>1 DEF Step
<1>3. s.fun.height > 0
  BY <1>2 DEF MoreStep, Operand
<1>4. Fits(Cur, s.fun) /\ s.fun.height \in Nat
  BY <1>1, NowHere, MatchesHere
<1>5. Cur \in Compiled /\ Len(Cur.stack) > 0
  BY <1>3, <1>4 DEF Fits
<1>. DEFINE K == SUBSET Kinds
<1>6. Cur.stack \in Seq(K)
  BY <1>5, CompiledParts
<1>. HIDE DEF K
<1>7. Last(Cur.stack) \in K
  BY <1>5, <1>6 DEF Last
<1>. QED
  BY <1>7 DEF K

LEMMA ShapedMember ==
  ASSUME Shaped, At("member")
  PROVE  todo[1][2] \in Bindings \cup {<<>>}
<1>1. PICK s, u : /\ Matches(Now, s) /\ Step(todo[1], s, u) /\ todo[1][1] = "member"
                  /\ Does(Tail(todo), u, Done)
  BY FirstChoice
<1>2. MemberStep(s, u, todo[1][2], todo[1][3])
  BY <1>1 DEF Step
<1>. QED
  BY <1>2 DEF MemberStep

LEMMA ItemCounts == \A n \in 0..MaxItems : n \in Nat
  BY BoundsAssumption

LEMMA LeafShaped ==
  ASSUME Shaped, Leaf
  PROVE  Shaped'
<1>1. PICK form \in Leaves : Prefix(LeafItems[form])
  BY DEF Leaf
<1>2. Evaluates(LeafItems[form])
  BY LeafYields, YieldsEvaluates
<1>. QED
  BY <1>1, <1>2, PrefixShaped

LEMMA IdentifierShaped ==
  ASSUME Shaped, Identifier
  PROVE  Shaped'
<1>1. PICK x \in Names \cup {"$"} :
        /\ InScope(fns, x)
        /\ Prefix(LoadName(x) \o PushT(IF x = "$" THEN "Object" ELSE "Unknown"))
  BY DEF Identifier
<1>. DEFINE type == IF x = "$" THEN "Object" ELSE "Unknown"
<1>2. type \in Types \ {"Std", "Native"}
  BY TypeNames
<1>. HIDE DEF type
<1>3. Evaluates(LoadName(x) \o PushT(type))
  BY <1>1, <1>2, NameEvaluates
<1>4. Prefix(LoadName(x) \o PushT(type))
  BY <1>1 DEF type
<1>. QED
  BY <1>3, <1>4, PrefixShaped

LEMMA UnaryMinusShaped ==
  ASSUME Shaped, UnaryMinus
  PROVE  Shaped'
<1>. DEFINE items == NoTail(Unary) \o Op(1, {"num"}) \o Negate
<1>1. Prefix(items)
  BY DEF UnaryMinus
<1>2. Evaluates(items)
  BY ShapedTail, UnaryYields, YieldsEvaluates
<1>. HIDE DEF items
<1>. QED
  BY <1>1, <1>2, PrefixShaped

LEMMA ParensShaped ==
  ASSUME Shaped, Parens
  PROVE  Shaped'
<1>. DEFINE items == NoTail(0) \o Close
<1>1. Prefix(items)
  BY DEF Parens
<1>2. Evaluates(items)
  BY ShapedTail, ParensYields, YieldsEvaluates
<1>. HIDE DEF items
<1>. QED
  BY <1>1, <1>2, PrefixShaped

LEMMA SuperIndexShaped ==
  ASSUME Shaped, SuperIndex
  PROVE  Shaped'
<1>. DEFINE items == NoTail(0) \o Close \o Op(1, AnyKind) \o PushT("Unknown")
<1>1. Prefix(items)
  BY DEF SuperIndex
<1>2. Evaluates(items)
  BY ShapedTail, SuperIndexYields, YieldsEvaluates
<1>. HIDE DEF items
<1>. QED
  BY <1>1, <1>2, PrefixShaped

LEMMA ErrorShaped ==
  ASSUME Shaped, Error
  PROVE  Shaped'
<1>. DEFINE items == parse_error
<1>1. Prefix(items)
  BY DEF Error
<1>2. Evaluates(items)
  BY ShapedTail, ErrorYields, YieldsEvaluates
<1>. HIDE DEF items
<1>. QED
  BY <1>1, <1>2, PrefixShaped

LEMMA ArrayShaped ==
  ASSUME Shaped, Array
  PROVE  Shaped'
<1>1. PICK n \in 0..MaxItems : Prefix(parse_array_literal(n))
  BY DEF Array
<1>2. Evaluates(parse_array_literal(n))
  BY ShapedTail, ItemCounts, ArrayYields, YieldsEvaluates
<1>. DEFINE items == parse_array_literal(n)
<1>3. Evaluates(items) /\ Prefix(items)
  BY <1>1, <1>2
<1>. HIDE DEF items
<1>. QED
  BY <1>3, PrefixShaped

LEMMA AssertStmtShaped ==
  ASSUME Shaped, AssertStmt
  PROVE  Shaped'
<1>1. PICK m \in BOOLEAN : Prefix(parse_assert_expression(m))
  BY DEF AssertStmt
<1>2. Evaluates(parse_assert_expression(m))
  BY ShapedTail, AssertYields, YieldsEvaluates
<1>. DEFINE items == parse_assert_expression(m)
<1>3. Evaluates(items) /\ Prefix(items)
  BY <1>1, <1>2
<1>. HIDE DEF items
<1>. QED
  BY <1>3, PrefixShaped

LEMMA IfShaped ==
  ASSUME Shaped, If
  PROVE  Shaped'
<1>1. PICK e \in BOOLEAN : Prefix(parse_if_expression(e))
  BY DEF If
<1>2. Evaluates(parse_if_expression(e))
  BY ShapedTail, IfYields, YieldsEvaluates
<1>. DEFINE items == parse_if_expression(e)
<1>3. Evaluates(items) /\ Prefix(items)
  BY <1>1, <1>2
<1>. HIDE DEF items
<1>. QED
  BY <1>3, PrefixShaped

LEMMA FunctionShaped ==
  ASSUME Shaped, Function
  PROVE  Shaped'
<1>1. PICK ps \in Params : Prefix(parse_function_expression(ps))
  BY DEF Function
<1>2. Evaluates(parse_function_expression(ps))
  BY ShapedTail, FunctionYields, YieldsEvaluates
<1>. DEFINE items == parse_function_expression(ps)
<1>3. Evaluates(items) /\ Prefix(items)
  BY <1>1, <1>2
<1>. HIDE DEF items
<1>. QED
  BY <1>3, PrefixShaped

LEMMA LocalShaped ==
  ASSUME Shaped, ~KeysBind, Local
  PROVE  Shaped'
<1>1. PICK bs \in Bindings \ {<<>>} : Prefix(parse_local_statement(bs))
  BY DEF Local
<1>2. Evaluates(parse_local_statement(bs))
  <2>1. ~InKey
    BY DEF Local, MayBind
  <2>2. YieldsIn(parse_local_statement(bs), {}, "sealed")
    BY ShapedTail, LocalYields
  <2>. QED
    BY <2>1, <2>2, YieldsInEvaluates
<1>. DEFINE items == parse_local_statement(bs)
<1>3. Evaluates(items) /\ Prefix(items)
  BY <1>1, <1>2
<1>. HIDE DEF items
<1>. QED
  BY <1>3, PrefixShaped

LEMMA ArrayCompShaped ==
  ASSUME Shaped, ~KeysBind, ArrayComp
  PROVE  Shaped'
<1>1. PICK cs \in ForLists : Prefix(parse_array_comprehension(cs))
  BY DEF ArrayComp
<1>2. Evaluates(parse_array_comprehension(cs))
  <2>1. ~InKey
    BY DEF ArrayComp, MayBind
  <2>2. YieldsIn(parse_array_comprehension(cs), {}, "sealed")
    BY ShapedTail, ArrayCompYields
  <2>. QED
    BY <2>1, <2>2, YieldsInEvaluates
<1>. DEFINE items == parse_array_comprehension(cs)
<1>3. Evaluates(items) /\ Prefix(items)
  BY <1>1, <1>2
<1>. HIDE DEF items
<1>. QED
  BY <1>3, PrefixShaped

LEMMA ObjectCompShaped ==
  ASSUME Shaped, ~KeysBind, ObjectComp
  PROVE  Shaped'
<1>1. PICK cs \in ForLists, bs \in Bindings \cup {<<>>}, k \in BOOLEAN : Prefix(parse_object_comprehension(cs, bs, k) \o PushT("Object"))
  BY DEF ObjectComp
<1>2. Evaluates(parse_object_comprehension(cs, bs, k) \o PushT("Object"))
  <2>1. ~InKey
    BY DEF ObjectComp, MayBind
  <2>2. YieldsIn(parse_object_comprehension(cs, bs, k) \o PushT("Object"), {}, "sealed")
    BY ShapedTail, ObjectCompExprYields
  <2>. QED
    BY <2>1, <2>2, YieldsInEvaluates
<1>. DEFINE items == parse_object_comprehension(cs, bs, k) \o PushT("Object")
<1>3. Evaluates(items) /\ Prefix(items)
  BY <1>1, <1>2
<1>. HIDE DEF items
<1>. QED
  BY <1>3, PrefixShaped

LEMMA ObjectShaped ==
  ASSUME Shaped, Object
  PROVE  Shaped'
<1>1. CASE Prefix(empty_object \o PushT("Object"))
  <2>. DEFINE items == empty_object \o PushT("Object")
  <2>1. Evaluates(items) /\ Prefix(items)
    BY <1>1, EmptyObjectExprYields, YieldsEvaluates
  <2>. HIDE DEF items
  <2>. QED
    BY <2>1, PrefixShaped
<1>2. CASE \E bs \in Bindings \cup {<<>>} : Prefix(parse_object_literal(bs) \o PushT("Object"))
  <2>1. PICK bs \in Bindings \cup {<<>>} : Prefix(parse_object_literal(bs) \o PushT("Object"))
    BY <1>2
  <2>. DEFINE items == parse_object_literal(bs) \o PushT("Object")
  <2>2. Evaluates(items) /\ Prefix(items)
    BY <2>1, ObjectExprYields, YieldsEvaluates
  <2>. HIDE DEF items
  <2>. QED
    BY <2>2, PrefixShaped
<1>. QED
  BY <1>1, <1>2 DEF Object

LEMMA AssertMemberShaped ==
  ASSUME Shaped, AssertMember
  PROVE  Shaped'
<1>1. PICK m \in BOOLEAN : Member(ObjectAssert(todo[1][2], m))
  BY DEF AssertMember
<1>. DEFINE bs == todo[1][2]
<1>2. bs \in Bindings \cup {<<>>} /\ tail \in BOOLEAN
  BY <1>1, ShapedMember, ShapedTail DEF Member
<1>. HIDE DEF bs
<1>3. ASSUME NEW s, Matches(Now, s), Operand(s.fun)
      PROVE  Does(ObjectAssert(bs, m), Vague(s), Vague(s))
  <2>1. /\ Good(s.ctx, s.fun.vars, s.fun.anon, s.fun.keys, s.fun.jumps) /\ s.fun.height \in Nat
        /\ s.fun.height = s.fun.vars.count + s.fun.anon + s.fun.keys + 1
    BY <1>3, MatchesHere DEF Operand
  <2>2. Vague(s) = S(s.ctx, s.fun.vars, s.fun.anon, s.fun.keys, s.fun.height, s.fun.jumps, "any")
    BY DEF Vague, Moved
  <2>3. Does(ObjectAssert(bs, m),
             S(s.ctx, s.fun.vars, s.fun.anon, s.fun.keys, s.fun.height, s.fun.jumps, "any"),
             S(s.ctx, s.fun.vars, s.fun.anon, s.fun.keys, s.fun.height, s.fun.jumps, "any"))
    BY <1>2, <2>1, ObjectAssertDoes
  <2>. QED
    BY <2>2, <2>3
<1>4. Adding(ObjectAssert(bs, m))
  BY <1>3 DEF Adding
<1>. DEFINE items == ObjectAssert(bs, m)
<1>5. Adding(items) /\ Member(items)
  BY <1>1, <1>4 DEF bs
<1>. HIDE DEF items
<1>. QED
  BY <1>5, MemberShaped

LEMMA FieldMemberShaped ==
  ASSUME Shaped, FieldMember
  PROVE  Shaped'
<1>. DEFINE Items(bs, c, o, m) == (IF c THEN ComputedKey ELSE LiteralKey) \o Field(bs, m, o)
<1>1. PICK computed \in BOOLEAN, override \in BOOLEAN, method \in {{}} \cup {{ps} : ps \in Params} :
        Member(Items(todo[1][2], computed, override, method))
  BY DEF FieldMember
<1>. DEFINE bs == todo[1][2]
            items == Items(bs, computed, override, method)
<1>2. bs \in Bindings \cup {<<>>} /\ tail \in BOOLEAN
  BY <1>1, ShapedMember, ShapedTail DEF Member
<1>3. Member(items)
  BY <1>1
<1>. HIDE DEF bs
<1>4. ASSUME NEW s, Matches(Now, s), Operand(s.fun)
      PROVE  Does(items, Vague(s), Vague(s))
  <2>1. /\ Good(s.ctx, s.fun.vars, s.fun.anon, s.fun.keys, s.fun.jumps) /\ s.fun.height \in Nat
        /\ s.fun.height = s.fun.vars.count + s.fun.anon + s.fun.keys + 1
    BY <1>4, MatchesHere DEF Operand
  <2>2. Vague(s) = S(s.ctx, s.fun.vars, s.fun.anon, s.fun.keys, s.fun.height, s.fun.jumps, "any")
    BY DEF Vague, Moved
  <2>3. Does(items,
             S(s.ctx, s.fun.vars, s.fun.anon, s.fun.keys, s.fun.height, s.fun.jumps, "any"),
             S(s.ctx, s.fun.vars, s.fun.anon, s.fun.keys, s.fun.height, s.fun.jumps, "any"))
    BY ZenonT(40), <1>2, <2>1, FieldDoes
  <2>. QED
    BY <2>2, <2>3
<1>. HIDE DEF items
<1>5. Adding(items)
  BY <1>4 DEF Adding
<1>. QED
  BY <1>3, <1>5, MemberShaped

LEMMA InfixShaped ==
  ASSUME Shaped, NEW o \in DOMAIN LeftPower, Infix(o)
  PROVE  Shaped'
<1>1. Operator(LeftPower[o], parse_infix(o))
  BY DEF Infix
<1>2. At("more")
  BY <1>1 DEF Operator
<1>3. Operates(parse_infix(o))
  BY <1>2, ShapedTail, ShapedTop, InfixOperates
<1>. DEFINE power == LeftPower[o]
            items == parse_infix(o)
<1>4. Operates(items) /\ Operator(power, items)
  BY <1>1, <1>3
<1>. HIDE DEF power, items
<1>. QED
  BY <1>4, OperatorShaped

LEMMA DotShaped ==
  ASSUME Shaped, Dot
  PROVE  Shaped'
<1>1. PICK std \in {"native", "pi", "file"} : Operator(Postfix, parse_dot(std))
  BY DEF Dot
<1>2. Operates(parse_dot(std))
  BY ShapedTail, DotOperates
<1>. DEFINE items == parse_dot(std)
<1>3. Operates(items) /\ Operator(Postfix, items)
  BY <1>1, <1>2
<1>. HIDE DEF items, Postfix
<1>. QED
  BY <1>3, OperatorShaped

LEMMA IndexShaped ==
  ASSUME Shaped, Index
  PROVE  Shaped'
<1>1. Operator(Postfix, parse_index)
  BY DEF Index
<1>2. Operates(parse_index)
  BY ShapedTail, IndexOperates
<1>. HIDE DEF Postfix
<1>. QED
  BY <1>1, <1>2, OperatorShaped

LEMMA SliceShaped ==
  ASSUME Shaped, Slice
  PROVE  Shaped'
<1>1. PICK s \in BOOLEAN, e \in BOOLEAN, t \in BOOLEAN : Operator(Postfix, parse_slice(s, e, t))
  BY DEF Slice
<1>2. Operates(parse_slice(s, e, t))
  BY ShapedTail, SliceOperates
<1>. DEFINE items == parse_slice(s, e, t)
<1>3. Operates(items) /\ Operator(Postfix, items)
  BY <1>1, <1>2
<1>. HIDE DEF items, Postfix
<1>. QED
  BY <1>3, OperatorShaped

LEMMA CallShaped ==
  ASSUME Shaped, Call
  PROVE  Shaped'
<1>1. PICK p \in 0..MaxItems, n \in 0..MaxItems, t \in BOOLEAN : Operator(Postfix, parse_call(p, n, t))
  BY DEF Call
<1>2. Operates(parse_call(p, n, t))
  BY ShapedTail, ItemCounts, CallOperates
<1>. DEFINE items == parse_call(p, n, t)
<1>3. Operates(items) /\ Operator(Postfix, items)
  BY <1>1, <1>2
<1>. HIDE DEF items, Postfix
<1>. QED
  BY <1>3, OperatorShaped

LEMMA ApplyShaped ==
  ASSUME Shaped, Apply
  PROVE  Shaped'
<1>1. PICK bs \in {{}} \cup {{b} : b \in Bindings \cup {<<>>}} : Operator(Postfix, parse_apply(bs))
  BY DEF Apply
<1>2. Operates(parse_apply(bs))
  BY ShapedTail, ApplyOperates
<1>. DEFINE items == parse_apply(bs)
<1>3. Operates(items) /\ Operator(Postfix, items)
  BY <1>1, <1>2
<1>. HIDE DEF items, Postfix
<1>. QED
  BY <1>3, OperatorShaped


(***************************************************************************)
(* The inductive invariant                                                  *)
(***************************************************************************)
LEMMA StartMatches ==
  ASSUME NEW s, s = S([base |-> <<>>, depth |-> 0, roots |-> 0], NoVars, 0, 0, 0, <<>>, "any")
  PROVE  Levels(<<NewFunction>>, s.ctx, s.fun) /\ s.ctx.depth = 0 /\ s.ctx.roots = 0
<1>. DEFINE c == [base |-> <<>>, depth |-> 0, roots |-> 0]
            u == Fun(NoVars, 0, 0, 0, <<>>, "any")
            f == NewFunction
            fs == <<f>>
<1>1. s.ctx = c /\ s.fun = u
  BY DEF S
<1>2. c \in Contexts /\ c.base = <<>> /\ c.depth = 0 /\ c.roots = 0
  <2>1. <<>> \in Seq(Shapes)
    BY EmptySeq
  <2>. QED
    BY <2>1 DEF Contexts
<1>3. Fits(f, u)
  BY NewFits
<1>4. f \in Compiled /\ f.ups = <<>>
  BY <1>3 DEF Fits, NewFunction
<1>. HIDE DEF c, u, f
<1>5. fs \in Seq(Compiled) /\ Len(fs) = 1 /\ DOMAIN fs = {1} /\ fs[1] = f
  <2>. HIDE DEF Compiled
  <2>. QED
    BY <1>4
<1>. HIDE DEF fs
<1>6. CurIn(fs) = f
  BY <1>5 DEF CurIn
<1>7. Chained(fs)
  BY <1>4, <1>5 DEF Chained
<1>8. Len(c.base) = 0 /\ DOMAIN c.base = {}
  BY <1>2
<1>9. Levels(fs, c, u)
  BY <1>2, <1>3, <1>5, <1>6, <1>7, <1>8 DEF Levels
<1>. QED
  BY <1>1, <1>2, <1>9 DEF fs, f

LEMMA InitShaped ==
  ASSUME Init
  PROVE  Shaped
<1>. DEFINE s == S([base |-> <<>>, depth |-> 0, roots |-> 0], NoVars, 0, 0, 0, <<>>, "any")
            it == <<"expr", 0>>
<1>1. Levels(<<NewFunction>>, s.ctx, s.fun) /\ s.ctx.depth = 0 /\ s.ctx.roots = 0
  BY StartMatches
<1>2. /\ s.fun.height = 0 /\ s.fun.vars = NoVars /\ s.fun.anon = 0 /\ s.fun.keys = 0 /\ s.fun.jumps = <<>>
      /\ s.ctx = [base |-> <<>>, depth |-> 0, roots |-> 0]
  BY DEF S, Fun
<1>. HIDE DEF s
<1>3. Matches(Now, s)
  <2>1. fns = <<NewFunction>> /\ tail \in BOOLEAN /\ depth = 0 /\ roots = 0 /\ "join" \notin faults
    BY DEF Init
  <2>2. Levels(fns, s.ctx, s.fun) /\ depth = s.ctx.depth /\ roots = s.ctx.roots
    BY <1>1, <2>1
  <2>. QED
    BY <2>1, <2>2, MatchesAs DEF Now
<1>4. Step(it, s, Done)
  <2>1. Ready(s.fun)
    BY <1>2 DEF Ready, NoVars
  <2>2. Done = Moved(s, s.fun.height + 1, s.fun.jumps, "any")
    BY <1>2 DEF Done, Moved
  <2>3. it[1] = "expr" /\ it[2] = 0
    OBVIOUS
  <2>. HIDE DEF it
  <2>4. ExprStep(s, Done, 0)
    BY <2>1, <2>2 DEF ExprStep
  <2>. QED
    BY <2>3, <2>4 DEF Step
<1>5. todo = <<it>> /\ Choice(it)
  BY DEF Init, Choice
<1>. HIDE DEF it
<1>6. Does(todo, s, Done)
  BY <1>4, <1>5, DoesOne
<1>7. Choice(todo[1])
  BY <1>5
<1>. QED
  BY <1>3, <1>6, <1>7 DEF Shaped

LEMMA StayShaped ==
  ASSUME Shaped, UNCHANGED vars
  PROVE  Shaped'
<1>1. Now' = Now /\ Done' = Done /\ todo' = todo
  BY DEF vars, Now, Done
<1>. QED
  BY <1>1 DEF Shaped

LEMMA NextShaped ==
  ASSUME Shaped, ~KeysBind, [Next]_vars
  PROVE  Shaped'
<1>1. CASE Leaf
  BY <1>1, LeafShaped
<1>2. CASE Identifier
  BY <1>2, IdentifierShaped
<1>3. CASE UnaryMinus
  BY <1>3, UnaryMinusShaped
<1>4. CASE Parens
  BY <1>4, ParensShaped
<1>5. CASE SuperIndex
  BY <1>5, SuperIndexShaped
<1>6. CASE Array
  BY <1>6, ArrayShaped
<1>7. CASE Error
  BY <1>7, ErrorShaped
<1>8. CASE AssertStmt
  BY <1>8, AssertStmtShaped
<1>9. CASE If
  BY <1>9, IfShaped
<1>10. CASE Function
  BY <1>10, FunctionShaped
<1>11. CASE Local
  BY <1>11, LocalShaped
<1>12. CASE ArrayComp
  BY <1>12, ArrayCompShaped
<1>13. CASE ObjectComp
  BY <1>13, ObjectCompShaped
<1>14. CASE Object
  BY <1>14, ObjectShaped
<1>15. CASE LastMember
  BY <1>15, LastMemberShaped
<1>16. CASE AssertMember
  BY <1>16, AssertMemberShaped
<1>17. CASE FieldMember
  BY <1>17, FieldMemberShaped
<1>18. CASE EndExpr
  BY <1>18, EndExprShaped
<1>19. ASSUME NEW op \in DOMAIN LeftPower, Infix(op) PROVE Shaped'
  BY <1>19, InfixShaped
<1>20. CASE Dot
  BY <1>20, DotShaped
<1>21. CASE Index
  BY <1>21, IndexShaped
<1>22. CASE Slice
  BY <1>22, SliceShaped
<1>23. CASE Call
  BY <1>23, CallShaped
<1>24. CASE Apply
  BY <1>24, ApplyShaped
<1>25. CASE Finished
  BY <1>25, StayShaped DEF Finished
<1>26. CASE UNCHANGED vars
  BY <1>26, StayShaped
<1>. QED
  BY <1>1, <1>2, <1>3, <1>4, <1>5, <1>6, <1>7, <1>8, <1>9, <1>10, <1>11, <1>12, <1>13, <1>14, <1>15,
     <1>16, <1>17, <1>18, <1>19, <1>20, <1>21, <1>22, <1>23, <1>24, <1>25, <1>26 DEF Next

(* The bounds of the generated programs *)
Bounded == forms \in 0..MaxForms /\ reads \in 0..MaxReads

LEMMA InitBounded == Init => Bounded
  BY BoundsAssumption DEF Init, Bounded

LEMMA NextBounded ==
  ASSUME Bounded, [Next]_vars
  PROVE  Bounded'
<1>1. ASSUME NEW form, Composite(form) PROVE Bounded'
  BY <1>1, BoundsAssumption DEF Composite, Bounded
<1>2. CASE UNCHANGED <<forms, reads>>
  BY <1>2 DEF Bounded
<1>3. CASE Identifier
  BY <1>3, BoundsAssumption DEF Identifier, Bounded
<1>4. CASE Leaf \/ LastMember \/ EndExpr \/ Finished \/ UNCHANGED vars
  BY <1>2, <1>4 DEF Leaf, LastMember, EndExpr, Finished, vars
<1>5. ASSUME NEW op, Infix(op) PROVE Bounded'
  BY <1>1, <1>5 DEF Infix
<1>6. CASE UnaryMinus \/ Parens \/ SuperIndex \/ Array \/ Error
  BY <1>1, <1>6 DEF UnaryMinus, Parens, SuperIndex, Array, Error
<1>7. CASE AssertStmt \/ If \/ Function \/ Local \/ ArrayComp
  BY <1>1, <1>7 DEF AssertStmt, If, Function, Local, ArrayComp
<1>8. CASE ObjectComp \/ Object \/ AssertMember \/ FieldMember \/ Dot
  BY <1>1, <1>8 DEF ObjectComp, Object, AssertMember, FieldMember, Dot
<1>9. CASE Index \/ Slice \/ Call \/ Apply
  BY <1>1, <1>9 DEF Index, Slice, Call, Apply
<1>. QED
  BY <1>3, <1>4, <1>5, <1>6, <1>7, <1>8, <1>9 DEF Next

IInv == Shaped /\ Bounded

LEMMA Invariant == ~KeysBind => (Spec => []IInv)
<1>1. Init => IInv
  BY InitShaped, InitBounded DEF IInv
<1>2. ASSUME ~KeysBind PROVE IInv /\ [Next]_vars => IInv'
  BY <1>2, NextShaped, NextBounded DEF IInv
<1>3. CASE ~KeysBind
  <2>1. IInv /\ [Next]_vars => IInv'
    BY <1>2, <1>3
  <2>. QED
    BY <1>1, <2>1, PTL DEF Spec
<1>. QED
  BY <1>3


(***************************************************************************)
(* What the invariant says of the bookkeeping                               *)
(***************************************************************************)
LEMMA ShapedLevels ==
  ASSUME Shaped
  PROVE  \E s : /\ Matches(Now, s) /\ Does(todo, s, Done) /\ Levels(fns, s.ctx, s.fun)
                /\ tail \in BOOLEAN /\ depth = s.ctx.depth /\ roots = s.ctx.roots
                /\ "join" \notin faults
<1>1. PICK s : Matches(Now, s) /\ Does(todo, s, Done)
  BY DEF Shaped
<1>2. /\ Levels(fns, s.ctx, s.fun) /\ tail \in BOOLEAN /\ depth = s.ctx.depth
      /\ roots = s.ctx.roots /\ "join" \notin faults
  BY <1>1, NowIs DEF Matches
<1>. QED
  BY <1>1, <1>2

LEMMA ShapedTypes == IInv => TypeOK
<1>. SUFFICES ASSUME IInv PROVE TypeOK
  OBVIOUS
<1>1. PICK s : /\ Levels(fns, s.ctx, s.fun) /\ tail \in BOOLEAN /\ depth = s.ctx.depth
               /\ roots = s.ctx.roots
  BY ShapedLevels DEF IInv
<1>2. depth \in Nat /\ roots \in Nat
  BY <1>1 DEF Levels, Contexts
<1>3. ASSUME NEW k \in DOMAIN fns
      PROVE  /\ ToSet(fns[k].types) \subseteq Types /\ ToSet(fns[k].stack) \subseteq SUBSET Kinds
             /\ fns[k].anon \in Nat /\ fns[k].scope \in Nat
  <2>1. fns[k] \in Compiled
    <3>1. fns \in Seq(Compiled)
      BY <1>1 DEF Levels
    <3>. HIDE DEF Compiled
    <3>. QED
      BY <1>3, <3>1
  <2>. DEFINE K == SUBSET Kinds
  <2>2. fns[k].types \in Seq(Types) /\ fns[k].stack \in Seq(K) /\ fns[k].anon \in Nat /\ fns[k].scope \in Nat
    BY <2>1, CompiledParts
  <2>. HIDE DEF K, Types
  <2>3. ToSet(fns[k].types) \subseteq Types /\ ToSet(fns[k].stack) \subseteq K
    BY <2>2 DEF ToSet
  <2>. QED
    BY <2>2, <2>3 DEF K
<1>. QED
  BY <1>1, <1>2, <1>3 DEF TypeOK, IInv, Bounded

LEMMA ShapedSlots == IInv => SlotsExact
<1>. SUFFICES ASSUME IInv PROVE SlotsExact
  OBVIOUS
<1>1. PICK s : Levels(fns, s.ctx, s.fun)
  BY ShapedLevels DEF IInv
<1>2. Placed(fns)
  BY <1>1, LevelsPlaced
<1>. QED
  BY <1>2 DEF Placed, InPlace, SlotsExact

LEMMA DoesEmpty ==
  ASSUME NEW s, NEW t, Does(<<>>, s, t)
  PROVE  s = t
  BY DEF Does

LEMMA ShapedHeights == IInv => HeightsMeet
<1>. SUFFICES ASSUME IInv PROVE HeightsMeet
  OBVIOUS
<1>1. PICK s : /\ Does(todo, s, Done) /\ Levels(fns, s.ctx, s.fun) /\ depth = s.ctx.depth
               /\ roots = s.ctx.roots /\ "join" \notin faults
  BY ShapedLevels DEF IInv
<1>2. ASSUME todo = <<>>
      PROVE  /\ Len(fns) = 1 /\ Len(Cur.stack) = 1 /\ Cur.anon = 0
             /\ Cur.locals = <<>> /\ Cur.jumps = <<>> /\ roots = 0 /\ depth = 0
  <2>1. s = Done
    BY <1>1, <1>2, DoesEmpty
  <2>2. /\ s.ctx.base = <<>> /\ s.ctx.depth = 0 /\ s.ctx.roots = 0
        /\ s.fun.vars = NoVars /\ s.fun.anon = 0 /\ s.fun.height = 1 /\ s.fun.jumps = <<>>
    BY <2>1 DEF Done, S, Fun
  <2>3. Len(fns) = Len(s.ctx.base) + 1 /\ Fits(Cur, s.fun)
    BY <1>1 DEF Levels, Cur
  <2>4. Len(fns) = 1
    BY <2>2, <2>3
  <2>5. /\ Cur \in Compiled /\ Cur.anon = 0 /\ Len(Cur.stack) = 1 /\ Len(Cur.locals) = 0
        /\ Len(Cur.jumps) = 0
    BY <2>2, <2>3 DEF Fits, Scoped, NoVars, JumpsFit
  <2>6. Cur.locals = <<>> /\ Cur.jumps = <<>>
    <3>1. Cur.locals \in Seq(Variable) /\ Cur.jumps \in Seq(Saved)
      BY <2>5, CompiledParts
    <3>. HIDE DEF Variable, Saved
    <3>. QED
      BY <2>5, <3>1
  <2>. QED
    BY <1>1, <2>2, <2>4, <2>5, <2>6
<1>. QED
  BY <1>1, <1>2 DEF HeightsMeet

LEMMA ShapedNamespace == IInv => NamespaceSound
<1>. SUFFICES ASSUME IInv, At("more")
              PROVE  /\ LastType(Cur) = "Std" => Last(Cur.stack) \subseteq {"std"}
                     /\ LastType(Cur) = "Native" => Last(Cur.stack) \subseteq {"nat"}
  BY DEF NamespaceSound
<1>1. PICK s, u : Matches(Now, s) /\ Step(todo[1], s, u) /\ todo[1][1] = "more"
  BY FirstChoice DEF IInv
<1>2. MoreStep(s, u, todo[1][2])
  BY <1>1 DEF Step
<1>3. s.fun.last = "sealed"
  BY <1>2 DEF MoreStep
<1>4. Fits(Cur, s.fun)
  BY <1>1, NowHere
<1>. QED
  BY <1>3, <1>4 DEF Fits, LastFits, NotMistaken


(***************************************************************************)
(* Where the upvalues lead                                                  *)
(***************************************************************************)
LeadsAt(fs, f, k) ==
  [j \in DOMAIN fs[k].ups |->
     IF fs[k].ups[j].local THEN <<k - 1, fs[k].ups[j].index>>
     ELSE f[k - 1][fs[k].ups[j].index + 1]]

LEMMA LeadsExist ==
  ASSUME NEW fs, DOMAIN fs[1].ups = {}, NEW n \in Nat
  PROVE  \E f : f = [i \in (1)..(n) |-> LeadsAt(fs, f, i)]
<1>. DEFINE lo == 1
            hi == n
            Built(f, m) == \A i \in lo..m : f[i] = LeadsAt(fs, f, i)
            Bad == {m \in 0..(hi - lo) : ~ \E f : Built(f, lo + m)}
<1>0. lo \in Int /\ hi \in Int
  OBVIOUS
<1>a. ASSUME NEW f, NEW g, NEW i \in Int, i = lo \/ f[i - 1] = g[i - 1]
      PROVE  LeadsAt(fs, f, i) = LeadsAt(fs, g, i)
  <2>1. CASE i = lo
    <3>1. DOMAIN fs[i].ups = {}
      BY <2>1
    <3>. QED
      BY <3>1 DEF LeadsAt
  <2>2. CASE f[i - 1] = g[i - 1]
    BY <2>2 DEF LeadsAt
  <2>. QED
    BY <1>a, <2>1, <2>2
<1>. HIDE DEF lo, hi
<1>1. Bad = {}
  <2>. SUFFICES ASSUME Bad # {} PROVE FALSE
    OBVIOUS
  <2>1. PICK m \in Bad : \A i \in Bad : m <= i
    <3>1. Bad \in SUBSET Nat
      BY <1>0
    <3>. HIDE DEF Bad
    <3>. QED
      BY <3>1, LeastIn
  <2>. DEFINE e == lo + m
  <2>2. m \in 0..(hi - lo) /\ m \in Nat
    BY <1>0
  <2>3. \E f : \A i \in lo..(e - 1) : f[i] = LeadsAt(fs, f, i)
    <3>1. CASE m = 0
      BY <1>0, <3>1
    <3>2. CASE m # 0
      <4>1. m - 1 \in 0..(hi - lo) /\ ~(m <= m - 1) /\ lo + (m - 1) = e - 1
        BY <1>0, <2>2, <3>2
      <4>2. m - 1 \notin Bad
        BY <2>1, <4>1
      <4>3. \E f : Built(f, lo + (m - 1))
        BY <4>1, <4>2
      <4>. QED
        BY <4>1, <4>3
    <3>. QED
      BY <3>1, <3>2
  <2>4. PICK f : \A i \in lo..(e - 1) : f[i] = LeadsAt(fs, f, i)
    BY <2>3
  <2>. DEFINE g == [i \in lo..e |-> IF i < e THEN f[i] ELSE LeadsAt(fs, f, e)]
  <2>5. ASSUME NEW i \in lo..e PROVE g[i] = LeadsAt(fs, g, i)
    <3>0. e \in Int /\ i \in Int /\ e >= lo
      BY <1>0, <2>2
    <3>1. CASE i < e
      <4>1. i \in lo..(e - 1) /\ (i # lo => i - 1 \in lo..e /\ i - 1 < e)
        BY <1>0, <3>0, <3>1
      <4>2. g[i] = f[i] /\ f[i] = LeadsAt(fs, f, i) /\ (i # lo => g[i - 1] = f[i - 1])
        BY <2>4, <3>1, <4>1
      <4>. HIDE DEF g
      <4>. QED
        BY <1>a, <3>0, <4>2
    <3>2. CASE i = e
      <4>1. i # lo => i - 1 \in lo..e /\ i - 1 < e
        BY <1>0, <3>0, <3>2
      <4>2. g[i] = LeadsAt(fs, f, i) /\ (i # lo => g[i - 1] = f[i - 1])
        BY <3>0, <3>2, <4>1
      <4>. HIDE DEF g
      <4>. QED
        BY <1>a, <3>0, <4>2
    <3>. QED
      BY <3>0, <3>1, <3>2
  <2>. HIDE DEF g
  <2>6. Built(g, lo + m)
    BY <2>5
  <2>. QED
    BY <2>1, <2>6
<1>2. \E f : Built(f, hi)
  <2>1. CASE hi < lo
    <3>1. lo..hi = {}
      BY <1>0, <2>1
    <3>. QED
      BY <3>1
  <2>2. CASE hi >= lo
    <3>1. hi - lo \in 0..(hi - lo) /\ lo + (hi - lo) = hi
      BY <1>0, <2>2
    <3>. QED
      BY <1>1, <3>1
  <2>. QED
    BY <1>0, <2>1, <2>2
<1>3. PICK f : Built(f, hi)
  BY <1>2
<1>. DEFINE g == [i \in lo..hi |-> f[i]]
<1>4. ASSUME NEW i \in lo..hi PROVE g[i] = LeadsAt(fs, g, i)
  <2>1. i \in Int /\ (i # lo => i - 1 \in lo..hi)
    BY <1>0
  <2>2. g[i] = f[i] /\ f[i] = LeadsAt(fs, f, i) /\ (i # lo => g[i - 1] = f[i - 1])
    BY <1>3, <2>1
  <2>. HIDE DEF g
  <2>. QED
    BY <1>a, <2>1, <2>2
<1>5. g = [i \in lo..hi |-> g[i]]
  OBVIOUS
<1>. HIDE DEF g
<1>6. g = [i \in lo..hi |-> LeadsAt(fs, g, i)]
  BY <1>4, <1>5
<1>. QED
  BY <1>6 DEF lo, hi

LEMMA LeadsAre ==
  ASSUME NEW fs, DOMAIN fs[1].ups = {}, NEW n \in Nat
  PROVE  \E at : /\ \A i : Leads(fs, n, i) = at[n][i]
                 /\ \A k \in 1..n : at[k] = LeadsAt(fs, at, k)
<1>. DEFINE at == CHOOSE f : f = [k \in 1..n |-> LeadsAt(fs, f, k)]
<1>1. at = [k \in 1..n |-> LeadsAt(fs, at, k)]
  BY LeadsExist
<1>2. \A i : Leads(fs, n, i) = at[n][i]
  BY DEF Leads, LeadsAt
<1>. HIDE DEF at
<1>3. \A k \in 1..n : at[k] = LeadsAt(fs, at, k)
  BY <1>1
<1>. QED
  BY <1>2, <1>3

(* An upvalue of the outermost function would lead nowhere *)
LEMMA NoneOutside ==
  ASSUME NEW fs, 1 \in DOMAIN fs, Chained(fs)
  PROVE  DOMAIN fs[1].ups = {}
  BY DEF Chained, Leading

(* A level below k, and a place there where a variable is *)
Alive(fs, k, to) ==
  /\ to[1] \in 1..(k - 1)
  /\ \E l \in ToSet(fs[to[1]].locals) : l.pos = to[2]

LEMMA LeadsAlive ==
  ASSUME NEW fs, NEW n \in Nat, DOMAIN fs = 1..n, Chained(fs), NEW at,
         NEW m \in 1..n, \A k \in 1..m : at[k] = LeadsAt(fs, at, k)
  PROVE  \A i \in DOMAIN fs[m].ups : Alive(fs, m, at[m][i])
<1>. DEFINE Bad == {k \in 1..m : ~ \A i \in DOMAIN fs[k].ups : Alive(fs, k, at[k][i])}
<1>1. Bad = {}
  <2>. SUFFICES ASSUME Bad # {} PROVE FALSE
    OBVIOUS
  <2>1. PICK k \in Bad : \A j \in Bad : k <= j
    <3>1. Bad \in SUBSET Nat
      OBVIOUS
    <3>. HIDE DEF Bad
    <3>. QED
      BY <3>1, LeastIn
  <2>2. PICK i \in DOMAIN fs[k].ups : ~Alive(fs, k, at[k][i])
    OBVIOUS
  <2>3. k \in 1..m /\ k \in 1..n
    OBVIOUS
  <2>. DEFINE e == fs[k].ups[i]
  <2>4. Leading(fs, k, e)
    BY <2>2, <2>3 DEF Chained
  <2>5. at[k][i] = IF e.local THEN <<k - 1, e.index>> ELSE at[k - 1][e.index + 1]
    <3>1. at[k] = LeadsAt(fs, at, k)
      BY <2>3
    <3>2. LeadsAt(fs, at, k)[i] = IF e.local THEN <<k - 1, e.index>> ELSE at[k - 1][e.index + 1]
      BY <2>2 DEF LeadsAt
    <3>. QED
      BY <3>1, <3>2
  <2>. HIDE DEF e
  <2>6. CASE e.local
    <3>1. PICK l \in DOMAIN fs[k - 1].locals : fs[k - 1].locals[l].pos = e.index
      BY <2>4, <2>6 DEF Leading
    <3>. DEFINE to == at[k][i]
    <3>2. to = <<k - 1, e.index>>
      BY <2>5, <2>6
    <3>3. to[1] = k - 1 /\ to[2] = e.index
      BY <3>2
    <3>4. k - 1 \in 1..(k - 1)
      BY <2>3, <2>4 DEF Leading
    <3>5. fs[k - 1].locals[l] \in ToSet(fs[k - 1].locals)
      BY <3>1 DEF ToSet
    <3>. HIDE DEF to
    <3>6. Alive(fs, k, to)
      BY <3>1, <3>3, <3>4, <3>5 DEF Alive
    <3>. QED
      BY <2>2, <3>6 DEF to
  <2>7. CASE ~e.local
    <3>. DEFINE to == at[k - 1][e.index + 1]
    <3>1. e.index + 1 \in DOMAIN fs[k - 1].ups /\ k > 1
      BY <2>4, <2>7 DEF Leading
    <3>2. k - 1 \in 1..m /\ ~(k <= k - 1)
      BY <2>3, <3>1
    <3>3. k - 1 \notin Bad
      BY <2>1, <3>2
    <3>4. Alive(fs, k - 1, to)
      BY <3>1, <3>2, <3>3
    <3>5. at[k][i] = to
      BY <2>5, <2>7
    <3>. HIDE DEF to
    <3>6. to[1] \in 1..(k - 1)
      BY <2>3, <3>4 DEF Alive
    <3>7. Alive(fs, k, to)
      BY <3>4, <3>6 DEF Alive
    <3>. QED
      BY <2>2, <3>5, <3>7
  <2>. QED
    BY <2>6, <2>7
<1>2. m \notin Bad /\ m \in 1..m
  BY <1>1
<1>. QED
  BY <1>2

LEMMA ShapedUpvalues == IInv => UpvaluesLead
<1>. SUFFICES ASSUME IInv, NEW k \in DOMAIN fns, NEW i \in DOMAIN fns[k].ups
              PROVE  Alive(fns, k, Leads(fns, k, i))
  BY DEF UpvaluesLead, Alive
<1>1. PICK s : Levels(fns, s.ctx, s.fun)
  BY ShapedLevels DEF IInv
<1>. DEFINE n == Len(fns)
<1>2. DOMAIN fns = 1..n /\ n \in Nat /\ Chained(fns)
  BY <1>1, LevelParts DEF Levels
<1>. HIDE DEF n
<1>3. k \in 1..n /\ k \in Nat /\ 1 \in DOMAIN fns
  BY <1>2
<1>4. DOMAIN fns[1].ups = {}
  BY <1>2, <1>3, NoneOutside
<1>5. PICK at : /\ \A j : Leads(fns, k, j) = at[k][j]
                /\ \A m \in 1..k : at[m] = LeadsAt(fns, at, m)
  BY <1>3, <1>4, LeadsAre
<1>6. Alive(fns, k, at[k][i])
  BY <1>2, <1>3, <1>5, LeadsAlive
<1>. QED
  BY <1>5, <1>6

Reached(fs, x, n, d, at) ==
  at[n][UpvalueOf(fs, x) + 1] = <<d, Innermost(fs[d], x).slot>>

(* Reading x goes down the chain to its innermost declaration *)
LEMMA ResolvedLeads ==
  ASSUME NEW fs, Placed(fs), NEW x, NEW n \in Nat, Len(fs) = n, NEW d \in 1..(n - 1),
         Definer(fs, n, x) = d, Holding(fs[d], x) # {}, Chained(fs), NEW at,
         \A k \in 1..n : at[k] = LeadsAt(resolve_upvalue(fs, x), at, k)
  PROVE  Reached(fs, x, n, d, at)
<1>. DEFINE gs == resolve_upvalue(fs, x)
            desc == Descriptors(fs, x)
            up(k) == UpIndex(fs[k].ups, desc[k]) + 1
            goal == <<d, Innermost(fs[d], x).slot>>
            Bad == {k \in (d + 1)..n : at[k][up(k)] # goal}
<1>0. DOMAIN fs = 1..n /\ d \in Nat
  BY DEF Placed
<1>1. ASSUME NEW k \in (d + 1)..n
      PROVE  /\ up(k) \in DOMAIN gs[k].ups /\ gs[k].ups[up(k)] = desc[k]
             /\ desc[k] = DescriptorAt(fs, x, d, desc, k) /\ k \in 1..n
  <2>1. k \in 1..n
    BY <1>0
  <2>2. fs[k] \in Compiled
    <3>. HIDE DEF Compiled
    <3>. QED
      BY <1>0, <2>1 DEF Placed
  <2>3. fs[k].ups \in Seq(Upvalue)
    BY <2>2, CompiledParts
  <2>4. desc[k] \in Upvalue /\ desc[k] = DescriptorAt(fs, x, d, desc, k)
    BY DescriptorsTyped, DescriptorsAre, <1>0
  <2>5. gs[k] = UpsTo(fs[k], add_upvalue(fs[k].ups, desc[k]))
    <3>1. \A j \in (d + 1)..n : resolve_upvalue(fs, x)[j]
             = UpsTo(fs[j], add_upvalue(fs[j].ups, Descriptors(fs, x)[j]))
      BY Resolved
    <3>. QED
      BY <3>1
  <2>. HIDE DEF desc, gs
  <2>6. /\ add_upvalue(fs[k].ups, desc[k]) \in Seq(Upvalue)
        /\ up(k) \in DOMAIN add_upvalue(fs[k].ups, desc[k])
        /\ add_upvalue(fs[k].ups, desc[k])[up(k)] = desc[k]
    BY <2>3, <2>4, UpvalueAdded
  <2>7. gs[k].ups = add_upvalue(fs[k].ups, desc[k])
    BY <2>2, <2>5, <2>6, UpsKeep
  <2>. QED
    BY <2>1, <2>4, <2>6, <2>7
<1>. HIDE DEF desc, gs
<1>2. ASSUME NEW k \in (d + 1)..n
      PROVE  at[k][up(k)] = IF desc[k].local THEN <<k - 1, desc[k].index>>
                            ELSE at[k - 1][desc[k].index + 1]
  <2>. DEFINE i == up(k)
  <2>1. at[k] = LeadsAt(gs, at, k) /\ i \in DOMAIN gs[k].ups /\ gs[k].ups[i] = desc[k]
    BY <1>1 DEF gs
  <2>. HIDE DEF i
  <2>2. at[k][i] = IF gs[k].ups[i].local THEN <<k - 1, gs[k].ups[i].index>>
                   ELSE at[k - 1][gs[k].ups[i].index + 1]
    BY <2>1 DEF LeadsAt
  <2>. QED
    BY <2>1, <2>2 DEF i
<1>3. Bad = {}
  <2>. SUFFICES ASSUME Bad # {} PROVE FALSE
    OBVIOUS
  <2>1. PICK k \in Bad : \A j \in Bad : k <= j
    <3>1. Bad \in SUBSET Nat
      BY <1>0
    <3>. HIDE DEF Bad
    <3>. QED
      BY <3>1, LeastIn
  <2>2. k \in (d + 1)..n /\ at[k][up(k)] # goal
    OBVIOUS
  <2>3. CASE k = d + 1
    <3>1. desc[k].local /\ desc[k].index = Innermost(fs[d], x).slot
      <4>1. desc[k] = DescriptorAt(fs, x, d, desc, k)
        BY <1>1, <2>2
      <4>2. DescriptorAt(fs, x, d, desc, k) = [local |-> TRUE, index |-> Innermost(fs[d], x).slot]
        BY <2>3 DEF DescriptorAt
      <4>. QED
        BY <4>1, <4>2
    <3>2. k - 1 = d
      BY <1>0, <2>3
    <3>. HIDE DEF Bad, up
    <3>. QED
      BY <1>2, <2>2, <3>1, <3>2
  <2>4. CASE k # d + 1
    <3>1. k - 1 \in (d + 1)..n /\ ~(k <= k - 1)
      BY <1>0, <2>2, <2>4
    <3>2. ~desc[k].local /\ desc[k].index + 1 = up(k - 1)
      <4>1. desc[k] = DescriptorAt(fs, x, d, desc, k)
        BY <1>1, <2>2
      <4>2. DescriptorAt(fs, x, d, desc, k)
              = [local |-> FALSE, index |-> UpIndex(fs[k - 1].ups, desc[k - 1])]
        BY <2>4 DEF DescriptorAt
      <4>3. ~desc[k].local /\ desc[k].index = UpIndex(fs[k - 1].ups, desc[k - 1])
        BY <4>1, <4>2
      <4>. QED
        BY <4>3
    <3>3. k - 1 \notin Bad
      BY ZenonT(40), <2>1, <3>1
    <3>4. at[k - 1][up(k - 1)] = goal
      BY <3>1, <3>3
    <3>. HIDE DEF Bad, up
    <3>. QED
      BY <1>2, <2>2, <3>2, <3>4
  <2>. QED
    BY <2>3, <2>4
<1>4. n \in (d + 1)..n
  BY <1>0
<1>5. at[n][up(n)] = goal
  BY <1>3, <1>4
<1>6. UpvalueOf(fs, x) + 1 = up(n)
  BY DEF UpvalueOf, CurIn, desc
<1>. QED
  BY <1>5, <1>6 DEF Reached

LEMMA ShapedNames == IInv => NamesResolve
<1>. SUFFICES ASSUME IInv, NEW x, ~resolve_local(Cur, x), InScope(fns, x)
              PROVE  \E d \in 1..(Len(fns) - 1) : \E i \in Holding(fns[d], x) :
                       /\ \A j \in Holding(fns[d], x) : j <= i
                       /\ \A k \in (d + 1)..Len(fns) : Holding(fns[k], x) = {}
                       /\ Leads(resolve_upvalue(fns, x), Len(fns), UpvalueOf(fns, x) + 1)
                            = <<d, fns[d].locals[i].pos>>
  BY DEF NamesResolve
<1>1. PICK s : Levels(fns, s.ctx, s.fun)
  BY ShapedLevels DEF IInv
<1>. DEFINE n == Len(fns)
            d == Definer(fns, n, x)
            gs == resolve_upvalue(fns, x)
<1>2. DOMAIN fns = 1..n /\ n \in Nat /\ Chained(fns) /\ Placed(fns)
  BY <1>1, LevelParts, LevelsPlaced DEF Levels
<1>3. d # 0
  BY DEF InScope, Cur
<1>4. /\ d \in 1..(n - 1) /\ Holding(fns[d], x) # {}
      /\ \A k \in 1..(n - 1) : Holding(fns[k], x) # {} => k <= d
  <2>. HIDE DEF n
  <2>. QED
    BY <1>2, <1>3, DefinerFound
<1>5. d \in 1..n /\ d \in Nat /\ 1 \in 1..n
  <2>. HIDE DEF n, d
  <2>. QED
    BY <1>2, <1>4
<1>6. fns[d] \in Compiled /\ InPlace(fns[d].locals)
  <2>. HIDE DEF Compiled, n, d
  <2>. QED
    BY <1>2, <1>5 DEF Placed
<1>7. PICK i \in Holding(fns[d], x) :
        /\ \A j \in Holding(fns[d], x) : j <= i
        /\ Innermost(fns[d], x) = fns[d].locals[i]
        /\ fns[d].locals[i].slot = fns[d].locals[i].pos
  <2>. HIDE DEF d
  <2>. QED
    BY <1>4, <1>6, InnermostHeld
<1>8. Holding(fns[n], x) = {}
  BY DEF resolve_local, Cur, CurIn
<1>9. ASSUME NEW k \in (d + 1)..n PROVE Holding(fns[k], x) = {}
  <2>. HIDE DEF d, n
  <2>1. k = n \/ (k \in 1..(n - 1) /\ ~(k <= d))
    BY <1>2, <1>5
  <2>. QED
    BY <1>4, <1>8, <2>1
<1>10. Chained(gs) /\ DOMAIN gs = 1..n
  <2>1. Len(fns) = n /\ Definer(fns, n, x) = d
    OBVIOUS
  <2>. HIDE DEF n, d, gs
  <2>2. Chained(gs)
    BY <1>2, <1>4, <2>1, ChainedResolve DEF gs
  <2>3. gs \in Seq(Compiled) /\ Len(gs) = n
    BY <1>2, <1>4, <2>1, Resolved DEF gs
  <2>. HIDE DEF Compiled
  <2>. QED
    BY <2>2, <2>3
<1>11. DOMAIN gs[1].ups = {}
  <2>. HIDE DEF n, gs
  <2>. QED
    BY <1>5, <1>10, NoneOutside
<1>12. PICK at : /\ \A j : Leads(gs, n, j) = at[n][j]
                 /\ \A k \in 1..n : at[k] = LeadsAt(gs, at, k)
  <2>. HIDE DEF n, gs
  <2>. QED
    BY <1>2, <1>11, LeadsAre
<1>13. Reached(fns, x, n, d, at)
  <2>1. Len(fns) = n /\ Definer(fns, n, x) = d
    OBVIOUS
  <2>. HIDE DEF n, d
  <2>. QED
    BY <1>2, <1>4, <1>12, <2>1, ResolvedLeads DEF gs
<1>14. Leads(gs, n, UpvalueOf(fns, x) + 1) = <<d, fns[d].locals[i].pos>>
  BY <1>7, <1>12, <1>13 DEF Reached
<1>. HIDE DEF d, gs
<1>. QED
  BY <1>4, <1>7, <1>9, <1>14 DEF gs


(***************************************************************************)
(* The theorems                                                             *)
(***************************************************************************)
(* They suppose that a computed key binds no variable of its own: with      *)
(* KeysBind, the code itself gives wrong slots (parse_object_literal).      *)

(* The bookkeeping of every function under compilation keeps its types      *)
(* whatever the program is (src/src/compiler.rs, struct Compiler).          *)
THEOREM BookkeepingTyped == ~KeysBind => (Spec => []TypeOK)
  BY Invariant, ShapedTypes, PTL

(* For any nesting of functions, locals, comprehensions, objects and        *)
(* operators, the slot that declare_local gives to a variable is the place  *)
(* where its value will be on the run-time stack.                           *)
THEOREM SlotsAreExact == ~KeysBind => (Spec => []SlotsExact)
  BY Invariant, ShapedSlots, PTL

(* Every upvalue that resolve_upvalue and add_upvalue ever made leads,      *)
(* through the functions between, to a variable that is alive.              *)
THEOREM UpvaluesLeadToVariables == ~KeysBind => (Spec => []UpvaluesLead)
  BY Invariant, ShapedUpvalues, PTL

(* Wherever an expression may begin, a name of an enclosing function that   *)
(* is read there is found where its innermost declaration put it, after the *)
(* descriptors that reading it adds to the chain (resolve_upvalue).         *)
THEOREM NamesAreResolved == ~KeysBind => (Spec => []NamesResolve)
  BY Invariant, ShapedNames, PTL

(* The branches that meet at a jump target leave the same height, every     *)
(* loop and every function is balanced, and the end of the program leaves   *)
(* one value, no jump to patch, no root and no open object                  *)
(* (patch_jump, emit_loop, end_function).                                   *)
THEOREM StackHeightsMeet == ~KeysBind => (Spec => []HeightsMeet)
  BY Invariant, ShapedHeights, PTL

(* The static types Std and Native, on which parse_dot and parse_call drop  *)
(* a value and go straight to a native function, are never wrong.           *)
THEOREM NamespaceIsSound == ~KeysBind => (Spec => []NamespaceSound)
  BY Invariant, ShapedNamespace, PTL
=============================================================================
