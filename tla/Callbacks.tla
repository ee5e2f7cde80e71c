------------------------------ MODULE Callbacks ------------------------------
(***************************************************************************)
(* What a native function does to the heap, as the collector sees it.      *)
(*                                                                         *)
(* The native functions keep handles of cells in Rust variables.  The      *)
(* collector does not know these: it runs while a native function calls    *)
(* back into the interpreter, and removes what neither the value stack nor *)
(* external_roots reaches.  What a value is does not matter for this, so a *)
(* native function is the set of its runs, and a run is the sequence of    *)
(* the steps that allocate, keep, follow and hand out handles.  Runs are   *)
(* put together from smaller ones, the way the code is: one after the      *)
(* other, in a loop over an array, within a bracket of roots.              *)
(***************************************************************************)
EXTENDS Integers, Sequences, SequencesExt

CONSTANT N      \* length of the arrays, and the number of fields of the objects

ASSUME NAssumption == N \in Nat \ {0}

\* The Rust variables of the native functions.  A variable with an index is an
\* entry of a vector.
One(name)    == <<name, 0>>
arr          == One("arr")        \* an array argument
other        == One("other")      \* a second one
obj          == One("obj")        \* an object argument
patch        == One("patch")
func         == One("func")       \* a function argument
func2        == One("func2")
keyF         == One("keyF")
x            == One("x")          \* a value of any kind
none         == One("none")
acc          == One("acc")
result       == One("result")
keys         == One("keys")
otherKeys    == One("otherKeys")
xKey         == One("xKey")
best         == One("best")
forced       == One("forced")
arg(i)       == <<"arg", i>>
elem(i)      == <<"elem", i>>     \* elements of arr
item(i)      == <<"item", i>>     \* elements of other
member(i)    == <<"member", i>>   \* thunks of the fields of obj
change(i)    == <<"change", i>>   \* thunks of the fields of patch
assertion(i) == <<"assertion", i>> \* closures of the assertions of obj
value(i)     == <<"value", i>>
key(i)       == <<"key", i>>
otherKey(i)  == <<"otherKey", i>>
out(i)       == <<"out", i>>
nested(i)    == <<"nested", i>>   \* an element of the element elem(i) or item(i)

\* A value that is computed when it is needed has two handles: thunk(v) is the one
\* the code has before it is forced, a closure, an import or a native thunk, and v
\* that of the result.
thunk(v)     == <<"thunk", v[1], v[2]>>
file         == One("file")       \* the import that an imported file consists of

element(a, i) == IF a = other THEN item(i) ELSE elem(i)
field(o, i)   == IF o = patch THEN change(i) ELSE member(i)
keyOf(a, i)   == IF a = other THEN otherKey(i) ELSE key(i)

All(v(_))       == {v(i) : i \in 1 .. N}
Before(n, v(_)) == {v(i) : i \in 1 .. n - 1}

Thunks(S) == {thunk(v) : v \in S}

\* What the arguments refer to at the start, forced or not
Contents ==
    UNION {{arr} \X ({elem(i), thunk(elem(i))}) \cup {other} \X ({item(i), thunk(item(i))})
           \cup {<<obj, member(i)>>, <<patch, change(i)>>} : i \in 1 .. N}

Arguments ==
    LET values == {arr, other, obj, patch, x, acc} \cup All(arg) \cup All(elem) \cup All(item)
    IN  values \cup Thunks(values)
        \cup {func, func2, keyF} \cup All(member) \cup All(change) \cup All(assertion)

----------------------------------------------------------------------------
\* A step follows the handles `of' and binds `gives'.  pops and singles are the
\* brackets ended when the step fails, before the error is handed on: of both
\* root stacks, and of external_roots alone.
Step(do, S, v) == {<<[do |-> do, of |-> S, gives |-> v, pops |-> 0, singles |-> 0]>>}

Nothing == {<<>>}
Use(S)         == Step("use", S, none)
New(v, S)      == Step("new", S, v)         \* allocate_*: never collects
Put(c, S)      == Step("put", S, c)         \* c now refers to S, too
Memoize(t, v)  == Step("memoize", {v}, t)   \* the same, of a result that its thunk keeps
Collect        == Step("collect", {}, none)    \* run_garbage_collection
Push(S)        == Step("push", S, none)        \* on the value stack
Pop            == Step("pop", {}, none)
Return(S)      == Push(S)                      \* the result is pushed
\* call_value_with_one_arg and its like: S is pushed on the value stack, the
\* interpreter runs until the call returns, v is what it popped from the stack.
\* The run in which there is nothing to call is the one whose call does nothing.
Call(S, v)     == Step("call", S, v)

A ** B == {a \o b : a \in A, b \in B}

\* v is another name for the cell of w
Let(v, w) == New(v, {w}) ** Put(w, {v})
\* What the container c holds, for one that has been computed
Holding(c, e(_)) ==
    FoldLeft(LAMBDA runs, i : runs ** New(e(i), {}) ** New(thunk(e(i)), {}), Nothing, [i \in 1 .. N |-> i])
    ** Put(c, All(e) \cup Thunks(All(e)))

Maybe(A) == Nothing \cup A
ForEach(body(_)) == FoldLeft(LAMBDA runs, i : runs ** body(i), Nothing, [i \in 1 .. N |-> i])
ForRest(body(_)) == FoldLeft(LAMBDA runs, i : runs ** body(i), Nothing, [i \in 1 .. N - 1 |-> i + 1])
ForEachReversed(body(_)) ==
    FoldLeft(LAMBDA runs, i : runs ** body(i), Nothing, [i \in 1 .. N |-> N + 1 - i])

\* An error inside A ends further brackets on its way out
Unwind(both, single, A) ==
    {[j \in DOMAIN a |-> [a[j] EXCEPT !.pops = @ + both, !.singles = @ + single]] : a \in A}

\* The operand below stays on the value stack during A
Above(S, A) == Push(S) ** A ** Pop

\* push_external_roots ... pop_external_roots, the pop also where A fails
Paired(S, A) == Step("root", S, none) ** Unwind(1, 0, A) ** Step("unroot", {}, none)

\* The same with a `?' inside: an error leaves the bracket open
PairedUntilError(S, A) == Step("root", S, none) ** A ** Step("unroot", {}, none)

\* external_roots.push ... external_roots.pop
Single(S, A) == Step("root1", S, none) ** Unwind(0, 1, A) ** Step("unroot1", {}, none)
SingleUntilError(S, A) == Step("root1", S, none) ** A ** Step("unroot1", {}, none)

----------------------------------------------------------------------------
\* The helpers that the native functions share

\* force_value(t), with the result v.  The collector does not see t: the function
\* of a native thunk and its argument are pushed, but not the thunk, which keeps
\* the result afterwards; an import is a root while its file runs, but no longer
\* while what the file consists of is forced; a closure keeps nothing.
ForceLocal(t, v)  == Call({t}, v)
ForceNative(t, v) == Use({t}) ** Call({}, v) ** Memoize(t, v)
RunFile(t, v)     == Use({t}) ** Paired({t}, Call({}, v))
ForceImport(t, v) ==
    (RunFile(t, v) \cup RunFile(t, file) ** RunFile(file, v) ** Memoize(file, v)) ** Memoize(t, v)

ForceThunk(t, v) == ForceLocal(t, v) \cup ForceNative(t, v)
Force(t, v)      == ForceThunk(t, v) \cup ForceImport(t, v)

\* What is found in a container that forcing has made
Parts(v) ==
    CASE v = arr   -> Holding(arr, elem)
      [] v = other -> Holding(other, item)
      [] v = obj   -> Holding(obj, member)
      [] v = patch -> Holding(patch, change)
      [] OTHER     -> Nothing

\* force_value of a handle that may be forced already.  Nothing else refers to it.
Operand(v) == Nothing \cup Force(thunk(v), v) ** Parts(v)

\* execute_thunk_sync of a field: the thunk and self are pushed
Evaluate(t, self, v) == Call({t, self}, v)

\* ... and force_value of what it returns, when that is a native thunk: forcing a
\* closure only runs on, and an import is a root for longer
EvaluateForced(t, self, v) ==
    (Evaluate(t, self, v) \cup Evaluate(t, self, thunk(v)) ** ForceNative(thunk(v), v)) ** Parts(v)

\* force_array_element writes the result of a closure or a native thunk back
ForceElement(a, e) == ForceThunk(thunk(e), e) ** Put(a, {e})

\* While the array is a root, a closure is no more than a native thunk that keeps
\* nothing
ForceNativeElement(a, e) == ForceNative(thunk(e), e) ** Put(a, {e})

\* An element that is an array itself is gone through in turn
ForceNested(e, i) ==
    SingleUntilError({e}, New(thunk(nested(i)), {}) ** Put(e, {thunk(nested(i))}) ** ForceNativeElement(e, nested(i)))

force_all_array_elements(a) ==
    SingleUntilError({a},
        ForEach(LAMBDA i : Nothing \cup ForceNativeElement(a, element(a, i)) \cup ForceNested(element(a, i), i)))

force_all_object_fields(o) ==
    SingleUntilError({o}, ForEach(LAMBDA i : Evaluate(field(o, i), o, field(o, i)) ** Put(o, {field(o, i)})))

\* call_native_checked: whatever inner does, the pop is made
call_native_checked(S, inner) == Single(S, inner)

\* ... of a native function that makes no calls: the arrays are forced first
force_array_args == force_all_array_elements(arr)
call_native == Use({arr} \cup All(elem)) ** New(result, All(elem))
=============================================================================
