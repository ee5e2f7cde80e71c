------------------------------- MODULE StdCalls ------------------------------
(***************************************************************************)
(* The native functions that the opcode StdCall runs itself, because they  *)
(* call back: `std.map(f, a)' and so on, where std is named in the source. *)
(* The arguments have been taken off the value stack and forced.           *)
(***************************************************************************)
EXTENDS Callbacks

\* The prologue: the arguments are copied, popped, and forced one by one; join
\* and format also force what their arguments hold
StdCallArguments ==
    ForEach(LAMBDA i : Operand(arg(i))) ** Use(All(arg)) ** Return({})

StdCallJoin ==
    SingleUntilError({arr, obj},
        force_all_array_elements(arr) ** force_all_object_fields(obj))
    ** call_native_checked({arr, obj}, call_native) ** Return({result})

\* A key for each element, kept in an array that is a root
KeysOf(a, ks) ==
    ForEach(LAMBDA i : Call({keyF, element(a, i)}, keyOf(a, i)) ** Put(ks, {keyOf(a, i)}))

Get == Use({obj}) ** (Evaluate(member(1), obj, result) \cup New(result, {x})) ** Return({result})

\* Format with an object: its fields are evaluated first
Format ==
    Use({obj}) ** ForEach(LAMBDA i : Evaluate(member(i), obj, value(i)))
    ** New(result, All(value))
    ** call_native_checked({x, result}, Use({x, result}) ** New(out(1), {})) ** Return({out(1)})

MakeArray ==
    ForEach(LAMBDA i : New(elem(i), {func}))
    ** Paired(All(elem), New(result, All(elem)))
    ** Maybe(Paired({result}, Collect)) ** Return({result})

SortByKey ==
    Use({arr})
    ** Paired({keyF} \cup All(elem),
           New(keys, {}) ** Paired({keys}, KeysOf(arr, keys)))
    ** Use(All(key)) ** New(result, All(elem)) ** Return({result})

\* The best element so far and its key; there is one of each at any time
First    == Call({keyF, elem(1)}, key(1)) ** Let(best, elem(1)) ** Let(xKey, key(1))
Better(i) == Use({key(i), xKey}) ** (Nothing \cup Let(best, elem(i)) ** Let(xKey, key(i)))

\* In a loop over the elements, after they have been forced
BestByKey ==
    Paired({keyF} \cup All(elem),
        First ** ForRest(LAMBDA i : Paired({best, xKey}, Call({keyF, elem(i)}, key(i))) ** Better(i)))

\* minArray and maxArray: of an empty array, without keyF, with keyF
MinArray ==
    LET Forced(then) == SingleUntilError({arr, keyF, acc}, force_all_array_elements(arr) ** then)
    IN  Forced(Nothing) ** Return({acc})
        \cup Forced(Use(All(elem)) ** Let(best, elem(1))) ** Return({best})
        \cup Forced(Unwind(0, 1, BestByKey)) ** Return({best})

Keep(i) == Nothing \cup Put(result, {elem(i)})

Uniq ==
    SingleUntilError({arr, keyF},
        force_all_array_elements(arr)
        ** Unwind(0, 1, Paired({keyF} \cup All(elem),
               New(result, {})
               ** Paired({result}, Call({keyF, elem(1)}, key(1)))
               ** Let(xKey, key(1)) ** Put(result, {elem(1)})
               ** ForRest(LAMBDA i :
                      Paired({result, xKey}, Call({keyF, elem(i)}, key(i)))
                      ** Use({xKey, key(i)})
                      ** (Nothing \cup Let(xKey, key(i)) ** Put(result, {elem(i)}))))))
    ** Return({result})

\* objectValues, objectKeysValues and the two with All
ObjectValues ==
    Use({obj}) ** ForEach(LAMBDA i : Evaluate(member(i), obj, value(i)))
    ** New(forced, All(value))
    ** call_native_checked({forced}, Use({forced}) ** New(result, All(value))) ** Return({result})

Map ==
    Use({arr})
    ** PairedUntilError({func} \cup All(elem),
           New(result, {})
           ** PairedUntilError({result},
                  ForEach(LAMBDA i : Call({func, elem(i)}, out(i)) ** Put(result, {out(i)}))))
    ** Return({result})

Filter ==
    Use({arr})
    ** Paired({func} \cup All(elem),
           New(result, {})
           ** Paired({result}, ForEach(LAMBDA i : Call({func, elem(i)}, out(i)) ** Keep(i))))
    ** Return({result})

\* The roots of the accumulator are exchanged for those of the next one; nothing
\* collects in between
Accumulate(i) == Paired({acc}, Call({func, acc, elem(i)}, acc))

Foldl == Use({arr}) ** Paired({func} \cup All(elem), ForEach(LAMBDA i : Accumulate(i))) ** Return({acc})

FlatMapArray ==
    Use({arr})
    ** Paired({func} \cup All(elem),
           New(result, {})
           ** Paired({result},
                  ForEach(LAMBDA i : Call({func, elem(i)}, out(i)) ** Use({out(i)}) ** Put(result, {out(i)}))))
    ** Return({result})

\* A string is gone through by characters, and the results are copied
FlatMapString ==
    ForEach(LAMBDA i : New(elem(i), {}))
    ** Paired({func} \cup All(elem), ForEach(LAMBDA i : Call({func, elem(i)}, out(i)) ** Use({out(i)})))
    ** New(result, {}) ** Return({result})

MapWithIndex ==
    Use({arr})
    ** PairedUntilError({func} \cup All(elem),
           New(result, {})
           ** PairedUntilError({result},
                  ForEach(LAMBDA i : Call({func, elem(i)}, out(i)) ** Put(result, {out(i)}))))
    ** Return({result})

Foldr ==
    Use({arr}) ** Paired({func} \cup All(elem), ForEachReversed(LAMBDA i : Accumulate(i))) ** Return({acc})

\* A field is evaluated, the function called with its name and value, and the
\* results so far are rooted for that call only
MapWithKey ==
    Use({obj})
    ** ForEach(LAMBDA i :
           Evaluate(member(i), obj, value(i)) ** Use({obj}) ** New(key(i), {})
           ** Paired({func, value(i), key(i), obj} \cup Before(i, out),
                  Call({func, key(i), value(i)}, out(i))))
    ** New(result, All(out)) ** Return({result})

FilterMap ==
    Use({arr})
    ** Paired({func, func2} \cup All(elem),
           New(result, {})
           ** Paired({result}, ForEach(LAMBDA i :
                  Call({func, elem(i)}, key(i))
                  ** (Nothing \cup Call({func2, elem(i)}, out(i)) ** Put(result, {out(i)})))))
    ** Return({result})

\* The values of external variables are permanent roots
ExtVar == Use({x}) ** New(result, {}) ** Return({result})

\* setInter and setDiff with keyF: the keys of both are taken first
TwoKeys ==
    Paired({keyF} \cup All(elem) \cup All(item),
        New(keys, {}) ** New(otherKeys, {})
        ** Paired({keys, otherKeys},
               KeysOf(arr, keys) ** KeysOf(other, otherKeys)))

\* Some of the elements of the first, as the keys compare
SomeOf(vs) == UNION {New(result, S) : S \in SUBSET vs}

SetInter == Use({arr, other}) ** TwoKeys ** Use(All(key) \cup All(otherKey)) ** SomeOf(All(elem)) ** Return({result})
SetDiff  == Use({arr, other}) ** TwoKeys ** Use(All(key) \cup All(otherKey)) ** SomeOf(All(elem)) ** Return({result})

\* The binary search, of elem(lo + 1) .. elem(hi)
RECURSIVE Search(_, _)
Search(lo, hi) ==
    IF lo >= hi THEN Nothing
    ELSE LET mid == lo + (hi - lo) \div 2
         IN  Call({keyF, elem(mid + 1)}, key(mid + 1)) ** Use({xKey, key(mid + 1)})
             ** (Nothing \cup Search(lo, mid) \cup Search(mid + 1, hi))

\* Mutant: an error in the search ends one of the two brackets
SetMember_OnePop ==
    Use({arr})
    ** Paired({keyF, x} \cup All(elem),
           Call({keyF, x}, xKey) ** PairedUntilError({xKey}, Search(0, N)))
    ** Return({})

SetMember ==
    Use({arr})
    ** Paired({keyF, x} \cup All(elem),
           Call({keyF, x}, xKey) ** Paired({xKey}, Search(0, N)))
    ** Return({})

SetUnionByKey ==
    Use({arr, other})
    ** Paired({keyF} \cup All(elem) \cup All(item),
           New(keys, {})
           ** Paired({keys}, KeysOf(arr, keys) ** KeysOf(other, keys)))
    ** Use(All(key) \cup All(otherKey)) ** SomeOf(All(elem) \cup All(item)) ** Return({result})

ParseJson == Use({x}) ** ForEach(LAMBDA i : New(value(i), {})) ** New(result, All(value)) ** Return({result})

GroupBy ==
    Use({arr})
    ** Paired({keyF} \cup All(elem), ForEach(LAMBDA i : Call({keyF, elem(i)}, key(i)) ** Use({key(i)})))
    ** ForEach(LAMBDA i : New(out(i), {elem(i)}) ** Paired(Before(i + 1, out), New(key(i), {})))
    ** New(result, All(out) \cup All(key)) ** Return({result})

SortBy ==
    Use({arr})
    ** Paired({keyF} \cup All(elem),
           New(keys, {}) ** Paired({keys}, KeysOf(arr, keys)))
    ** Use(All(key)) ** New(result, All(elem)) ** Return({result})

CountBy ==
    Use({arr})
    ** Paired({keyF} \cup All(elem), ForEach(LAMBDA i : Call({keyF, elem(i)}, key(i)) ** Use({key(i)})))
    ** ForEach(LAMBDA i : New(key(i), {})) ** New(result, All(key)) ** Return({result})

UniqBy ==
    Use({arr})
    ** Paired({keyF} \cup All(elem),
           New(result, {})
           ** Paired({result}, ForEach(LAMBDA i : Call({keyF, elem(i)}, key(i)) ** Use({key(i)}) ** Keep(i))))
    ** Return({result})

MinBy ==
    SingleUntilError({arr, keyF},
        force_all_array_elements(arr)
        ** Unwind(0, 1, BestByKey))
    ** Return({best})

ToPairs ==
    Use({obj})
    ** ForEach(LAMBDA i :
           Evaluate(member(i), obj, value(i)) ** Use({obj}) ** New(key(i), {}) ** New(out(i), {key(i), value(i)}))
    ** New(result, All(out)) ** Return({result})

MapKeys ==
    Use({obj})
    ** ForEach(LAMBDA i :
           Evaluate(member(i), obj, value(i)) ** Use({obj}) ** New(key(i), {})
           ** Paired({func, value(i), key(i), obj} \cup Before(i, value) \cup Before(i, out),
                  Call({func, key(i)}, out(i)))
           ** Use({out(i)}) ** New(out(i), {}))
    ** New(result, All(value) \cup All(out)) ** Return({result})

FilterObject ==
    Use({obj})
    ** ForEach(LAMBDA i :
           Evaluate(member(i), obj, value(i)) ** Use({obj}) ** New(key(i), {})
           ** Paired({func, value(i), key(i), obj} \cup Before(i, value),
                  Call({func, key(i), value(i)}, out(i))))
    ** SomeOf(All(value)) ** Return({result})

\* flatten_object_recursive of a field roots what was found before it
ObjectFlatten ==
    Use({obj})
    ** Paired({obj},
           Paired({obj}, ForEach(LAMBDA i :
               Paired(Before(i, value) \cup All(member),
                   Evaluate(member(i), obj, value(i))
                   ** Paired({value(i)}, Use({value(i)}))))))
    ** Paired(All(value), ForEach(LAMBDA i : New(key(i), {})) ** New(result, All(value) \cup All(key)))
    ** Return({result})

\* Any other native function
StdCallOther == call_native_checked({arr, x}, force_array_args ** call_native) ** Return({result})
=============================================================================
