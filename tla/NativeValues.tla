----------------------------- MODULE NativeValues ----------------------------
(***************************************************************************)
(* The native functions that the opcode Call runs, when a native function  *)
(* is a value: `local m = std.sort; m(a, f)'.  The arguments are taken off *)
(* the value stack but not forced, and the brackets differ from those of   *)
(* StdCall: each call of keyF has one of its own, with all that the loop   *)
(* has found so far.  Functions that Call does not know go to              *)
(* call_native_checked, which has a few cases of its own.                  *)
(***************************************************************************)
EXTENDS Callbacks

Keyed(v, k, S) == Paired(S, Call({keyF, v}, k))

----------------------------------------------------------------------------
\* Helpers of both opcodes

sort_value == Single({arr}, force_all_array_elements(arr)) ** Use(All(elem)) ** New(result, All(elem))

sort_value_by_key ==
    Use({arr})
    ** ForEach(LAMBDA i : Keyed(elem(i), key(i), {keyF} \cup All(elem) \cup Before(i, key)))
    ** Use(All(key)) ** New(result, All(elem))

\* uniq_value roots what it has found, the last key and the element at hand, but
\* neither the rest of the elements nor keyF.  Equal keys are found by running
\* code, if they are arrays or objects.
uniq_elements(keyed) ==
    LET take(i) == IF keyed THEN Call({keyF, elem(i)}, key(i)) ELSE Let(key(i), elem(i))
    IN  SingleUntilError({}, SingleUntilError({elem(1)}, take(1))) ** Let(xKey, key(1))
        ** ForRest(LAMBDA i :
               SingleUntilError(Before(i, elem),
                   SingleUntilError({elem(i), xKey}, take(i) ** Call({xKey, key(i)}, none)))
               ** (Nothing \cup Let(xKey, key(i))))
        ** New(result, All(elem))

uniq_forced == uniq_elements(FALSE) \cup uniq_elements(TRUE)

uniq_value == force_all_array_elements(arr) ** uniq_forced

\* The fields of the patch are evaluated one by one; the brackets hold what the
\* result has so far, not the patch
merge_patch_value ==
    Use({patch, obj})
    ** ForEach(LAMBDA i :
           SingleUntilError(All(member) \cup Before(i, out), Evaluate(change(i), patch, value(i)))
           ** (Nothing \cup
               SingleUntilError(All(member) \cup Before(i, out) \cup {value(i)}, Evaluate(member(i), obj, key(i)))
               ** SingleUntilError(All(member) \cup Before(i, out) \cup {value(i), key(i)},
                      Call({value(i), key(i)}, none)))
           ** New(out(i), {value(i)}))
    ** New(result, All(out) \cup All(member))

\* The elements of an array are not rooted while they are pruned, only what is
\* left of those before
prune_array ==
    force_all_array_elements(arr)
    ** ForEach(LAMBDA i :
           SingleUntilError(Before(i, out), Call({elem(i)}, out(i)))
           ** Maybe(SingleUntilError({out(i)}, Call({out(i)}, none))))
    ** New(result, All(out))

\* Of an object, they are
prune_object ==
    PairedUntilError({obj},
        PairedUntilError(All(member),
            ForEach(LAMBDA i :
                SingleUntilError(Before(i, out), Evaluate(member(i), obj, value(i)))
                ** SingleUntilError(Before(i, out), Call({value(i)}, none) ** New(out(i), {value(i)}))
                ** Maybe(SingleUntilError({out(i)}, Call({out(i)}, none))))))
    ** New(result, All(out))

\* setUnion without keyF forces both arrays before it joins them
TwoForced ==
    force_all_array_elements(arr) ** force_all_array_elements(other)
    ** Use({arr, other}) ** New(result, All(elem) \cup All(item))

----------------------------------------------------------------------------
\* call_native_checked of functions that need the machine

Trace    == call_native_checked({x, acc}, Use({x})) ** Return({acc})
ToStringValue == call_native_checked({x}, Call({x}, none) ** New(result, {})) ** Return({result})

\* The roots are the arguments as they were passed.  b is forced after a, and its
\* code may collect the value of a, which a local thunk has not kept.
AssertEqual ==
    call_native_checked({x, acc} \cup Thunks({x, acc}),
        Operand(x) ** Operand(acc) ** Use({x, acc}) ** Call({x, acc}, none))
    ** Return({})

Length == call_native_checked({arr}, Use({arr})) ** Return({})

MakeArrayValue ==
    call_native_checked({func},
        ForEach(LAMBDA i : New(elem(i), {func}))
        ** Paired(All(elem), New(result, All(elem)))
        ** Maybe(Paired({result}, Collect)))
    ** Return({result})

\* Each call of keyF has a bracket with the best so far; an error of keyF leaves
\* the bracket of the arguments
BestValueByKey ==
    Keyed(elem(1), key(1), {keyF} \cup All(elem)) ** Let(best, elem(1)) ** Let(xKey, key(1))
    ** ForRest(LAMBDA i :
           Keyed(elem(i), key(i), {keyF, best, xKey} \cup All(elem))
           ** Use({key(i), xKey}) ** (Nothing \cup Let(best, elem(i)) ** Let(xKey, key(i))))

\* The empty array, no keyF, keyF
BestValue ==
    LET Forced(then) == SingleUntilError({arr, keyF, acc}, force_all_array_elements(arr) ** then)
    IN  Forced(Nothing) ** Use({acc}) ** Let(best, acc)
        \cup Forced(Use(All(elem)) ** Let(best, elem(1)))
        \cup Forced(BestValueByKey)

handle_min_max_array == call_native_checked({arr, keyF, acc}, BestValue) ** Return({best})
MinArrayValue == BestValue ** Return({best})

----------------------------------------------------------------------------
\* The cases of Call

\* Arguments by name: no check for callbacks but those of sort and uniq
NamedSort  == sort_value_by_key ** Return({result})
NamedUniq  == uniq_value ** Return({result})
NamedOther == call_native_checked({arr, x}, force_array_args ** call_native) ** Return({result})

MergePatch == merge_patch_value ** Return({result})
Prune      == (prune_array \cup prune_object) ** Return({result})
UniqValue  == uniq_value ** Return({result})
SortPlain  == sort_value ** Return({result})

\* Of elements that are forced already
sort_forced == Single({arr}, Nothing) ** Use(All(elem)) ** New(result, All(elem))

\* set and setUnion: sorted without keyF, which is not rooted meanwhile, then
\* uniq, with keyF or not; of a union, uniq goes through the first elements here
Set      == force_all_array_elements(arr) ** sort_forced ** uniq_forced ** Return({result})
SetUnion == TwoForced ** Let(arr, result) ** sort_forced ** uniq_forced ** Return({result})

\* The keys of both arrays, one bracket for each call
BothKeys ==
    LET elements == All(elem) \cup All(item) \cup {keyF}
    IN  ForEach(LAMBDA i : Keyed(elem(i), key(i), elements \cup Before(i, key)))
        ** ForEach(LAMBDA i : Keyed(item(i), otherKey(i), elements \cup All(key) \cup Before(i, otherKey)))
        ** Use(All(key) \cup All(otherKey))

PartOf(vs) == UNION {New(result, S) : S \in SUBSET vs}

SetInterValue == Use({arr, other}) ** BothKeys ** PartOf(All(elem)) ** Return({result})
SetDiffValue  == Use({arr, other}) ** BothKeys ** PartOf(All(elem)) ** Return({result})

RECURSIVE SearchValue(_, _)
SearchValue(lo, hi) ==
    IF lo >= hi THEN Nothing
    ELSE LET mid == lo + (hi - lo) \div 2
         IN  Keyed(elem(mid + 1), key(mid + 1), {keyF, x, xKey} \cup All(elem)) ** Use({xKey, key(mid + 1)})
             ** (Nothing \cup SearchValue(lo, mid) \cup SearchValue(mid + 1, hi))

SetMemberValue ==
    Use({arr}) ** Keyed(x, xKey, {keyF, x} \cup All(elem)) ** SearchValue(0, N) ** Return({})

SetUnionValue == Use({arr, other}) ** BothKeys ** PartOf(All(elem) \cup All(item)) ** Return({result})

SortValue == sort_value_by_key ** Return({result})

\* The elements of the groups are rooted once more with each group
GroupByValue ==
    Use({arr})
    ** ForEach(LAMBDA i : Keyed(elem(i), key(i), {keyF} \cup All(elem)) ** Use({key(i)}))
    ** ForEach(LAMBDA i : New(out(i), {elem(i)}) ** New(key(i), {}))
    ** New(result, All(out) \cup All(key)) ** Return({result})

SortByValue ==
    Use({arr})
    ** ForEach(LAMBDA i : Keyed(elem(i), key(i), {keyF} \cup All(elem) \cup Before(i, key)))
    ** Use(All(key)) ** New(result, All(elem)) ** Return({result})

CountByValue ==
    Use({arr})
    ** ForEach(LAMBDA i : Keyed(elem(i), key(i), {keyF} \cup All(elem)) ** Use({key(i)}))
    ** ForEach(LAMBDA i : New(key(i), {})) ** New(result, All(key)) ** Return({result})

UniqByValue ==
    Use({arr})
    ** ForEach(LAMBDA i : Keyed(elem(i), key(i), {keyF} \cup All(elem)) ** Use({key(i)}))
    ** PartOf(All(elem)) ** Return({result})

MinByValue ==
    SingleUntilError({arr, keyF}, force_all_array_elements(arr) ** BestValueByKey) ** Return({best})

ToPairsValue ==
    Use({obj})
    ** ForEach(LAMBDA i :
           Evaluate(member(i), obj, value(i)) ** Use({obj}) ** New(key(i), {}) ** New(out(i), {key(i), value(i)}))
    ** New(result, All(out)) ** Return({result})

MapKeysValue ==
    Use({obj})
    ** ForEach(LAMBDA i :
           Evaluate(member(i), obj, value(i)) ** Use({obj}) ** New(key(i), {})
           ** Paired({func, value(i), key(i), obj} \cup Before(i, value) \cup Before(i, out),
                  Call({func, key(i)}, out(i)))
           ** Use({out(i)}) ** New(out(i), {}))
    ** New(result, All(value) \cup All(out)) ** Return({result})

FilterObjectValue ==
    Use({obj})
    ** ForEach(LAMBDA i :
           Evaluate(member(i), obj, value(i)) ** Use({obj}) ** New(key(i), {})
           ** Paired({func, value(i), key(i), obj} \cup Before(i, value),
                  Call({func, key(i), value(i)}, out(i))))
    ** PartOf(All(value)) ** Return({result})

ObjectFlattenValue ==
    Use({obj})
    ** Paired({obj},
           Paired({obj}, ForEach(LAMBDA i :
               Paired(Before(i, value) \cup All(member),
                   Evaluate(member(i), obj, value(i)) ** Paired({value(i)}, Use({value(i)}))))))
    ** Paired(All(value), ForEach(LAMBDA i : New(key(i), {})) ** New(result, All(value) \cup All(key)))
    ** Return({result}) ** Maybe(Collect)
=============================================================================
