------------------------------- MODULE Operators -------------------------------
(***************************************************************************)
(* The opcodes that take operands off the value stack, force them, and     *)
(* push a result: arithmetic, comparison, strings, arrays and objects.     *)
(* Only a Rust variable holds an operand while it is forced.               *)
(* The upper operand is b, the lower one a.                                *)
(***************************************************************************)
EXTENDS Callbacks

\* pop_forced, twice: b is only in a Rust variable while a is forced
Operands(a, b) == Above({a, thunk(a)}, Operand(b)) ** Operand(a)

\* Add of two arrays
ConcatArrays ==
    Operands(arr, other) ** Use({arr, other})
    ** New(result, All(elem) \cup All(item)) ** Return({result}) ** Maybe(Collect)

\* Add of two objects, and ObjectMerge; the new object refers to both
MergeObjects ==
    Operands(obj, patch) ** Use({obj, patch})
    ** New(result, {obj} \cup All(change)) ** Return({result}) ** Maybe(Collect)

\* Add of a string and any other value, which is converted by running code; a
\* is converted first, while b is a Rust variable
ConcatStrings ==
    Operands(x, acc) ** Call({x}, none) ** Use({acc}) ** Call({acc}, none)
    ** New(result, {}) ** Return({result}) ** Maybe(Collect)

\* AddConst and ConcatConst: b is a constant of the chunk
ConcatConstant ==
    Operand(x) ** Use({x}) ** Call({x}, none)
    ** New(result, {}) ** Return({result}) ** Maybe(Collect)

\* Sub, Mul, Div, Mod, the shifts and the bitwise operators, of one operand or
\* two.  to_number reads the cell of a string.
Arithmetic == (Operands(x, acc) ** Use({x, acc}) \cup Operand(x) ** Use({x})) ** Return({})

\* JumpIfFalse and JumpIfTrue: is_truthy forces the condition
JumpOnCondition == Operand(x) ** Use({x}) ** Return({})

\* Mod of a format string: what the second operand holds is forced
FormatOperator ==
    (Operands(x, arr) ** force_all_array_elements(arr) ** Use({x, arr})
     \cup Operands(x, obj) ** force_all_object_fields(obj) ** Use({x, obj}))
    ** New(result, {}) ** Return({result})

\* Eq, Ne, Lt, Le, Gt and Ge hand both operands over
CompareOperands == Operands(x, acc) ** Use({x, acc}) ** Return({})

\* StringConcat of two strings
StringConcat ==
    Operands(x, acc) ** Use({x, acc}) ** New(result, {}) ** Return({result}) ** Maybe(Collect)

----------------------------------------------------------------------------
\* ArrayIndex: of an array; the element is forced and stored back
IndexArray ==
    Operands(arr, acc) ** Use({arr}) ** Maybe(ForceElement(arr, elem(1))) ** Return({elem(1)})

\* check_object_assertions: the assertions have been taken off the object when
\* the first one runs
check_object_assertions == Use({obj}) ** ForEach(LAMBDA i : Call({assertion(i), obj}, none))

CheckAssertions == check_object_assertions ** Return({})

\* ... of an object, whose assertions are checked first; the closure of the field
\* is called with the object on the stack
IndexObject ==
    Operands(obj, x) ** Call({obj}, none) ** Use({obj, x}) ** Return({obj, member(1)})

\* ObjectIndex
IndexField == Operands(obj, x) ** Use({obj, x}) ** Return({obj, member(1)})

\* InOp: the key is the lower operand
InObject == Operands(x, obj) ** Use({x, obj}) ** Return({})

IndexString == Operands(x, acc) ** Use({x}) ** New(result, {}) ** Return({result})

ArrayLength == Operand(arr) ** Use({arr}) ** Return({})

\* ArrayAppend forces nothing
ArrayAppend ==
    Use({arr, x}) ** New(result, {x} \cup All(elem)) ** Return({result}) ** Maybe(Collect)

ArrayAppendInPlace == Above({arr}, Put(arr, {x})) ** Return({arr})

\* CreateArray and CreateObject take their parts off the stack unforced
CreateArray  == New(result, All(elem)) ** Return({result}) ** Maybe(Collect)
CreateObject == New(result, All(member)) ** Return({result}) ** Maybe(Collect)

\* Each field of an object literal makes a new object
ObjectInsert ==
    Use({obj}) ** New(result, {x} \cup All(member) \cup All(assertion)) ** Return({result}) ** Maybe(Collect)

\* importstr and importbin
ImportContent == New(result, {}) ** Return({result}) ** Maybe(Collect)
=============================================================================
