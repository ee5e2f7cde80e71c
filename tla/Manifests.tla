------------------------------ MODULE Manifests ------------------------------
(***************************************************************************)
(* The functions that go through a value and evaluate what they find:      *)
(* equality and order, the conversion to a string, and std.manifest*.      *)
(* Each roots something else meanwhile: the value, its elements, the one   *)
(* at hand, or nothing.  What is nested in an element is gone through by a *)
(* call of the same function, which may run any code.                      *)
(*                                                                         *)
(* The value is arr when it is an array and obj when it is an object.  It  *)
(* is forced first: it may be what an element or a field evaluates to, or  *)
(* an argument of Call, and is then in a Rust variable only.               *)
(***************************************************************************)
EXTENDS Callbacks

Nested(v) == Call({v}, none)

----------------------------------------------------------------------------
\* Equality and order

get_visible_fields(o) ==
    LET v(i) == IF o = patch THEN out(i) ELSE value(i)
    IN  ForEach(LAMBDA i : Single(Before(i, v), Evaluate(field(o, i), o, v(i))))

\* a and b are rooted, and the arrays once more
equal_arrays ==
    Single({arr, other}, Single({arr}, Single({other},
        ForEach(LAMBDA i :
            Maybe(ForceElement(arr, elem(i))) ** Maybe(ForceElement(other, item(i)))
            ** Call({elem(i), item(i)}, none)))))

\* Mutant: the fields of the first object are not rooted while those of the
\* second are evaluated
equal_objects_FieldsUnrooted ==
    Single({obj, patch},
        get_visible_fields(obj)
        ** get_visible_fields(patch)
        ** Single(All(out), ForEach(LAMBDA i : Call({value(i), out(i)}, none))))

equal_objects ==
    Single({obj, patch},
        get_visible_fields(obj)
        ** Single(All(value),
               get_visible_fields(patch)
               ** Single(All(out), ForEach(LAMBDA i : Call({value(i), out(i)}, none)))))

values_equal == (equal_arrays \cup equal_objects) ** Return({})

\* compare_values roots nothing
compare_values ==
    Operand(arr) ** Operand(other) ** Use({arr, other})
    ** ForEach(LAMBDA i :
           Use({arr}) ** Maybe(ForceElement(arr, elem(i)))
           ** Use({other}) ** Maybe(ForceElement(other, item(i)))
           ** Call({elem(i), item(i)}, none))
    ** Return({})

----------------------------------------------------------------------------
\* Conversion to a string: only the element or the field at hand is rooted

string_of_array ==
    Operand(arr) ** force_all_array_elements(arr)
    ** ForEach(LAMBDA i : PairedUntilError({elem(i)}, Nested(elem(i))))

\* check_object_assertions, then the fields in the order of their names
string_of_object ==
    Operand(obj) ** Call({obj}, none) ** Use({obj})
    ** ForEach(LAMBDA i :
           Paired({member(i)}, Evaluate(member(i), obj, value(i)))
           ** PairedUntilError({value(i)}, Nested(value(i))))

value_to_string == string_of_array \cup string_of_object

----------------------------------------------------------------------------
\* std.manifestJson, manifestJsonEx and manifestJsonMinified.  The closure that
\* does the work returns its error to the code that makes the pop.

json_of_array ==
    force_all_array_elements(arr)
    ** ForEach(LAMBDA i : Paired({elem(i)}, Nested(elem(i))))

json_of_object ==
    Call({obj}, none) ** Use({obj})
    ** ForEach(LAMBDA i :
           Paired({member(i)}, Evaluate(member(i), obj, value(i)))
           ** Paired({value(i)}, Nested(value(i))))

\* StdCall has forced the value
ManifestJson ==
    (Paired({arr}, json_of_array) \cup Paired({obj}, json_of_object)) ** New(result, {}) ** Return({result})

\* Call, and what is nested: a value that is a local thunk is the root, and what
\* the thunk returns is not
ManifestJsonValue ==
    LET Rooted(v, A) ==
            call_native_checked({v, thunk(v)}, Paired({v, thunk(v)}, Operand(v) ** A) ** New(result, {}))
    IN  (Rooted(arr, json_of_array) \cup Rooted(obj, json_of_object)) ** Return({result})

\* The value of the program, and that of `error'
value_to_json ==
    LET Rooted(v, A) == Single({v, thunk(v)}, Operand(v) ** A)
    IN  (Rooted(arr, force_all_array_elements(arr) ** ForEach(LAMBDA i : Nested(elem(i))))
         \cup Rooted(obj, Call({obj}, none) ** Use({obj}) ** ForEach(LAMBDA i :
                   Evaluate(member(i), obj, value(i)) ** Nested(value(i)))))
        ** Return({})

----------------------------------------------------------------------------
\* std.manifestIni: the argument is the object patch here, and obj a section

\* The elements of an array in a section are gone through with neither them nor
\* the array as a root
ini_field_to_string ==
    Nothing
    \cup Let(arr, value(1)) ** Holding(arr, elem)
         ** (ForEach(LAMBDA i : Use({elem(i)})) \cup ForEach(LAMBDA i : ForceThunk(thunk(elem(i)), elem(i))))

\* An object that is a section, main or one of the others, and its fields
ini_section ==
    PairedUntilError({obj}, ForEach(LAMBDA i : EvaluateForced(member(i), obj, value(1)) ** ini_field_to_string))

\* The object of all sections is a field of the argument, and holds one section
ini_sections ==
    EvaluateForced(change(N), patch, acc)
    ** PairedUntilError({acc}, New(out(1), {}) ** Put(acc, {out(1)}) ** EvaluateForced(out(1), acc, obj) ** ini_section)

\* The main section, then the others: what is left to do after the main one is
\* what is done when there is none
manifest_ini ==
    Operand(patch) ** Use({patch})
    ** PairedUntilError({patch}, EvaluateForced(change(1), patch, obj) ** ini_section \cup Maybe(ini_sections))

ManifestIni == manifest_ini ** New(result, {}) ** Return({result})

----------------------------------------------------------------------------
\* std.manifestPython: an object is rooted, an array is not

python_of_array  == Operand(arr) ** Use({arr}) ** ForEach(LAMBDA i : Use({elem(i)}) ** Nested(elem(i)))

python_of_object ==
    Operand(obj) ** Use({obj})
    ** PairedUntilError({obj}, ForEach(LAMBDA i : Evaluate(member(i), obj, value(i)) ** Nested(value(i))))

ManifestPython == (python_of_array \cup python_of_object) ** New(result, {}) ** Return({result})

\* The object of the variables is not rooted
ManifestPythonVars ==
    Operand(obj) ** Use({obj}) ** ForEach(LAMBDA i : Evaluate(member(i), obj, value(i)) ** Nested(value(i)))
    ** New(result, {}) ** Return({result})

----------------------------------------------------------------------------
\* std.manifestYamlDoc and manifestYamlStream

\* The elements are rooted, not the array, and what forcing gives is not
\* written back
yaml_of_array ==
    Operand(arr) ** Use({arr})
    ** PairedUntilError(All(elem),
           ForEach(LAMBDA i : Nested(elem(i)) \cup ForceThunk(elem(i), value(i)) ** Use({value(i)}) ** Nested(value(i))))

yaml_of_object ==
    Operand(obj)
    ** PairedUntilError({obj},
           PairedUntilError(All(member),
               ForEach(LAMBDA i : Evaluate(member(i), obj, value(i)) ** Nested(value(i)))))

ManifestYamlDoc == (yaml_of_array \cup yaml_of_object) ** New(result, {}) ** Return({result})

ManifestYamlStream ==
    Operand(arr) ** Use({arr}) ** PairedUntilError(All(elem), ForEach(LAMBDA i : Nested(elem(i))))
    ** New(result, {}) ** Return({result})

\* What parsing builds is not rooted, and need not be: nothing runs
ParseYaml == Use({x}) ** ForEach(LAMBDA i : New(value(i), {})) ** New(result, All(value)) ** Return({result})

----------------------------------------------------------------------------
\* std.manifestXmlJsonml: [tag, attributes, children...]
xml_element ==
    Operand(arr) ** force_all_array_elements(arr)
    ** SingleUntilError(All(elem),
           Call({elem(1)}, none)
           ** Call({elem(N)}, none)
           ** ForRest(LAMBDA i : Nested(elem(i))))

ManifestXmlJsonml == Single({arr, thunk(arr)}, xml_element) ** New(result, {}) ** Return({result})

----------------------------------------------------------------------------
\* std.manifestTomlEx

\* toml_inline_array roots its elements, toml_inline_value an object
toml_inline_array ==
    force_all_array_elements(arr)
    ** SingleUntilError(All(elem), ForEach(LAMBDA i :
           Nested(elem(i)) \cup ForceThunk(elem(i), value(i)) ** Nested(value(i))))

toml_inline_object ==
    PairedUntilError({obj}, ForEach(LAMBDA i : Evaluate(member(i), obj, value(i)) ** Nested(value(i))))

toml_inline_value == (toml_inline_array \cup toml_inline_object) ** Return({})

\* A table that was found in a field, kept for the second loop: its handle is
\* added to the entry that was pushed before the first loop, addressed by the
\* index the entry had then
SubSectionRoots(v) == Step("addroot", {v}, none)

\* A field with an array of tables is kept, element by element; any other array
\* is written at once
toml_array(i, tables) ==
    Let(arr, value(i)) ** Holding(arr, elem)
    ** force_all_array_elements(arr)
    ** SingleUntilError(All(elem), Call({elem(1)}, none)
        ** ForEach(LAMBDA j : IF tables THEN Call({elem(j)}, out(i)) ** SubSectionRoots(out(i))
                                        ELSE Nested(elem(j))))

toml_field(i, kind) ==
    Evaluate(member(i), obj, value(i))
    ** CASE kind = "scalar" -> Nothing
         [] kind = "table"  -> SubSectionRoots(value(i))
         [] kind = "array"  -> toml_array(i, FALSE)
         [] kind = "tables" -> toml_array(i, TRUE)

\* The tables are written after all other fields
toml_section(i, kind) ==
    CASE kind = "table"  -> Nested(value(i))
      [] kind = "tables" -> Nested(out(i))
      [] OTHER           -> Nothing

manifest_toml_table ==
    LET kinds == [1 .. N -> {"scalar", "table", "array", "tables"}]
    IN  Use({obj})
        ** SingleUntilError({obj}, SingleUntilError(All(member), SingleUntilError({},
               UNION {ForEach(LAMBDA i : toml_field(i, k[i])) ** ForEach(LAMBDA i : toml_section(i, k[i])) : k \in kinds})))

ManifestTomlEx == Operand(obj) ** manifest_toml_table ** New(result, {}) ** Return({result})
=============================================================================
