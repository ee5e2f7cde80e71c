----------------------------- MODULE MCNativeCalls -----------------------------
EXTENDS NativeCalls, Operators, StdCalls, NativeValues, Manifests
RunsOf == [
    ConcatArrays |-> ConcatArrays, MergeObjects |-> MergeObjects, ConcatStrings |-> ConcatStrings,
    ConcatConstant |-> ConcatConstant, Arithmetic |-> Arithmetic, JumpOnCondition |-> JumpOnCondition,
    FormatOperator |-> FormatOperator,
    CompareOperands |-> CompareOperands, StringConcat |-> StringConcat, IndexArray |-> IndexArray,
    CheckAssertions |-> CheckAssertions, IndexObject |-> IndexObject, IndexField |-> IndexField,
    InObject |-> InObject, IndexString |-> IndexString, ArrayLength |-> ArrayLength,
    ArrayAppend |-> ArrayAppend, ArrayAppendInPlace |-> ArrayAppendInPlace, CreateArray |-> CreateArray,
    CreateObject |-> CreateObject, ObjectInsert |-> ObjectInsert, ImportContent |-> ImportContent,

    StdCallArguments |-> StdCallArguments, StdCallJoin |-> StdCallJoin, Get |-> Get, Format |-> Format,
    MakeArray |-> MakeArray, SortByKey |-> SortByKey, MinArray |-> MinArray, Uniq |-> Uniq,
    ObjectValues |-> ObjectValues, Map |-> Map, Filter |-> Filter, Foldl |-> Foldl,
    FlatMapArray |-> FlatMapArray, FlatMapString |-> FlatMapString, MapWithIndex |-> MapWithIndex,
    Foldr |-> Foldr, MapWithKey |-> MapWithKey, FilterMap |-> FilterMap, ExtVar |-> ExtVar,
    SetInter |-> SetInter, SetDiff |-> SetDiff, SetMember |-> SetMember, SetUnionByKey |-> SetUnionByKey,
    ParseJson |-> ParseJson, GroupBy |-> GroupBy, SortBy |-> SortBy, CountBy |-> CountBy,
    UniqBy |-> UniqBy, MinBy |-> MinBy, ToPairs |-> ToPairs, MapKeys |-> MapKeys,
    FilterObject |-> FilterObject, ObjectFlatten |-> ObjectFlatten, StdCallOther |-> StdCallOther,

    Trace |-> Trace, ToStringValue |-> ToStringValue, AssertEqual |-> AssertEqual, Length |-> Length,
    MakeArrayValue |-> MakeArrayValue, handle_min_max_array |-> handle_min_max_array,
    MinArrayValue |-> MinArrayValue, NamedSort |-> NamedSort, NamedUniq |-> NamedUniq,
    NamedOther |-> NamedOther, MergePatch |-> MergePatch, Prune |-> Prune, UniqValue |-> UniqValue,
    SortPlain |-> SortPlain, Set |-> Set, SetUnion |-> SetUnion, SetInterValue |-> SetInterValue,
    SetDiffValue |-> SetDiffValue, SetMemberValue |-> SetMemberValue, SetUnionValue |-> SetUnionValue,
    SortValue |-> SortValue, GroupByValue |-> GroupByValue, SortByValue |-> SortByValue,
    CountByValue |-> CountByValue, UniqByValue |-> UniqByValue, MinByValue |-> MinByValue,
    ToPairsValue |-> ToPairsValue, MapKeysValue |-> MapKeysValue, FilterObjectValue |-> FilterObjectValue,
    ObjectFlattenValue |-> ObjectFlattenValue,

    values_equal |-> values_equal, compare_values |-> compare_values,
    value_to_string |-> value_to_string ** New(result, {}) ** Return({result}),
    ManifestJson |-> ManifestJson, ManifestJsonValue |-> ManifestJsonValue,
    value_to_json |-> value_to_json, ManifestIni |-> ManifestIni, ManifestPython |-> ManifestPython,
    ManifestPythonVars |-> ManifestPythonVars, ManifestYamlDoc |-> ManifestYamlDoc,
    ManifestYamlStream |-> ManifestYamlStream, ParseYaml |-> ParseYaml,
    ManifestXmlJsonml |-> ManifestXmlJsonml, ManifestTomlEx |-> ManifestTomlEx,
    toml_inline_value |-> toml_inline_value]

Everything == DOMAIN RunsOf

\* Operands and arguments are taken off the stack and forced one by one
ForcesUnprotected ==
    {"StdCallArguments", "AssertEqual", "Arithmetic", "ConcatArrays", "MergeObjects", "ConcatStrings",
     "StringConcat", "FormatOperator", "CompareOperands", "IndexArray", "IndexObject", "IndexField", "InObject",
     "CheckAssertions"}

\* Values, elements or fields that have been found are kept while the next one
\* is evaluated
VisitsUnprotected ==
    {"compare_values", "value_to_string", "value_to_json", "Format", "ObjectValues", "MapWithKey", "ToPairs",
     "ToPairsValue", "MapKeys", "MapKeysValue", "FilterObject", "FilterObjectValue", "MergePatch", "Prune",
     "UniqValue", "NamedUniq", "Set", "SetUnion", "ManifestJsonValue", "ManifestIni", "ManifestPython",
     "ManifestPythonVars"}

KnownUnprotected == ForcesUnprotected \cup VisitsUnprotected

\* One value is forced, and no root holds its thunk; nothing else goes wrong
KnownToLoseThunks ==
    {"ConcatConstant", "JumpOnCondition", "IndexString", "ArrayLength", "ManifestYamlDoc", "ManifestYamlStream",
     "ManifestTomlEx"}

\* A `?' between the push and the pop
KnownToLeaveBrackets ==
    {"Map", "MapWithIndex", "StdCallJoin", "StdCallOther", "NamedOther", "MinArray", "MinArrayValue", "MinBy",
     "MinByValue", "handle_min_max_array", "Uniq", "UniqValue", "NamedUniq", "Set", "SetUnion", "SortPlain",
     "MergePatch", "Prune", "FormatOperator", "value_to_string", "value_to_json", "ManifestJson",
     "ManifestJsonValue", "ManifestIni", "ManifestPython", "ManifestYamlDoc", "ManifestYamlStream",
     "ManifestXmlJsonml", "ManifestTomlEx", "toml_inline_value"}
=============================================================================
