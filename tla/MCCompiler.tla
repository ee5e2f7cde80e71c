----------------------------- MODULE MCCompiler -----------------------------
(* Small instances of Compiler *)
EXTENDS Compiler

Binds(x)  == [name |-> x, fun |-> {}]
BindsFun(x, ps) == [name |-> x, fun |-> {ps}]
Param(x, d) == [name |-> x, default |-> d]
For(x, h) == [name |-> x, hoist |-> h]
Where == [name |-> "", hoist |-> FALSE]

SomeParams   == {<<Param("x", FALSE), Param("y", TRUE)>>}
SomeBindings == {<<Binds("x")>>, <<Binds("x"), BindsFun("y", <<Param("x", FALSE), Param("y", TRUE)>>)>>}
OneValue == {<<Binds("x")>>}
NoParams == {<<>>}
NoForLists == {}
SomeForLists == {<<For("x", TRUE), For("y", FALSE)>>, <<For("y", FALSE), Where>>}

LeafForms == {"std"}
AllForms ==
  {"unary", "parens", "superindex", "array", "error", "assert", "if",
   "function", "local", "arraycomp", "objectcomp", "object", "objectassert",
   "field", "dot", "index", "slice", "call", "apply", "plus", "and"}
=============================================================================
