# A verification project for RapidJsonnet

RapidJsonnet (`src/src/*.rs`) compiles Jsonnet to bytecode and runs it on a stack
machine with a mark-and-sweep heap, in one thread. What makes it hard to get right
is not concurrency of threads but of *evaluations*: reading a variable, a field or
an import may run any amount of code in between, that code may collect garbage,
and several machines share a heap while only one of them runs. Handles that sit in
Rust locals, caches, open upvalues and shared object nodes all have to survive
that. In front of the machine a single-pass compiler keeps count of a stack it
never sees, over a parser that goes back and forth in the text. The modules here
model these parts; TLC checks them on small instances, and TLAPS proves the heap, the
root stacks, the machine's variables, imports and objects, the compiler, the parser and
the test runner for every instance.

Line numbers refer to the files of the repository; `PROJECT.json` maps every
definition to the lines it stands for.

## Inventory

| Component | State | Operations | Hard because | Correct when |
|---|---|---|---|---|
| Heap, interning, GC (`memory_manager.rs`) | slot maps per kind, `interned_strings`, `import_lookup`, `allocated_bytes`, `gc_threshold`, marks | `allocate_*`, `load_*`, stores in place, `run_garbage_collect` | cycles; the order of the sweep; tables that name cells; cells that grow uncounted | nothing in use is removed, nothing else is kept, the tables are exact, every collection ends |
| Root stacks (`external_roots`, `external_upvalue_roots`) | two vectors of root sets | push and pop around every evaluation that keeps handles in Rust locals | nothing ties a pop to its push; `?` leaves brackets; permanent roots are pushed inside brackets | a bracket in progress is protected; leftovers have a cause |
| Machine: frames, variables, closures (`virtual_machine.rs`) | `stack`, `frames`, `open_upvalues` | `LoadVar`, `StoreVar`, `Swap`, `Closure`, `MakeThunk`, `GetUpvalue`, `CloseUpvalue`, `Call`, `TailCall`, `Return` | results are written back to a place read before an evaluation; slots are reused; frames are reused by tail calls | captured variables keep their values; the open list is sorted |
| Imports (`force_value`) | `cached_result`, `evaluating`, one machine per file in progress, `field_cache` | force an import, run a file, return or unwind | importers wait and are roots only through what they pushed; errors at every level; the value of a file may be another import | cycles are noticed, importers keep what they hold, a file has one value |
| Objects | chains of nodes: `properties`, `base_object`, `deleted_keys`, `assertions`; `field_cache`; `pending_cache_target` | literals, `+`, `std.objectRemoveKey`, `o.f`, `o[f]`, `super.f`, assertions, manifestation, `%` | nodes are shared by objects, `self` is not | lookups, `super`, visibility, cached values and output are what the literals mean |
| Native functions and opcodes that call back | partial results in Rust locals, `external_roots`, the value stack | `call_native_checked`, `StdCall`, operators, `manifest*` | any call may collect or fail | partial results survive, every bracket is ended, also on an error |
| Standard library (`native.rs`) | none | pure functions of values | sorting, merging, parsing, encoding at boundaries | they compute their definitions |
| Compiler (`compiler.rs`) | locals and their slots, temporaries, upvalues, types, tail position, one set per enclosing function | one pass from tokens to bytecode, nested | it counts a stack that exists only later; branches that meet; names found through functions still being compiled | a name denotes its variable, ways that meet have one height, types it relies on are right |
| Chunk (`chunk.rs`) | code, run-length spans, constants | write, patch, `get_span` | splits and merges of runs, jump distances | an offset has the span it was written with |
| Parser (`parser.rs`) | two tokens, a token buffer, checkpoints, the scanner's position | `advance`, `consume`, `peek_ahead`, checkpoint and restore | lookahead and restoring share one buffer and one scanner | tokens come once and in order |
| Scanner (`scanner.rs`) | position | `scan_token` | | |
| Serialized programs | string and function tables | write, read | functions before the chunks that refer to them | reading gives what was written |
| Coverage, LCOV | sets of spans, functions and branches | record, merge, report | several machines and tests | no hit is lost |
| Test runner | the machine between tests, results, coverage | discover, filter, force, call, report | an error leaves the machine as it was | every visible test is reported once; tests do not influence each other |
| CLI, REPL, Bazel rules | none of interest | files and flags | | |

How they interact: the machine allocates through the heap and asks it to collect
after allocations that crossed the threshold, with its stack, frames, caches and
open upvalues as roots (`run_garbage_collection`, virtual_machine.rs:8606). The
compiler allocates too and may collect, knowing none of the machine's state:
external roots are the only protection. `force_value` is called from nearly every
opcode and from the native functions; for a thunk it runs frames on the same stack,
for an import it moves the heap into a new machine (1517) and takes it back. The
test runner and the REPL use one machine after another's errors.

## Modules

| Module | Models | Correspondence |
|---|---|---|
| `MemoryManager` | `memory_manager.rs` and the stores the machine makes into cells | one action per `allocate_*`, load, store and close; the collector is `StartGC`, `MarkNext` (one cell off the work list), `MarkDone`, `SweepFirst` (imports), `SweepSecond` (the rest, new threshold) |
| `RootStack` | push and pop of external roots as the brackets of the machine use them | `OpenBracket`, `CloseBracket`, `AbandonBracket` (`?`), `PushPermanent` |
| `Scopes` | abstract: what a program may rely on when functions capture variables | no stack, no upvalues |
| `Upvalues` | stack, frames, open list, thunks, tail calls, a machine per import; the numbering of upvalues from `resolve_upvalue` | one action per opcode or helper; implements `Scopes` (`CapturesKeepValues`) |
| `Imports` | `force_value` of imports over several machines, with collections | `ForceImport`, `FileReturns`, `Fail`, `CyclicImport`, `CollectGarbage`, the field cache |
| `Objects` | object nodes, `self`, `super`, removal, field cache, assertions, output | one action per opcode; nodes carry the literals they stand for as history |
| `Compiler` | every parse function, as what it does to the compiler's own state and to the stack that its code will have | an action per form, taken where the parser looks at the next token; `todo` is what the Rust call stack still has to do; `Exec` is one effect (declare, define, emit, scope, temporaries, patch) |
| `Callbacks` | what a function does between two calls into other code: force, call, allocate, store, root, unroot, push | a run is a sequence of such steps; an operator gives the set of runs |
| `Operators`, `StdCalls`, `NativeValues`, `Manifests` | the handlers of opcodes, of `StdCall`, of native values, and the functions over whole values (comparison, output) | one operator per handler or function: all its ways |
| `NativeCalls` | a handler at work, with the collector and errors in every call | one action per kind of step; `Survivors` is the mark phase from stack and roots |
| `TokenStream` | abstract: tokens are given one after the other; the reader may go back | no buffer, no scanner |
| `Parser` | `advance`, `consume`, `peek_ahead`, `save_checkpoint`, `restore_checkpoint`, scan errors | one action per operation; implements `TokenStream` (`TokensInOrder`) |
| `TestRunner` | discovery, filter, skipped tests, forcing, calling, coverage, report | one action per stage of `run_tests`; a test is reduced to what others can notice of it |
| `MemoryManagerProofs`, `RootStackProofs`, `UpvaluesProofs`, `ImportsProofs`, `ObjectsProofs`, `CompilerProofs`, `ParserProofs`, `TestRunnerProofs` | invariants, proved; that `Upvalues` implements `Scopes` and `Parser` implements `TokenStream` | one lemma per action, and in `CompilerProofs` one per parse function |
| `MC*` | symmetry sets, programs and constraints of the instances | |

Abstractions. A *cell* is its kind, the handles it refers to and a size; contents
of strings are members of a small set. Handles are never reused (slotmap keys are
versioned). In `Imports` and `Objects` what does not matter there is coarser than in
`MemoryManager`: a collection is one step, and evaluation of a field takes one step.
`program`, in these two, is the *kind* of program that is run; it never changes. It
lets a passing run exclude, by name, the programs for which a finding shows the
property violated, instead of weakening the property or the code.
Positions count from 1 where the code counts from 0. Definitions whose names contain an
underscore followed by a description (`Saturating_Wraps`) are mutants: plausible bugs
with which TLC must find the property violated; they are not part of any
specification.

`NativeCalls` runs one handler at a time over data of two elements, so that a loop has
a first and a next round. A cell is named by the Rust variable that holds it. A
call may collect with its arguments still on the stack, without them (a tail call has
replaced the frame), or not at all, and may fail; every step that follows a handle
asks whether its cell is still there. A value that may be a thunk has a handle of its
own beside that of its result (`thunk(v)` and `v`), and `force_value` is what it is for
each of the three kinds of value it evaluates: of a closure nothing is kept; a native
thunk gets the result after the call, and by then may be gone unless some root leads to
it; an import gets it too, and is a root only while its file runs. Where a handler forces
many values, imports are left out (`ForceThunk`): a native thunk, which is never a root,
is the weaker case. In `std.manifestIni` the values of one array are all thunks or none,
and there is one section, main or another. Only calls fail: a type error between two
calls of a handler is not modelled. The second `uniq` loop of `std.setUnion` goes over
the elements of the first array only.

In `Compiler` a program is generated while it is compiled: wherever the parser asks for
the next token, an action chooses one. Beside the compiler's bookkeeping each function
has the stack its code will have when it gets there; no property compares the
bookkeeping with itself. The texts of tokens and the constant pool are left out. `keys`,
how many objects wait on the stack for a computed key, is a ghost: the code has no such
count, which is the finding at compiler.rs:2058.

In `TestRunner` a test is how deep it calls, whether it fails there, which shared object
with a violated assertion it writes out and which code it runs.

### How the modules fit together

`MemoryManager` assumes a client that uses only handles it holds (`held`, `heldUps`)
and passes all of them as roots. The other modules look at where the machine may
fail to do that: `RootStack` at the discipline of external roots, `NativeCalls` at what
each handler of the machine really does with them, `Imports` at the machines that
wait, `Upvalues` at the open list of each machine. `Compiler` shows that slots and
upvalue numbers are those of the variables that `Upvalues` takes them for
(`SlotsExact`, `UpvaluesLead`), and `Parser` that the text is read as
`Compiler` assumes. `TestRunner` starts where the machine ends: with what an error
leaves. What `MemoryManager` shows
(`NoDanglingHandle`) and what `Imports` shows (`ImportersProtected`) are thus two
halves of one argument, and `imports_fieldcache` is a place where the second half fails.

## Runs

| Run | Question | Bounds |
|---|---|---|
| `gc_tables` | Are interning, the import table and the byte count exact through collections? | 4 handles, 2 contents: two strings of one content, an import and its path, before and after a sweep; or 3 cells that grow once in place. |
| `gc_closures` | Does a collection keep the reachable cells and no others, and end? | 3 handles of functions, closures, upvalues and native thunks: all cycles through a closed upvalue and a cached result. A collection after every allocation, as `stress_gc`. |
| `rootstack` | Are brackets protected, and leftovers accounted for? | 5 pushes, 3 nested brackets; the theorems say it for any number. |
| `upvalues` | Does the machine implement `Scopes`, and is the open list right? | 2 variables, closures and upvalues, stack of 4, 3 frames: a captured variable that outlives its frame while its slot is reused needs 2 of each. A second machine on a smaller scale (`TwoFiles`). 3 of each in one frame (`ThreeLocals`): insertion at both ends of the list and between, in every order. |
| `imports` | Are cycles noticed, importers protected, values of files stable? | 2 files, 4 handles, 3 kinds of program (see `MCImports`). |
| `imports_fieldcache` | *Violation*: importers with a field cache, and a collection in the imported file. | |
| `objects` | Do lookups, `super`, visibility, cache and output agree with the literals? | 3 literals with overriding in all combinations, 2 keys, 5 nodes built, 4 read, 2 cached fields. A base shared by two objects whose `self` differs needs 4. |
| `objects_asserts` | *Violation*: assertions of shared nodes. | |
| `natives` | Does any native function or opcode follow a handle that may have been freed, or leave roots behind? | 101 handlers, 2 elements or fields, a collection in any call, an error at each. |
| `compiler` | Is what the compiler believes of the stack what its code will meet? | 2 composite forms of 21, each inside each; 2 reads of 2 names; lists of one item. Slots go wrong where a form is inside another with a local or a read in it, which two forms show. |
| `parser` | Are tokens given once and in order, whatever was peeked, saved and restored? | texts of up to 3 tokens, a scan error anywhere, lookahead of 3, 2 checkpoints: a checkpoint restored after one made later, past the end of the buffer and of the text. |
| `tests` | Is each test reported once, what can tests do to each other, is coverage complete? | 3 tests and a skipped one in one node, or 2 nodes; frames up to 5, so that left-over frames fail a test that would pass. |

Constraints, beside the bounds among the constants: `TablesOrGrowth` splits `gc_tables` into strings with imports, and
cells that grow (growth does not touch the tables, and strings do not grow);
`InOrder` hands out handles in order, in place of symmetry, which is unsound for
liveness; `Small` of `MCUpvalues` takes the union of the three scales above; `Small` of `MCImports`
keeps programs with caches or chains to fewer cells; `LiteralsFirst` makes the literals first and in one order.

Deadlock is not checked but for `compiler`: a program ends, stops at an error, and every
other model stops at its bounds. `Compiler` stutters once the code is complete, so that
there a step that no action takes would be a deadlock.

`natives` names the handlers that are known to go wrong (`KnownUnprotected`,
`KnownToLoseThunks`, `KnownToLeaveBrackets`), so that its properties are about the others and a handler that
goes wrong anew is found; what is wrong with the named ones is listed below. The sets are
exactly the handlers for which TLC finds such a way. A handler in `KnownToLoseThunks` is
still checked in every other step: only the store into a forced thunk may come too late.

Fairness. Only `MemoryManager` assumes any: `WF_vars(GCStep)`. The collector is a
plain loop that calls nothing outside itself, so once entered it runs on; nothing
makes the client do anything. With it `CollectionEnds` says that the mark phase
comes to an end on cyclic heaps.

## Findings

1. **`imports_fieldcache`**: the roots pushed while a file is evaluated (1442) leave
   out `field_cache`, which the collector of the machine itself does root (8629).
2. **`objects_asserts`**: `check_object_assertions` (416) clears the assertions of
   shared nodes, so that an object made later is written out though it violates one.

The next ones were found with the same models. The passing runs leave out, by a constant,
the programs that show them; giving the constant the value named here, in a copy of the run's cfg, shows them again.
Lines are of `virtual_machine.rs` unless a file is named.

| Where | What | Shown by |
|---|---|---|
| 8039 | `Return` of a script leaves without `close_upvalues`. After a tailstrict call at the top level of an imported file the callee's upvalues stay open, with an index into a stack that is gone. | `upvalues` with `ScriptTailCall = TRUE`: `OpenUpvaluesOnTheirStack` |
| 1179 | `merge_objects` does not copy `deleted_keys`: a removed key is back after `A + std.objectRemoveKey(..)`. | `objects` with `Programs <- RemovingPrograms`: `FieldsResolve` |
| 505 | `force_all_object_fields` (`%`) stores what it computed for one `self` into nodes that other objects share. | `objects` with `Programs <- FormattingPrograms`: `ManifestExact` |
| 420 | The assertions are taken off their objects before the first one runs; a collection in it frees the closures of the rest. | `natives` with `Unprotected = {}`: `HandlesLive`; 36 of the 101 handlers are in `KnownUnprotected`, most because operands are popped before the next one is forced, or because what one field gave is kept in a Rust vector while the next is evaluated |
| 1595 | The result of a native thunk is stored into it after the call. Where the thunk was popped off the stack (`pop_forced`, 306, and most arguments of `StdCall`) nothing keeps it during the call: after a collection `load_native_thunk_mut` panics. | `natives` with `LosesThunks = {}`: `HandlesLive`; 7 handlers, beside those in `KnownUnprotected` that force their operands |
| 1552 | The same for an import: its value may be an import again, which is forced (1537) after the roots are popped (1533). A collection in the second file takes the first import, on which 1443 says "Protect the value we are currently forcing", and `load_import_mut` panics; a third file that imports the first one again does not notice the circle. | `imports` with `Programs <- ChainingPrograms`: `ImportersProtected`, `CyclesDetected` |
| 662 | `std.assertEqual` forces its second argument while the first one, forced, is only in a Rust local. `manifest_json_value` (9270) and `value_to_json` (8506) root the value as they got it: where that is a thunk, the object or array it gives is no root while its fields are evaluated. | `natives` with `Unprotected = {}`: `HandlesLive` |
| 463 | `?` between a push and a pop leaves the bracket. | `natives` with `LeavesBrackets = {}`: `BracketsBalanced` |
| compiler.rs:2058 | A local inside a computed key is declared while the object under construction is not counted among the temporaries: its slot is one too low. | `compiler` with `KeysBind = TRUE`, `Forms = {"object", "field", "local"}`, `Params <- NoParams`, `Bindings <- OneValue`, `ForLists <- NoForLists`, `MaxForms = 3`, `MaxReads = 1`: `SlotsExact` |
| compiler.rs:659 | An `if` leaves the types of its branches on the type stack, below the one it pushes. In `1 + ("a" + if true then "b")` the `+` outside takes such a type for the one of its left operand and is compiled to StringConcat (889). | `Leaves = {"number", "string"}`, `Forms = {"if", "plus", "parens"}`, `MaxForms = 4`: `ConcatSound` |
| compiler.rs:1723 | In `f(x) tailstrict + 1` the call is emitted as `TailCall`, and the frame is gone before 1 is added. | `TailMore = TRUE`, `Forms = {"call", "plus", "if", "parens"}`: `TailCallsLast` |
| test_runner.rs:81 | A hidden field is passed over before its name is noted, so that a test that a derived object hides is found in the base. | `tests` without `Overrides` in `MCTestRunner`: `TestsReportedOnce` |
| test_runner.rs:184 | Tests do not run quite independently (README.md:92): frames stay after a failure, and assertions that a test has cleared stay cleared. `InfluencesKnown` says that there is no third way. | |
| parser.rs:78 | `consume` leaves no previous token, so that spans that should end with it (compiler.rs:4175, 3653, 1961) fall back. | reading; spans are not modelled |

The other hazards, with the properties that watch them or the reason why none does yet,
are in `PROJECT.json`.

## Proofs

`MemoryManagerProofs` proves, for all sets of handles and contents, all kinds and
bounds, and every client of the model: `TypeOK`, `NoDanglingHandle`,
`InterningExact`, `ImportTableExact`, `SweepCanReadPaths`, `MarkedIsReachable`,
`NeverOvercounted`. None is inductive. `IInv` adds what holds in the middle of a collection: a marked
cell leads only to marked cells and cells on the work list (`MarkFrontier`); both
lie in every set that contains the roots and is closed under references
(`MarkPrecise`); until the sweep the heap has no dangling edge (`HeapClosed`);
the first sweep leaves marked imports only and the second takes no marked cell
(`SweepFrontier`). When the work list is empty the marked cells are therefore the
least closed set. `UpvaluesPlain` is needed because `mark_upvalue` does not put what it
marks on the work list: an upvalue has no upvalues of its own. The sweep order is a
theorem of its own: if strings went first, a dying import could not read its path.
`NeverOvercounted` compares a counter with a sum over the cells. The library has no
theorem about its sums, and induction over data cannot be cited; a smallest set for which
the claim is wrong takes its place (`SmallestIn`): a sum does not depend on the order of
its members (`TotalRemove`), splits (`TotalSplit`, for the sweep) and grows with them
(`TotalGrows`, for arrays that grow in place). The set of cells is finite because each
step adds at most two.

`RootStackProofs` proves `TypeOK`, `OpenBracketsProtected` and `LeaksAccounted` for
any number of pushes and any nesting. A pop may take somebody else's entry, so the
invariant is one of positions: the entries of the brackets in progress lie where
they were put (`InPlace`), in the order of the brackets (`InOrder`), whence a pop by
the innermost one takes its entry or one above, and never one of an outer bracket.

`UpvaluesProofs` proves `TypeOK`, `OpenListSorted`, `OneUpvaluePerVariable` and
`OpenUpvaluesOnTheirStack` for any number of variables, closures, frames and machines.
`OpenListSorted` is not inductive by itself: a closure captures only slots that exist, a
return closes only what lies above its base, and a result is written back to a slot that
must not have moved. `IInv` therefore also says that frames lie above one another with
their fixed slots on the stack (`FramesNested`); that a result goes back below the frame
that computes it, to the slot of a variable or to a closed upvalue (`BacksSound`); that a
variable has one slot on one machine (`OneSlotPerVariable`) and, once its upvalue is
closed, none, except between `CloseUpvalue` and `Pop` (`ClosedLeft`, `PhaseSound`); and
that every closure and upvalue belongs to one machine, the one that holds it
(`Ownership`): an open upvalue is an index into a stack, and nothing in the code says
which. `ForcingExact` ties the variables being forced to the frames that await them.
A tail call at the top level of an imported file breaks `Ownership` (see the findings), so
that the theorems assume `ScriptTailCall = FALSE`, as the run `upvalues` does.

It also proves the refinement, `Spec => CapturesKeepValues`, on top of that. What
makes it work is `ValueFacts`: wherever the value of a variable is found, in its slot or
in a closed upvalue, it is the same (in the two phases in which both exist they agree).
Most steps change the stack above some position `p` only and close the upvalues above it
(`Prefix`, `Closes`): `EnterLeaveStep` shows once that those are scopes that begin and
end. `Return` to a place from which a thunk was read is an `EndForce` of the variable the
frame awaits. `Swap`, `CloseUpvalue`, imports and their returns are invisible.

`ImportsProofs` proves `TypeOK`, `EvaluatingExact` and `ValueOfImportStable` (an action
property) for all programs, and `ImportersProtected` and `CyclesDetected` for the programs
called `Tame`. `Tame` leaves out the programs of two findings: those that collect garbage
and both import and cache fields (finding 1), and those that collect garbage and have files
whose value is itself an import (the one at 1552). `CachedFieldsLive` is part of the
invariant; what the assumption leaves of it is that a machine's own collection roots its
own cache. The invariant behind the first two says
that the imports marked `evaluating` are those that the waiting machines wait for, none twice, and
that none of them has a value; the one behind the other two that what a waiting machine holds
and forces is among the roots it pushed (`Rooted`), which is all that a collection in another
machine looks at, and that the heap has no dangling edge (`ClosedHeap`).

`ObjectsProofs` proves `TypeOK` and `AssertionsNotLost` for all programs, and
`FieldsResolve` and `VisibilityExact` for those that add no object made by
`std.objectRemoveKey` to another (see the findings), with any keys, literals and numbers
of objects. The properties speak of the layers an object stands for, of which the code
knows nothing: it walks `base_object` and stops at the first hit. `NodeSound` ties the
two: a node stands for one literal, on the layers of its base, with removals on top.
With `DeletedExact` and `FieldsExact` (what a node keeps of its literal and how `:` took
over the visibility from below) a walk down the chain is, by induction along it, a search
down the layers (`FieldFacts`). `MergeStep` shows that the copies of the right object's
nodes, each on the copy before and the first on the left object, are the left object's
layers below the right one's. That `AssertionsNotLost` holds in every program needs
`AssertsExact`: a node has the assertions of its literal, or they were run. `TypeOK`
includes that every evaluation has an outcome: a field that asks for itself fails, because
every step uses up one of finitely many cache keys (`StepFacts`, `FollowExists`).

`CacheExact` and `ManifestExact` are proved for the programs that, besides, do not use the
`%` operator on objects (the formatting finding is why). They compare two recursive
computations: `Follow`, by the code along the nodes, which answers from the cache and
fails when a cache key comes back, and `Denoted`, along the layers, which has no cache and
fails when a field of a layer comes back. `QueryWorth` matches one step of the two;
`FollowWorth`, by induction on the cache keys that are left, the whole evaluations and
every key on the way. What makes the induction go through is `WorthOfAsked`: where a
lookup ends in a value, the places it has closed so far do not matter (`FewerClosed`,
`OneMoreClosed`), so a value may be cached in the middle of one evaluation and used in
another.

`CompilerProofs` proves `TypeOK`, `SlotsExact`, `UpvaluesLead`, `NamesResolve`,
`HeightsMeet` and `NamespaceSound` for programs of any size and nesting (`MaxForms`,
`MaxReads`, `MaxItems` and the lists of parameters, bindings and clauses are arbitrary).
A parse function is a list of effects with choices of the parser between them, and what it
calls is spliced in at a choice, so that the invariant must speak of all that is still to
be done. A *shape* is what can be said of a function under compilation without looking
into it: the locals and what the open scopes declare, temporaries, the height of the
stack, the heights remembered for jump targets, and what is known of the last type.
`Does(items, s, t)` says that a list of effects leads from one shape to another along
shapes that each effect respects. `Yields(items, m)` says that it does so from every
balanced shape, a shape whose height is its locals, temporaries and objects waiting for a
key, to the same with one value more. There is one lemma per parse function that what it leaves to be done yields a
value, in which every branch has to come back to the height of the others; one per effect
that a state that matches its shapes matches the next ones (`Matches`, `Levels`), which
is where the Rust fields are; and one per action of the parser. The inductive invariant,
`Shaped`, is that the functions under compilation match shapes from which `todo` leads to
the end of the program, with one value, nothing open and no fault. What `SlotsExact` says
of one state is then the definition of matching a balanced shape. `UpvaluesLead` needs
`Chained` beside it: an upvalue refers to a local or an upvalue of the function around it,
and the locals it refers to are still there, because a function ends before the scope of
what it captures does. `NamesResolve` follows the chain that `resolve_upvalue` would build
(`ResolvedLeads`). The theorems suppose `~KeysBind`, as the run `compiler` does: with it
the code itself gives wrong slots (the finding at compiler.rs:2058).

`ParserProofs` proves `PeekExact` and the refinement of `TokenStream`
(`TokensInOrder`), for texts, lookahead and numbers of checkpoints of any size. The
buffer and the scanner's position are two halves of one thing: `Ahead` says that the
buffer from the next token on is the text from `Upcoming` to the position, without a gap;
a checkpoint that was restored leaves tokens in the buffer that were taken before, and
the invariant holds of every saved state too.

`TestRunnerProofs` proves `TestsReportedOnce`, `InfluencesKnown` and `CoverageExact`, for
any objects of tests in which no field hides a test of its base (`NoHiding`: the programs
of `MCTestRunner` satisfy it; a hidden one is found twice, see the findings). The queue
and the results together are the tests that `Discover` finds, in their order; frames are
left behind and assertions cleared only by a test that failed.

The inductive invariants were checked by TLC, as invariants of the runs' instances, before
they were proved; except `Shaped`, which says that shapes exist and cannot be evaluated: of
`Compiler` TLC checks the six properties. The instances satisfy the assumptions of the theorems.

Assumptions: those on the constants, named in each module, which TLC evaluates in every
run; those stated in the theorems (`Tame`, `NoHiding`, `ScriptTailCall = FALSE`, `~KeysBind`,
`~ program.mergesRemoved`, `~ program.formats`), each of which leaves out the programs of
one finding, and `Tame` those of two; and the standard facts of the library modules about sequences, functions,
finite sets and well-founded orders.

Only model-checked: `CollectionEnds` (liveness is out of the prover's reach); `HandlesLive`
and `BracketsBalanced` of `NativeCalls`, whose mark phase is a recursive operator, about
which nothing can be proved, and which are about 101 given handlers, a finite set that TLC
goes through; and what the theorems leave out: `CacheExact` and `ManifestExact` with the `%`
operator, chains of imports and cached fields beside imports, both without a collection.
The programs that are in no passing run either, because a finding shows them to go wrong:
chains of imports with collections, cached fields beside imports with collections, hidden
tests, local variables in computed keys, removed keys that are merged again.

## Not modelled

Numbers (doubles), texts of strings, error messages and spans; named and default
arguments at run time; computed fields, comprehensions and `+:` at run time (how they are
compiled and which roots they hold is modelled); what the functions of the standard
library compute. Of the compiler: the scans ahead over the tokens of a `local`, of an
object and of a comprehension, which look for names and know no nesting
(compiler.rs:3468-3545, 1830-1869, 2651-2735; the model takes the lists as found), constant folding, and the
width of a byte for slots and upvalue numbers, which a run cannot fill. Of the machine:
the limits of its stacks other than frames, and the sums of `allocated_bytes` outside
`MemoryManager`. Chunk, scanner, serialization and `lcov.rs` are functions of one vector or
text. The command line, the REPL and the Bazel rules have no state of their own.

## Plan

The order followed how much hangs on a part: heap, roots, variables, imports and objects
first, since an error there makes any program wrong; then the handlers that call back,
the compiler, the parser and the test runner. What is left:

1. `NativeCalls` without recursive operators, to prove `HandlesLive` for a discipline of
   roots, and that the handlers outside `KnownUnprotected` follow it.
2. `Spans` (run-length encoding, `patch_span`) against a function from offsets;
   `SerializedChunk` as a round trip.
3. The scans ahead of the compiler against the lists they are to find.
4. Algorithms of the standard library as operators against definitions.
