# Koa: models, checks and proofs

Koa (`src/`) is a small statically typed script language in C: a one-pass
compiler to opcodes, a stack machine, reference counted objects with a
generational collector, and a memory allocator of its own. This directory holds
TLA+ modules of its core, TLC configurations that check them on small
instances, and proofs that TLAPS checks for every instance. All paths below are
relative to `src/src/` unless they name a directory.

## 1. The system

| component | files | state it keeps | operations |
|---|---|---|---|
| memory allocator | `pool.c` | per thread: pools, their free pages, pages in use and full pages by cell type, a hash of the pages in use | `pool_alloc`, `pool_calloc`, `pool_free`, `pool_recycle`, a second allocator for what is handed to another thread |
| lists | `list.c` | links inside the elements | append, remove, merge, cleanup, foreach |
| vectors | `vec.c` | `v`, `size`, `allocated` | insert, remove, set, concat, growth and shrinking |
| hash table, dict | `hash.c`, `dict.c` | chains, and the counters `hash->size`, `dict->used`, `dict->size`, `dict->bu_size` | set, get, remove, rehash |
| object core | `object.c` | reference count, type, digest of every object | ref, unref, free, arithmetic, casts, comparison, traversal, copy |
| containers | `vecobject.c`, `dictobject.c`, `structobject.c`, `unionobject.c`, `compound.c` | elements, each counted | index, assignment, append, remove, traverse, copy |
| scalars | 15 integer types, `floatobject.c`, `doubleobject.c`, `boolobject.c`, `charobject.c`, `strobject.c`, `nullobject.c` | value; caches of small integers and of strings | operators, casts, printing |
| collector | `gc.c` | three generation lists, their counts and thresholds, `gc_ref` and status of each object | track, untrack, collect |
| lexer, parser | `lex.c`, `parser.c` | one token of look-ahead; the code under construction | a function per production; back-patching of jumps |
| code | `code.c` | opcodes, constants, names, line numbers; the `.b` file beside a source | push, modify, save to and load from that file |
| stack machine | `interpreter.c`, `frame.c`, `stack.c` | frames with blocks of variables, the operand stack, one C activation of `interpreter_play` per call | one handler per opcode, calls, returns, exceptions |
| errors | `error.c`, `exceptionobject.c` | one message buffer | `error`, `fatal_error` |
| threads | `thread.c`, `thread_pthread.h` | a context per child: code, arguments, allocator, result | create, join, detach, cancel |
| builtins, modules, program | `builtin.c`, `modobject.c`, `main.c`, `cmdline.c`, `opt.c`, `misc.c` | options | calls into the above, terminal and file I/O |

How they interact:

* The parser writes opcodes into `code_t`; `interpreter_play` reads them through
  the current frame (`frame_next_opcode`), but reads constants and names through
  its own parameter `code`. A call of a function is a nested C call of
  `interpreter_play`, which pushes a frame; a return frees the frame and ends
  that C call.
* Any component may call `error`, which builds an exception object and changes
  frames and stack (`interpreter_set_exception`) before the caller of `error`
  has seen the failure; the opcode's handler then runs `HANDLE_EXCEPTION`.
* Objects are shared by counting. The stack, variables and containers each own
  references; every opcode moves them by hand. `OP_LEAVE_BLOCK` and `OP_RETURN`
  run the collector every thousand opcodes; it looks at counts and at the
  containers only.
* A source is compiled once: `parser_load_file` compares the times of the source
  and of its `.b` file and loads the latter when it is newer. The same bytes carry
  a child thread's result to its parent.
* A child thread runs a function of its parent's code, on a copy of the arguments
  in an allocator of its own, and shares the global variables.
* Everything is allocated from the pools of its thread; `pool_free` finds out
  from the address alone whether a block is a cell.

What is hard here: errors that cross several activations; jumps whose targets
are patched by value after the fact; counts that many hands keep; a collector
that moves list nodes under a running list walk; an allocator that allocates
from itself while it allocates; threads that share objects, a context and an
error buffer, and find each other by ids that are used again; a file that two
processes write and read and any of them may leave half done; two readers and a
writer of every record that agree by hand.

What makes each part correct, in short: *allocator* — a cell has one owner, a
page one list, and a block in use is never taken for somebody else's; *dict* —
it is a map and its counters are its size; *collector* — what is reachable
stays, what is not goes, lists stay lists, a collection ends; *stack machine* —
an error goes to the innermost handler around it, with blocks and stack as the
handler expects them, and nothing is left behind; *compiler* — every jump leaves
exactly the blocks between it and its target; *threads* — nothing of one
allocator is freed by another, a context is freed once, after its last use, and
a join ends with the result of the thread it was for; *saved code* — what runs is
the source, whatever was interrupted; *opcodes* — each keeps the counts equal to
the references, on every path, and fails only with an error.

`PROJECT.json` lists the hazards line by line, with the properties that cover
them.

## 2. The modules

| module | models | abstract specification | proofs |
|---|---|---|---|
| `Pool` | `pool.c` | – | `PoolProofs` |
| `DictMap`, `Dict` | `dict.c`, `hash.c` | `DictMap`, refined by `Dict` | `DictProofs` |
| `VecList`, `Vec` | `vec.c` | `VecList`, refined by `Vec` | `VecProofs` |
| `Gc` | `gc.c` with the counts of `object.c` and the vecs of `vecobject.c` | – | (recursive, TLC only) |
| `Vm` | `interpreter.c`, `frame.c`, `stack.c`: control flow | – | `VmProofs` |
| `Codegen` | the statements of `parser.c` | – | (recursive, TLC only) |
| `Layout` | what `parser.c` promises `interpreter.c`: one nesting of blocks and one height of the stack per position | layouts of code, an assumption that TLC evaluates | `VmProofs` |
| `Numbers` | the operators of `object.c` on the nineteen number types | C99 arithmetic, as a property | `NumbersProofs` |
| `Refs` | the opcodes of `interpreter.c` on values, variables, elements and members, with the containers and `frame.c` beneath them: who counts what | exact counts, as a property | `RefsProofs` |
| `Binary` | the writer and both readers of programs and values: `code.c`, `compound.c` and the `*_binary`, `*_load_*` of all objects | – | (recursive, TLC only) |
| `Program` | `parser_load_file`, `code_save_binary`, `code_load_binary` and the file system between several processes | – | `ProgramProofs` |
| `Threads` | `thread.c`, `thread_pthread.h`, the thread builtins, the two allocators of a thread | – | `ThreadsProofs` |
| `MCPool`, `MCDict`, `MCVec`, `MCGc`, `MCNumbers`, `MCRefs`, `MCBinary`, `MCProgram`, `MCThreads` | instances | | |
| `MCVm` | composes `Vm`, `Codegen` and `Layout`: the machine runs what the compiler makes of whole families of programs | | |

A definition that stands for a C function has its name. Operators that start
with the comment "Mutant" are plausible mistakes in such a function, kept
beside it; no specification uses them.

### Pool

The variable `alloc` is `allocator_t` with the headers of its pools and pages,
`owned` the blocks the program holds. `Alloc(t)` is a whole
`pool_alloc_allocator`: taking a page (`pool_get_page`: a page in use, else a
free page, else a new pool), taking a cell, and, for a fresh page, the nested
allocation of its record in `pool_page_hash_add`, which may itself take a fresh
page. `Free(b)` is `pool_free` with `pool_page_hash_remove` and
`pool_empty_page_in`. `AllocUnhashed(t)` is the error path on which the record
cannot be had. `pool_recycle` is modelled though nothing calls it at this
commit. Lists are sets: what is served next is left open.

### Dict

`dict` is `dict_t` with its table, a bucket being the set of its pairs; `result`
what the last call returned. `dict_set`, `dict_get` and `dict_remove` are whole
calls, the rehash included. Keys are objects and `ClassOf` says which of them
are equal, so that the model knows which of two equal keys a table keeps.

### Vec

`vec` is `vec_t`: `size`, `allocated` and the array `v`, in which memory that
nobody has written is `UNKNOWN`. One action is one call, with positions inside
and outside the vec; `vec_push_back` and its sisters are the calls of
`vec_insert` and `vec_remove` that they are in the code. `NewReq` is the size that
`vec_check_and_resize` decides on. `vec_remove` moves one element more than there
is, from beyond the array when it is full: the model moves `UNKNOWN` and shows
that no call returns it. `VecList` is the list that `vec.h` promises.

### Gc

`heap` holds alive objects, counts, elements, generation lists, statuses and
`gc_ref`; `held` the references from variables and stack. The actions are the
opcodes that make, load, store and drop vecs, step by step in the order of their
handlers, and `gc_collect`. A collection follows the C code walk by walk,
`list_foreach` with its saved next node included. Where the C code would never
return, use freed memory or leave a list, the heap gets a `fault` and stops.

### Vm, Codegen and MCVm

`frames` is the chain of `g_current`, each with its blocks (`out`, `bottom`,
`catched`), position, stack bottom and exception; `g_s` the operand stack;
`plays` the `code` parameters of the running activations of `interpreter_play`.
One action is one opcode, or the tail of `OP_CALL_FUNC` after a callee returned
0. Values are told apart as objects, argument vecs, functions and exceptions.
An operation that can report an error may do so at any time, and a condition may
go either way. `Fail` is `error ()` followed by `HANDLE_EXCEPTION`.

`Codegen` compiles syntax trees as the parser does: one function per production,
the same positions, the same patching by value in the loops' epilogues. The
labels of a `switch` are first emitted where they stand; its epilogue counts the
blocks around each, moves it to the dispatch in front of the body
(`parser_adjust_case`, `parser_adjust_default`) and corrects the jumps on the
way, `LabelsMoved` being that walk. `Accepted` is what the parser refuses.
`MCVm` enumerates programs and runs `Vm` on the result.

`Layout` is the boundary between the two. `Fits(c, n)` says of a code `c` that at
every position it can be at there is one nesting of blocks (`n.nest`: where each
leads on an error, innermost first) and one number of operands (`n.height`),
whichever way it is reached, as if each opcode did to them what `interpreter_play`
does (`Takes`, `Leaves`, `Flows`), and that the handlers of the tries open there
find what their own position asks for (`Catches`). `ReadsAs(c, n)` says that this
is the nesting that the text shows. `MCVm` computes a layout by walking each
compiled code (`NoteOf`); a code whose paths disagree has none, and TLC stops at
the assumption.

### Numbers

A behaviour is one expression: two operands, an operator, its result. A number
object is a type and an integer. `Unary`, `Binary`, `Shift`, `Relation` and
`object_cast` are the operators of `object.c` with their checks and conversions
in the code's order; `Routine` is an entry of a type's `g_object_ops`, a call of
an empty entry or a division that traps being `CRASH`. The integer files differ
in their C type and nothing else, but for two lines of `longobject.c` (`Made`,
`Read`); a type is therefore a width, a sign and a set of routines. Widths and
mantissas are constants: the module is about the order of widths and what wraps,
not about 32 and 64. Of floating values only integers are modelled, with
rounding to the mantissa; out of the range of an integer type they convert to
anything, as C says.

### Refs

A state is the heap, the operand stack and the variables of a function's block
and of one `try` block in it. `heap.o[i]` has the type, the count and the elements
of an object; cached numbers, literals and `null` are constants, which nobody
counts. An expression is whatever sequence of opcodes the stack allows; one
action is one handler, with the references taken and let go of in the handler's
order, on success and on each failing path. The ten copies of every in-place
opcode differ in the operator only and are one action, as are the operators of
two operands. Values are left out: what depends on one may go either way.

`Leave` ends every opcode. It compares the counts with the places that hold each
object (`Exact`); if they differ, or the opcode failed without an error (`quiet`),
went on after one (`ignored`) or used a NULL (`dead`), it records the opcode with
the type and count of its object (`blame`) and the program stops. The properties
say which opcodes may be blamed, for what and on which objects. So every other
path of every opcode is shown correct, and each named exception is a mistake of
the code; the run needs them, and was seen to fail without each.

### Binary

A behaviour saves one program or dumps one value and reads it back. The writer is
`code_binary` and `object_binary`, type by type; each reader is written once with
`m`, `"file"` or `"buf"`, for the two copies in the code, and branches where they
differ. Numbers are sequences of bytes, a byte having three bits so that a
`size_t` fits TLC's integers; widths are those of a 64 bit machine. A file may
end anywhere.

### Program

`source` with `s_mtim` and `file` with `b_mtim` are the file system, whose clock
may stand still between two writes. Each process is at a place of
`parser_load_file`: it compares the times, then loads, or parses and writes the
file part by part. A write may fail, which the code does not notice until the
end; a process may be killed anywhere (`Crash`); the author saves a text at any
time (`Edit`). `Parts` stands for the buffers of stdio. That a complete file
gives its program back, a beginning of one is refused and one with fields is
refused is taken from `Binary`.

### Threads

`pc` says where a thread is between two calls that others can notice: copying
arguments (`second` is the allocator it then also uses), starting the child,
entering its context in `contexts`, waiting in a join. `pth` is what pthread knows
of an id. `Return`, `Dump` and `Free` are the end of `thread_func`. A thread may
join, detach or cancel any id, its own and gone ones included. What a program does
that nobody could survive is collected in `misuse`; what may then kill the
process sets `crashed`.

## 3. The runs

Passing runs:

* `pool` — a small and a large pool of two pages each, a cell type of three
  cells (the records) and one of two, one block of the C library. Two pages to a
  pool and two pools are the least at which the nested allocation of a record
  can find a page, take the last page, take a new pool, or fail; recycling
  after one call lets pools go and come back. Pages and cells are symmetric.
* `gc` — three vecs of one element, up to two references from outside to each,
  collections of all three generations with thresholds of 1, 0, 0. Three is the
  depth at which the traversals reach an object twice.
* `dict` — six keys in five classes, four buckets: equal keys, a shared bucket,
  a full table.
* `vec` — at most nine elements in arrays of two, four, eight and nine: every
  doubling, the cut-off at the limit, which is no power of two, and the halvings
  back; one datum beside NULL, so an element in the wrong place shows.
* `numbers` — types of 2, 3, 4 and 8 bits with mantissas of 3 and 6, so that a
  float lies between short and int and a double between int and long, as in
  reality; the ends and the middle of every integer type and floating values on
  both sides of them; every operator on every pair. `ArithmeticIsC` compares the
  named types from `int` on with the conversions and operators of C99;
  `EqualHashesAlike` is what a dict needs of its keys.
* `binary` — 7 programs and some 200 values: every type, empty, single and nested,
  compounds with and without fields, functions in functions; files cut after every
  byte.
* `program` — two processes, since what a third meets the second has met; four
  texts (two good ones, one that does not compile, one with a field), a file of
  two parts, a clock of three ticks: enough for an edit and a save within a tick
  and after it.
* `threads` — main and two threads, so that a child has a child or a sibling, and
  two ids, so that the third thread takes over a used one. A run is followed up to
  the second kind of misuse (`Enough`), beyond which nothing is claimed.
* `refs` — four counted objects: an element, its container, a result and the
  number it is converted to, which `++` after the value of a short member needs
  (with three TLC does not reach that leak); vecs of two elements, so that a copy
  can fail after one, dicts of one pair, structs with a number and a compound
  member, unions of an int and a double; an object of each rank below, at and
  above int. A store to an element takes expressions of three operands: these have
  a variable of the `try` block and a number, with vecs and with dicts. Expressions
  of two operands have, for every kind of container, a variable of the function,
  null, a number and a text, and a vec literal has a variable of the `try` block.
  Both variables are there with one operand. Objects are symmetric.
* `vm` — 2,820 compiled programs: nested `try` in every combination of
  failing and not failing bodies and handlers, in a caller and its callee, with
  and without arguments and results; every kind of exit from a loop of each form;
  loops in loops; switches with up to three labels and a `default`, at any
  depth of blocks, with and without fall-through, with loops and switches behind a
  label, and each of them inside a `try` and a loop. TLC also evaluates
  `LayoutAssumption` here: all the codes of these programs have a layout. The statement of a label is
  the expression it compares with, so that `SwitchDispatches` can tell from the
  code where a label leads.

Runs in which TLC finds that the code does not do what its text says:

* `gc_live` — a collection empties a vec that a variable still reaches through
  two others.
* `vm_try` — a `try` body that completes falls into its `catch` clause. The
  property has two more parts, which other states of the run break: an exception
  that the caller catches is handled in the callee's activation, with the callee's
  constants and names, and one from two calls below a `try` passes it by.

Where a passing property names exceptions, the code is what makes them
necessary. In `refs` (seen in the program built from `src/` where marked *):

* an element or member of a container that only the stack holds is freed with it,
  before it is counted (`NoneFreedEarly`);
* a failing `&` lets go of its operands twice* (`OP_BIT_AND`);
* `x.c += 1.5` with an int member ends the program without a word*, since the
  value stored is not the result (`FailuresAreReported`);
* a condition on a container reports an error and goes on*; `v[9]++`*, a copy of
  a dict that holds null*, a copy of an unset union* and `v()` of a vec* crash;
* `++` after a short variable or a short member of a struct, operators on members
  of unions, `remove` from a vec, a copy that fails half way and a call of what is no function leak
  (`NoneLost`);
* a literal vec is one object for all executions of its expression: what a
  function appends to it is there in the next call* (`Literal`).

In `numbers`, outside what `ArithmeticIsC` speaks of (README.md calls koa a
subset of C99; all seen in the program): mixed operands follow the numbers of
their types, so `((int8) 1) + 300` is 45 and `((int8) 1) / 256` traps after the
check for zero; `-true` and `true + 'a'` call a null routine; an `ulong` of 2^63
or more turns negative beside a floating number; the difference of two longs is
an int, and `>>` shifts the low half of a long.

In `binary`: a program that declares a struct or union with a field is refused in
its second run (seen in the program); functions with code do not cross to a
parent, nor do `uchar`, `short`, `ushort`, `uint`, `ulong` and exceptions.

In `program`: a run that is killed while it saves leaves a file that makes every
later run fail until the source is saved again (`BrokenStays`).

In `threads`: passing dicts or nulls as arguments, storing objects in globals from a
child, joining ids of others, ending main before its children and joining a
cancelled or failed child may each kill the process (`CrashHasCause`).

In `vm`, `HandlerIsInnermost` holds of all programs of the run, but not of all that
the compiler accepts (nor is it proved of them): a call without arguments of a
function that binds some takes the operand below for their vec. In
`{ 1 + f(1); }` with `f(int n) { try { try { f(); } catch {1 + x;} 1; } catch {} }`
that operand is an exception on the way out; the function binds nothing, fails,
and the exception of an earlier error is left on the stack and given to the
handler of a later one (`interpreter.c:85`, `interpreter.c:553`). `CallsBind`
excludes such calls; TLC finds the counterexample when it is given this program.

Four shapes of programs are left out of `vm`, since for them the properties do
not hold; each was given to TLC and to the program:

* two loops or switches, one in the other, at the beginning of a function: the
  number of blocks that the inner `break` leaves is there also the position that
  the outer epilogue looks for, and is counted once more (`BlocksMatchNesting`;
  a segmentation fault*). `TwoLoops` and `Switching` have statements before them;
* a `do`, a `for` or a `try` in front of a later label of the same switch: its
  `OP_JUMP_TRUE` or `OP_ENTER_BLOCK` keeps the old position
  (`BlocksMatchNesting`; statements run twice*);
* `default` in front of a `case`: the `case` before it hands on to the wrong place
  (`SwitchDispatches`; the wrong statement runs*);
* `for` with an expression for its first part: the value stays on the stack
  (`OneValueAtReturn`; `10 + f()` after such a loop in `f` fails*).

A `return` as the first branch of `if ... else` is a syntax error*, because the
semicolon is left over: `EndsInReturn`.

Other behaviours that the models contain, without a property: the cell of a fresh
page whose record cannot be had goes to `free` of the C library
(`AllocUnhashed`); `break` in a `try` jumps to the beginning of the function; a call
without arguments of a function with parameters dereferences NULL when the stack
is empty (`BindArgs`); a function that ends with `if (..) return;` runs past its
last opcode (`FallOff`); a dict never grows (proved: `TableFixed`); the walk of a
collection can leave its list (`derailed`); the collector recurses without end on
a vec inside itself (`overflow`).

Bounds: `MaxHeld` and `MaxCount` (references from outside to one object, objects
tracked since the last collection) cap the guards of `Gc`; all other instances
are finite by their constants. `CHECK_DEADLOCK FALSE` is set where a program
ends: after the end or the fault of a program in `Refs`, after reading back in
`Binary`, after the main thread in `Threads`, when no process is left in `Program`,
after a fault in `Gc`, after `abort` in `Pool`, after the last opcode in
`Vm`, after the one expression of `Numbers`. There the bound `WholeQuotient`
leaves out floating quotients that are not integers, and an operator of one
operand is tried once per operand (`same`).

Fairness: `Terminates` uses weak fairness of `Next` as a whole. The interpreter is
a loop of one thread that nothing suspends; no single opcode is promised
anything. It is stated for programs whose code only jumps forward. `JoinsEnd`
uses weak fairness of each thread's own steps (`Progress`): the system schedules
every thread, nothing in `thread.c` holds a lock, and functions come to an end.
That a thread creates, detaches or cancels anything is never assumed.

## 4. The proofs

* `PoolProofs` proves every property of the run `pool` for any sets of pools,
  pages, types and cells under `PoolAssumption` (pages and chains are finite, a
  page has at least one cell, a page of records at least two: 4096 bytes hold
  more). The inductive invariant is `Inv`: the types hold and, unless the
  program aborted, the allocator is `Quiet` for the cells held (every page has
  its record) and the program owns no record. Within a call it is not quiet: the
  lemmas about the helpers use the weaker `Good(a, S)`, for an allocator `a` and
  the set `S` of the cells that are out, in which taking a cell adds one to `S`
  and putting it back removes it, and `RecordsGood` relates the records to the
  pages on top of it. So the nested allocation of a record, which may take a
  fresh page itself, is the same lemma applied twice. The properties are not
  inductive one by one: that no cell is served twice needs the lists, the lists
  need the counters (a page goes back when its counter says so), and the counters
  need the records.
* `DictProofs` proves the counters exact and that `Dict` implements `DictMap`
  (`DictIsMap`): both have the last call with its arguments (`call`) and its
  result, so a step of the table is a step of the map for the same call with the
  same answer. The invariant `Good(dict)` says that pairs are in the bucket of
  their hash, at most one per class, that the counters are exact and that the
  table has its initial size; the latter is what makes `dict_rehash` a no-op and
  is itself a pigeonhole argument over the used buckets.
* `VecProofs` proves every property of the run `vec`, and that the elements fit
  (`Fits`), for any data, first size and limit, that `Vec` implements `VecList` included (`VecIsList`). The invariant
  `Good(vec)` is that the elements fit and are written; lemmas say what
  `vec_check_and_resize` keeps (`Resized`) and which elements an insertion and a
  removal leave (`InsertedGood`, `RemovedGood`), and the list of the abstract
  specification is read off them.
* `VmProofs` proves `TypeOK` and `CatchedExact` for any program text at all,
  compiled or not. `CatchedExact` is what makes `frame_recover_exception`
  well defined: its loop stops. The invariant adds that an activation is running
  while the machine runs. Each way a step may end (`Continue`, `PlayReturns`,
  `Fail`, `HANDLE_EXCEPTION`, a crash) is a lemma, and each opcode one step.
* `ProgramProofs` proves the properties of the run `program` for any processes,
  texts and parts, however the clock moves. The invariant `Calm` holds until a
  clash: a run under way has seen the source as it is and holds nothing else, at
  most one process writes, what is before its place is written, a file that is
  newer or being written is a beginning of the source's program, and the file is
  read only while it is newer. `BrokenStays` needs the types only.
* `ThreadsProofs` proves every safety property of the run `threads` for any
  number of threads and ids. None is inductive. An allocator stays its child's
  because of `Hand`: a child in creation has one creator, does not run before it is
  spawned, and is the creator's second allocator only until then. A context stays
  because of `Table`: pthread gives an id to one thread at a time and joins threads
  that have ended, an entry of `g_thread_context` is a child with that id, and
  nobody changes the entry that a join has found. `DescendantsEnded` is `Family`:
  threads are a tree with main at the root (`Parents`, `Rooted`), and unless a child
  was left, a thread that has ended has only children that have been joined, so the
  end of main is, level by level, the end of all. Such an induction over the depth of
  the tree is replaced by `Rooted`: every set of threads without main has one whose
  parent is not in it, which for the set of those still alive is a contradiction.
  `JoinGetsResult`
  is `Joins`: a joiner that uses ids of its own children finds the entry of the one
  it asked for, although the id is used again as soon as that one has been joined,
  and a result is read only after it was written. `CrashHasCause` adds `Causes`:
  what is in a global and who frees the pools. The four are proved together (`All`).
* The second half of `VmProofs` proves `BlocksMatchNesting`, `OneValueAtReturn` and
  `HandlerIsInnermost` for any codes with a layout, compiled by whatever: programs,
  nesting, calls, recursion and the number of errors are unbounded. What is assumed
  (`LayoutAssumption`) is about single codes and has no run of the machine in it;
  TLC evaluates it for the 2,820 compiled programs of `vm`. The invariant is `Keeps`:
  the frame on top has the blocks of its position (`Laid`) and its operands above its
  bottom, and each frame below has those of the call it waits in (`Under`), so the
  operand stack is cut into the parts of the frames. The steps inside a frame are
  instances of `Flows`. An error leaves the operand stack anywhere between the bottom
  of the frame that handles it and where the opcode began; `interpreter_recover_exception`
  cuts it to the height that the try's block remembers, and `Catches` says that this is
  the height the handler's code was laid out for (`RecoverKeeps`). Functions that bind
  arguments are the hard part: their vec lies *below* the bottom they get, and one
  called without arguments takes whatever is there. Such a frame is `Stray`, is not
  laid out, and fails at its first opcode; the invariant says how much of its caller's
  stack it may have taken. `HandlersAreInnermost` has the hypothesis `CallsBind(code)`,
  which rules those frames out; without it the property is false (section 3). 2,147
  of the 2,820 programs of `vm` satisfy it.
* `NumbersProofs` proves every property of the run `numbers`, and `TypeOK`, for any
  operands. `NumbersAssumption` orders the widths and mantissas as a C compiler for
  x86-64 does (an `int` is at least as wide as a `short`, narrower than a `long`; the
  mantissa of a double has at least a float's bits and fewer than a `long`); nothing depends on
  their values. An expression is one step, so the invariant only says that the result
  is what the operator may give (`Answered`); the work is in the lemmas about
  conversions. A conversion to an integer type keeps a number modulo the size of the
  type (`Wraps`), and one number of the type only (`OneOfThem`); hence an `int64_t` on
  the way is harmless (`Through`), which is why `object_cast` may go through
  `object_get_integer` for every integer type. A rounding keeps what has enough zeros
  at its end (`RoundKeeps`), therefore what a smaller mantissa holds (`RoundWider`),
  never makes zero of another number (`RoundZero`: the check of divisors) and is done
  once (`RoundAgain`). `CommonIs` says that the order of the type numbers, which
  `OBJECT_BIGGER` goes by, is that of the usual arithmetic conversions on the six
  named types, and `CConvertIs` that the casts are C's. Laws of powers of two need
  induction on numbers: `Pow2` is a recursive function, shown to be one by its finite
  parts (`DoublesExist`), and each law is proved by its least counterexample (`Least`).
* `RefsProofs` proves every property of the run `refs`, for any finitely many
  objects, any variables and any expressions; in containers of any length.
  `FailuresAreReported` needs no invariant: every way an opcode ends (`Continue`,
  `Failed`, `FailedQuietly`, `Test`, `Dies`) is a lemma, and each opcode one step.
  The counts do. The inductive invariant, `CountsInv`, says that while no opcode is
  to blame the counts are `Exact` and each object has the shape of its type
  (`Shaped`, `Good`); the properties alone are not inductive, since they say nothing
  of an opcode that ends well. *Within* an opcode the counts are not exact, so what
  its helpers keep is `Owns(h, b, e, F)`: every count of the heap `h` is the number of
  elements and members that hold the object, plus `b(i)` for the variables, plus
  `e(i)` for the references that the opcode has in hand, its stack included; `F` are
  the objects that were made and not counted yet. Each helper is a lemma about what
  it adds to the hand and takes from it (`RefOwns`, `UnrefOwns`, `FreeOwns`,
  `ReplaceOwns`, `StoreMemberOwns`, `FrameOwns`, `CopyStep`); an opcode starts with
  the stack in hand (`StartOwns`), and at its end what is in hand has to be the stack
  it leaves (`Ends`, from `Covers`). Each of the opcodes then is one lemma
  (`...Outcome`). A container that an opcode lets go of before it uses what is in it
  is there as long as it has another holder (`Survives`); where it has none, the
  lemma ends in the case that `NoneFreedEarly` names. A failed `&` lets go of what it
  does not have, and `Owns` is false after it: `Weak` says what is left, that no
  object which is still there has a count above its holders. It is enough for
  `NoneLost`. Loops over elements are recursive functions and are walked by least
  counterexamples (`ElementsWalk`, `CopiedWalk`). `TypesKept` is read off the same
  lemmas.

Only model-checked:

* `Terminates` and `JoinsEnd`: liveness.
* `SwitchDispatches`: it speaks of the text that `Codegen`'s recursion makes.
* `Gc`, `Codegen`, `Binary`: recursion over the heap, the syntax tree and the values.
  That the compiler's codes have layouts is an induction over the syntax tree, which
  the installed provers cannot do; it is what TLC evaluates.

## 5. Not modelled, and the plan

In order:

1. `frame_bind_args` and the command line frame; the sum of two vecs with
   `vec_concat`, which adds a number of elements to a byte pointer (in the built
   program `[1, 2, 3] + [4]` ends in a segmentation fault).
2. The tables of constants and names of `code.c`.

Left out for good: the lexer (text to tokens, with one character of look-ahead and
no other state), the operations on texts in `str.c` and `strobject.c`, fractions,
infinities and NaN, text layout and the buffer of error messages, races on single
words of memory, options, file and terminal I/O, build files (`configure`,
`build-aux`, `m4`).
