# Verification of the script engine

TLA+ models of new-parser, the compiler and runtime that turns C-like scripts
into Xtensa machine code on an ESP32 and runs them there. TLC model-checks the
models on small instances; TLAPS proves the results that hold for every value
of the constants. Source lines are those of `src/src/`.

## The system

A script goes through a pipeline, and is then run:

    source -> tokenizer -> parser -> syntax tree -> code generator
           -> assembly text (Text: header, content, footer) -> optimizer
           -> assembler -> Binary (-> serialized buffer) -> loader
           -> executable -> enterScript(), from a task, a sketch call or an ISR

The compiler is sequential and keeps its state in globals; the runtime is
concurrent: FreeRTOS tasks on two cores, and interrupts.

| Component | State | Operations | What makes it correct |
|---|---|---|---|
| `ScriptExecutable` (script_executable.cpp) | `taskState`, `taskHandle`, `exe` | executeAsTask, pause, restart, kill, free, destructor; taskMain on the other side | each task is deleted once and by someone; state() is true; code is not freed under a run |
| `scriptScheduler` (script_scheduler.cpp) | slots, the lazily created mutex | add, run, execute, pause, restart, kill, remove, killAll, removeAll, info, count, find, sample, list | names unique; no script leaked or used after its deletion; the mutex is always given back |
| Script entry (asm_execute.cpp, runtime_functions.cpp) | `runtimeUnwind`, `runtimeError`, a jmp_buf per entry | enterScript, callFunction, artiSafeModeError | an error unwinds the innermost entry and no other |
| Loader (asm_execute.cpp) | exec memory, data memory, function records | createExecutableFromBinary, decodeBinaryHeader, freeExecutable | every slot patched with the right address; nothing left after a failure |
| Assembler (asm_parser.cpp, asm_encoders.h) | addresses, parsed lines, staging buffers | relaxBranches, addInstr, calculateJump, createBinaryHeader | branches reach; code and data fit their buffers; records match the code |
| Serializer (asm_serialize.cpp) | a byte buffer | serializeBinary, deserializeBinary | what is read back is what was written |
| Text, vect (stackfunctions.cpp, vect.h) | arrays of strings, 16-bit sizes | add, replace, erase, pop | ownership of each string; sizes within 16 bits |
| Optimizer (optimize.cpp) | the content Text | a chain of peephole and register passes | the optimized program does what the program did |
| Tokenizer (tokenize.cpp) | the token list, the #define table | tokenizer, preprocessor conditions | the tokens are those of the active text |
| Parser, syntax tree (parser.cpp, nodetoken.cpp) | contexts, symbol tables, the current node | parse* functions | a name resolves to its innermost declaration |
| Code generator (visitnode.cpp) | register stacks, header/content/footer | _visit* functions | the code computes the expression; registers are balanced |
| Bindings (binding.cpp), JSON variables (json_binding.cpp) | host symbols; script variables | bindFunction, findLink, updateJsonParameters | symbols resolve; values land in their variables |

The hard behaviours: tasks that control one another through calls that are not
atomic; handles and pointers read under a lock and used after it; the deletion
of the calling task; interrupts that enter a script in the middle of an entry;
`longjmp`; partial failures of the assembler and the loader; 16-bit sizes.
PROJECT.json lists each under "hazards", at its line.

## Modules

| Module | Models |
|---|---|
| `ScriptRuns` | what a user of `ScriptExecutable` sees: runs that start, pause, resume and end, one at a time |
| `ScriptTask` | the code that does it: each call cut into its steps, with taskMain() running beside them |
| `ScriptTaskProofs`, `ScriptStateProofs` | the proofs about `ScriptTask`: who owns a task; then its state, its code, and the refinement of `ScriptRuns` |
| `RegistryMutex` | what `enter()` and `leave()` promise |
| `LazyMutex` | the mutex created by whoever needs it first |
| `LazyMutexProofs` | the proofs about `LazyMutex` |
| `ScriptScheduler` | the registry, over `ScriptTask`'s executables: it extends that module, and its actions start `ScriptTask`'s calls |
| `ScriptSchedulerProofs` | the proofs about it |
| `ScriptEntry` | enterScript() and artiSafeModeError() on the stacks of tasks and interrupts |
| `ScriptEntryProofs` | the proofs about it |
| `Assembler` | createBinary(): from the three Texts to a Binary |
| `Loader` | what becomes of the Binary: saved, read back, loaded, freed; extends `Assembler` |
| `AssemblerProofs`, `LoaderProofs` | the proofs about the actions of `Assembler`; the theorems about the two together |
| `Tokenizer` | words to tokens, with #define (tokenize.cpp) |
| `Expressions`, `Parser` | recursive descent over the tokens, contexts, frame places, functions (parser.cpp, nodetoken.cpp) |
| `CodeText` | the Text the visitors write: lines, the position they are inserted at, the stack of positions |
| `CodeGen` | the visitors of the syntax tree (visitnode.cpp) |
| `AsmLines` | a line of assembly: what it reads, writes, may clobber (optimize.cpp) |
| `FramePromotion`, `Optimizer`, `CallPreservation`, `LoopRegisters` | the passes that Parser::parse() calls once the lines are written |
| `LineFlow`, `Tidy` | what those passes share: liveness over lines; propagation and deletion |
| `Compiler` | a process that compiles script after script: extends `Parser` and `Tokenizer`, instantiates the passes |
| `ScriptLanguage` | the specification: the syntax trees of scripts, their words, and what running one gives the host |
| `Machine` | the processor: what running lines gives the host |
| `CompiledScripts` | the properties of a compile, which relate those two |
| `MC*` | the instances TLC checks |

### How state and actions correspond to the code

**ScriptTask.** `state`, `handle`, `unwind` and `loaded` are the members
`taskState`, `taskHandle`, `exe.runtimeUnwind` and the compiled code of each
executable. `rtos[t]` is what FreeRTOS knows of a task (none, ready, suspended,
deleted) and `phase[t]` where taskMain() is. A call (executeAsTask, pause,
restart, kill, free) is a program counter `pc[a]` of the actor that makes it, a
sketch task or the script's own, and `op[a]` its locals. A step boundary stands
wherever another task can come between: at the end of each critical section of
`taskLock` and around each FreeRTOS call. A suspended or deleted task takes no
step; a task that deletes itself ends its call there. The calls of kill() inside
executeAsTask() and free() are the same steps, with `op[a].then` to come back to.

**ScriptScheduler.** `slots` is the array of slots, `lock` the holder of the
mutex, `object` whether an executable is alive; `spc[a]` and `call[a]` are the
registry call's own program counter and locals. Its bodies under the mutex are
single actions, as the mutex makes them, except where they call a
`ScriptExecutable`: there they start `ScriptTask`'s call (`pc`) and wait for it,
so that a script which is paused or killed half way through is the detailed one.

**LazyMutex.** The pointer read without a lock, the creation, the installation
under the spinlock with the losing mutex deleted, then take and give.
`ImplementsMutex` maps the semaphore in use to `RegistryMutex`'s owner.

**ScriptEntry.** `stack[c]` holds the entries of context c (a task, with the
interrupts and host functions nested on it), each with what it saved of
`runtimeUnwind`; `unwind` is the pointer, `error` whether `runtimeError` is set.
An entry is cut at every access to the shared members, and an interrupt may come
at each cut. `failed` is history, emptied when an entry is made with no other left:
whether a check failed since ("call"), and since the outermost entry armed its unwind
point ("run"). The code's own clearing of `error` leaves it alone.

**Assembler.** `text` holds the three Texts as sequences of lines; a line has the
kind of instruction and the label, no operands. Addresses and sizes are the
code's, in bytes and with its 16-bit widths. `scan` is where a pass of
relaxBranches() is (the distances it measured are those of `scan.old`, as the
code's `offset` array is filled once per pass), `parsed` is `_asm_parsed`, `pos`
the three running addresses, `size` the estimate the buffer is allocated from.
`origin` is history: the program. One action per line assembled and per branch
looked at.

**Loader.** `file` is what serializeBinary() writes; `exe` what
decodeBinaryHeader() fills in; `heap` (declared in `Assembler`) the blocks in
use, by what they are for. A load is one action with three outcomes: the memory
cannot be had, the script is refused (no function, or a name not bound by then),
or it is loaded.

**Compiler.** `content` and `footer` are those Texts, a line a record of its
operation, registers, number and label; `phase` is the last pass done;
`static` is what is in static variables of the compiler and that no compile puts
back (`_asPointer`, `isPointer`, `isExternal`, `isASM`, the label counter, the
positions of the Text). Parsing and writing the lines is one action, and each pass
that Parser::parse() then calls (parser.cpp:163-191) is one; the
state of the parser and of the visitors lives within the first, as nothing
else runs meanwhile, and is passed from operator to operator: an operator per
parse function and per visitor, under its name where it has one. A name of a
pass's operator is that of its function, or of its comment where it is one loop
of a long function. Nodes that are freed while the tree goes on naming them
(`t[i] += e`, and the type of the function around a call that declares a host
function) may hold what they held or another node: `Parses` has both outcomes.

The compiler's operators were also compared with the code itself: the sources
of `src/src/` built for the host as `test/host` does, the lines dumped after each
phase for the scripts of `MCCompile` and for those of `test/`
that keep to the part of the language modelled, and compared line by line with
what the operators give. They agree, the one difference being the order in which
globals and the arrays of functions are reserved in the header.

**ScriptLanguage and Machine** are not models of code: they say, in terms of
C and of the processor's manual, what a script means and what lines do. A machine
that runs lines after `preserveAcrossCalls()` loses a8 and above and every float
register at a call, as the windowed call does; before, a call leaves
them alone, since those passes count on the later one. The host's functions are
`in(k)`, which gives an input, and `emit(v)`, which records a value: a script means
the sequence it emits.

## What is checked

| Run | Instance | Shows |
|---|---|---|
| `task_control` | one executable, three tasks one after the other, one sketch task; the script may pause, restart and kill itself | one owner per task, state() is true when no call is under way, the code outlives its runs, and `ScriptTask` implements `ScriptRuns` |
| `registry` | two executables, names, slots and tasks, two sketch tasks (one adds, replaces and removes, the other controls), scripts that pause themselves | no leak, double deletion or use after it; names stay unique; the mutex never stays with a task that is stopped; one run per script |
| `registry_live` | two sketch tasks, one slot, one task, scripts that call nothing | pause() and restart() act on tasks that exist; under fairness each call returns and each killed task is deleted |
| `lazy_mutex` | three tasks at the first call | one mutex survives, and excludes |
| `entry` | a context nested four deep | an error unwinds the innermost entry, alone; one that comes once the outermost entry has armed is recorded when that call is over |
| `build` | some 500 programs | see below |
| `compile` | 184 scripts, 39 wrong ones, 30 pairs | see below |
| `restart_lost`, `remove_executing`, `entry_two_stacks`, `failed_load`, `recompile` | small | the five findings |

### Bounds

Three tasks let a run follow another while the first is still being deleted;
of the two registry clients one adds, replaces and removes, the other controls, so that
every operation of the first meets every one of the second, but not two removals or two
additions one another (`RegistryKeepsEach` is for any clients, `OneAdderNamesApart` for one
that adds). A third client would wait for the same mutex. Depth four in `entry` is an outer call, an interrupt
in the middle of it, and two more inside that one. Two slots are the
smallest registry that can be full, or hold two scripts. No variable counts up,
so these instances are checked whole.

The programs of `build` lie on both sides of each limit: loops and ifs
whose bodies are from a few instructions under to a few over the reach of an 8-bit
(128 bytes) and of a 12-bit branch (2048), one in the other, so that relaxing
one pushes the other out; a loop with six far exits, where only a second pass
sees the loop has grown too long; a header with the handle word alone, with
strings and a JSON variable, and with a host function, a host variable and a
global of 70000 bytes, which needs the wide field of the file; short programs
with many callExt lines, the case the estimate once got wrong; and the errors (a
label twice, a label missing, a reservation without a label, a branch into
another Text). Files are read back at the lengths around each check of
deserializeBinary(). What the properties say of them:

- `ControlPreserved`: relaxing changes no path. The line reached from each branch,
  taken or not, is followed through the inverse branch, the jump and the label.
- `BranchesReach`: "a branch is only kept when it surely fits".
- `BuildEnds`: "each rewrite only adds bytes, so this converges".
- `CodeFits`: the code stays in its part of the buffer and the strings in theirs.
- `Aligned`: functions and slots on a word, loop heads not across one.
- `LoadedCode`: through its slot an instruction reaches what its line names. A slot's
  number is counted anew from the kinds of the labels, which later lines change;
  it must be the word that was reserved.
- `GlobalsApart`: globals do not overlap, fit in the data memory, and JSON
  variables are where their global is.
- `RoundTrip`: only a whole file is read back, as it was written.
- `MemoryOwned`: exactly which blocks are in use after each outcome, the failed ones and
  the two that leak among them.

The scripts of `compile` are families: a few statements around every pair of
operands (variables in registers and in the frame, globals, elements, calls,
literals that fit an immediate and that do not), around every test, loop body,
call, pointer, float expression, conditional and switch; arrays of two dimensions;
elements of 8 and 16 bits; variables and arrays changed through a pointer; floats
kept over calls; host variables stored in loops; host functions declared and only
bound; safe_mode; #define. They are small because what the passes look at is:
a pair of lines, a loop, a loop in it, a call in it. Each is run for three pairs of inputs,
negative, zero and wider than a byte. A wrong script is a right one with one of thirteen
mistakes, in main(), in a block or in another function. Pairs put a script after one that divides
floats or is safe_mode. What the properties say of them:

- `GeneratedMeaning`: the visitors' lines do what the script means.
- `PromotedMeaning`, `OptimizedMeaning`, `PreservedMeaning`, `AllocatedMeaning`: so
  do the lines after each pass (`OptimizedMeaning` speaks of optimize() and
  optimizeSpeed()). The lines before are right by the property before, so that a pass that
  breaks a script is the one named.
- `RefusedRightly`: an error is found in each wrong script, and in no right one.
- `CompileTypeOK`: a line names integer registers where its operation has integers, float
  ones where it has floats, of the sixteen of each. It is a type invariant of these scripts, and
  says nothing of expressions that nest deeper (see below).

Shapes of scripts that the run leaves out, because the code compiles them to
something else than they mean (the hazards without a property say where):
`t[i] += e`; a store through a pointer as the body of an if without braces; a
literal over 65535 in a comparison; a return of a number after the first call of a
host function that is not declared; a byte read back right after a
wider value was stored there; a local initialised from another before
the first statement of the process's first script; `&&` and `||` away from
comparisons, which evaluate both sides; local arrays of one name in two functions;
unsigned comparison above 2^31; an expression nested to the right until its registers run
out. visitnode.cpp counts them down with no limit: `g = x-(x-( ... ))` with nine
subtractions loads x into a6, which holds g's address, and stores through it (the compiler
built for the host writes those lines too). The scripts of the run nest some three deep,
because TLC evaluates the recursive operators on a stack that deeper ones overflow.

The optimizer's limits (64 slots and 64 narrow accesses of a frame, 96 candidates for loop
registers) are in the model, and these scripts stay below them. Candidates of equal weight and
length keep their order, which qsort() does not promise.

### Fairness

`SchedulerFairness`: weak fairness of a task's own steps, because FreeRTOS
keeps running ready tasks of one priority in turn; strong fairness of entering
the registry, because a FreeRTOS mutex wakes its waiters in order, so that
one of them is not passed over for ever; nothing for a script's own code,
which may loop, nor for the making of calls. In `registry_live` scripts call
nothing: a script that is paused in the middle of a call may keep it for ever.
`BuildSpec` has weak fairness of the assembler's next step: createBinary() is
sequential code and waits for nobody. Deadlock is not checked in these runs: the
sketch may stop calling, a context may stop entering the script, a build or a
session of compiles ends.
It is checked in `entry` and `lazy_mutex`, where somebody can always go on.

## What is proved

With TLAPS, for any number of scripts, tasks, clients and contexts, and any
programs. Each invariant was first checked by TLC on the run of its module.

### One executable (`ScriptTaskProofs`, `ScriptStateProofs`)

- `TypeCorrect`. The inductive invariant is `Typed`, the types plus `Wired`: a call
  under way has an executable, one that holds a task holds one that exists, a handle
  and a task's own executable agree. Without it `handle[op[a].exec]` has no type.
- `EveryTaskHasOneOwner`: `OneOwner`. It is not inductive, as it says nothing of a
  call between taking a task and deleting it. `Ownership` adds: a script's call is on its
  own executable (`ScriptCall`); a handle is of a live task (`Handled`); a kill under
  way holds a live task that no handle has (`Taken`); no two kills hold the same task
  (`OneKiller`); once the sketch's call is past the lock in kill(), the executable has no
  handle until the call creates a task (`SketchHolds`); every live task has an
  owner (`Owned`). One lemma per step that moves a task (`KillLockOwned`,
  `KillDeleteOwned`, `CreateOwned`), and `GoToQuiet`, `TakeQuiet`, `CallOwned`
  for the steps that do not.
- `StateTellsTheTruth`: `StateIsTrue`, from `Truth`, which says what state() may be at
  each step of each call, and of a script's kill() of itself.
- `CodeStays`: `CodeOutlivesRuns`.
- `ImplementsRuns`: every behaviour of `ScriptTask` is one of `ScriptRuns`, step by
  step, and `RunsOneAtATime`: so its runs are one at a time, by `Sequential`
  (proved in `ScriptRuns`).
- `MovesLiveTasks` (`SuspendTargetExists`, for scripts that do not kill themselves) and
  `RunningScriptRuns` (`RunningIsNotSuspended`, for scripts that do nothing but
  kill themselves): no call suspends or resumes a deleted task, and state() does not say
  running of a suspended one.

All but the first are under `OneController`: at most one sketch task makes control
calls, scripts may make them too; the refinement is of one script (`OneScript`), as
`ScriptRuns` is. Without, they are false: two controllers each
find the handle the other has taken or put back; `restart_lost` is what happens
to `RunningIsNotSuspended` when the script restarts.

### The registry (`ScriptSchedulerProofs`)

Any number of clients. What `OneController` was assumed for, the mutex now gives:
`Charge` says who may be within a call of which executable, namely the holder of
the mutex, and a script in its own call after it let the mutex go.

- `SchedulerTypeCorrect`, with `SchedulerTyped`.
- `HolderAlwaysRuns`: a task that holds the mutex is neither suspended nor deleted.
- `RegistryOwnsTasks` (`OneOwner`) and `RegistryRunsOne` (`OneRunPerScript`), from `Charge`.
- `RegistryKeepsEach`: `OneKeeper`, from `Kept`: an executable is in one slot, or one
  client has it in hand between making it and adding it, or removing it and deleting it.
- `OneAdderNamesApart`: `UniqueNames`, from `Named`, when at most one client adds
  (`OneAdder`): add() looks for the name in one critical section and fills
  the slot in a later one.
- `NothingUsesDeleted` (`NoUseAfterDelete`) and `RegistryMovesLiveTasks`
  (`SuspendTargetExists`), from `Safe`, when scripts do not kill themselves by name
  (`NoSelfKill`). A script that does lets the mutex go, takes its handle, and
  deletes its task some steps later; another client's remove() finds no handle meanwhile
  and deletes the executable that these steps write to. With
  `ScriptFns = {"kill"}` TLC shows it.

### Entries and the mutex (`ScriptEntryProofs`, `LazyMutexProofs`)

- `EntryTypeCorrect`, for any contexts. In one context nested to any depth
  (`OneContext`; `entry_two_stacks` is two), `UnwindsStayNested`: each entry has saved
  the unwind point of the one around it, and the pointer is that of the
  innermost armed one (`EntryInv`). From it `UnwindsInnermost`, `JumpsStayOnStack`
  and the action property `FailureStays`.
- `ErrorIsOfLastCall`: `ErrorOfLastCall`. When no entry is left, a check that failed since the
  outermost entry armed is still recorded, and a recorded error is of that call. `EntryInv` adds
  for it that only an entry with no unwind point under it comes to the clearing
  (`ClearsOutside`), that as long as the outermost entry is armed there is an
  unwind point, so that no nested entry clears, and what `error` and the history then
  have to do with each other at each step (`Errors`). An interrupt before
  the outermost entry has armed finds no unwind point: it is an outermost call
  of its own, whose error may be cleared (asm_execute.cpp:533-534) or stay and be taken for the
  outer call's.
- `TypeCorrect`, `Exclusion`, `NoLeak`, `Refinement`: types, mutual exclusion, one mutex left,
  and the refinement of `RegistryMutex`. `IInv` adds to the types that whoever is
  between enter() and leave() holds the installed mutex and nobody holds another
  (`HeldInside`), and that a mutex which exists and is not the installed one is
  in the hands of the task that created it (`Created`).

### Assembler and loader (`AssemblerProofs`, `LoaderProofs`)

For every set of programs that meets `ProgramAssumption`, `GeneratedAssumption` and
`BranchAssumption`, of any length. The last says that the offsets of branches have the
8 or 12 bits of kBranchForms (asm_parser.cpp 955-966). `GeneratedAssumption` is what the code generator's lines are, no more than the proofs
need: label names that start with "@_" are for data and functions (visitnode.cpp 118-133,
301, 3501, 4369), the header has data only and a label before
each, JSON variables are globals, and a host name is
labelled in the header (visitnode.cpp 1824-1869, 3614-3632, 3718), and the two
Texts branch to different names: the labels of a branch are numbered by two counters
that nothing resets (parser.cpp 32, visitnode.cpp 10), and the footer holds the
initializers of the globals. TLC evaluates all three on the programs of `build`.

- `AssemblerTypeCorrect`, with `Typed`.
- `MemoryIsOwned`, from `Phases`: exactly which blocks exist in each phase, those that leak
  included.
- `FileRoundTrip`, from `Stored`: the file on disk is the one of the records.
- `AlwaysAligned`, from `LaidOut`: lines are placed one after the other, each of its
  length after padding.
- `LoadedCodeReaches`: `LoadedCode`. The number of a slot is counted anew from the kinds of labels
  when an instruction is assembled, when more labels are parsed than when the
  slot was reserved. `Places` says why that is right: the slots are the first words of the code, in
  the order of their labels (`Slots`); a name is labelled once, and the names that have
  slots in the header before anything refers to them (`Labels`); the bytes of strings
  follow each other (`Staged`). `JumpsFound` and `LoadedBuilt` carry it through resolveJumps()
  and the loader.
- `GlobalsStayApart`: `GlobalsApart`, from `Reserves`: the globals reserved are apart and
  the JSON variables are among them.
- `CodeAlwaysFits`: `CodeFits`, as long as the estimate does not wrap (`EstimateFits`, a
  property of the program and of what relaxing it gives). `Room`: what is left of
  each part of the buffer covers what the lines still to be assembled may need. Why the 5 bytes a line
  and the 8 per callExt are enough is `NeedLine`: a line takes its bytes and at
  most 3 of padding, and a name gets at most one slot.
- `BranchesAlwaysReach`: `BranchesReach`, in three parts. `Relaxed`, of relaxBranches(): a pass has
  found every branch it is past near enough, or has lengthened the Text, so the one
  that changes nothing leaves no other (`PassedSure`, `DoneSure`); and the branches it
  writes have their labels in their own Text (`AllMatched`). `Placed`, of the assembly: the
  lines read so far have addresses that never go back and go on by no more than the
  bound on each line, the entries of branches begin at those of their lines, and the
  labels stand at the end of theirs, while later lines change other fields of the entries.
  `ReachNear`: so the distance in bytes is within that in bounds, give or take the
  label's own padding and the 4 bytes that an offset counts from, which the 12 allow for.
- `ControlAlwaysPreserved`: `ControlPreserved`, from `Traced` and `PassKeeps`. `Traced`: there
  is a map from the lines of a program to those of its Text, under which a line is kept
  or is a branch with what relaxBranch() made of it, line after line with nothing
  between (`Expands`), and no two of the labels it made up are the same (`FreshOnce`). It is
  kept because a relaxed branch is never relaxed again (`RelaxedOnce`), which would put a
  second jump between the inverse branch and its label: there are 6 bytes
  from one to the other, and with the 12 for padding that is below 2^7, the reach of the shortest
  form (`NotTwice`, from `BranchAssumption`). A pass measures in the Text as it began,
  so this needs `PassKeeps`: what the pass has not come to is as it was then.
  `LabelPlace` and `WasPlace` then give where control comes to in each Text.
- `RelaxingConverges`: the Texts change at most as often as the program has
  branches (`RelaxesEachOnce`; programs of `build` meet the bound). Each number given out is
  in a label (`NumbersUsed`), which by `Traced` follows a branch of the program, and different
  numbers follow different ones. It is the reason for the comment at asm_parser.cpp:1392
  that the passes converge; that they are then taken, `BuildEnds`, is a liveness property.

Statements on sums and counts over the lines (`CodeAtSum`, `SumsBelow`, ...) are by induction, which
the library's theorems cannot be used for here; `LeastNumber` takes their place: a
set of numbers that is not empty has a least one, applied to the places where a
statement would fail.

### Assumptions, and what is only model-checked

The named ASSUMEs of the modules, and the hypotheses above, which the theorems state.
Those on who calls what are needed: without them a run that expects a violation, or
TLC on an instance that allows the calls, breaks the property (`OneScript` aside, which is
the shape of `ScriptRuns`). `EstimateFits` is needed for programs over 64 KB.

Only model-checked: everything about the
compiler, whose modules are made of recursive operators and whose machine takes
its bitwise instructions from `Bitwise`; all liveness
(`RegistryReturns`, `BuildEnds` and the like), which is beyond this prover, as is ENABLED.

## Findings

- `restart_lost`: pause() sets the state in the critical section and suspends
  after it. A restart() in between is lost: the state says running, the script sleeps,
  and restart() refuses from then on.
- `remove_executing`: remove() refuses a script that removes itself by comparing
  tasks; a script that execute() runs on the caller's task has none, and its
  code is freed under it.
- `entry_two_stacks`: one unwind pointer per executable: with two tasks in a
  script, an error in one jumps to the other's stack.
- `failed_load`: after a missing host name the executable in error holds its
  functions and JSON variables, where the header says nothing is populated.
- `recompile`: a statement that begins with `*` sets `_asPointer`, and a refused
  script leaves it set: the first variable the next script reads gives its address.

Met on the way, each part of a property that holds, because that states what the code does:

- freeExecutable() leaves the names of JSON variables (asm_execute.cpp:642-664), where
  asm_execute.h:100 says it "releases the memory createExecutableFromBinary allocated"
  (`MemoryOwned`, phase "freed");
- a failed calculateJump() or range check leaves the code buffer, and nobody frees it
  (asm_parser.cpp:1512-1517, 1535-1542; `MemoryOwned`, phases "failed" and "outOfRange");
- an interrupt that fails a check before the entry it interrupts has cleared the error loses
  it, where asm_execute.cpp:524-528 speaks of the "most recent outermost call" (`ErrorOfLastCall`);
- a deep expression overwrites the address it is stored through (above).

## Not modelled

The encodings of instructions and the parsing of operands (asm_encoders.h), files of
another format, the printing and statistics functions (list, sample, coreLoad),
wording of errors. ArduinoJson and FreeRTOS are libraries: FreeRTOS is modelled as
the code uses it. Programs of more than 64 KB of code, where the estimate wraps
(the width is in the model, such a program is not in the run; `CodeAlwaysFits` excludes it by its hypothesis).

Of the compiler: structures, strings, `ffloat`, CRGB arguments, data given to arrays,
JSON variables, functions written in assembly, `Args`, conditional blocks of the
preprocessor, reading characters into words, positions and wording of errors, the order of the header's lines, the node
pool and the memory of Texts. The two calls of parser.cpp:2410 and 2431 whose arguments
are evaluated in an order C++ leaves open are modelled in the one order in which a
script compiles at all (the build compared with was changed to take it).

## Plan

1. `vect` and `Text`: growth of the capacity in 16 bits, who owns a line after
   replace, erase and pop.
2. Structures and their methods in `Parser` and `CodeGen`, and the meaning of
   them in `ScriptLanguage`; then CRGB and strings.
3. `Compiler` composed with `Assembler`: its lines as the program assembled.
4. The values of JSON variables: updates beside a running script, composed with `Loader` and
   `ScriptTask`.

These extend the runs there are.
