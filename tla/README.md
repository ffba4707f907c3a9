# TLA+ models of TrivialCompiler

TrivialCompiler translates SysY, a subset of C with `int` and arrays of `int`, to 32-bit
ARM assembly. This directory holds TLA+ modules of its core algorithms, the TLC
configurations that check them on small instances, and TLAPS proofs of what holds for every
instance. Paths below are relative to the compiler's sources, `src/`.

## 1. The system

`main.cpp` runs, in one thread and in this order: the parser, the type checker, SSA
construction, the IR passes, code generation, the machine passes, the printer. Nothing runs
concurrently, nothing persists, and no input arrives while it runs. What makes it hard is
something else:

- **shared mutable state between passes.** A pass reads summaries, use lists, block orders
  or worklists that earlier ones computed, after others have changed what they describe;
- **order.** Worklists, `std::set`s ordered by address, and lists that grow while they are
  walked decide the order of the work, and the result must be right for every order;
- **fixpoints.** Liveness, value numbering, the pass loop of the register allocator and the
  scheduler's clock must reach an end;
- **programs are the input.** Whether a rewrite is right depends on every path of a
  program, of which tests see few;
- **width.** Degrees, immediates and division constants are 32-bit numbers whose wrap-around
  is used.

| component | files | state it keeps | operations | what makes it correct |
|---|---|---|---|---|
| driver | `main.cpp` | options | runs the phases | the phases run in order |
| parser | `conv/parser.*` | generated tables | builds the AST | accepts SysY (generated code) |
| type checker | `conv/typeck.cpp`, `structure/ast.*`, `structure/op.hpp` | scopes, folded constants | `type_check` | constants fold as the machine would compute them |
| SSA construction | `conv/ssa.cpp` | current block, loop stack | `convert_ssa` | each block ends in one jump; predecessors match jumps |
| IR | `structure/ir.*` | use lists, lists of instructions and blocks | insert, delete, `replace_all_use_with` | an operand is on exactly one use list |
| pass manager | `passes/pass_manager.cpp` | the pass lists | `run_passes` | the order of the passes suits the summaries |
| call graph | `passes/ir/callgraph.cpp`, `remove_unused_function.cpp` | `caller_func`, `load_global`, `has_side_effect` | `compute_callgraph`, `remove_unused_function` | summaries are sound whenever they are read |
| inliner, specialiser | `passes/ir/inline_func.cpp`, `specialize_const_arg.cpp` | `can_inline`, the map of copies | inline, clone, redirect | no effect lost, no call without callee |
| dead code | `passes/ir/dce.cpp`, `remove_useless_loop.cpp` | worklist of live instructions | `dce` | only what has no effect disappears |
| CFG, dominators | `passes/ir/cfg.*`, `bbopt.cpp`, `remove_identical_branch.cpp` | `dom`, `idom`, loops | `compute_dom_info`, `bbopt` | dominators exact; predecessors and phi operands aligned |
| mem2reg | `passes/ir/mem2reg.cpp` | worklists, current values | phi placement, renaming | a use sees the value the variable had |
| GVN/GCM | `passes/ir/gvn_gcm.cpp` | value table | numbering, code motion | equal numbers mean equal values; uses stay dominated |
| memory dependence | `passes/ir/memdep.cpp`, `dead_store_elim.cpp`, `mark_global_const.cpp` | memory values | `compute_memdep`, `dead_store_elim` | a load sees the last store |
| loop passes | ten files of `passes/ir` | loop descriptions | pattern rewrites | the loop computes the same |
| code generation | `conv/codegen.cpp` | maps from values to operands | `machine_code_generation` | operands defined before use; parallel moves of phis; division constants |
| register allocator | `passes/asm/allocate_register.cpp` | liveness, graph, worklists, stack | liveness, `build`, coalescing rounds, spilling | values keep until their last use; rounds end |
| machine clean-up | `passes/asm/simplify_asm.cpp`, `compute_stack_info.cpp`, `if_to_cond.cpp` | none between blocks | peephole rewrites | the block computes the same |
| scheduler | `passes/asm/scheduling.cpp` | dependence graph, units, clock | `instruction_schedule` | orders that count are kept; nothing lost; the clock stops |
| machine code | `structure/machine_code.*` | operands, instructions | printing, immediates | what is printed can be encoded |
| library, tests, tools | `../sysyruntimelibrary`, `../utils`, `../custom_test` | | | outside of the program |

Components interact through the data they share: the IR passes through `IrProgram` and the
fields of `IrFunc` and `BasicBlock`; code generation reads the IR and the CFG once; the machine
passes share `MachineFunc`, whose live sets only the allocator uses. There are no callbacks, no
messages and no failures other than assertions.

## 2. Modules

The middle of the compiler is one chain of modules, composed in Optimiser:

    Values <- Ir <- Cfg <- Mem2Reg <- MemDep <- GvnGcm <- LoopPasses, Inliner <- Optimiser <- MCOptimiser
               ^--- ConvertSsa <--------------------------------- Inliner
    Values <- SourceProgram  (Source == INSTANCE SourceProgram WITH prog <- source, shown <- out)

and so is what follows allocation:

    Values <- MachineCode <- SimplifyAsm, IfToCond <- CleanUp <- MCCleanUp -> Arithmetic -> MachineCode
                                                               Arithmetic -> Division -> Values

The back end's larger algorithms, CallGraph, Lowering, AllocateRegister, Interference,
SpillRewrite and Scheduling, are state machines of their own, because their state, and the
order of their steps, is what can go wrong.

### Values, SourceProgram (`structure/op.hpp`, `structure/ast.hpp`, `structure/ir.hpp`)

Values holds what both languages share: `Eval`, the operators of `op.hpp` with their
wrap-around (`Half` is half the number of values of a word), memory as regions with offsets,
what the few functions a program calls do (`bump`, `next`, `square`, `readg`, `poke`, `peek`,
`pick`, `evens`, `put`, `memset`) and what `compute_callgraph` would say of them. What is read before it was written
is `Poison`. SourceProgram is the abstract specification: a program is the syntax tree that
the type checker leaves, `Meaning` its evaluation, and a run may show the prefixes of what it
shows, in any number of steps, and in the end returns its value and leaves its globals.

### Ir, ConvertSsa (`structure/ir.*`, `conv/ssa.cpp`)

A function is a record: the instructions ever made (`inst`), those of each block in order
(`insts`), the predecessors (`pred`) and the list of blocks (`bbs`). A value is a constant, an
instruction, a parameter, a global or undefined. Users are found by looking for them, which is
what a use list that is kept right says; an instruction that is taken off its block without
being deleted remains among the users, as in the code (`StaleUsers`). `RunBlock` runs one
block: phis from the edge taken, then the instructions, then the jump. ConvertSsa is
`convert_ssa` with every kind of expression and statement, in the order of the code.

### Cfg, Mem2Reg, MemDep, GvnGcm, LoopPasses, Inliner (`passes/ir`)

The passes as operators on a function, each of them the whole pass:

- Cfg: `compute_dom_info` with its sweeps, `compute_df`, `compute_rpo`, `compute_loop_info`, and
  `bbopt`, round after round: constant branches, jumps to jumps, empty blocks, the phis of
  the edges they move, and blocks that cannot be reached;
- Mem2Reg: phis at the iterated frontiers, renaming along the worklist of `(block, values)`;
- MemDep: `alias`, `is_arr_call_alias`, memory tokens for loads (`mem_token`) and the
  second pass for stores, their removal, `dead_store_elim`, `mark_global_const`;
- GvnGcm: the value table with `find_eq` and `vn_of`, the rules for sums and differences
  (`try_fold_lhs`), loads from constant tables, phis of one value; then `schedule_early`,
  `schedule_late`, the comparison put before its branch; `dce` with `remove_useless_loop`;
- LoopPasses: `loop_unroll` (as a whole, or two iterations at a time with the odd one after
  them), `fold_counted_div_loop`, `zero_loop_to_memset`, `promote_loop_store`,
  `sink_local_init`;
- Inliner: `inline_func` with its copies of blocks, predecessors, phis and values. The functions
  that are called (`Defined`: `next`, `poke`, `pick`, `evens`) are given by their syntax trees and
  have been through the earlier passes (`Callees`); until then a call of one of them does what
  `Call` says, afterwards it is the copied body that runs. So the body must do
  the same as `Call` for `Refines` to hold.

Where the code walks a set ordered by address, the order of block numbers is taken.

### Optimiser (`passes/pass_manager.cpp`)

A program is converted, then put through the list `Passes`, one action per pass (`Number` and
`Move` are the two halves of `gvn_gcm`; `NumberAgain` is its `goto`). Between any two passes
`Execute` may choose an input, and from then on `RunStep` runs the function as it is, block by
block. So every state of the middle of the compiler is a program that can be run, and
`Refines == Source!Spec` says what each of them must do. The mapping is the identity on what can
be seen: `prog <- source`, `shown <- out`, `input` and `result` have the same names;
passes and the blocks that show nothing are stutters. `Answers` in `Source!Spec` makes the run
return. The pass list of the instance has each modelled pass at a place that it has in
`ir_passes`, relative to the others; passes that appear again later in the code's list are
run once or twice.

### MachineCode, Arithmetic, Division (`structure/machine_code.*`, `conv/codegen.cpp`)

MachineCode has the operands and instructions that remain after allocation with what the
processor does with them, the prologue and the epilogue as they are printed, and
`get_def_use`. Registers hold numbers modulo `2 * Half`, and what nothing wrote is `Poison`. `Seen`
is what the caller sees: r0, the calls with their arguments, and the memory they share.
Arithmetic is the part
of `machine_code_generation` that chooses instructions for an operation with a constant:
shifts, multiplication by the high word, remainders from quotients, masks for powers of two,
negated immediates. Division is the arithmetic behind one of them: `div_magic_info`'s search for
a shift and a multiplier, and what the selected sequence makes of a dividend (`MagicQuotient`); the
assumption `MagicRuns` of MCCleanUp compares that with running the instructions. It is a module
of its own so that it can be proved about.

### SimplifyAsm, IfToCond, CleanUp (`passes/asm`)

`simplify_asm` with post-index folding, loads after stores and truth values; `if_to_cond` with
conditional blocks and the two loop rotations; in CleanUp `compute_stack_info` and the list
`simplify_asm, compute_stack_info, simplify_asm, if_to_cond`. After any pass the function can be
entered (`Enter`), and `RunStep` runs a block of the allocated function and a block of the
rewritten one next to each other, from the same registers and memory. The scheduler, which
stands between the second and the third, is module Scheduling's.

### CallGraph (`callgraph.cpp`, `inline_func.cpp`, `specialize_const_arg.cpp`, `dce.cpp`, `remove_unused_function.cpp`, `pass_manager.cpp`)

The IR pass list of `pass_manager.cpp`, run on a program whose functions are abstracted to
what these passes look at: calls, global stores, stores to array parameters, global loads.
`Rebuild`, `Propagate` and `Propagated` are `compute_callgraph`; `DecideInline`, `InlineInto` and
`EndInline` are `inline_func`, one function of the list at a time, since a function that has
been inlined into may be inlined itself; `SpecializeCall` is one turn of
`specialize_const_arg`, which reuses a copy or makes one; `Dce` is `dce`, which `gvn_gcm` calls
too, here only as far as calls disappear. Whether a body is small enough, or a call's result unused, is a free choice, so what holds
here holds for every heuristic. The order in which the worklist is emptied follows
addresses in the code and is free here. A call disappears only where the code allows it
(`DeadCalls`). memset calls that passes insert and delete are counted as stores. `loads` only
grows: passes that remove loads are not modelled, so `load_global` may be larger in the model
than in the code, which weakens nothing that is claimed of it.

Hazards: `has_side_effect` is computed four times in the list, and read nine passes later;
`remove_unused_function` trusts `caller_func`; copies join the function list while calls are
being redirected.

### Lowering (`codegen.cpp`)

`machine_code_generation` for one function. Each `Select...` action translates one IR
instruction (two, where the code skips the second: fused products, self tail calls), in the
order of the blocks; `LowerPhis` lowers the phis of one block; `Resolve` is `resolve`,
which may insert the copy or load of a parameter at the beginning of a block. Instructions
up to `control_transfer_inst` and from there on are kept apart (`before`, `after`), because
everything that is inserted late goes between them. A virtual register is named after the
variable, or after the place that asks for it, so numbering needs no counter. Then
`RunBlock` runs a block of the IR and the same block of the machine code, from every value
of the arguments, each with its own values (`env`, `regs`); a jump to the entry is a new
activation, of which only the argument registers survive. Loads, stores, globals and local
arrays are left out: their operands are placed as those of `SelectBinary` are. What the
instructions for a constant compute is Arithmetic's; `SelectDiv` keeps where the shared
constant goes.

Where the code is known to go wrong, the instance of the passing run leaves the case out, and
PROJECT.json lists the hazard: stack parameters whose first use does not dominate the
others (run `lowering_stack`), conjunctions with a constant on the left or one that cannot be
encoded (`codegen.cpp:718`), shared constants in an entry that ends with a conditional branch
(`:298`), an immediate addend of a fused product (`:616`).

What is lowered is in SSA form (`ProgramAssumption`, TLC evaluates it on every program of the
instances): blocks and instructions have the shape that the code relies on, operands are defined on
every way to their use, and the blocks of `getelementptr` come before those they dominate in
the list of blocks too, because `val_map` follows one name to another in that order.

### AllocateRegister (`allocate_register.cpp`, from `mk_worklist` to `assign_colors`)

One round of iterated register coalescing. The variables are those of the function. Each of
`Simplify`, `Coalesce`, `Freeze`, `SelectSpill` is one call of the lambda of that name; `Skip`
is its test failing; `LoopTest` is the `while`. `AssignColor` pops a node, `FinishColors` gives
coalesced nodes the colour of their alias. `*begin()` of a `std::set` is the least element, as
`operator<` orders operands. `select_spill` chooses by loop depth and degree in the code and
freely here. Degrees are unsigned and wrap at `DegreeMod`; a register's starts at a quarter of
it, as 0x40000000 is of 2^32, and `DegreeAssumption` says how large that has to be for a function:
2^30 is enough for 16 000 operands. Moves have no end in sp (`MoveAssumption`): the code generator
only adds to sp, and addresses from it. `GetAlias` follows aliases while the node is coalesced; it is
defined by closed sets, not by recursion, so that it can be proved about.

### Interference (`allocate_register.cpp`, `get_def_use`, `liveness_analysis`, `build`)

From instructions to the graph that AllocateRegister starts from. `ScanInst`/`ScanEnd` compute
`liveuse` and `def` of each block, `FlowBlock`/`FlowEnd` the fixpoint, `BuildInst`/`BuildBlock`
the edges, last block first, leaving out the source of a simple move. `Color` then takes any
colouring that the graph allows, and `RunInst`/`RunJump` run the function along any path,
recording which operands' values each register holds. So the two modules compose over the
graph: Interference says that any proper colouring is right, AllocateRegister
that a round that ends without spilling gives a proper one (`ColouringIsProper`).

### SpillRewrite (`allocate_register.cpp`, the rewriting of spilled nodes)

One block and one spilled virtual register. `Rewrite` is one turn of the loop over
instructions, with the checkpoint that cuts a span after the instruction `i++ > 30`;
`EndOfBlock` the last checkpoint. `Run` then executes the rewritten block beside the original,
comparing what each use reads. A comparison's result is defined by two conditional moves, of
which one takes place (`codegen.cpp:641`).

### Scheduling (`scheduling.cpp`)

`instruction_schedule` on one block. `AddNode` is the scan of one instruction, `PassOn` one
turn of the priority loop, `Fire` one instruction started by the scan of the sorted ready
list, `Cycle` the end of a clock cycle. An instruction is its kind, the registers it reads and
writes, and whether it is conditional. `complete_cycle` minus the clock is kept instead of
both, so the state stays finite. Nodes that `NodeCompare` finds equal come in any order
(`std::sort` is not stable); neighbours are visited in any order (sets of pointers).

## 3. Runs

| run | configuration | instance | shows |
|---|---|---|---|
| callgraph | `CallGraphSmall.cfg` | main, two functions, one builtin, one copy; every choice of calls, of parameter stores | summaries exact and sound, callees listed, effects kept, the list ends |
| allocate_round | `AllocateRegisterSmall.cfg` | two registers, three virtual registers, every graph, every choice of at most one move, and of two for a graph of each shape | proper colouring, no node lost, aliases end, moves partitioned, the round ends |
| interference | `InterferenceSmall.cfg` | four blocks with a loop that can be entered at either end, two registers, two virtual registers | liveness exact, every colouring keeps every value |
| lowering | `LoweringSmall.cfg` | 152 functions of four blocks: loops, blocks that follow themselves, diamonds; every value of three parameters modulo 3 | code and IR go the same way with the same values; registers written before they are read |
| lowering_stack | `LoweringStack.cfg` | a diamond whose one side uses a stack parameter | violation: the parameter is not loaded in the entry |
| spill_uncut | `SpillRewriteUncut.cfg` | blocks of at most six instructions, cut after index 2, pairs of moves before the cut | each use reads the same value |
| spill_cut | `SpillRewriteCut.cfg` | blocks of at most four instructions, cut after index 1 | violation: a span cut inside a pair of conditional moves |
| schedule | `SchedulingSmall.cfg` | bodies of at most four instructions of eight kinds before each of three endings | order kept, everything issued once, the clock stops |
| optimise | `OptimiserSmall.cfg` | 870 programs of eleven families, each with two to six inputs, through thirteen passes | SSA form, analyses exact, users listed, the passes end, every run does what the source program says |
| optimise_dead_stores | `OptimiserReadingCalls.cfg` | a store, a call that reads it, a store over it | violation: the first store is deleted |
| clean_up | `CleanUpSmall.cfg` | operations with constants, accesses, skipped blocks, loops, frames | same outcome, exact quotients, frame restored, runs end |
| clean_up_joined | `CleanUpJoined.cfg` | a block that one branch skips and another jumps to | violation: the block becomes conditional for both |

**Bounds.** *CallGraph*: two functions make a chain main, f2, f1, put, so that an effect is two
calls away from the reader of the summary, f2 may be recursive (the only functions that are
specialised), and one copy lets a call be redirected, reused and inlined in the second run of
`inline_func`. *AllocateRegister*: with two colours, three virtual registers give nodes of
degree below, at and above K; two moves give chains, two moves of one node, constrained moves
and moves between aliases, and are tried where degrees go down with the names (`Sorted`: most
graphs, up to those names); `DegreeMod` of 1024 is the least power of two that
`DegreeAssumption` allows for five operands. *Interference*: an irreducible loop, two operands that interfere, each kind of
definition, a call. *Lowering*: two slots and three parameters put one on the stack; loops with
two phis swap, chain and compute their values; the block that follows itself has a critical
edge, whose moves run on the way out as well; each ending takes the result out, by return, call,
tail call or recursion; values modulo 3 tell less, equal and greater apart. *SpillRewrite*: six
instructions with a cut at the third give one full span, a cut, and several one-instruction
spans after it. *Scheduling*: four instructions and an ending give chains, forks and joins of
dependences, competition for a unit, and a unit that is still busy when the next instruction
becomes ready. *Optimiser*: `Half = 16` is the least word in which the bytes of an array of
three (`4 * n`) can be told from an overflow and constants still wrap around; `ZeroLimit = 2`
stands for the size from which a zero initialiser becomes a memset, `UnrollLimit = 6` for the
16 instructions of an unrolled body, so that there are loops on both sides of each. The
families are: *Loops* (work that moves out, and what keeps it from moving), *Branches*
(conditions that are known or evaluated in part), *Nests* (inner loops of no use, breaks
and returns), *Memories* (accesses to arrays that are, may be or are not the same), *Sums*
(pairs of terms that simplify), *Repeating* (loops that are unrolled: known bounds,
guards, steps of 1, 2 and -1, both sides of a comparison), *Zeros*, *Dividings*, *Keepings* and
*Clearings* (for the other loop passes, with neighbours of each form that must be left alone),
*Calls* (functions with one return, two returns, a loop, an array parameter, called on a straight
way, on one way of two that meet, in a loop and in its condition, and twice in a row). `bump` does
what `next` does and is not inlined: in a loop with a call of `readg` its store would be promoted
past the call (the `:95` of the table in section 4).
On them `loop_unroll` rewrites 37 programs, 15 of them two iterations at a time,
`sink_local_init` 23, `fold_counted_div_loop` 20, `zero_loop_to_memset` 27 and
`promote_loop_store` 12. *CleanUp*: 15-bit registers (`Half = 16384`) keep immediates, offsets up to
4095 and the products of `div_magic_info` in proportion; divisors 3..20 and others near the ends,
dividends around multiples and at both ends of the range; every block of four instructions around
an access; skipped blocks of up to five instructions, one more than become conditional;
frames that an immediate encodes, that r4 holds, and just below and above each limit.

**Deadlock** is not checked, because each of these procedures comes to an end, and then
nothing more happens.

**Fairness.** Where liveness is checked, `FairSpec` is weak fairness of the whole `Next`: the code is one
thread, and while it has something to do it does it. No fairness among the alternatives of
`Next` is assumed; a free choice may always fall on the same side, except in `callgraph`, where
`specialize_const_arg` may redirect a call at most as often as there are calls and copies,
because each turn uses one up. Optimiser and CleanUp have steps that evaluate whole
passes, so their fairness is written out: weak fairness of *some* pass while one is to be done and
no run has begun, and of the run while it has not returned. A run that comes back to the
state it left is taken as stopped (`Running`, `CanRun`), so an endless loop violates
`Refines` and `RunsEnd`. That the compiler goes on and the processor executes is
all they assume; that a run is begun (`Execute`, `Enter`) is never assumed.

## 4. Findings

Each of these is a run that TLC must find violated:

- Once a block has more than 31 instructions, every later instruction ends its own span
  (`i++ > 30`, `allocate_register.cpp:646`). The two conditional moves of a spilled comparison then
  get different registers and each is stored, so the one that does not take place stores a
  register that nothing wrote. Run `spill_cut`.
- A parameter passed on the stack is loaded where it is first resolved (`codegen.cpp:119`), not
  in the entry as the comment at `:116` says; a use that this block does not
  dominate reads a register that may not be written. Run `lowering_stack`.
- A store is deleted although a call between it and the next store to the same place reads it:
  only calls with `has_side_effect` are looked at (`dead_store_elim.cpp:47`). Run
  `optimise_dead_stores`.
- A block becomes conditional on the flags of the branch that skips it although another branch
  jumps to it (`if_to_cond.cpp:225`). Run `clean_up_joined`.

While the models were written, more places turned up where the code does not do what the
source program says. They were confirmed by compiling small programs, unless it says otherwise;
the instances of the passing runs have no such programs, which is the precondition under which
the runs' properties hold.

| place | what happens | what the instances leave out |
|---|---|---|
| `gvn_gcm.cpp:60`, `:108` | an array parameter passed on is no longer a gep, so a reader of it is pure and its calls are merged over stores | such readers outside of `optimise_dead_stores` |
| `callgraph.cpp:40`, `ir.hpp:143` | `load_global` is not propagated, so a function that reads a global through a callee is pure | such functions in Optimiser |
| `gvn_gcm.cpp:320` | a constant three-dimensional table with 0 in the middle index: null is dereferenced | three dimensions |
| `gvn_gcm.cpp:150` | the test `r->tag == Mul` is of a constant and never true | nothing: the rule is dead code |
| `ssa.cpp:41` | the value of `n \|\| 3` is n, not 0 or 1, when it is stored | `\|\|` and `&&` outside of conditions |
| `ssa.cpp:271` | statements after a nested block that ends in break, continue or return follow its terminator | such blocks |
| `loop_unroll.cpp:98`, `:218` | the guard for two iterations tests `i0 + step` only, which is no test when the loop steps away from its bound or wraps around; and a guard `i < n` is accepted of a loop that goes on while `n < i` | loops that step against their comparison |
| `loop_unroll.cpp:190` | phis that take values from each other are followed one at a time | loops that swap or rotate values |
| `loop_unroll.cpp:260` | a phi of the loop that is used after it, as it is, becomes one that does not dominate its use | such uses |
| `zero_loop_to_memset.cpp:171` | the counter is used after the loop | such uses |
| `promote_loop_store.cpp:122`, `:137`, `:166`, `:95` | the exit has other ways in; the load is after the loop; the store is in one of several blocks before the latch; a call in the loop reads the array | each of these |
| `fold_counted_div_loop.cpp:80`, `:144` | the quotient is put after phis that use it; the shift overflows | phis in the exit, long loops |
| `sink_local_init.cpp:64` | a clearing moves to an edge that not every way to its uses passes, or into a loop | conditions inside conditions, and early returns in loops, before a cleared array |
| `simplify_asm.cpp:76` | a sum is folded into an access and deleted although it is read later | sums with another reader |
| `simplify_asm.cpp:133` | the move for a load that is last in its block has no place (found by reading) | loads at the end of a block |
| `codegen.cpp:216`, `:509` | powers of two divide negative dividends as if they were unsigned | negative dividends of powers of two |
| `machine_code.cpp:62` | r4 is clobbered by a frame that no immediate encodes, in a function that does not save it | such functions |
| `bbopt.cpp:109` with `gvn_gcm.cpp:233` | deleted blocks leave users behind, and an assertion fails | unreachable code whose operands have no other use (`StaleUsers` stops the model there) |
| `codegen.cpp:718` | the comparisons of a conjunction are appended before their operands are resolved, so that a constant that has to be in a register is moved there after it was read; `tighten_guarded_loop_bound` makes such conjunctions | conjunctions that compare with such constants |
| `codegen.cpp:307` | the constant that divisions share goes before the last instruction of the entry, behind a conditional branch that skips it | shared divisors in an entry that ends with a branch |
| `codegen.cpp:616` | the addend of a fused product may be an immediate (found by reading) | nothing: what an instruction can encode is not modelled |

`remove_identical_branch` is compiled but in no pass list.

## 5. Proofs

The theorems are about `Spec`, for every value of the constants under the named assumptions
of each module (operands are numbers with registers first; functions are finitely many; the
program comes from the front end). Liveness, `ENABLED`, and what recursion computes over data
are beyond the prover and stay with TLC. `RECURSIVE` is used only in the modules that Optimiser
is made of and in SourceProgram, which no module with theorems reaches.

- **CallGraph_proofs.** `TypeCorrect`, `ComputeCallgraphExact`, `SummariesSound`,
  `CalleesListed`, `EffectsAreKept`. The invariant `Inv` adds to the types: while the worklist
  runs, every marked function whose callers are not all marked is still on it, and no set closed
  under callers is left (`Propagating`); between runs of `compute_callgraph`,
  `has_side_effect` is closed under callers of the *current* calls (`Marked`): this is what the
  inliner and the specialiser keep, and what makes an old summary usable; `caller_func` is exact
  from the last `compute_callgraph` to `remove_unused_function` (`CallersFresh`), and a copy has the
  calls, stores and summary of what it copies while the pass runs (`CopiesAlike`).
  `EffectsAreKept` is an action property: each step keeps every effect that main reaches.
- **AllocateRegister_proofs.** `TypeCorrect`, `GetAliasEnds`, `MovesArePartitioned`. `Typed` holds
  the order in which nodes were coalesced: from every coalesced node a walk along `alias`
  leaves `coalesced_nodes`. `Combine` keeps it because it joins two ends that are both
  outside. `Parted` says that a move on no list is nowhere and that the lists are disjoint.
  `PrecoloredStayOff` (`PrecoloredNeverListed`) and `StackBounded`. The
  only way for a machine register onto a list is a degree that was decremented down to K, once
  for each neighbour that is simplified. How often that happens, nothing in the code bounds:
  `decrement_degree` lists a node twice, `freeze_moves` lists nodes that are coalesced or stacked
  already, and degrees of virtual registers can go below zero. The invariant `Budget` says that
  `Work`, a weighted count of what is listed, of significant nodes, of moves that may still be
  coalesced and of nodes not yet combined, together with the length of the stack, stays below
  `4 n^2 + 9 n` for `n` operands: no action raises it. A register's degree is its initial
  one less one at most for each entry of the stack and each combination, and `DegreeAssumption`
  keeps that above K.
  `EveryNodeColoured` (`NoNodeLost`), `ColouringProper`
  (`ColouringIsProper`). For the first, `Kept`: a virtual register is on a worklist, stacked or
  coalesced while nodes are selected, and from then on stacked, coalesced, spilled or coloured. For the
  second, `Coloured`: a move that may still be coalesced is on the lists of what its ends became
  (`MovesFollow`), so what is simplified has none and is never combined later (`Still`). Every edge,
  with its ends replaced by their aliases, is either still in the graph with an end to be coloured,
  or settled, or was lost (`EdgesApart`): `combine(u, v)` does not give `u` the neighbours of `v` that are
  on the stack. Such a neighbour still avoids `u`, being joined to `v`; `u` does not avoid it, but
  is stacked later and so has its colour first.
- **Interference_proofs.** `TypeCorrect`, `LivenessIsExact`, `ValuesAreKept`. Live sets are
  bounded from above by paths at every step, and closed at the end of the fixpoint, so
  both are equal; while `build` walks backwards, every pair that is live across a definition behind it
  has an edge; while the function runs, each live operand is in its register.
- **Scheduling_proofs.** `TypeCorrect`, `ScheduleKeepsOrder`, `ScheduleKeepsAll`. For every two
  instructions whose order counts, the graph as scanned has a set of edges along which no
  placement can put the second first (`GraphOrders`); each node is counted down once for each
  finished predecessor (`Counting`), so a node that waits has an unfinished predecessor
  (`Waiting`), and at the end none is left. `LeastNat`, the least element of a set of
  naturals, takes the place of induction over data.
- **Lowering_proofs.** `TypeCorrect`. `TypeInv` says what every instruction
  of a block is before and after its end begins (`Coded`), that translated blocks have an end
  that leaves them (`Ended`), that the comparison a branch takes the flags of is the last
  instruction when the branch is translated (`Flagged`: `SelectBranchOnFlags` takes it off the
  block again), and that the block the IR runs was entered from a predecessor (`Running`), where
  the phis find their operands.
- **LoweringFlow_proofs.** `OperandsAreDefined` (`OperandsDefined`). `Leads(S, code, T)` says that
  with values in the registers of `S` the code reads none without one, and leaves values in `T`.
  `Flow` gives each block a set `X`: what precedes its end leads there from what the block is
  reached with (`Base`, and `Passed` from its predecessors), its end leads from `X` to `X`, and `X`
  holds what the block has computed (`Have`), what its successors' phis are passed (`Onward`) and the
  arguments where it starts the function again (`Again`). Each action only adds code that leads
  from what was there to what it adds. What dominates a use has been computed in it (`Held`), from
  the SSA form of the function; an alias stands for a register that is held where it is
  (`Aliased`); a comparison or a product that is dropped because its only user takes it over leaves its
  operands held there (`Dropped`). Then the machine, at any block it comes to, has values in all that
  `Flow` starts from (`Ready`). The theorem is about functions with
  - `LoadsInEntry`: no parameter from the stack is loaded outside the entry. The code loads
    it in the block of its first use (`codegen.cpp:116`), which need not dominate the others:
    the run `lowering_stack`.
  - `ComparesEncodable`: a branch on a conjunction compares no constant that has to be moved to a
    register first (`codegen.cpp:718`), but for the second operand of the second comparison.
  - `EntryEndsInJump`: the entry ends in a jump if divisions share a divisor (`codegen.cpp:298`).

  They are what the proof needs where the code takes for granted what it does not check; section 4
  has the compiler's wrong code for each. Every function of the run `lowering` satisfies all three in
  every state (checked with TLC): the run checks none that the theorem leaves out.
- **SpillRewrite_proofs.** `TypeCorrect`, `SpillingKeepsValue`: for every block, length of a span
  and path of the conditional moves, as long as no cut falls between the two moves of a comparison
  (`UncutPairs`; the run `spill_cut` shows what happens otherwise). `Rewritten` says of the
  instructions that were rewritten that spans do not overlap (`Spans`), that a use without a load
  follows an instruction of its span (`Loads`), that every definition is followed by a store of
  its span, none of them between two conditional moves (`Stores`), and that such moves share
  a span (`Pairs`). `Held` says of the run that the slot has the value or a store of it is to come
  (`StorePending`), and that the register of a span that is under way has it, unless the
  second of two conditional moves is next (`ElsePending`).
- **Division_proofs.** `MagicDivides`: `MagicQuotient(x, DivMagicInfo(d)) = Quotient(x, d)` for every
  `Half > 1`, divisor `2 =< d =< Half` and dividend, where the run tries a few hundred pairs for
  one `Half`. With `p = 2 * Half * 2^s` the multiplier is exactly `(p + e) / d`; the dividend
  `q * d + r` is rounded to `q` if `r * p + e * (q * d + r) < d * p`. That follows for dividends up to
  the largest with remainder `d - 1` (`LargestDividend`) from what ends the search, and for those
  above it, which have smaller remainders, from one more multiple of `p`; `-Half` reaches equality
  and is rounded from below. The multiplier fits in a word because the shift before was too
  short (`MultiplierFits`), and the search ends before `Half` (`SearchEnds`). That the recursive
  function `Pow2` exists is proved by the least exponent for which it would not.

Every inductive invariant was first checked by TLC on the instance of the component's run.

Only model-checked: `SameRun` of Lowering, which is about values and not only about which
registers hold one, everything of Optimiser (`SsaForm`, `AnalysesExact`, the
refinement of SourceProgram) and of CleanUp (all but the arithmetic of `ConstantsExact` that
`MagicDivides` is about), and the liveness properties. The passes of Optimiser are recursive over
blocks and lists, CleanUp runs its code by recursion and `Bitwise`, so what they do to every function
is out of the prover's reach.

## 6. Not modelled

- The parser (generated), the driver and the printers (I/O and formatting), the library, tests,
  tools and the vendored debug macros.
- The walk of the type checker, which resolves names, folds constants and flattens
  initialisers: programs are taken as it leaves them.
- Of the loop passes: `extract_stack_array`, `remove_dead_local_init`,
  `promote_const_local_array`, `tighten_guarded_loop_bound`, `strength_reduce_loop_access`.
- The values in the copies that `specialize_const_arg` makes; CallGraph has what it does to calls
  and effects.
- Of code generation: memory instructions and local arrays; what an instruction can encode
  (`codegen.cpp:616`).
- VFP registers, literal pools and addresses of globals; the cost heuristics of the allocator,
  which are free choices.
- Undefined orders: sets ordered by address are walked in the order of block numbers in
  Optimiser, and in every order in CallGraph and Scheduling.

## 7. Plan

1. **Proofs**: Lowering's `SameRun`, on top of `OperandsAreDefined`: what each register holds, block by block.
2. **Composition**: the scheduler between the passes of CleanUp, over MachineCode.
3. **The rest of the loop passes**, and the copies of the specialiser, as further passes of Optimiser under the same properties.
4. **Encodings**: what each machine instruction can hold, over Lowering with Arithmetic.
