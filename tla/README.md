# Rockr, modelled in TLA+

Rockr is a compiler for a Rust-like language, written in Rust, with a language
server. This directory holds TLA+ specifications of its core, the TLC
configurations that check them on small instances, and TLAPS proofs about the
store under its tables, the engine under its analyses, both checks of its
borrow checker, the lowering of statements to MIR, and dead-code elimination. Paths below are relative to `src/`.

## 1. The system

A source file goes through a chain of representations; every arrow is a salsa
query, run on demand and cached.

    text -> tokens -> syntax tree -> HIR -> (inference) -> THIR -> MIR -> optimised MIR -> LIR -> LLVM
                                               |            |               |
                                         constraint      return and      move and
                                           solver       sanity checks   loan checks

| component | state it keeps | operations | what is hard | status |
|---|---|---|---|---|
| driver, queries (`src/compiler`, `src/driver`) | database of files, packages, configuration | load, check, compile | caching; diagnostics accumulate as side effects of queries | no |
| common (`src/common`) | append-only arenas, bit sets, interned symbols | insert, get, loop, drop | arenas are filled through a shared reference, under a lock taken piecemeal | `Frozen` |
| lexer, parser (`src/parser`) | position in the tokens, error list | parse each construct, speculate, recover | recovery must advance and lose nothing else; two meanings of `<` and of `{` | parser |
| HIR lowering (`src/hir`) | scopes, locals, places, expressions | lower each construct | shadowing, desugaring of loops and patterns | bodies |
| name resolution, lookup (`src/resolved`) | nothing of their own | resolve a path, an import, a method | cycles between modules and imports | names |
| inference (`src/typecheck/inference`) | union-find, listeners of each variable, ready queue, undo log, inferred maps | unify, emit and solve a constraint, snapshot, roll back | speculation that fails half-way; wake-ups; ordering | eight kinds of constraint |
| THIR construction (`src/hir_to_thir`) | scope stack, arenas | translate each construct | auto-deref, temporaries, the order of effects | most |
| THIR checks (`src/check/thir`) | nothing | return check, sanity check | combining verdicts over nested statements; types written on every node | all |
| THIR to MIR (`src/thir_to_mir`) | a MIR builder, loop tables | build each statement and expression | blocks finished twice, or never | most |
| match compilation (`decision_tree.rs`) | a pattern matrix | expand, specialise, default | order of rows, places of bindings | most |
| MIR (`src/mir`) | blocks, locals, lazily cached analyses | build, query | | most |
| data-flow engine (`lattice.rs`) | values at block entries and exits, worklist | number the blocks, iterate | order, termination, missed wake-ups | all that is called |
| analyses (`src/mir/analysis`) | facts per block | initialisation, liveness, loans | joins, partial moves | all |
| borrow checker (`src/check/mir`) | the replayed state of a block | check each statement and terminator | agreement with the analyses | all |
| dead-code elimination (`src/mir/passes`) | maps of blocks and locals | find paths, copy them | merging without losing a jump | all |
| layout, LIR (`src/layout`, `src/lir`) | sizes and offsets; a builder | lay out a type, build an instruction | enums in enums, offsets behind a tag | most |
| code generation (`src/codegen`) | SSA values, types | lower each construct | zero-sized values, unions, pointers | most |
| language server (`rockr-lsp`) | open files, database | hover, definition, open, change | order of edits, answers to every request | no |

The phases call one another as functions on immutable results; nothing in the
repository starts a thread, though `Frozen` is written to be shared by several.
What is hard is therefore order (worklists, hash maps, nesting of builders,
hoisted effects), agreement between two encodings of one thing (an analysis and
the check that replays it, a tree and the patterns it came from, a layout and
the instructions that index it), and long combinations of legal constructs that
no test spells out. `PROJECT.json` lists every hazard at its line.

## 2. Modules

An arrow below reads "is extended by"; dots are an INSTANCE.

    AppendOnly ···· Frozen ── FrozenProofs

    Phrases ········································· MCParser
    Grammar ── Parser ──────────────────────────────────┘

    Ast ─┬─ LowerFundef ── Translator ── FrontEnd ── MCFrontEnd
         └─ ByName ··························┘

    Unify ── Inference ── MCInference

    SanityCheck ── MCSanityCheck

    Builder ─┬─ Lowering ──┐
             └─ Dce ───────┴─ Pipeline ── Compilation ── MCPipeline

    DecisionTree ── MCDecisionTree

    Dataflow ─┬─ FixedPoint ── RpoRanks ── MCFixedPoint
              └─ Mir ─┬─ UseAfterMove ── MCUseAfterMove
                      └─ Loans ── MCLoans

    Iteration ─┬─ DataflowProofs ─┬─ FixedPointProofs (of RpoRanks)
               │   (of Dataflow)  ├─ UseAfterMoveProofs
               │                  └─ LoansProofs
               └─ DceProofs (of Dce) ── LoweringProofs (of Pipeline)

    MirToLir ── Llvm ── Codegen ── MCCodegen

**The store of every table.**

- **Frozen** — `common/frozen.rs` and `Arena::insert`: buckets of a fixed size
  filled through a shared reference. One critical section of the mutex is one
  action: a lookup takes two (is it empty, then the cell), an insertion three
  (is it empty, the length, the push), a loop two for each element. The owner
  may drop the store when no call is under way, or consume it, bucket by bucket
  (`BeginConsume`, `TakeBucket`, `EndConsume`).
- **AppendOnly** — what it promises: a sequence that only grows, calls that
  read it at one moment. `ImplementsAppendOnly` is the refinement, with the
  contents of the buckets for the sequence.

**The front end.**

- **Grammar** — the functions of the parser below an item as routines, sequences
  of instructions (expect, look ahead, try and roll back, catch and
  synchronise, make a node). Control is the routine's; a token is a string.
- **Parser** — the routines of the items, the machine that runs them all, with the struct-literal flag and the
  minimal binding power as the context of a call, and `parse_file`, one round
  of its loop an action.
- **Phrases** — the language as it is written, from its description of operators
  and items: trees with their tokens. The reference; it shares nothing with the
  routines.
- **Ast** — the syntax of bodies, and the values both executions use.
- **LowerFundef** — a name in a module, its enclosing modules and their
  includes; HIR of a body: scopes, patterns, for loops and compound
  assignments written out, callees told apart, paths through a type, `Self` or a
  template parameter. Where the code has a `todo!` so has the body (`HirTodo`).
- **Translator** — THIR: places, which look through a reference in front of a
  part, temporaries in front of statements, patterns taken apart, those of structs
  behind references among them, the stack of scopes, breaks by loop. What type
  inference says of receivers, bases and patterns are constants.
- **ByName** — the meaning of the same text from its names alone: an
  environment, left to right. It is the reference.
- **FrontEnd** — lowers, rejects or translates a body and runs both side by
  side: same calls, same decisions, same result. A body with a `todo!` ends in the
  phase "unimplemented", one with a match guard does after its translation
  (`Unbuilt`: `lower_match.rs` asserts that there is none). It also says what the typed body
  does, with the operands and the order that `ThirToMIR` gives its statements.

**Types.**

- **Unify** — the types of inference and its union-find table (ena's, modelled
  from how it is used), what speculation changes: the undo log, listeners, the
  ready queue and its marks, snapshots, unification, with the mutability of
  references and pointers. `equations` is a history
  variable. Then constraints: emitting one, the variables it listens on, how
  each of eight kinds is tried, and the two defaults.
- **Inference** — a function being inferred. The walk may open a snapshot
  (`infer_expr`, `infer_place`, `infer_pattern`), allocate, unify, emit, and
  close the snapshot with a type or an error; after a statement the solver
  runs, stops at the first error, and the walk goes on. Which calls a function
  makes is left open; which types and constraints it uses are constants.
- **SanityCheck** — `SanityChecker`: every comparison it makes of the types on the
  nodes of a THIR body, with the substitution of parameters and of `Self`, and
  references taken off and put on around patterns. A body it accepts is executed
  for a substitution, as `ThirToMIR` gives it types, on values that know what they
  are of: a value that is not of the type written on the node is a wrong one.

**The middle.**

- **Builder** — `MIRBuilder`; `ok = FALSE` is a panic of the compiler. It also
  says what executing a body of blocks is.
- **Lowering** — THIR statements; `ThirToMIR`: one action per statement kind. A
  statement has no call, or one that ends its block (`Called`), or one that does
  not come back. The
  Rust recursion is the sequence `todo`, with the code that follows each recursive
  call as pseudo-statements (`Close`, `Enter`, `Decide`, `Unreachable`, and `Arms`
  for the loop over the branches of a match). A match carries its decision tree, any
  tree of leaves, failures and cases: the compiled tree of DecisionTree has this
  form. `IsScoped` is what it relies on.
- **Dce** — the optimisation pass: `Prepare` computes the graph, the chains of
  blocks and their heads; then the loop of `compute_path_bodies`, statement by
  statement (`BeginPath`, `CopyOneStmt`, `NextOfPath`, `EndPath`); `Finalize`; and
  the body and its copy run side by side. `placed` is a history variable: where
  the copy of each block begins. The pass takes bodies that are well formed
  (`IsWellFormed` of Builder).
- **Pipeline** — the lowering, the pass on its result, and then three programs
  running side by side: the source, the body and the optimised body. What remains of
  the source is the sequence `rest`: statements, and running loops among them, so
  that a break drops all up to its loop and a step needs no recursion. `Silently`
  unfolds a block, a loop, a break, a continue, or a match down to the arm of a leaf; `Step` goes one way at what all
  three do next. It has no recursive operator, so that it can be proved about.
- **Compilation** — Pipeline with what needs recursion over statements: the return
  check in front of it, as `check_fundef` calls them all. It skips the
  synthetic statements the translation adds, as the check's warning does.
- **DecisionTree** — match compilation, then the tree run on a value beside
  the meaning of the patterns.

**Analyses.**

- **FixedPoint** — `fixed_point_iter_bottom`. One action per direction of a
  turn of the loop (`Forward`, `Backward`); the lattices in use (bit sets, the
  two bit sets of an `IdInitMap`) are sets of facts. Transfers are arbitrary
  functions on sets of facts. It takes any reverse postorder, in one step.
- **RpoRanks** — FixedPoint with the call of `rpo_ranks` spelt out: the
  explicit stack, visited set and postorder, one action per case of its loop.
  `ImplementsFixedPoint` is the refinement.
- **Dataflow** — a body's control-flow graph: predecessors, reachability, and
  what a reverse postorder is; the equations of a problem and its least solution,
  by saturation. The analyses are stated with it, so that a body's analysis is one
  step of their models; that the engine computes it is a theorem.
- **Mir** — places, operands, rvalues, statements, terminators; what each reads
  and writes (`bitset_uses`, `bitset_defs`, `as_move_key`, `inner_place`); and
  the memory a place designates once compiled, as an independent reference;
  and what the types of the code promise of a body.
- **UseAfterMove**, **Loans** — initialisation and liveness with the two checks
  of the borrow checker. `Check` is the compiler's step; then the body executes
  on an abstract memory, with branches going either way, and the checks are
  compared with what happens.

**The back end.**

- **MirToLir** — sizes, alignments and offsets of every type, enums with
  tuple-like and struct-like variants; slots, places, operands, rvalues, statements and terminators to
  instructions of the low-level IR, with the assertions of its builder.
- **Llvm** — each instruction as the LLVM code emitted for it, executed on
  memory of bytes, undefined ones and bytes of pointers among them.
- **Codegen** — MIR executed on values beside LLVM executed on bytes.

Abstractions common to all: types are reduced to what the code asks of them,
values to what decides a branch or identifies a result, spans and wording are
dropped. In the middle expressions are labels, conditions take any value.

## 3. Runs

| run | question | bounds | states |
|---|---|---|---|
| `frozen` | is the store an append-only sequence, whoever else is in the middle of a call? are loops complete, and does Drop free exactly what was written? | two threads, two elements, buckets of two cells, indices 0 to 2; no insertion begins once two elements are there, so three fit, the third in a second bucket | 1 567 502 |
| `parser` | is what is written read back, does an error stay in its part, does the loop advance? | every expression of two operators, every statement and item form, one token replaced by any of 23 | 30 008 |
| `front_end` | do the text and the typed body made of it do the same? | four modules, two names, one or two statements of every kind and loops in loops, parts and struct patterns behind references; five decisions | 10 620 |
| `inference` | does backtracking restore everything, is unification sound and complete, does solving progress? | two locals, declared or not; four calls, snapshots two deep, three variables, two constraints of eight kinds, operators of three | 240 831 |
| `pipeline` | does compiling panic, are the verdict and warnings of the return check right, do source, MIR and optimised MIR agree? | programs of nested loops, branches and matches with five decision trees; MIR bodies of 4 blocks with locals | 278 212 |
| `sanity_check` | can a body the sanity check accepts meet a value of another type than the one written? is a body typed by inference ever refused? | ten bodies of up to 23 typed nodes; parameters that stand for themselves, references, an enum, a struct; the types of a run of nodes replaced by those of another instance | 23 538 |
| `decision_tree` | is the first covering branch taken and are its locals right? | up to three branches on a pair of a three-variant enum with integer payloads and a struct around another | 147 210 |
| `fixed_point` | does the engine end, in the least solution, in any order of successors? | all graphs of 3 blocks with at most two successors each, both directions, seed on and off; the first block keeps, the second keeps, kills or flips, the third keeps or generates; a set of graphs of 4 blocks; one fact | 114 179 |
| `use_after_move` | is what the move check accepts free of uses of moved places, and are its definite reports real? | 3 blocks, at most 1 + 2 statements, loops and bypasses; struct, plain local, mutable reference, array, index; stores to fields, behind the reference and into the array | 462 428 |
| `loans` | is what the loan check accepts free of reads of broken references? | 3 blocks, at most 2 + 1 + 1 statements; struct, array, two holders; stores to a field and through a holder | 507 308 |
| `codegen` | do the emitted instructions do to bytes what MIR does to values? | a byte of two bits, pointers of two bytes; integers of two widths, struct, enums in each other, pointers and an array; 3 steps | 9 884 |

Why these are enough. Two threads are every way one call can be overtaken
between two of its critical sections, and a bucket of two cells has a first, a
last and a full state. Two operators next to each other are every pair of
binding powers, and every construct in front of a `{` or a `<`; one replaced
token reaches every handler. A parameter and a second name make every
declaration shadow or not shadow; a loop in a loop has every break. One fact
suffices for the engine, because distributive transfers act on facts
independently; `flip` stands for the transfers that are not even monotone, for
which termination must hold all the same. Three blocks make a loop, a bypass of
it and an exit, which is every way two paths of these analyses join; four make
a loop with an entry that is not its head. A pair of enums makes the columns of
a matrix interact: specialising one moves the other. Four calls of the walk
reach a constraint that listens, a snapshot in which its variable is united or
bound, and the failure that undoes it; every kind of constraint is solved and
refused in some state, and the types offered include a type around its own
variable and a pair whose second parts disagree. Three steps of `codegen` build
a value, change it through a pointer or a variant, and read it elsewhere; two
bits a byte make every width wrap and every value sign-extend. The nodes of a
typed body are numbered along the flow of values, so that a run of them typed as
another instance of the body disagrees with its neighbours at two places only,
and every two neighbours of every body are such a place: each comparison of the
check is the only one left to refuse some body, but for that of the type a struct
or variant pattern names, which its parts repeat.

The run of kind *violation* shows a disagreement between the code and an
assertion of its own:

- `after_break` — a statement after `break` or `continue` in the same block is
  written into a finished block, and the compiler panics in its own assertion.
  `pipeline` enumerates programs without such statements (`ProgramsAreScoped`), and
  the theorems about the lowering are about those.

Properties worth a word:

- `MeansWhatItSays`, `CompilationPreservesExecution` and `RunsTheSameWay` cover
  the compiler from syntax to LLVM: each is a lock-step simulation of two
  levels, with the same decisions taken on both sides.
- `ReplayAgreesWithTransfer` compares two encodings in the code of the same
  function.
- `InitInCoversExecutions` and `HeldLoansAreReplayed` relate the facts of the
  checker to the history of an execution, so they fail when a join, a mask or
  a retention loses something, whether or not a diagnostic depends on it.
- Both checks say less of assignments to a part of a place than one might
  expect, and their properties say so. `AcceptedBodiesUseNoMovedPlace` is
  about bodies that do not store through a pointer or into an array
  (`StoresDirectly`), since the base of a destination is never checked.
  `InitInCoversExecutions` claims all of a cell that holds a value, and of an
  empty one only where no single element is assigned (`StoresWhole`): the
  analysis then takes the whole array for initialised. The properties of the
  loan check except the locals a projected destination is reached through
  (`ReachedLocals`), whose liveness such a destination ends. The bodies of both
  runs have all of these destinations.
- `DefiniteReportsAreReal` and `ReportedFunctionsFallThrough` are the other
  direction: no spurious error.
- `RollbackRestores` says of every open snapshot, at every step, that undoing the
  log down to its mark gives back what there was when it was opened.
- `TableSolvesEquations` and `RefusesOnlyTheUnsolvable` compare unification with
  its meaning: the assignments of closed types that solve the table are those
  that solve what was unified, and what is refused has no solution.
- `SolvingProgresses` and `ParsingAdvances` are termination arguments as action
  properties: every step of the solver leaves fewer constraints unsolved (an
  indexing counts for the one it may emit), or as many and a shorter queue;
  every round of `parse_file` consumes a token. They need no fairness.
- `InsertNamesItsElement` claims the index `Arena::insert` hands out only of an
  insertion that no other push interrupted: the length and the push are two
  critical sections, and with a push between them two elements get one index.
  The store itself is an append-only sequence in any case.

**Fairness.** Only the engine has a liveness property, `Terminates`. Weak
fairness of its next-state action says that a running loop keeps running; it
is a sequential call and nothing suspends it. The other models need none:
their properties are about states and steps.

**Deadlock.** `frozen` checks for it: no call waits for another. The other models
end: a call returns, an execution stops or diverges; their configurations say so.

## 4. Proofs

Every theorem holds for all values of the constants that satisfy the named
assumptions; each assumption is also evaluated by a run.

**The engine.** `FixedPointProofs`, for every set of blocks and facts, every
graph, transfer and direction. Assumptions: `ProblemsAssumption`, that a problem
has the shape of the function's arguments; `BlocksAssumption` and
`FactsAssumption`, that a body has finitely many blocks and a bit set is made
for finitely many facts.

- `TypeCorrect`: `Spec => []TypeOK`, which the other proofs use and no run checks.
- `Settled`: `Spec => []SettledOffWorklist`. The invariant is inductive with
  `TypeOK`. The argument has a case for the block that was popped (its new
  values solve its inequations by construction, unless it is its own
  neighbour, in which case it is woken again when it grew) and one for every
  other block off the worklist (its inflow is unchanged, or it would have been
  woken).
- `EndsSolved`: when the worklist is empty the result is a solution at every
  block. It follows from `Settled`.
- `Least`: `Spec => []BelowEverySolution`. For a solution `s` of a monotone
  problem, "the values are below `s`" is inductive: the join of values below
  is below, and a monotone transfer keeps it so.
- `SearchRanks`: `EngineSpec => ImplementsFixedPoint`. The depth-first search of
  `rpo_ranks` ends with a reverse postorder, whatever order the successors
  come in. The invariant of the search, `SearchInv`, says of the stack that its
  processed entries are a trail, each reaching every entry above it, with every
  unvisited successor still above it (`TrailOK`); of the postorder that a
  successor of one of its blocks stands before it or is on a cycle with it
  (`DoneOK`), which is stated with reachability, so that it stays true when the
  stack shrinks; and that all of it is reached from the entry (`FromEntry`).
  When the stack is empty, what was visited is closed under successors, so it
  is all that is reachable (`SearchEnds`). The reversed postorder with the other
  blocks behind it lists every block once (`ListOfAll`), so the ranks are its
  positions (`RanksAre`), and an edge goes upwards or closes a cycle
  (`NumberMaps`).
- `EngineCorrect` puts them together: `EngineSpec`, the specification the run
  checks, has the properties above.
- `EngineComputesLeast`: `EngineSpec => []ComputesLeastSolution`. What the engine
  ends on is `LeastSolution`, the definition the analyses are stated with; so
  the one step their models take for an analysis is what the worklist does.

**The equations.** `Iteration` has what the other proofs need of numbers and of
recursion: the least number with a property (`NatMin`) and what follows by it, and
the orbit of a point under a function that only grows. `DataflowProofs`, about `LeastSolution` for any monotone
problem over finitely many facts. `LeastSolution` is a recursive function on
assignments, that is, *some* function that satisfies its equation. One exists
whatever the sweep does (`SettlingExists`: send a point to the fixed point of its
orbit), and all of them send a point to that fixed point (`SettlingEnds`). The
orbit of the empty facts under a monotone sweep only grows and stays below every
solution; among finitely many assignments the largest of the orbit is fixed. So
`LeastSolutionSolves` and `LeastSolutionIsLeast`.

**The move check.** `UseAfterMoveProofs`, for all bodies, locals, cells and
control-flow graphs. Assumptions: `BodiesAssumption` and `PlacesAssumption`, what the
Rust types promise (lists are finite, ids are those of the body, the keys fit in
a set) and that an index is never moved, which its type gives; `CellsAssumption`, that
the memory is cut finely enough: a place that is no `Copy` local has cells, and
none of its cells is larger than what the analysis tracks of it.

- Theorems: `MoveCheckIsSound`, `DefiniteReportsStand`, `InitInIsSound` and
  `OneTransferFunction`, for the four properties of the run.
- A cell is seen through its owner, the longest tracked key above it. The
  inductive invariant, `MovesInv`, says that the replay of the check, as far as
  the execution got inside its line, *accounts* for every cell: the bit of its
  owner allows for the cell being there, or being gone (`Accounts`). The
  properties are about lines and block entries only and are not inductive.
- The steps. Emptying the cells of a place, and marking its key, agree
  (`EmptyingKeeps`); so do filling and marking (`FillingKeeps`): a cell belongs to
  the place exactly when its owner is a key the mask reaches, and
  a cell outside keeps its bit. Over the edges of the graph: the replay of a
  block is the transfer of the analysis (`OneTransferFunction`: both are folds
  over the lines, one applied access by access), and a solution of the
  equations allows at an entry for what every predecessor leaves
  (`LeastSolutionSolves`). From the invariant: where the query answers `Init`
  every cell of the place is there (`InitMeansThere`), where it answers `Uninit`
  none is (`UninitMeansGone`).

**The loan check.** `LoansProofs`, for all bodies likewise, under
`BodiesAssumption`, `LocalsAssumption` and `CellsAssumption` of that module.

- Theorems: `LivenessIsSound`, `NoLoanIsLost` and `BorrowCheckIsSound`, for the
  three properties of the run.
- The inductive invariant, `Inv`: what was called dead and not assigned since is
  not live here (`DeadStayDead`); the loans of a holder that is live here are in
  the state the check comes to this line with (`HeldAreEntering`); a holder only
  has loans of its own (`HoldersHold`); and in a body without a report nothing
  that is stale is live (`NothingStaleIsLive`). Liveness is what carries it from
  line to line: the scan of `live_in_per_stmt` stays below the solution at the
  entry of the block, and that one above the entries of the successors. Last, two
  places that overlap in memory conflict for `places_conflict`, so an execution
  invalidates no loan without a report.

**Dead-code elimination.** `DceProofs`, for every body under `BodiesAssumption`: its
parameters are as many locals, its jumps stay inside it, none goes to the entry,
and no circle of blocks only jumps. The last two are needed: with a jump to the
entry, a path that began elsewhere could take it in, and in a circle of jumps no
block is next to do anything. The
lowering meets the assumption, which is a theorem of its own, below.

- `NeverPanicsHolds`, `SameBehaviourHolds` and `ParametersComeFirstHolds`, for the
  pass' own panics and the two properties of the run.
- While the pass copies, `CopyInv` says where the copy of every block begun is and
  how much of it is written: the statements copied are at their place
  (`StmtsInv`); behind them stands the copy of the block it merges with, or the
  copied terminator (`EndsInv`); the path being copied ends where the builder is
  (`CursorInv`); a block is placed only after the one that merges into it
  (`PlacedInv`), and the copies of begun heads, no others, are finished
  (`FinishedInv`), so no block is written twice. The map of locals lists those
  met so far, each once, and a longer map renames as before what is already
  written (`LocalsInv`, `SameLocalsKept`).
- A jump that merges nothing goes to a head (`MergeProps`, `HeadsProps`). So when
  every head is begun, the blocks placed contain the entry and are closed under
  jumps: they are all that is reachable (`AllPlaced`).
- When both bodies run, the position in the copy is the image of the position in
  the body under `placed` (`InStep`). `Settle`, which passes over jumps, ends in
  corresponding places on both sides: the blocks where it does not would all jump
  to one another, in a circle of jumps (`AllInStep`).

**The lowering.** `LoweringProofs`, for every program of statements nested however
deep. The hypothesis is `IsScoped`: a break or continue is in its loop and the last
statement of its block. No phase establishes it: `after_break` is a program that
violates it, and there the theorem fails. It is stated as a set of lists of
statements closed under taking the parts of a statement, so that the proof needs
no induction over the tree.

- `CompilerNeverPanicsHolds`, `LoweredBodiesAreWellFormedHolds` and
  `OptimisedProgramsBehave`: from `PipelineSpec` and the hypothesis, the three
  properties of the run. The second is what the pass assumes of a body, so the
  third is about every body the compiler optimises.
- The inductive invariant, `LowerInv`, is about the builder and what is still to do
  together. The list `todo` is well ordered (`ItemsOK`): a statement is followed by
  one, by the `Close` of its block or by the end; an `Enter` follows a `Close` or
  a jump, and the loops a break may leave are those whose end is still to be
  entered further on (`LoopsInto`). Every block that is not finished is the
  current one or is entered exactly once further on (`PendingOK`), and the current
  one is finished only when the next thing to do leaves it (`CurrentOK`): this is why
  no block is written after it was finished, and why at the end none is left.
  A block's statements and jumps are well formed (`BlocksOK`), and the loops begin
  and end in blocks known as such (`LoopsOK`).
- No circle of blocks only jumps (`NoCircle`): a jump leads to a block that is not
  finished, which closes no circle, or back to the beginning of a loop. That block
  ends in the branch of the condition, or in a jump to a loop inside the condition,
  which begins with a later block (`BeginsOK`; `ConditionOK` while the condition is
  written), so no chain of jumps comes back. Nothing jumps to the entry, because
  only fresh blocks are targets.
- `PipelineInv` is `LowerInv` until the body is handed over, and from there the
  invariant of the pass (`InvHolds` of `DceProofs`, from its lemmas about a step).
  The specification the run checks, `CompilationSpec`, adds variables and a check
  in front and is `PipelineSpec` on these variables: each of its steps is a step of
  Pipeline or leaves it alone. It is defined with recursive operators, so the
  theorems are about `PipelineSpec`.
- `CompilationPreservesExecutionHolds`: after every run they have in common, the
  source, the lowered body and the optimised body do the same next. The property
  speaks of the moment only, so the invariant, `ExecutionInv`, holds a relation `sim`
  between places of the body and what remains of the source. Once the body is
  finished, a place and its remainder agree (`Follows`): the source unfolds in place,
  or both do the same statement, or the body jumps, or both end the same way or have
  the same ways to go on (`Agrees`), and what they come to is again in `sim`. The
  position of the run and `rest` are in it, once the jumps are followed (`InSim`); that
  following them ends is `NoCircle` again.
- While the body is being written the relation grows with it (`Simulates`). A place
  stands for its remainder if it agrees with it already, if it is where the builder
  writes, or if it is the beginning of a block that an item of `todo` will switch
  to (`Stands`). What the items of `todo` do leads, item by item, from the remainder
  the builder is at to the empty one (`Planned`, `ItemMeans`): a `Close` jumps to a
  block that stands for what follows, a `Decide` stands before the test of a loop,
  and the arms of a match each end before what follows the match. The block of a node
  of its tree stands for the match at that node, and for the arm if the node is a
  leaf (`NodeAgrees`). A loop that can
  be left has a block for its condition, one that stands for the loop itself, and
  one for its end, which stands for what follows it (`LoopMeans`); loops of the
  same number further in would shadow it, so the first with its number counts
  (`FirstLoop`). One lemma per action gives the places it adds and shows that the
  old ones stand as before: a block that is written only grows until it is
  finished, and then it stays (`Grows`).
- The optimised body needs no relation of its own: it offers what the body offers
  (`SameBehaviour`, above).

**The store.** `FrozenProofs`, for any number of threads and elements and any bucket size
(`FrozenAssumption`: the size is positive, indices are numbers, and the two
markers are no elements):

- `NothingLeaks`, `IndicesAreRight`, `LoopsAreComplete` for the three invariants
  of the run, and `Linearizable`: `Spec => ImplementsAppendOnly`.
- The inductive invariant is `IInv`: the store is well formed (`StoreOK`); a cell
  is written exactly when its number is below the count of its bucket
  (`Written`), which is what makes `Drop` right; a call under way has seen a
  store that was not empty, and an index no larger than the size (`CallsOK`);
  what a loop has yielded is a prefix of the contents, as long as its cursor
  says (`LoopsOK`); and so is what an owner that takes the store apart has
  collected, up to the bucket it has come to (`TakingOK`). The lemmas below it are about division: the cell of an index
  and the position of a cell are inverse to each other (`DivOf`, `Where`), and a
  push adds one element at the end whether or not it opens a bucket (`Pushed`).

**Only model-checked.** Termination (`Terminates`): liveness is out of reach of
the prover. `SolvingProgresses` and `ParsingAdvances`, and all the properties of
the runs `parser`, `front_end`, `inference`, `sanity_check`, `decision_tree` and `codegen`, and those
of `pipeline` that are stated in `Compilation`, about the return check: their
modules work on trees and types, recursive data, with recursive operators, over
which the prover has neither induction nor an SMT backend.

## 5. Not modelled

- **Driver and queries, printer**: input, output and layout of text. The caching
  is salsa's.
- **Lexer**: it works character by character; the parser is given tokens.
- **Language server**: one loop whose state is the text of the open documents.
  `did_change` stores the first of the content changes of a notification
  (`rockr-lsp/src/notif/mod.rs:80`), where with full synchronisation the last is the
  text; a request nobody handles gets no response, although `documentSymbol` is
  advertised (`request/mod.rs:60`).
- **Implementations, interfaces and methods**: lookup, the choice among
  candidates by cloning the solver, `in_flight_impls`, conformance of an
  implementation, and the constraints about them. `Translator` takes the chosen
  adjustment of a receiver as a constant.
- **Fat pointers**: strings, slices and their metadata, through inference, THIR
  and code generation; casts of pointers; floats and niches in layouts.
- In bodies: `defer`, which is a diagnostic, references to temporaries in MIR, what a
  node of a decision tree computes before it jumps (the discriminant, the locals of a
  leaf: DecisionTree has these); in match compilation boolean, array and
  reference patterns.
- In the back end: declaration and names of functions, emission of object code,
  numbering of values across blocks; `verify` of the LIR is a stub.

### Known deviations

What the code does differently from what its reader may expect, found while
modelling; the runs leave them out as the last sentence of each group says. Three
of them disagree with a document or a comment of the repository. `README.md:31`
lists "all-paths-return" among what works, and `TODO.md:26` "do all paths return"
among what is done, while a match needs only one branch that returns. A comment
(`lower_fundef.rs:1162`) says that the left side of a compound assignment is not
lowered twice, and its calls are. A comment (`sanity_check.rs:782`) says that a
list of references begins with the innermost, and `peel_type_ref_until` lists the
outermost first. No property of a run states these three: the properties nearest
to them name the exception, as each group says.

*Parser.* An item that fails at a sync point without consuming it makes
`parse_file` loop for ever (`parser/mod.rs:256`, `top_level.rs:74`). The recovery
of a statement does not stop at the `}` of its block, and an error in a head, a
match or an inner block can take the next statement along. Speculation on
`<` rolls back, so an error inside `T<..>::f(` is reported far to its left. `T::V{.x: 1}` is
a path to a struct literal while `T::V{}` is a struct literal of a variant. A
turbofish after a field access is read and forgotten. `x as T < y` takes `<`
for type arguments. `@include a` may not be the end of a file, a trailing comma
in `<...>` fails, and `fun f(, x: T)` is accepted for methods. The phrases and
the damaged files of the run have none of these.

*Front end.* Calls inside an expression are hoisted before it: in `f() + g().x`
and the like `g` runs before what stands to its left. `a[i()] += 1`
evaluates the place twice, although a comment says not to lower it twice
(`lower_fundef.rs:1162`). The arguments of `m::f(g())` are resolved in `m`. A local
as a callee, a function as a value, and a type or template parameter before
anything but its functions and variants are `todo!`, and a match guard panics
when MIR is built. The last of two definitions of a name wins. `break`
outside a loop becomes an error statement. `&&` and `||` are not short-circuited.
Where an operand of the run needs a temporary, it is the first to be computed.

*Inference.* A cast is decided on the pointee as it is then: a reference to a
variable counts as thin and is not asked about again when the variable becomes a
slice (`types.rs:140`). A constraint may listen on a variable that is no root and is then
never woken: its default, or a diagnostic, decides it. The occurs check compares
names one level deep, so two united variables can build a type around itself;
the model stops there, in the phase `knotted`. A cast, an indexing or a field
access is decided on the shallow `find`, before parts of its type are known. A
constraint whose default fails is tried again after every statement and keeps
later ones from theirs. The constraints emitted by a speculation that fails are
not forgotten, while their variables are: the phase `panicked`.

*Return check.* A match with one branch that always returns is taken to return, so a
function whose other branch runs past its last statement is accepted
(`return_check.rs:191`, `any` for `all`); `AcceptedFunctionsReturnButForMatches`
excepts the functions with such a match, which the run has.

*Sanity check.* References peeled off a type until a target, and put on again,
change their order: `&mut & T` comes back as `& &mut T`, since `peel_until` and
`peel_type_ref_until` list the outermost first, while the comment on the list, and
the functions that read it, have the innermost first. The local of a binding, the parts of a tuple pattern and the type
of an integer literal are compared with nothing; missing arguments of a call
and missing fields of a struct literal go unnoticed. The operand of a negation or a
cast may have any type (`ThirToMIR` looks at a cast again). A comparison of operands
that are not like integers is always reported, as of a wrong result. An integer
pattern is compared with the type it is matched on, references included, so
one behind a reference is refused. `ref_slice_of` makes a slice of slices. `Self` inside
another type panics in `ThirToMIR::ty`, which replaces it at the top only. In the
bodies of the run the first group is typed as inference does; they have none of
the rest, and neither references of both kinds around a type, breaks, match guards nor indexing of empty slices.

*Matches.* A binding that stands where another row destructures is dropped. The
fields of a struct are paired with sub-patterns in the order of a `HashMap`: with
both orders in `FieldOrders`, `BindsWhatThePatternSays` fails. A match that is not
exhaustive is not reported. The matches of the run avoid the first two.

*Borrow checker.* The base of a destination is never checked, so a store through
a moved reference is accepted; `*r = v` ends the liveness of `r` and is no use of it;
writes to borrowed places are never conflicts; a copied reference leaves its
loan behind; assigning one element makes an array count as initialised. The
properties name these cases; the bodies of the runs have all of them but the
copied reference.

*Back end.* An enum is an array of bytes, of alignment one, for LLVM: an
aggregate with an enum after a smaller field has other offsets there than in its
layout. Enums of one variant, or without payloads, panic in the code generator.
`!` on a boolean in memory inverts its eight bits. Zero-sized arguments are
filtered from calls but counted by the indices of aggregates and parameters.
Bit operations, `&&` and `||` are `todo!`. A comparison of a pointer with
an integer gets past MIR and fails an assertion of the LIR builder
(`lir/build.rs:483`). Setting or reading a discriminant
assumes that the tag is at offset 0, and constants are cut to 64 bits. Polymorphic
recursion keeps `reachable_mir_instances` from ending. The types and statements
of the run avoid them.
