# A verification project for NuWSC and runsolver

The repository holds two programs.

*NuWSC* is a local search solver for the weighted set covering problem:
`NuWSC-algorithm/NuWSC/wscp.h` (class `WSCP`) and `main.cpp`. A *variable* is an
element to cover (a hard clause), a *set* a column with a cost (a soft clause); a
solution chooses sets so that every variable is covered, as cheaply as possible.

*runsolver* (`maxsat-evaluations-2021/runsolver/src`) is what the experiments start
solvers with: it forks the solver, watches its processes through `/proc`, stops it
at a limit, stamps and truncates its output, and reports the CPU time used.

This directory models both in TLA+, checks the models with TLC and proves the main
properties with TLAPS, for instances of every size.

## The system

### NuWSC

`main` runs one thread through a pipeline:

    build_instance -> reduce_instance -> set_param -> init -> local_search -> check_solu

| Component | State | Operations | What must hold |
|---|---|---|---|
| Instance | `var_set`, `set_var`, `cost` | `build_instance` | – |
| Reduction | `fix`, `reduce_cost`, `var_delete`, shrinking `set_var`, shifted `cost` | `reduce_instance`: a pass over the rows, a pass over the sets | an optimal cover stays within reach; costs add up; the search gets the instance it relies on |
| Bookkeeping | `cur_solu`, `cur_cost`, `weight`, `cover_count`, `cover_set(2)`, `score`, `pscore`, `cc`, `uncover_stack`, `zero_stack` | `flip`, `update_weight`, `cover`, `uncover`, `add_set`, `remove_set` | what is kept step by step equals what recomputing would give |
| Selection | `time_stamp`, `weight1`, `tabu_length`, `novelty_p` | `compareV2`, `compare`, `select_set`, `select_set_Novelty`, `select_set_from_zero_stack` | there is always a set where one is expected; decisions are still right when carried out |
| Search | `best_solu`, `best_cost`, `step`, `tries` | `init` (construction), `local_search` | only irredundant covers are recorded, each better than the last; none is lost; the search returns, with one |
| Self-check | – | `check_solu`, `check_cur_solu` | states what should hold of the result |

They interact by calls and shared fields only: `init` and `local_search` call the
selection, which reads `score`, `pscore`, `cost` and `time_stamp`, and `flip` and
`update_weight`, which write them. Within the solver there is no concurrency, no persistence and no
message; the one input from outside during the search is the clock. What is hard
here is different: long sequences of incremental updates that are never recomputed,
values read before a flip and used after it, early returns in the middle of a turn,
counters that restart while stamps do not, and sums of shifted costs.
`PROJECT.json` lists these hazards at their lines.

Beside the solver, `trans_cnf.py` converts an instance to weighted CNF for the Max-SAT
solvers NuWSC is compared with, and scripts start one process per seed.

### runsolver

Four threads and the solver's processes run at once:

* the *main thread* (`run`) forks, waits with `wait4`, and reports; the handler of
  SIGTERM runs in it, in the middle of anything;
* the *timer thread* (`timerThread`) takes a sample of the processes every `period`,
  displays one now and then, and calls `stopSolver` at a limit;
* a *killer thread*, which `stopSolver` creates, sends SIGTERM, waits and sends SIGKILL;
* the *stamper thread* (`timeStampThread`) copies the output of the solver.

| Component | State | Operations | What must hold |
|---|---|---|---|
| Starting, watching, stopping | `childpid`, `solverIsRunning`, `procTree`, `lastProcTree`, `solverProcessGroups`, `stopSolverStarted`, `stopSolverThreadStarted` | `run`, `timerThread`, `displayProcessData`, `stopSolver`, `stopSolverThread`, `kill_processes`, the handler | a limit is enforced; nothing of the solver survives; runsolver ends when the solver has, and does not kill itself |
| CPU time | the tree of processes, `currentCPUTime`, `lostCPUTime` | `readProcesses`, `update`, `readProcessData`, the end of `run` | time reported is time used, though processes end while they are read |
| History | `history`, `countInCell`, `procTree`, `lastProcTree`, `nextPush` | `push`, `drop`, `dump`, the destructor | no tree is lost, freed twice or used after it is freed; the newest is dumped |
| Limit on the output | `buffer`, `activateSize`, `cursize`, `maxSize` | `write`, `flush`, `systemWrite`, the option | the first and the last bytes are in the file, in order |
| Time stamps | `watched`, `incompleteLineSent`, the CPU time published | `TimeStamper::watch`, `timeStampThread` | nothing the solver prints is lost or changed; each line has one stamp |
| Cores | affinity mask, lists of cores | `Cores.hh`, `selectCores`, `printAllocatedCores`, `setaffinity` | the solver gets what was asked for |

They interact through the fields of `RunSolver`, without locks: `procTree` is replaced
by whoever takes a sample (the timer, or the handler), the flags are read and set
across threads, the history owns what `procTree` and `lastProcTree` no longer name, the
filter is what the stamper writes to, and the stamper reads the CPU time that the
timer publishes.

`PROJECT.json` lists the hazards of both programs at their lines.

## The modules

### NuWSC

`Covering` – the bookkeeping. One action per call: `flip(s)` is `FlipIn(s)` or
`FlipOut(s)`, with all that the loops over rows and columns do to `score`, `pscore`,
`cc` and the stacks; `update_weight` is the other. `Next` is the most general caller:
it may add any set that covers an uncovered variable, remove any chosen set, or
raise the weights. The loop of `flip` visits the variables of the set one after the
other; its sums commute, so that the action adds them up at once. `uncover_stack`,
`zero_stack` and `set_solu` are sets, for the code reads them at random positions or
in full. `Var` and `Set` are what `reduce_instance` leaves: live rows, free sets.

`Sums` – sums of natural numbers, as sizes of disjoint unions, so that the library's facts on finite sets
are facts on sums; the modules with costs, weights or times use it. `Listing` – numbers from the lowest to the
highest, as loops visit them; `Cores` and `Accounting` use it.

`Search` – the control, on top of `Covering`: the construction loop of `init` and the
loop of `local_search`. A turn makes at most two flips; `pc` says what is next.
Which set is taken, among those allowed, is left open, so that results hold for
every heuristic. The clock is a flag `expired` that may rise at any moment, and is
read where the code reads it.

`LocalSearch` – `Search` with the code's rules of choice: `compareV2` and `compare`,
the scans with their ties (with the stale values they compare against), sampling,
the tabu list, time stamps. Every action is an action of `Search` with a rule. `Weights` has what it shares
with `Ranking`.

`Anytime` – the abstract specification of the search: reports, each better than the
last, and a stop that needs a report. `Search` implements it (`KeepsPromise`), and
implements `Covering`'s specification (`KeepsBooks`).

`Reduce` – `reduce_instance`, one action per row of the first pass and per set of the
second. `fix` has the code's numbers: 1 taken, -1 left, `x + 10` taken unless `x` is.
Three pieces of text that differ only in the order of three sets are one operator
(`TwinsAnd`). The tests `fix[s3] == 1` in them are left out: they stand behind a
`continue` for any `fix` other than 0. `Completed` says what the solution of the search
stands for.

`Solver` – the way of an instance through `main`, on top of `Reduce`: `build_instance` as an
operator on the numbers of a file, the reduction step by step, a search that comes with any
cover of what is left (what `Search` promises, and no more), and `check_solu`, which completes
the solution in place, one set a step by number, in the same loop in which it complains. The reader
takes the numbers one after the other, as the loops over `cin` do.

`StackArrays` – the three stacks as the code has them: an array with a fill pointer and
the index of each element (`mypush`, `cover`, `TakenOut`). `Stacks` puts them beside
`Covering`: the caller picks a variable or set by its *place*, `flip` visits the variables
of the set one by one (a recursive function, as its loop), in whatever order `reduce_instance` left
them, pushing and popping as it meets them. It implements `Covering` (`PlacesServe`), whose sets it holds (`StacksHold`).

`Ranking` – the scan of a row in the integers of the code: `long long` scores cut to
`int` from `-Half` to `Half - 1`, the combined score an `int`, the products with costs wider, and
`sr`, `ct`, `ps` that stay behind when a tie goes to the later set. Its properties
compare the answer with exact arithmetic.

`TransCnf` – `requests2paramsV4` of `trans_cnf.py`, an operator on the numbers of the file;
what the clauses mean to a Max-SAT solver is beside it. `Solver` reads the same file with both.

### runsolver

`History` – trees are numbered as they are created, `deleted` has those that were freed. A
sample makes a tree (`Sample`) or finds the root gone and frees the one it made
(`SampleEnded`); `displayProcessData`, `dumpHistory` and `destroy` are as in the code, and `push`
is part of a sample. The dump is the loop over the cells, oldest first. `Garbage` is what an unset `float` may hold.

`OutputFilter` – a byte is the number of its place in the output. `write` begins a call with
any number of bytes, `copy` is one turn of its loop, `flush` the end; `SysWrite` and `SysError` are
`write(2)`, which may write a part, be interrupted or fail.

`Stamper` – the solver prints characters into pipes (`Environment`), which the thread reads in
pieces of any size (`Thread`: `select`, the scan of the ready streams, the lines, the end). The lines of
a piece are a loop that adds to the file. A stamp is the CPU time published. The line `EOF` is written or not, as the option says
(`AddEOF`); it goes through an entry of a vector that is empty by then, which is taken for an ordinary write (see the table of departures).

`Cores` – the listing, by mask or by processor, the printing of ranges, the parsing of
the options (each a sequence of numbers and ranges; there may be several, each of which replaces the mask of the one before), the masks set. The loop over the cores is a recursive
function (`Turns`) of the number of turns.

`Accounting` – processes fork, run, exit and are waited for between any two reads of
`/proc`. A reading of all processes lists them by parts of any size (`Readdir`: what has come behind the last one read is still found), one
after the other (`ReadNext`); an update goes down the tree of the sample before (`UpdateNext`). Then
come the sums and the limits (`Account`), or the root is found gone (`RootEnded`). When a limit is met `stopSolver` takes a sample of its own, of all
processes, within the timer's (`StopSample`). All samples are the timer's: the one of the
handler, which may race it, is left out, so that what is said of CPU time is said as long as no signal comes to runsolver.

`Watcher` – the threads. Each has a program counter, and steps at each shared read or
write; `trees` are the two trees the pointers name, with what the copy constructor
leaves out. `stopSolver` and the thread it creates are there once for each of its callers.

### Proofs and instances

The modules `MC...` are the instances for TLC. The proofs are in

| Module | About |
|---|---|
| `SumProofs` | `Sums`: adding an element, a subset, a sum of sums, a change of one term; `Listing` |
| `SearchProofs` | `Covering`, `StackArrays`, `Stacks`, `Search`, `LocalSearch`, `Ranking` |
| `ReduceProofs` | `Reduce`, `Solver`, `TransCnf` |
| `WatcherProofs` | `Watcher`, `Cores` |
| `HistoryProofs`, `OutputFilterProofs`, `StamperProofs`, `AccountingProofs` | the module of that name |

Operators introduced by a comment "The mutant ..." are variants with a plausible bug
in them. No specification uses them; `PROJECT.json` pairs each with a property that
must fail when the variant takes the place of the definition after it.

## What is checked

A property that has several parts is a conjunction of definitions with names of their own, each
with a comment: `LocalInv`, `ReduceInv`, `ScanAnswers`, `DumpHolds`, `CharsKept`, `LinesStamped`,
`CoresListed`, `CoresGiven`, `AccountsHold` and `WatchHolds`. The type invariant of a module is
one of the parts, or is proved and not in a run.

### NuWSC

| Run | Specification and bounds | Shows |
|---|---|---|
| `covering` | `StacksSpec`; 3 variables, 4 sets, weights up to 2, every order of the variables | scores, second scores and redundancy are exact (`ScoreExact`, `PscoreExact`, `ZeroStackExact`); arrays, index arrays and sets agree; picking by place is legal |
| `search` | `FairSearch`; 3 variables, 4 sets, 2 tries of 5 turns, clock read every 2 | best solution exact, promise kept, no cover lost, calls to `flip` legal; it returns |
| `local_search` | `FairLocal`; ring of 6 variables and 6 sets, one of cost 0, 2 tries of 3 turns | swaps pay off, stamps stay turns of a try; the search returns under the real rules: they always find a set |
| `reduce` | `SolverSpec`; all instances of 4 rows over 4 sets, rows of one, two and three sets; three choices of costs | decisions keep an optimum, costs add up, the search gets what it needs; `check_solu` finds nothing wrong, whatever cover the search returns; both readers of a file see the same instance |
| `ranking` | rows of two and three sets, ints from -16 to 15 (`Half = 16`), scores that do and do not fit | the best set is found where the order is transitive and the weights fit; a clear winner always; two different sets |
| `final_cover` | `LocalSpec` as in `local_search` | **fails**: see Findings |

Why the bounds are enough. In `covering` one variable is in all four sets and others in two
or three, so that counts go through 4->3->2->1->0 and back with each set as the one
to leave, and weights differ; two sets may be redundant at once, and a set leaves from the
bottom, the middle and the top of an array. In `search` covers of one to three sets exist, the first
can be improved, samples are smaller than the stacks (`T = 2`), and both tries and
clock run out. `MaxWeight` bounds the weights: `update_weight` runs at most once a
turn, so `MaxWeight > max_step * max_tries` never blocks it (`SearchAssumption`; liveness
confirms that nothing gets stuck). In `local_search` redundant sets with a cost and
redundant sets without one both occur, and the second try meets stamps of the first. In `reduce` it takes four rows
for a set not to lie within a larger one with which it shares a row, or for three sets
that could wait for each other in a chain; the costs bring ties, ties after a shift, and
two shifts to one set. `max_step` and `max_tries` are
`INT_MAX` in the code: few turns are checked, and the proofs are for every number. In `ranking` a third
set is what stale values need; with 5 bits sums wrap and cuts change a sign.

`FindsBest` holds under two conditions, which are stated in it: `Fit`, the weighted scores fit an
`int`, and an order that is transitive, as for equal costs (the instances STS and SCPC) or for
sets that differ in combined score per cost. With mixed costs and ties the order is not
transitive, and with the stale values a scan may return a set another one beats; nothing
in the repository says it should not, so that only `ClearWinnerFound`, for all costs, is stated.

Deadlock is not checked in `search`, `local_search`, `final_cover`, `reduce` and `ranking`, which end.

**Fairness.** The program is one thread that never waits, so weak fairness of the
turn of the loop is all that is assumed (`FairSearch`, `FairLocal`). The clock
(`TimeUp`) has none: it may never expire.

### runsolver

| Run | Specification and bounds | Shows |
|---|---|---|
| `history` | 3 cells, 19 trees | ownership of trees, order of age, sparseness, the dump |
| `output_filter` | 2 bytes at the beginning, 5 in all, 12 of input | the file, whatever `write(2)` does; calls return |
| `stamper` | two streams, reads of 2, three characters | every character once, stamps, EOF, end of the thread |
| `cores` | all machines of 4 cores on 1 or 2 processors, any number of lists of 2 items | lists, what is printed, masks |
| `accounting` | three processes, 2 units of time, 4 samples and that of `stopSolver`; no signal | published time never goes back, no child has two fathers, a sample is exact when undisturbed, the report covers what was waited for |
| `watcher` | a solver that forks, or one SIGTERM at any moment after the start | a limit is enforced, after a limit or a signal a killer is created, nothing is killed or taken for ended without a reason, runsolver ends |

Why the bounds are enough. In `history` 19 trees fill the third cell and overflow the first two
several times (each cell gets half of what the one before gets). In `output_filter` calls of all
lengths end before, at and after the edges of the head and of the ring, which is filled more
than twice. In `stamper` three characters cut a line by a read, put two lines in a read, and end
streams with and without a newline, in both orders. In `cores` four cores give ranges, gaps and
processors that alternate. In `accounting` a child, a grandchild and one that is adopted all occur;
the samples are in turn updates and readings of all processes, two of each, the limit (2) is what all processes may use together, and is met early when
time is counted twice; the other limits are met at any sample. The report takes the last sample for truer than `wait4` on both
accounts: `wait4` says less, or more by over a second (`Jump = 1`, 60 in the code). In `watcher`
every second sample is a full one (the code has one in ten) and each thread passes its loop as often
as it likes; nothing counts up but the forks, the signals and the phase of the samples.

Where they stop: `watcher` has one child or one signal, not both (together they exceed what TLC
does in minutes; the theorem on `WatchHolds` is for both), and says of the limit only that it is reached. `LimitEnforced` and
`EndedWhenToldSo` are about executions without a signal; see below for what a signal does to them. `SomeoneStops` is about both: whatever the
timer and the handler, which may both be in `stopSolver`, do to each other's samples, a killer is created.

Deadlock is not checked in the runs of runsolver: it ends.

**Fairness.** The filter's `Step` has weak fairness: a call is never suspended for good, and a
`write(2)` that is interrupted for ever is left out. `Stamper`: the thread, not the
solver, which may go on printing. `Watcher`: each thread that can take a step takes one in the end, which
is what the scheduler of the kernel does, and so does the child on its way to `setpgid`; the
solver has none (it may never end by itself) and neither has the signal. A SIGTERM the
solver gets need not stop it; a SIGKILL does.

### Findings

`final_cover`: a redundant set that costs nothing is never dropped.
`select_set_from_zero_stack` looks for a cost above 0 and answers -1, upon which
`local_search` returns. If this happens at the first cover, no solution has been
recorded, and `check_solu` prints "best solu is wrong in 0". The run shows it
under the code's own rules and on an instance that `reduce_instance` leaves as it is.
For positive costs the opposite is proved (`PromiseKept`).

### Where else the code departs from what it says

No run is about these; the modules follow the code, and those with a property in the last column
fail in the run of their module if the property is added to its `.cfg`.

| Line | What happens | Property |
|---|---|---|
| `trans_cnf.py:173` | the soft clauses number the sets from 0, the hard clauses from 1: the last set costs nothing and the others have the cost of the one before | – (`SoftClauses`) |
| `runsolver.cc:328` | the dump starts at `lastDisplayedElapsedTime`, which has no value when the solver ends before a sample is displayed | `AlwaysDumpsNewest` |
| `runsolver.cc:1865` | `activate*1024*1024` overflows an `int` from 2048 MiB on | not modelled |
| `runsolver.cc:945` | a single number in `--cores` is an index without a bounds check; ranges have one | `SelectsExisting`, with `Singles <- PlacesAndOneMore` |
| `TimeStamper.hh:208` | with `--add-eof` the line `EOF` is written through `watched[0]`, of a vector from which the last stream has just been erased | not modelled (`LastLine`) |
| `Cores.hh:121` | masks of more than 32 cores have commas, which are decoded as four cores each | – (`Column`) |
| `runsolver.cc:500` | a child waited for between the reading of its father and its own is lost time in one sample and its father's in the next; the CPU limit is "reached" early | `TrueAlarm` |
| `runsolver.cc:503` | a child nobody waits for, between two samples, is in no report, in spite of the README of runsolver | `NoneLost` |
| `ProcessTree.hh:206` | the root reaped during the last sample is reported twice | `NoneTwice` |
| `ProcessTree.hh:71` | the process groups are not copied with a tree, so that an orphan of a group of its own survives "Kill them all!"; `runsolverGroupId` is not copied either, so that runsolver may kill itself, which Changelog 3.3.3 says was fixed | `AllKilled`, `NeverKillsItself` |
| `runsolver.cc:1581` | `stopSolverThreadStarted` is set after the thread is created, and `run` may look between | `KillerJoined` |
| `runsolver.cc:467` | the handler replaces `procTree` while the timer looks at it; the timer takes the root for ended and SIGKILL is not sent | `SignalEnforced` |
| `runsolver.cc:1556` | a SIGTERM before the solver runs (`EarlySignals`) uses up `stopSolver`: limits are enforced no more | – |

## What is proved

Every invariant and action property that a passing run checks is a theorem too, for every value of
the constants that the assumptions of the modules allow; those about `Cores` have hypotheses on the machine besides. Each proof has an
inductive invariant that implies the property; most are a conjunction of named parts, and a step of the program
has one step of proof per part it can disturb. Loops inside one action are recursive functions; what they compute
is proved by an invariant of the loop, over an interval of the numbers of turns.

### The search (`SearchProofs`)

For every finite instance, from `InstanceAssumption` (and `SearchAssumption`, which
says that `INT_MAX` exceeds all costs, that rows have two sets or more, and that the
weights have room):

* the bookkeeping: `Inductive`, and from it `TypeCorrect`, `WitnessesExact`,
  `CostsExact`, `ScoresExact`, `PscoresExact`, `ZeroStacksExact`, `FlagsMean`;
* the search: `SearchTypeCorrect`, `BestsExact`, `BooksKept` (the search
  implements `Covering`), `CoversKept` (nothing is uncovered in a cover before it, or
  one as cheap, has been recorded) and, for positive costs and more turns in a try than there
  are sets, `PromiseKept` (the search implements `Anytime`);
* the rules: `RulesImplement` (`LocalSearch` implements `Search`, with all that is
  proved of it) and `SwapsPay` (`LocalInv`).

The argument. `ScoreExact` says what a score means: the change in covered weight if
the set were flipped. It is not inductive: one flip sees only its own rows. `IInv`
says it locally (`LocalScore`, `LocalPscore`): a chosen set's score is minus the
weight of the variables it alone covers, another's is the weight of its uncovered
variables, and one level up for `pscore`; with `WitnessExact`, which tells whom to
credit, each count 0->1->2->3 and back changes these sums by just what `flip` adds.
A sum is the cardinality of a disjoint union (`Units`, `Total`), so that the lemmas of
`SumProofs` follow from the library's facts on finite sets. `WeightSums` then
brings back the global meaning, and `ZeroIsRedundant` that of `zero_stack`: score 0 is
redundancy, because weights are positive.

The search adds `SearchInv`: types, `BestExact`, and `PendingSwap` (between the two
flips of a swap the set to come still covers something new). `BooksKept` follows as
each flip of the search is one that `Covering` allows. `CoversKept` adds `CoverFirst`,
which says what the program knows at the two places that remove sets: at `descend` the
cover is recorded or beaten, at `remove` something is uncovered already; dropping a
redundant set keeps a cover by `ZeroIsRedundant`. `PromiseKept` needs `FirstCover`
besides: until the first record the search only drops redundant sets, one a turn; the
solution shrinks as `step` grows, so that the turns of the try suffice, and no return
is reachable before.

`RulesImplement` is about the rules finding something: whatever a scan starts from and whatever ties leave behind,
`select_set_Novelty` and the scan of a sample end with a set of the row or the sample, and so with one
that `Search` allows. `SwapsPay` rests on exact scores: `flip` turns the score of the set that goes round, and what
it uncovers can only raise the score of the set to come (`LossRaises`).

### The stacks (`SearchProofs`)

`StackArrays` has no assumption on the elements. `PushHolds`, `CoverHolds` and `TakenOutHolds` say
of each operation that an array that holds a set (`Holds`: filled with its elements, each once, the
index of each its place) holds the set after it; `MovedHolds` is the move of the top into the gap. The case to
see is the element that *is* the top: the index that stays behind is then above the
fill pointer (`cover`) or told by it (`remove_set`), as `PushTells` and the last part of `StacksHold` say.

`StacksInStep` (`StacksHold`) and `StacksImplement` (`PlacesServe`: `Stacks` implements `Covering`) are about
`flip` as a whole, the variables of a set in any order. `Entering` and `Leaving` are the invariants of its loops: after the
variables of `D` the arrays hold the sets that `Covering` has, had the set that is flipped just the variables of
`D`, and the scores by which `zero_stack` is filled are part of the way from the old to the new ones.

### The scans of a row (`SearchProofs`)

For ints of any size, any row of two different sets or more and any scores, weights and costs above 0 that fit an
int, by `ScanInductive`: `BestFound` (`FindsBest`, whose conditions are `Fit` and `Transitive`) and `ScanAlwaysAnswers`. A
scan keeps a set found and values to compare with, which may be those of another set. The invariant `Scanning` says
that they are those of a set seen that *ties* with the one found; where the order is transitive, sets that tie
exceed the same sets, so that the stale values compare right. `Winner` is the part that needs no
transitivity: a set that exceeds every other is found when it is seen and never given up.

### The reduction (`ReduceProofs`)

For every instance in which no row names a set twice and no cost is negative. `RInv`, and from
it `ReduceTypeCorrect`, `ChainsNever` and `SearchIsReady`. `Decision` says what all the comparisons of a row may come
to: keep things as they are; take a set and leave others whose rows it has; or make a set wait for a larger and
dearer one. That there are no chains rests on sizes: who waits for `b` does so on account of a row
in which `b` is strictly largest (`WaitsForLargest`); a set that waits has all its rows in a larger one, so that
no other can have been waiting for it. `SearchReady` rests on `LeftSafely` (a row of a set that is left
has a settled set or is deleted), `AloneTaken` and `SeenDeleted` (the second pass deletes the rows of
settled sets, and settles none).

`BInv` adds the books: `BooksBalance` (`ReduceInv`: whatever free sets the search chooses, it pays what the completed solution
costs in the file) and `OptimumIsKept` (`OptimumKept`). Neither is inductive alone. `OptimumReachable` says the second with a
witness: for every cover there are free sets that cover the rest as cheaply. After a decision these are the
free sets chosen before without those the decision settles: what they covered is covered by the set taken
(`TakeSafely`), or by the set that waits or the one it waits for, whose costs were shifted for just that (`WaitSafely`). `WaitersWithin`, `LeftWithin` and `DeletedCovered` say why the
completion covers the rows that were deleted.

The way through `main`: `SolverReduces` (`Solver` takes the steps of `Reduce`, so that the theorems hold in it), `NothingIsWrong`
(`NothingWrong`), with `Checking`: after the sets below `c` are completed in place the solution is the
completed one below `c` and the search's above it, which works as there are no chains. And `ReadersAgree`
(`SameInstance`): the loops of `build_instance` and of `trans_cnf` find, row by row, the pieces of which the file is made; the clauses
of the rows weigh `top`, which is more than all soft clauses together, and just those are hard.

### The history (`HistoryProofs`)

For every number of cells: `HistoryInductive` (`HInv`), and from it `HistoryTypeCorrect`, `TreesOwned`,
`CurrentTreeAlive`, `CellsByAge`, `TreesFreed`. `AgeOrder` compares the trees of different cells, and
`push` passes the older tree on while the newer is freed; what is needed besides is that a tree is in one cell
only, that the trees not freed are those in cells or in use, and that all of them are older than the next one.

`DumpsInOrder` (`DumpHolds`) is about the loop of the dump, which skips what was displayed: with `AgeOrder`, and times that
do not go back (`Times`), what it prints ascends. `PastThinsByHalf` (`ThinsByHalf`) says how far the past is thinned out: `Spaced`,
the trees of cell `c` are `2^c` samples apart, within a cell and to the next one.

### The filter (`OutputFilterProofs`)

For all sizes, all inputs and every outcome of `write(2)`: `FilterInductive` (`FInv`), and from it
`FilterTypeCorrect`, `BufferHoldsNewest`, `BeginningAtOnce`, `FileSaved`. `FInv` is `TypeOK` with
`Control` (what is left of a call, at each place of it), `RingHolds` (each place of the ring has the newest byte that
belongs there, by the position modulo the size), `TurnsRound` (the ring is full once it has turned) and
`FileClaim` (what the file has while `flush` writes its two halves). A byte being its number, "the first and the last bytes, in
order" is about intervals, and the modulo is used in one lemma only. `FileInOrder` (`InOrder`) adds `OrderInv`: what
`write(2)` leaves of a piece goes on where the file ends.

### The time stamper (`StamperProofs`)

For any streams, sizes of buffer and amount of output: `StamperInductive` (`StInv`), `EveryLineStamped` (`LinesStamped`) and
`EveryCharKept` (`CharsKept`). The file is one, the streams are several, and whether a line goes on is kept twice,
by stream and for the file; `FileInv` says what both flags mean (`AtStart`), and what the file must be like for another piece to be
added (`Sheet`, `Unended`). One turn of the loop over the lines of a piece keeps this, and so does the piece. `Watching`
says that a stream found ready by `select` can still be read when its turn comes: nobody else reads it, so that
`read` does not block. `Transparent` follows, as what was read and not written is what is left of the piece.

### CPU time (`AccountingProofs`)

For any processes, limits and numbers of samples: `AccountsInductive` (`AInv`), `AccountsExact` (`AccountsHold`), `TimeNeverBack`
(`NeverBack`) and `QuietIsExact` (`SampleExact`). A sample is put together while processes fork and end, so that it need not be a
tree at all; that the sums over it end, and count nothing twice, rests on `EntriesOK`: a child has one father,
and a higher number (processes are numbered as they are forked, and no number comes again), whatever part of `/proc` was listed when. The sum over the
descendants, computed level by level (`Steps`), is then the sum over a set. `TimesKept`, a part of `KernelOK`, says that
no time is counted twice when processes end and are waited for; `Reading`, that while nothing moves an entry is true, or
its process is still to be read from the part listed, or is behind that part; `Books`, that a solver stopped for its time has used it as far as was counted, and what the report is
made of.

### Starting, watching, stopping (`WatcherProofs`)

For solvers that fork and signals that come in any number and at any moment, together (the run has one or the other):
`WatchInductive` (`WInv`) and `ThreadsAgree` (`WatchHolds`). As long as no signal comes the
timer is alone with the two trees (`TimerAlone`), so that a tree it has filled has the root, unless `wait4` was faster
(`RootInTree`), and it takes the root for ended only when it is. No thread that kills is created without a limit
or a signal (`Reasons`).

### The cores (`WatcherProofs`)

For machines whose cores are numbered below 32 (`FewCores`: beyond, `Column` does not decode what was encoded, see the table
above), any mask of runsolver and any lists: `CoresInductive` (`CoresInv`), `CoresAreListed` (`CoresListed`) and `PrintedRanges`
(`PrintedReadsBack`). A core is listed when the loop comes to the lowest of its processor, and skipped when it
comes to the core itself. The invariant of the loop (`LoopOK`) says which cores are then listed and
which are left; that a processor is listed as a whole or not at all (`Complete`); that all cores
the loop has passed are listed, or there is one without a directory, where it stopped (`Looked`); and that cores
are in order within a processor, and processors in the order of their lowest cores (`Sorted`). `RangesHold`, that the ranges of
a list are the list, holds for every list of numbers: within a range the numbers are consecutive (`RangeRuns`), and
every place is in a range (`RangesCover`).

`CoresAreGiven` (`CoresGiven`) needs two things more, which the run's instances have too. `Gapless`: every number below that of a core
is a core's, for the loops that list the machine stop at a number without a directory, and cores
beyond it can be missing. `SinglesListed`: a
single number is one of the cores, for the code does not look (`runsolver.cc:945` above). Then both
lists of the machine are complete (`AllCores`, `AsManyPlaces`), a core is at its own place of the
one by number (`OwnPlace`), and every item adds to the mask what it asks for (`GivenInv`). That runsolver goes to the last
core of the processor that begins last (`LastIs`) follows from `Sorted`.

### Model-checked only

* Liveness (`Termination`, `LocalTermination`, `CallsReturn`, `ThreadEnds`, `Ends`, `LimitEnforced`,
  `SomeoneStops`): it
  needs fairness, that is `ENABLED`, which the prover does not handle.

## Not modelled, and the plan

NuWSC: memory (`all_memory`, `free_memory`), `check_cur_solu`, which only prints, and the reading of
parameters; the heuristics no code calls (the `compare` with six arguments, `compareV3`, `select_uncover_set`,
`select_novelty_explore_set`, `select_set_Greedy`, `select_set_ExploreSparrow`,
`select_set_TabuSparrow`, `select_set_Sparrow`, `select_set2`); the three readers of `trans_cnf.py` that it
does not call. Outside `Ranking` integers are unbounded. The random choices are nondeterministic.

runsolver: `SyscallsTracer`, `Observer`, `ProcessList` and `SignalNames` are not compiled (nothing defines
`WATCHSYSCALLS`), and the Makefile does not build `vlineSplitter`. The limits on wall clock time and memory are
met or not, at any sample; that on the stack is set before the solver runs. Tasks (threads) of the solver, the reuse of process
numbers, the pty, the redirections, the deletion of IPC queues, the arithmetic of `--output-limit`, and the
layout of what is printed are left out. The handler runs in the main thread only, and its calls of library
functions that hold a lock are not looked at. `wait4` resumes after it, as SA_RESTART makes it.

Scripts and the binaries of Max-SAT solvers are not modelled.

Next: `Watcher` with a child and a signal at once in TLC, for the liveness properties.
