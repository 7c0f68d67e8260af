# Verification of multi_threading_sat_solver

The program reads graphs from standard input and prints, for each, a vertex cover found by
three solvers that run concurrently: CNF-SAT-VC (a reduction to SAT, solved by MiniSat, in a
child process with a 14 second limit), APPROX-VC-1 (greedy by degree) and APPROX-VC-2 (random
vertices). This directory holds TLA+ modules translated from the C++ sources, the TLC
configurations that check them and the proofs that TLAPS checks.

Line numbers without a path are those of the repository's own `main.cpp`, `MyGraph.cpp` and
`helpers.cpp`; the vendored solver is under `src/minisat/minisat`.

## The system

| part | state it keeps | operations | talks to |
|---|---|---|---|
| main thread (`main.cpp` `main`) | `graph`, `first`, `check_timeout`, `thread_deleted`, `g_cancel`, stdin | read and parse a line, copy the graph three times, create or re-create threads, signal, print the separator, cancel, join | the solvers, through `graph_t1..3`, three `ready_for_task` flags, `g_cancel`, `g_mutex` |
| `cnf_sat` thread, one per graph | its place, the clock, the pid of its child | fork, poll with `waitpid(WNOHANG)`, clear its flag, give up after 14 s, kill | its child (fork, waitpid, SIGTERM), main (flag 1), `g_mutex` |
| child process of `cnf_sat` | a copy of `graph_t1` and of `g_mutex` as they were at the fork | `CnfSatVc`, lock, print, unlock, exit | its parent only, by ending |
| `approxCv1`, `approxCv2` threads | their place; `graph_t2`, `graph_t3` | spin on the edges, solve, lock, print, unlock, reset the graph, clear the flag | main (flags 2 and 3), `g_mutex` |
| line parser (`helpers.cpp`) | none of its own | `get_command`, `analyze_command` | `MyGraph` setters |
| graph (`MyGraph`) | size, edges, `triedToSetEdges`, `vertex_cover` | setters, resets, `getConnections`, `clearConnections`, the three solvers | MiniSat |
| shortest path (`findShortestPath`, `BFStree`) | trees, visited nodes, path | breadth-first search | reached from the command `s` only |
| MiniSat core (`Solver`) | clauses in a region, watches, trail with reasons and levels, branching heap, learnt clauses, budgets | `newVar`, `addClause`, `releaseVar`, `simplify`, `solve`, `implies`, `toDimacs`, setters, `interrupt`, garbage collection | `CnfSatVc`, its two executables, signal handlers |
| MiniSat simp (`SimpSolver`) | occurrence lists, literal counts, subsumption queue, eliminated variables and the clauses stored for them | the same, with `eliminate`, `substitute`, `setFrozen`, `freezeVar`, `thaw` | builds on core |
| MiniSat containers (`mtl`) | one buffer each | `vec`, `Heap`, `Queue`, `Map`, `IntMap`, `IntSet`, `RegionAllocator`, `sort` | core and simp |
| MiniSat executables (`core/Main.cc`, `simp/Main.cc`, `core/Dimacs.h`, `utils`) | options, exit status, result file | parse options, read the file, solve, report | the solver, signals, limits |

The only synchronisation between the threads is one boolean per solver, `g_cancel` and
`g_mutex`; condition variables are signalled but nobody waits on them (the `pthread_cond_wait`
calls are commented out). `graph_t1..3` are written by main and by the solvers without a lock.
That is where the hard behaviours are:

- *rounds*: main may read the next graph only when all three flags are down and it has raised
  them again. It reads the flags one after another while three threads clear them;
- *old `cnf_sat` threads*: a thread tests the flag it has itself cleared. Main may have raised it
  for the next round in the meantime, and the handle of the old thread has been overwritten;
- *fork with threads*: the child copies `g_mutex` whoever holds it;
- *copies*: main overwrites the graph of a running thread member by member;
- *timeout*: giving up clears the flag a second before the child is killed;
- *end of input*: a last line without a newline ends the stream together with its delivery;
- *failures*: `pthread_create` and `fork` may fail half-way, `std::stoi` may throw;
- *boundaries*: the vertex 0 passes the parser, `INT_MAX`, one random byte.

Inside MiniSat nothing runs concurrently but signals; what is hard there is state that must agree
over long sequences of calls:

- *watches and trail*: propagation rewrites the lists it walks; a watch lost today is a wrong model
  many decisions later; a clause deleted while it is a reason breaks a later conflict;
- *garbage collection* moves every clause in the middle of a search or an elimination;
- *preprocessing* strengthens and deletes clauses while it walks the lists they are in, and must be
  undone in models;
- *variables released* are given out again; *interrupts and budgets* stop a call between any two
  steps, which must leave a usable solver;
- *containers* at the end of their buffer or of their integers.

What makes each part correct: the parser never stores an edge above the size of the graph and
defines edges once per V line or reset; each approximate solver returns a cover and makes
progress with each pick; the encoding's first satisfiable size is the minimum and its model is
a cover, provided that MiniSat's answers are right, its clauses follow from those stated and none is
lost; the path of an `s` line is a shortest one; the containers do what their abstract counterparts
promise; the launcher keeps rounds apart, uses no graph while it is overwritten, loses and
duplicates no answer, and comes to an end. `PROJECT.json` lists each hazard at its line with
the properties that watch it.

## Modules

| module | models | kind |
|---|---|---|
| `LineParser` | `get_command`, `analyze_command` and the `MyGraph` setters as operators on a graph record | operators |
| `ParserApi` | any sequence of lines, launches (`edges.clear()`) and resets on one `MyGraph` | state machine |
| `VertexCover` | covers, minimum covers, the graphs the parser lets through | operators |
| `ApproxVC` | `approxCv1`, `approxCv2`, one pick per step | state machine |
| `CnfEncoding` | `CnfSatVc`: the clauses, the loop over the size | state machine |
| `ShortestPath` | `findShortestPath`, `BFStree`, the `s` line, on top of `ParserApi` | state machine |
| `SatTypes` | literals, truth values, clauses, the clause region, occurrence lists | operators |
| `Solver` | the methods of `Solver` on a record of its members | operators |
| `SimpSolver` | the methods of `SimpSolver`, likewise | operators |
| `Minisat` | a client that makes the calls of a script; the loops of `solve_`, `search`, `eliminate` step by step | state machine |
| `MinisatMain` | command line, DIMACS file, `main()`, signals and limits, exit status | state machine, uses `Minisat` |
| `Mtl` | the methods of the containers on records of their members | operators |
| `MtlClient` | any sequence of legal calls on one container | state machine |
| `Containers` | what containers promise: sets, sequences, functions, addresses | abstract specification |
| `Rounds` | what the user is promised: accept, answer, close, end | abstract specification |
| `Pipeline` | main, the solver threads, the `cnf_sat` threads and their children | state machine, uses `LineParser` |
| `MC*` | instances for TLC | |
| `ParserApi_proofs`, `ApproxVC_proofs`, `CnfEncoding_proofs`, `Pipeline_proofs`, `Mtl_proofs`, `Minisat_proofs` | theorems about the state machines | proofs |
| `Solver_proofs` | theorems about the methods of `Solver`: what each leaves of an object | proofs |
| `Recursion_proofs` | lemmas: induction, recursive functions and concatenations, for the proofs about loops | proofs |

### `Pipeline` and the code

A graph is represented in `gEdges`, `gCover`, `cnf[j].job` and `answers` by its number, the order
in which main accepted it; 0 is the empty graph and the empty cover. `jobs` records what the
numbers stand for. One step is one access to shared memory that another thread could see between
two others; accesses nobody else can tell apart are one step.

| variable | code |
|---|---|
| `input`, `eof` | stdin, `std::cin.eof()`. A script's last element is what follows its last newline (empty, `Blank`, in a terminated file) |
| `main` | the place of the main thread: `loop`; `copy1 .. rest3` (267-269); `create1..3` (274-315); `sig1..3` (316-333); `clear` (299, 334); `end1..3` (389-404); `join1..3` (406-425); `done`, `failed` (`exit`), `crashed` (uncaught exception, join of garbage) |
| `gEdges[i]`, `gCover[w]` | `graph_ti.edges`, `graph_tw.vertex_cover` |
| `ready`, `mutex` | `thread_datai->ready_for_task`, `g_mutex` |
| `worker[w]` | the place in `approxCv1` / `approxCv2` (166-183, 193-210) |
| `cnf[j]` | the j-th `cnf_sat` thread: place, `late` (`timeout >= 14000000`), its child, the graph the child copied, whether `g_mutex` was held at the fork |
| `answers`, `seps` | what has been printed |
| `stale` | auxiliary: some `cnf_sat` thread continued to poll a child it had already waited for |

Main's actions carry the lines of `main` in order: `MainRead` is the whole body of lines 252-266,
getline and both parser calls included; `MainSeparator` is 341-349. `graph_t2 = graph` is two
steps for the solvers that run during it: the compiler-generated assignment copies `edges` first
and `vertex_cover` four members later. (Assigning the map itself is one step: what a solver would
see inside `std::map::operator=` is undefined and not modelled.) Reading three flags is one step
because a solver only ever lowers its flag and the two branches need all up or all down.
`WorkerPrint`, `CnfGiveUp`, `CnfKill` and `ChildPrint` join accesses that happen with `g_mutex`
held, or that nobody else can separate. Solving is one step: what the solvers compute is the
subject of `ApproxVC` and `CnfEncoding`, here it matters only whether and when they finish. A
graph with the edge <0,0> never finishes in the approximate solvers; a graph with the vertex 0 may
crash the child. The child is a process of its own and goes on after the program is over.

What the model adds to the code: `MaxLines` bounds the script; `MayFail` says whether
`pthread_create` and `fork` may fail.

### The others

- `LineParser`: a line is a record (which pattern it matches, the number, the pairs); the patterns
  themselves are not interpreted. `ReadNumber` is `operator>>` on an int, which saturates; `Throws`
  is `std::stoi` on a pair, in the order and with the short circuit of line 104.
- `ApproxVC`: the cover is built as a sequence and returned sorted, as a set. `std::max_element`
  returns the first maximum. `MaxPicks` cuts the list only where picks remove nothing: in the code
  it grows until memory is exhausted.
- `CnfEncoding`: clauses are sets of literals, `solve()` is exact and its model is any satisfying
  assignment. `SecondCondition` adds nothing to the result, since a smaller size would have been
  satisfiable before; `MinimumOnReturn` and `PrintedOnce` hold without it.
- `ShortestPath`: `Turn` is one turn of the `while` loop of `findShortestPath`: the trees of the level
  are checked one after the other, then replaced by the trees of their unvisited children. `Search`
  takes `MaxTurns` turns, by which the loop has ended (`SearchEnds`); the test before the loop is its
  first turn. `Ascending` gives the sort and the removal of duplicates in `getConnections` by their
  result. `asked` is auxiliary, the ends of the search the path in the graph belongs to. After a
  number above `INT_MAX` the end is any number, since the code leaves it uninitialised.

### MiniSat

`s` in `Minisat` is the solver object as a record. A reference to a clause is its address: `ca`
maps addresses to clauses (literals in their order, mark, abstraction, learnt or not), hands out
addresses in words as `Alloc.h` does, counts the wasted ones, and is replaced by a new region at a
garbage collection, so a reference that is not moved points to nothing.

| variable | code |
|---|---|
| `client`, `made` | the calls a program makes, how many it has made |
| `pc`, `frame` | the loop the running call is in, and the local variables of `solve_`, `search`, `eliminate` |
| `s.watches`, `s.occurs` | `OccLists` with their dirty marks; watchers with their blockers |
| `s.trail`, `s.trailLim`, `s.qhead`, `s.assigns`, `s.reason`, `s.level` | the same members; `VarData` is split in two |
| `s.heap`, `s.elimHeap` | the two heaps as sets |
| `added`, `alias` | auxiliary: the clauses and substitutions the client has stated |
| `exit`, `result` | exit status and result file of an executable |

A client makes only calls the library allows (`Legal`): literals of variables it has made, and in
clauses and assumptions none of a variable `eliminate` has taken away, as the assertions of
`SimpSolver::addClause_` and `solve_` (`SimpSolver.cc:119, 150-153`) demand.

One step of `Minisat` is a call that returns at once, one iteration of `search()` (propagate, then
learn, restart, reduce, or decide), one entry of the subsumption queue or one variable to eliminate:
an interrupt can be noticed between any two of them and nowhere else. The calls a step makes
(`propagate`, `analyze`, `litRedundant`, `strengthenClause`, `relocAll`, ...) are the operators of
`Solver` and `SimpSolver`; loops there are recursive functions on the number of rounds, in the order of the code.

Where data is abstracted:

- *activities*: the branching heap gives up *any* unassigned decision variable, `reduceDB` deletes
  *any* part of the clauses it may delete that its halving allows, random decisions and polarities
  are any. Every property therefore holds whatever the activities, the seed and the rounding are.
  The heap drops all assigned variables at once instead of when they reach the top, and `learnts`
  keeps its order when `reduceDB` sorts it: nothing depends on either but which clauses are deleted.
- *elimination cost*: the heap of `eliminate` compares the products of the occurrence counts as the
  code does; equal costs are a choice.
- *doubles*: fractions of integers, compared exactly.
- *budgets*: what remains of them.

`MinisatMain` builds the script of a program from its arguments and the tokens of its file. An
argument is a record of what the option parsers distinguish (name, sign, what `strtol` or `strtod`
makes of its text). A signal kills the process, exits at once or interrupts the solver, according to
the handlers that are installed; `-cpu-lim` comes as such a signal, and under `-mem-lim` any step may
run out of memory.

### The containers

`Mtl` has every method of the containers as an operator on a record with the members of the class;
ints have `IntMax`, words `WordMax`, so that capacities meet their limits. The step of a growing vector
(`Vec.h:100`) and the length of a growing queue (`Queue.h:53`) are sums of ints that can pass the largest
one; `WrapInt` gives what the build then computes. `MtlClient` makes every
legal call in any order; its guards are the assertions of the methods and, since an overflow is undefined
and is followed by writes outside the buffer, `StepFits` and `InsertFits`, which say that a call's sums fit.
`ret` records the last call and
its answer, and `Contents` maps the representation to the value `Containers` speaks of.

## What is checked

| run | question | size |
|---|---|---|
| `parser` | does any sequence of lines, launches and resets break the range of the edges or define edges twice? Is the path of `s` a shortest one, whatever came before? | every line of up to two pairs over 0..4, chains, squares and split graphs; `IntMax = 3` |
| `approx` | do both approximate solvers return a cover, without wasted picks, within the greedy bound? | every upward graph on up to 3 vertices with vertex 0 and loops, every simple graph on 4, four on 5; 4 random values, fewer than there are candidates in the largest |
| `encoding` | is the first satisfiable size the minimum, is every model a cover, each vertex once? | every directed graph with loops on up to 3 vertices, every simple graph on 4 |
| `minisat` | is every answer of the solver right, does every stored clause follow, is none lost, do watches, trail and occurrence lists stay consistent, do the executables report the truth, does every call return? | 16 scripts of library calls on up to 5 variables and 14 clauses, 20 runs of the executables: 24 thousand states |
| `mtl` | does every container implement its abstract counterpart and keep its representation? | up to 9 elements, ints up to 11, words of 6 bits: 115 thousand states |
| `launcher` | every interleaving: rounds, order, no overwriting, accounting of `cnf_sat` threads and children, refinement of `Rounds` | seven inputs, up to two graphs: 0.8 million states |
| `launcher_live` | does the program end, and answer what it accepted, when system calls may fail and children may take for ever? | seven inputs of one graph |
| `launcher_hang`, `launcher_blocked`, `launcher_wiped`, `launcher_last_line` | is every graph answered with the cover each approach computed (`README.md:56`)? | two graphs, or one without a final newline |
| `minisat_reuse` | is a model a model (`Solver.h:122`) when released variables are used again? | one client, six variables |

Why the bounds are enough. Two graphs are what the launcher needs: the first is the only one that
creates the worker threads, the second finds them running, re-creates the `cnf_sat` thread and
coexists with the one before; the second also needs no V line, so the size is a leftover. The
properties that count rounds are proved for any number (below). The inputs contain a vertex 0, an
edge <0,0>, a number above `IntMax`, an edge above the size, a rejected line, and a missing last
newline. Every kind of line and every combination of the parser's two conditions is reached with
`IntMax = 3`. In `approx` the candidates outnumber the random values, so the modulo matters.
The scripts of `minisat` are chosen for what they reach: problems without a model and with few, deep
enough for learnt clauses of three literals, for restarts, for `reduceDB` with clauses that are
reasons, and for a garbage collection within a search; clauses that are tautological, unit, empty or
satisfied; a released variable that is given out again; assumptions, budgets, user polarities,
each minimisation mode; `eliminate` with frozen variables, with and without turning it off, with
asymmetric branching and `rcheck`, and a substitution; interrupts at every point. `Opt` and the
arguments of the runs bring limits within reach (a restart after one conflict) that are options of the
program. In `mtl` a queue of four elements has grown three times, while it wraps around too, and may not grow once
more (`InsertFits`); five pairs make a table of two buckets rehash; a vector throws at its ninth element and
when it is asked for the largest int, and a region fails at its limit. `VIEW view` leaves `ret` out of a state: no call
depends on it, and TLC checks the refinement on every step it generates, those to known states
included.

The configurations of the launcher, the parser, the graph functions say `CHECK_DEADLOCK FALSE`: the
program ends, and so do the functions. `MCMinisat` and `MCMtl` check for deadlock: a client that is done
stutters explicitly (`Idle`), so a call that could not go on would be found.

`stale` in the properties of the `cnf_sat` threads: the program has the defect `launcher_hang`
shows, and after it flag 1 may be down in a round whose graph has no answer of CNF-SAT-VC yet. The properties say what holds up to that
moment, in every interleaving; `RoundsComplete`, `AnswersInOrder`, `NoOverwriteInUse` and the
refinement hold without any such condition.

### Fairness

`FairSpec` of `Pipeline` gives weak fairness to main, to each worker, to each `cnf_sat` thread and
to the clock: the kernel schedules runnable threads, none of them blocks except on `g_mutex` and
in `pthread_join`, and time passes. Weak fairness is enough for the mutex in the runs because the
number of competing steps is finite. The child gets none: MiniSat may need longer than anybody
waits. `FairSpec` of `ApproxVC` is weak fairness of the sequential loop. `Fairness` of `MinisatMain` is weak fairness of the client's own thread, written with
the bit `clock` that each of its steps flips: a signal or a failing allocation cannot take its place, and
nothing is assumed about them. With `stale` or a graph
with <0,0> (`NeverSolved`) `Terminates` promises nothing; `launcher_hang` shows that the first occurs,
`ReturnsUnlessZeroZero` and `ApproxSpins` that the second does.

### What the violations show

1. `launcher_hang`: between a thread's clearing flag 1 and its testing it (lines 94 and 87), main can
   close the round and raise the flag. The old thread then looks once more for a child that is gone, takes
   the error of `waitpid` for its end, clears flag 1 again, sees it down and exits. If main has accepted no
   graph in between, flag 1 is down, the others are up, nobody is left to change one, and main reads
   nothing more.
2. `launcher_blocked`: a child forked while a solver prints inherits a locked `g_mutex`, blocks at
   line 65 and is killed after 14 seconds; its cover is lost.
3. `launcher_wiped`: from the second graph on, a solver may finish between the two halves of
   `graph_t2 = graph`; its cover is replaced by the empty one.
4. `launcher_last_line`: without a newline after the last E line, solvers may be cancelled before
   they have looked at the graph.
5. `minisat_reuse`: `removeSatisfied` (608-616) takes the false literal of a released variable out of a
   clause, but a watcher of the clause may keep it as its blocker. `newVar` gives the variable out again;
   once that literal is true, `propagate` (519) passes over the clause although it may be unit. The next
   `simplify` meets a clause whose first literal is false (the assertion of line 610 fails; a release build
   goes on) and frees a variable that is still in a clause, and the model at the end does not satisfy
   what the client stated. The same calls on the compiled library give the same model. The clients of
   the run `minisat` release a variable once (`Reuse`), where nothing of this happens: for clients like
   `ReuseTwice` the properties `NoMissedPropagation`, `AnswerIsRight` and `NothingLost` do not hold.

Of the graph program, `README.md:7` says that picking goes on "until no edges remain". On the edge <0,0>,
which the parser accepts (`helpers.cpp:104` tests only the upper bound), no pick removes it: `approxCv1`
takes the first vertex again and again and its list grows, `approxCv2` finds no candidate and goes
round. `ReturnsUnlessZeroZero` says so for the bounded graphs, `ApproxSpins` for all; the round of such a
graph is never closed.

`README.md:7` also describes the third method as choosing edges and taking both ends; `approxCv2`
(412-414) chooses a random vertex that still has an edge and takes that vertex alone, so its cover is not
bounded by twice the minimum. `ApproxVC` follows the code, and no property states the documented bound.

A late CNF answer is not a violation of a documented promise, but worth knowing: giving up clears
the flag at line 108 and kills the child a second later (the comment on line 110 says 100
milliseconds), so its answer can follow the separator; `CnfAnswersItsRound` says this is the only
way it can.

## What is proved

All theorems hold for every value of the constants under the modules' named assumptions:
`IntMax \in Nat`, for the containers also odd and large enough for the positions in a heap (`IntAssumption`);
an `s` line carries two numbers, as its pattern demands; scripts are sequences of lines
no longer than `MaxLines`; the graphs of `ApproxVC`
are graphs the parser lets through; `ByteRange` is positive; keys, elements and priorities are numbers;
the sizes of a hash table are a nonempty sequence of positive numbers (`PrimesAssumption`, as `Map.h:48-49` has
them); a region is asked for a positive number of words that fits a word, and its first capacity leaves room
to grow (`SizesAssumption`, `StartCapAssumption`).

- `PipelineTypes`, `RoundsAreComplete`, `AnswersStayInOrder`, `NoGraphOverwritten`
  (`Pipeline_proofs`). None of the properties is inductive: that no solver answers twice depends on
  where main is, on the graph the solver holds and on its flag. The inductive invariant `IInv`
  says that a spinning solver is always in one of five states, `Idle`, `Assigned`, `Busy`, `Told`,
  `Finished`, and ties them to the round (`Len(jobs) = seps` or `seps + 1`), to main's place
  (`Before(w)`: the graph is accepted but not copied to w yet), and to the number of answers. Only
  `Finished` has the flag down, which makes the three-flag test a barrier. `RoundInv` says why main
  cannot accept while a round is open: at `loop` its graph is empty and `check_timeout` is set, and
  a blank line changes nothing (`BlankLine`). `ThreadInv` says that each worker is created once and
  leaves only after `g_cancel`; `LockInv` that main holds the mutex only where it signals. None of it
  mentions flag 1 or the `cnf_sat` threads: these properties survive the polling defect.
- `AcceptedGraphsAreParsed`: with the range invariant `Fits` of main's graph.
- `LauncherImplementsRounds` (`Pipeline_proofs`): every step of `Pipeline` is a step of `Rounds` or
  changes nothing `Rounds` sees. Beyond `IInv` it needs `CountInv`: answers of CNF-SAT-VC plus children
  that may still print never exceed the number of `cnf_sat` threads, which never exceeds the graphs.
- `ThreadPerGraph`, `ThreadsKeepToRounds`, `NoGraphForgotten`, `AnswersInItsRound`, `PrinterHoldsMutex`
  (`Pipeline_proofs`). `CInv` adds four parts to `IInv`. `CreateInv`: `thread_deleted` is up wherever main
  has still to create the thread of its graph, so there are as many threads as graphs. `MutexInv`: who
  prints or kills holds `g_mutex`. `CnfInv`, up to `stale`: a thread either works on its own graph,
  in the open round and with flag 1 up, or it is `Quiet`, about to kill its child or done with it, and
  writes the flag no more; and the second before the kill does not last beyond the first signal of the
  next round, for which main needs the mutex (`KillsSoon`). `JoinInv`: once main has joined solver 1 the
  last thread has ended. The proviso is needed for the poll that follows the clearing of the flag, the
  step `launcher_hang` exhibits.
- `ParserTypes`, `GraphStaysInRange`, `OnlyVEndsRejection`, `SecondEdgesIgnored` (`ParserApi_proofs`),
  from `ParseKeepsGraph`, which the launcher's proofs share, and from what a line does to a graph that
  may not take edges (`OnlyVChanges`). `OnlyVEndsRejection` needs that a rejected graph has no edges,
  or a launch could change it. `SearchesOnlyRead` carries all four over to `ShortestPath`.
- `SearchEnds`, `PathsAreShortest`, `NoPathIsTrue` (`ParserApi_proofs`). `Level` says what holds after k
  turns without a hit: every tree hangs on a walk of k edges, the visited vertices and the roots of the
  trees are the vertices within k edges, with the roots new, and the end is not among them. A turn widens
  that ball by one edge (`NextLevel`); a hit makes a walk of k + 1 edges (`LongerWalk`) to an end that no
  k edges reach. While a tree is left the ball has at least k + 1 vertices, and it never has more than
  2|E| + 1 (`WithinIsFinite`), so the loop ends; once no tree is left the ball is closed and nothing
  outside is reached at any distance. The invariant of the state machine adds that the edges are
  finitely many and that the kept path belongs to the kept edges. The recursive functions are shown to
  exist by `Iteration`, and the inductions go by a least counterexample in a set (`InductionOn`), both in
  `Recursion_proofs`, as the library's induction theorems take operators.
- `ApproxTypes`, `ApproxCovers`, `ApproxSpins`, `ApproxProgresses` (`ApproxVC_proofs`): an edge that is gone
  was touched by a pick, hence <0,0> is never gone; picks are distinct vertices because a picked vertex has
  no edge left, and each removes an edge.
- `ApproxIsGreedy` (`ApproxVC_proofs`): give each vertex of a cover S 25 tokens, 12 times
  1 + 1/2 + 1/3 + 1/4. `Share(d)` is what it keeps while d of its neighbours are left. A greedy pick of
  degree d touches either a vertex of S that keeps at least twelve, or d neighbours in S that each lose
  at least 12/d, as none has a higher degree: twelve tokens leave with each pick (`PickFreesTokens`), so
  `12 * picks + tokens <= 25 * |S|` is an invariant. The tokens are a set of pairs and not a sum, so the
  proof needs cardinalities and no induction.
- `EncodingTypes`, `EncodingFindsMinimum`, `EncodingPrintsOnce` (`CnfEncoding_proofs`). `ModelsAre`
  says what the four conditions mean of an assignment: it matches the k columns with k rows that touch
  every edge. Hence the rows of a model are a cover of k vertices (`ModelIsCover`), and a cover of k
  vertices, numbered, is a model (`CoverIsModel`). The invariant is that no cover is smaller than the
  size being tried (`NoneSmaller`).
- `QueueKeepsFreeSlot`, `QueueImplementsSequence` (`Mtl_proofs`), for every number of elements for which
  the length of a new buffer is computed without overflow (`InsertFits`):
  first and end stay inside the buffer, and each call on a `Queue` is one on the sequence of
  `Containers`. The argument is `Slot`: where the element i places behind the first is, with one
  subtraction for the turn (`OneTurn`); `insert` puts x into the slot behind the last, and `Resize` copies
  the slots in the order of their elements (`ResizeKeepsOrder`).
- `SetFlagsMatch`, `SetImplementsSet` (`Mtl_proofs`), for every set of keys: `SetOK` is not inductive,
  for `reserve` appends flags that are down; `SetRep` adds that no member lies beyond the flags.
- `HeapKeepsOrder`, `HeapImplementsSet` (`Mtl_proofs`), for every set of keys and of priorities. While
  a key percolates, the array has a hole with the key's old neighbours around it. Every lemma speaks of
  the array with the hole filled by the key: a round then exchanges two keys (`HoleMoves`), which loses
  none and keeps the positions. `OrderedAbove` allows one key to be less than its parent, `OrderedBelow`
  to be greater than its children, and both add what a round needs, that the grandparent is not greater
  than the grandchildren; a round moves the exception one level (`UpStep`, `DownStep`), so the number of
  keys is enough rounds. `update` moves a key up and then down, though its priority has changed one way
  only: `StaysUp` and `UpdateKeeps` show that one of the two leaves it in place. `removeMin` needs that the
  positions are right when the last key is the first (`LastFirstMeans`), `build` that after the round at
  `lo` the order holds below `lo` (`HeapBelow`, `BuildRoundsKeep`), and the answer of `removeMin` that no key
  is less than the first (`FirstIsLeast`).

- `VecKeepsCapacity` (`Mtl_proofs`): capacities grow by even steps (`GrownMeans`), of half as much or of
  what was asked for, which is also why a vector only throws near the largest int. This needs that the step
  itself is an int (`StepFits`). As capacities are even and the largest int is odd, `push`, `copyTo` and
  `append` never break it; `growTo` does in one call, for the largest int on a vector without a buffer, and
  that call is no step of the client. `LargestIntOverruns` says what it does: the step wraps around to 2,
  nothing is thrown, and `IntMax` elements are written into a buffer of two. `push` in `append` is an
  iteration over the elements (`PushesExist`).
- `sort` (`SortIsPromised` in `Mtl_proofs`), for every array, every comparison that orders by a weight and
  every threshold: `selectionSort` puts a least element in place each round (`SelectionRoundSorts`). For the
  longer arrays, `Working` is the loop's invariant: up to `i` nothing is above the pivot, from `j` on nothing
  below it, and both scans still have an element that stops them, so neither leaves the array (`ScanUp`,
  `ScanDown`). The ends come closer by two (`SplitKeeps`), so the rounds are enough, and both parts are shorter
  than the array (`PartsMean`): that is what makes the two recursive calls end, and `SplitRecursion` is the
  lemma that a recursion on two smaller parts defines a function. Permutations are pairs of inverse functions
  on positions (`Permuted`), which compose, exchange and concatenate without counting.
- `MapKeepsBuckets` (`Mtl_proofs`): `Hashed` says of a table that every pair is in the bucket of its key
  and no key twice. A change of one bucket changes the pairs of the table by those of the bucket
  (`RowChange`), which gives insertion and removal; `rehash` inserts the concatenated buckets, whose keys
  differ (`AllKeysDiffer`), one by one into an empty table (`ReinsertKeeps`). The map a table stands for is
  the function whose graph is the set of its pairs (`MappingMeans`).
- `RegionStaysInWords` (`Mtl_proofs`): a round of `capacity()` wraps around only where the capacity is
  already near the end of the words (`EnlargeWraps`), so a loop that throws was asked for about 8/13 of them
  (`CapacityThrows`), and an `alloc` whose sum of words wraps around throws after it (`AllocMeans`).
- `TrailStaysInOrder` (`Minisat_proofs`), for all clients of Solvers (`Clients[i].simp = FALSE`), however many
  variables, clauses and calls they have and whatever the solver decides or deletes. `TrailInOrder` is not
  inductive: whether the reason of a literal is still there and has it in front depends on the watch lists,
  on which clauses are removed and on how references follow a collection. `Good(o, strict)` is what every
  method keeps: types (`Types`), clauses of two different literals at least (`Region`), lists in which each
  clause that is not removed occurs once, under one of its first two literals (`Lists`: removed ones only where
  the list is dirty), a trail whose positions are its levels (`TrailRight`), reasons with the implied literal
  in front and, if strict, falsified before it (`Reasons`), free and released variables off the trail or at the
  root. `implies()` needs the weaker form: it enqueues several assumptions at one level. `CoreInv` says
  which of these holds where a call is (`Fits`): an idle object is at the root with nothing left to propagate,
  a searching one may have the last level to propagate. The methods are theorems of their own in
  `Solver_proofs` (`PropagateGood`, `CancelBack`, `NewVarGood`, `AddClauseGood`, `SimplifyGood`, `ReduceGood`,
  `GarbageCollectGood`, `AnalyzeGood`) and `Minisat_proofs` (`LearnGood`, `ImpliesGood`), each from what the
  fields it writes are and a run of its loop (`PropRun`, `SkipRun`, ...): a sequence of objects in which each
  is the next round's, whose last one is the operator's result.
- `ClausesFollow` (`Minisat_proofs`), for the same clients: what a Solver keeps follows from the clauses its
  client has stated. The invariant `FineInv` is `CoreInv` with `FollowsFrom`: an assignment m that satisfies
  the stated clauses makes the object `Fine`, keeps `ok` and, where a search has just answered no, satisfies
  the conflict. `Fine(o, m)` is more than `EveryClauseFollows` says: the clauses that are
  not removed are those that are listed (`AllListed`), m agrees with the root (`RootHolds`), and m makes a literal
  of each clause true whose variable is not free to be reused (`LiveHolds`). Without the last part the
  invariant would not survive `newVar()`, which gives a released variable a new meaning: `NewVarFine` needs that
  no clause depends on it, which `SimplifyFine` shows when it recycles the variable, for by then every clause
  with it was satisfied at the root and removed. Each assignment is followed on its own, so nothing is said
  of sets of models. At a decision level nothing but the clauses has to follow; the work is in
  `AnalyzeFollows`: along the resolution, m makes one of the false literals true that are still to be looked at
  or are already in the clause (`Blames`), and if m falsifies what minimization keeps then it falsifies what it
  drops, by the order of the trail (`DroppedFalse`). `PropagateFine`, `AddClauseFine` and `GarbageCollectFine` are
  the other methods'.
- `AnswersFollow` (`Minisat_proofs`), for the same clients: the answers a Solver gives without a model follow
  (`AnswerFollows`): "no" comes with a conflict over negated assumptions that holds in every model, or there is
  none; "undefined" only when a limit is reached or the search was interrupted; `implies()` answers literals that
  hold in every model of the clauses and its assumptions, and refuses only where there is no such model. The
  invariant `AnswerInv` adds to `FineInv` that the search is `Backed`: up to the level of the last assumption
  every decision on the trail is an assumption (`AssumedFirst`), the conflict kept in the object is over
  assumptions, and a search about to give up has no budget left. `AssumedFirst` is what `analyzeFinal()` relies
  on without testing it: it puts every literal without a reason into the conflict. `FinalFollows` is about that
  method: along the trail, what is seen and still open is falsified by m or the conflict already has a literal
  that m makes true (`FinalFits`), and below the first limit nothing is open; hence the conflict is not empty
  where there is a model, which lets `solve()` take an empty one for a contradiction. That a restart, a jump
  back or a removal of clauses keeps `AssumedFirst` follows from the order of the trail (`FirstMoved`,
  `FirstCancelled`). For `implies()`, what is assigned holds in the model throughout (`AllHold`), so neither an
  assumption nor a clause is found false (`ImpliesRight`).
- `ContainersKeepRep`, `ContainersKeepPromise` (`Mtl_proofs`): the six invariants together
  (`ContainersInv`) give `RepOK`, and every step of `MtlClient` is a step of `Containers`
  (`CallIsPromised`), so what TLC checks of a few elements holds of any number, as long as the sums of
  ints fit.

Only model-checked:

- liveness under fairness (`Terminates`, `AcceptedIsAnswered`, `ReturnsUnlessZeroZero`,
  `EveryCallReturns`), which is out of the prover's reach;
- `Minisat` and `MinisatMain` beyond `TrailInOrder`, `EveryClauseFollows` and `AnswerFollows`, that is models,
  what `toDimacs()` writes and what is left watched (the rest of `AnswerIsRight`, `NothingLost`,
  `NoMissedPropagation`, `ExitIsRight`), and everything about clients of a `SimpSolver` (`OccursComplete` among
  it). For clients that release variables the first three cannot be proved, as `minisat_reuse` shows.

## What is not modelled

Of the program itself: printing and timing output; the interleaving of characters on stdout and output
buffered at the fork; accesses the C++ memory model leaves undefined (the project builds without
optimisation, and the model takes each access as it stands); the pipe `cnf_sat` opens and never uses,
and its descriptors; exhaustion of memory; `test.cpp` (sequential examples of the same functions), the
vendored `doctest.h` (a test framework, nearly half of the lines of the repository), the experiment scripts.

Of MiniSat: the arithmetic of activities, statistics, verbose output and usage texts; characters of
input files and arguments, hence overflow in `parseInt` (`ParseUtils.h:97`) and NaN as the value of an
option, which passes every range test (`Options.h:148`); result and output files that cannot be opened;
`Int64Option`, `CMap` and the clause iterators, which nothing uses; `Heap::remove` (`Heap.h:110`), which
nothing calls, and which moves the last key down only where it may have to go up; what a vector is after
`realloc` failed (`Vec.h:103` has set `data` and `cap` by then: the program must not use it).

Sequences of calls on a `SimpSolver` the runs leave out, because the code does not do what one might
expect:

- an interrupt inside `backwardSubsumptionCheck` (`SimpSolver.cc:351-354`) drops the queue and takes the
  root assignments as seen, after `strengthenClause` may have left a clause with both watched literals
  false: after `clearInterrupt`, the next `solve` can return a model that does not satisfy the clause. The
  executables never clear an interrupt;
- `solve_` leaves the model and the conflict of the call before when `eliminate` refutes the problem
  (127-133);
- `substitute` leaves the value of the replaced variable in a model undefined (546-575), which is why
  `ModelFits` speaks of the clauses with the replacement made;
- `RegionAllocator::capacity` compares a capacity that has wrapped around with the one before the loop
  (`Alloc.h:90-101`): a small region asked at once for nearly all of the 2^32 words goes round many
  times, or for ever. A call whose loop does not end (`CapacityEnds`) is no step of the client;
- `vec::capacity` and `Queue::insert` compute in ints that can overflow (`Vec.h:100`, `Queue.h:53`):
  `growTo(INT_MAX)` on a vector without a buffer and the growth of a queue of more than a third of `INT_MAX`
  write outside the buffer. Neither is a step of the client (`StepFits`, `InsertFits`). MiniSat's own calls of
  `growTo` ask for a number of variables or of literals (`IntMap.h:47`, `Solver.cc:877` and 921);
- `toDimacs` counts variables before it maps the assumptions (`Solver.cc:973-976`): the header may state
  one too few. `WrittenFits` is about the clauses.

## Plan

Done: the parser, the launcher, both approximations, the encoding, the shortest path, MiniSat with its
preprocessing, containers and executables, the abstract rounds and containers, and the proofs above. Left:

1. Proofs that no clause is lost (`NothingLost`) and none is missed (`NoMissedPropagation`) for clients that
   release no variable, then that models are right (`ModelFits`), on the facts of `Solver_proofs` and `FineInv`.
2. The methods of `SimpSolver` likewise: what occurrence lists and the queue keep.
