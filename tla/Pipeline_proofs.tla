----------------------------- MODULE Pipeline_proofs ----------------------------
(* Proofs about the launcher, for every set of scripts, every size of an int,  *)
(* and with or without failing system calls.                                   *)
EXTENDS Pipeline, SequenceTheorems, FiniteSetTheorems, TLAPS

-------------------------------------------------------------------------------
(* What reading one line does to a graph, for every line and every size of an  *)
(* int.                                                                        *)

(* What every graph satisfies that the parser leaves behind: edges only where  *)
(* there are vertices, and none that names a vertex above the size.            *)
Fits(g) == g.edges # {} => /\ g.n > 0
                           /\ \A p \in g.edges : p[1] <= g.n /\ p[2] <= g.n

(* Reading a line keeps the graph well typed, its size an int and its edges in *)
(* range (helpers.cpp:16-138).                                                 *)
LEMMA ParseKeepsGraph ==
    ASSUME NEW g \in Graph, g.n <= IntMax, Fits(g), NEW line \in Line
    PROVE  Parse(line, g) \in Graph /\ Parse(line, g).n <= IntMax /\ Fits(Parse(line, g))
<1> DEFINE command == GetCommand(line, g)
           h       == Parse(line, g)
<1> USE IntMaxAssumption DEF Graph, Pair
<1>1. CASE command = "V"
  <2>1. h = SetNoVertices(g, ReadNumber(line.num))
    BY <1>1 DEF Parse
  <2>2. ReadNumber(line.num) \in Nat /\ ReadNumber(line.num) <= IntMax
    BY DEF Line, ReadNumber
  <2> QED
    BY <2>1, <2>2 DEF SetNoVertices, SetSize, ResetEverything, Fits
<1>2. CASE command = "E"
  <2>1. g.n > 0
    BY <1>2 DEF GetCommand
  <2>2. CASE AllValid(line, g)
    <3>1. h = SetEdges(g, Range(line.pairs))
      BY <1>2, <2>2 DEF Parse
    <3>2. line.pairs \in Seq(Nat \X Nat)
      BY DEF Line
    <3>3. Range(line.pairs) \subseteq Nat \X Nat
      BY <3>2 DEF Range
    <3>4. \A p \in Range(line.pairs) : p[1] <= g.n /\ p[2] <= g.n
      BY <2>2 DEF Range, AllValid, ValidPair
    <3>5. h = [g EXCEPT !.edges = Range(line.pairs), !.tried = FALSE]
      BY <3>1 DEF SetEdges, ResetEverything
    <3> QED
      BY <3>5, <3>3, <3>4, <2>1 DEF Fits
  <2>3. CASE ~AllValid(line, g)
    BY <1>2, <2>3 DEF Parse
  <2> QED
    BY <2>2, <2>3
<1>3. CASE command # "V" /\ command # "E"
  <2>1. h = AfterGetCommand(line, g)
    BY <1>3 DEF Parse
  <2> QED
    BY <2>1 DEF AfterGetCommand, RejectsEdges, Fits
<1> QED
  BY <1>1, <1>2, <1>3

(* A blank line, which is what main parses while it waits for the solvers      *)
(* (main.cpp:258-264), changes nothing and throws nothing.                     *)
LEMMA BlankLine ==
    ASSUME NEW g
    PROVE  Parse(Blank, g) = g /\ ~Throws(Blank, g)
<1>1. GetCommand(Blank, g) = ""
  BY DEF GetCommand, Blank
<1>2. ~RejectsEdges(Blank, g)
  BY DEF RejectsEdges, Blank
<1> QED
  BY <1>1, <1>2 DEF Parse, Throws, AfterGetCommand

-------------------------------------------------------------------------------
(* The inductive invariant.  Between two separators a round goes through the   *)
(* places main has to pass; each spinning solver is, at every moment, in one   *)
(* of five states, and which ones are possible depends on whether a graph is   *)
(* accepted and not closed yet.                                                *)

OpenPlaces == {"copy1", "copy2", "rest2", "copy3", "rest3", "create1", "create2", "create3",
               "sig1", "sig2", "sig3", "clear"}
Launched   == {"create2", "create3", "sig1", "sig2", "sig3", "clear"}
Closing    == {"end1", "end2", "end3", "join1", "join2", "join3"}

\* Where main is while the edges of the new graph are not in graph_tw yet.
Before(w) == IF w = 2 THEN {"copy1", "copy2"} ELSE {"copy1", "copy2", "rest2", "copy3"}

\* A round is open from the acceptance of a graph to its separator.
RoundInv ==
    /\ Len(jobs) = seps \/ Len(jobs) = seps + 1
    /\ main \in OpenPlaces => Len(jobs) = seps + 1
    /\ main \in Launched => check_timeout
    /\ main = "loop" => graph.edges = {} /\ (check_timeout <=> Len(jobs) = seps + 1)

LockInv == Running /\ mutex = Main => main \in Signals

\* The spinning threads are started once, and leave only when they are told to.
ThreadInv ==
    /\ first => worker[2] = "none" /\ worker[3] = "none"
    /\ main = "create2" => worker[2] = "none" /\ worker[3] = "none"
    /\ main = "create3" => worker[3] = "none"
    /\ g_cancel => main \in Closing \union Halted
    /\ \A w \in Approx : worker[w] = "exit" => g_cancel

Idle(w)     == ready[w] /\ gEdges[w] = 0 /\ worker[w] \in {"none", "loop", "look", "exit"}
Assigned(w) == /\ ready[w] /\ gEdges[w] = Len(jobs)
               /\ worker[w] \in {"none", "loop", "look", "solve", "exit"}
Busy(w)     == /\ ready[w] /\ gEdges[w] = 0 /\ worker[w] \in {"lock", "print"}
               /\ gCover[w] \in {0, Len(jobs)}
Told(w)     == ready[w] /\ gEdges[w] = 0 /\ worker[w] \in {"reset", "finish"}
Finished(w) == ~ready[w] /\ gEdges[w] = 0 /\ worker[w] \in {"loop", "look", "exit"}

\* The number of answers follows the state: it grows between Busy and Told.
WorkerInv(w) ==
    \/ Len(jobs) = seps /\ Idle(w) /\ Len(answers[w]) = seps
    \/ /\ Len(jobs) = seps + 1 /\ main \in Before(w) \union Halted
       /\ Idle(w) /\ Len(answers[w]) = seps
    \/ /\ Len(jobs) = seps + 1 /\ main \notin Before(w)
       /\ \/ (Assigned(w) \/ Busy(w)) /\ Len(answers[w]) = seps
          \/ (Told(w) \/ Finished(w)) /\ Len(answers[w]) = seps + 1

InOrder(w) == \A i \in DOMAIN answers[w] : answers[w][i] \in {0, i}

\* The parts of TypeOK that change together, the range of the edges with the graph.
InputOK  == input \in Seq(Line) /\ eof \in BOOLEAN
GraphsOK == /\ graph \in Graph /\ graph.n <= IntMax /\ Fits(graph)
            /\ jobs \in Seq([n : Nat, edges : SUBSET Pair])
FlagsOK  == /\ check_timeout \in BOOLEAN /\ thread_deleted \in BOOLEAN
            /\ first \in BOOLEAN /\ g_cancel \in BOOLEAN
CopiesOK == /\ gEdges \in [Solvers -> Nat] /\ gCover \in [Approx -> Nat]
            /\ ready \in [Solvers -> BOOLEAN]
PlacesOK == /\ main \in MainPlaces /\ mutex \in Holders /\ LockInv
            /\ worker \in [Approx -> WorkerPlaces]
TracesOK == answers \in [Solvers -> Seq(Nat)] /\ seps \in Nat /\ stale \in BOOLEAN

TypeInv == /\ InputOK /\ GraphsOK /\ FlagsOK /\ CopiesOK /\ PlacesOK
           /\ cnf \in Seq(CnfRecord) /\ TracesOK

IInv == /\ TypeInv /\ RoundInv /\ ThreadInv
        /\ \A w \in Approx : WorkerInv(w) /\ InOrder(w)


-------------------------------------------------------------------------------
(* Every step of every thread and child keeps the types, the range of the      *)
(* edges, and the place main holds the mutex at.                               *)

LEMMA TypeInvIsType == TypeInv => TypeOK
BY DEF TypeInv, InputOK, GraphsOK, FlagsOK, CopiesOK, PlacesOK, TracesOK, TypeOK

LEMMA TypeInit == Init => TypeInv
<1> SUFFICES ASSUME Init PROVE TypeInv
  OBVIOUS
<1>1. GraphsOK
  <2>1. EmptyGraph \in Graph /\ EmptyGraph.n <= IntMax /\ Fits(EmptyGraph)
    BY IntMaxAssumption DEF EmptyGraph, Graph, Fits
  <2> QED
    BY <2>1 DEF Init, GraphsOK
<1>2. InputOK
  BY ScriptsAssumption DEF Init, InputOK
<1>3. PlacesOK
  BY DEF Init, PlacesOK, MainPlaces, Holders, LockInv, Free, Main, WorkerPlaces
<1>4. FlagsOK /\ cnf \in Seq(CnfRecord)
  BY EmptySeq DEF Init, FlagsOK
<1>5. CopiesOK
  BY DEF Init, CopiesOK
<1>6. TracesOK
  <2>1. <<>> \in Seq(Nat)
    BY EmptySeq
  <2>2. answers \in [Solvers -> Seq(Nat)]
    BY <2>1 DEF Init
  <2> QED
    BY <2>2 DEF Init, TracesOK
<1> QED
  BY <1>1, <1>2, <1>3, <1>4, <1>5, <1>6 DEF TypeInv

\* What is not touched keeps its type.
LEMMA TypeFrame ==
    ASSUME TypeInv
    PROVE  /\ UNCHANGED <<input, eof>> => InputOK'
           /\ UNCHANGED <<graph, jobs>> => GraphsOK'
           /\ UNCHANGED flagVars => FlagsOK'
           /\ UNCHANGED <<gEdges, gCover, ready>> => CopiesOK'
           /\ UNCHANGED <<main, mutex, worker>> => PlacesOK'
           /\ UNCHANGED <<answers, seps, stale>> => TracesOK'
<1> USE DEF TypeInv
<1>1. UNCHANGED <<input, eof>> => InputOK'
  BY DEF InputOK
<1>2. UNCHANGED <<graph, jobs>> => GraphsOK'
  BY DEF GraphsOK, Fits
<1>3. UNCHANGED flagVars => FlagsOK'
  BY DEF FlagsOK, flagVars
<1>4. UNCHANGED <<gEdges, gCover, ready>> => CopiesOK'
  BY DEF CopiesOK
<1>5. UNCHANGED <<main, mutex, worker>> => PlacesOK'
  BY DEF PlacesOK, LockInv, Running
<1>6. UNCHANGED <<answers, seps, stale>> => TracesOK'
  BY DEF TracesOK
<1> QED
  BY <1>1, <1>2, <1>3, <1>4, <1>5, <1>6

\* The next place of main is a place, and no step but MainLock takes the mutex.
LEMMA MainMoves ==
    ASSUME TypeInv, MainThread
    PROVE  PlacesOK'
<1> USE DEF TypeInv, PlacesOK, LockInv, Running, Signals
<1> USE DEF MainPlaces, Halted
<1>1. CASE MainRead \/ MainSeparator
  BY <1>1 DEF MainRead, MainSeparator, sharedVars, Then, Main
<1>2. ASSUME NEW i \in Solvers, MainCopyEdges(i) PROVE PlacesOK'
  BY <1>2 DEF MainCopyEdges, Solvers, CopyAt, Then
<1>3. ASSUME NEW i \in Solvers, MainJoin(i) PROVE PlacesOK'
  BY <1>3 DEF MainJoin, Solvers, JoinAt, Then, sharedVars
<1>4. ASSUME NEW w \in Approx, MainCopyCover(w) PROVE PlacesOK'
  BY <1>4 DEF MainCopyCover, Approx, RestAt, Then
<1>5. ASSUME NEW w \in Approx, MainCreateWorker(w) PROVE PlacesOK'
  <2>1. main' \in MainPlaces /\ main \notin Signals
    BY <1>5 DEF MainCreateWorker, Approx, CreateAt, Then
  <2>2. worker' \in [Approx -> WorkerPlaces]
    BY <1>5 DEF MainCreateWorker, WorkerPlaces
  <2>3. main \notin Halted
    BY <1>5 DEF MainCreateWorker, Approx, CreateAt
  <2> QED
    BY <1>5, <2>1, <2>2, <2>3 DEF MainCreateWorker, sharedVars
<1>6. CASE MainCreateCnf \/ MainCreateFails
  BY <1>6 DEF MainCreateCnf, MainCreateFails, Then, sharedVars
<1>7. CASE MainLock
  BY <1>7 DEF MainLock, Holders
<1>8. CASE MainUnlock
  BY <1>8 DEF MainUnlock, Holders, Then, Free, Main
<1>9. CASE MainClear \/ MainCancel \/ MainJoinNothing
  BY <1>9 DEF MainClear, MainCancel, MainJoinNothing, Then, sharedVars
<1> QED
  BY <1>1, <1>2, <1>3, <1>4, <1>5, <1>6, <1>7, <1>8, <1>9 DEF MainThread

LEMMA TypeMain ==
    ASSUME TypeInv, MainThread
    PROVE  TypeInv'
<1> USE TypeFrame, MainMoves DEF inputVars, flagVars, sharedVars
<1>1. CASE MainRead
  <2>1. InputOK'
    <3>1. input \in Seq(Line) /\ eof \in BOOLEAN
      BY DEF TypeInv, InputOK
    <3>2. input # <<>> => Tail(input) \in Seq(Line)
      BY <3>1
    <3>3. input' \in Seq(Line)
      BY <1>1, <3>1, <3>2 DEF MainRead, Getline
    <3>4. eof' \in BOOLEAN
      <4>1. EndsStream \in BOOLEAN
        BY DEF EndsStream
      <4>2. eof' = eof \/ eof' = EndsStream
        BY <1>1 DEF MainRead, Getline
      <4> QED
        BY <3>1, <4>1, <4>2
    <3> QED
      BY <3>3, <3>4 DEF InputOK
  <2>2. GraphsOK'
    <3>1. NextLine \in Line
      <4>1. Blank \in Line
        BY DEF Blank, Line, Kinds
      <4>2. input \in Seq(Line)
        BY DEF TypeInv, InputOK
      <4>3. input # <<>> => Head(input) \in Line
        BY <4>2
      <4> QED
        BY <4>1, <4>3 DEF NextLine
    <3>2. CASE Throws(NextLine, graph)
      BY <1>1, <3>2 DEF MainRead
    <3>3. CASE ~Throws(NextLine, graph)
      <4>1. graph' = Parse(NextLine, graph)
        BY <1>1, <3>3 DEF MainRead
      <4>2. graph' \in Graph /\ graph'.n <= IntMax /\ Fits(graph')
        BY <3>1, <4>1, ParseKeepsGraph DEF TypeInv, GraphsOK
      <4>3. AsJob(graph') \in [n : Nat, edges : SUBSET Pair]
        BY <4>2 DEF Graph, AsJob
      <4>4. jobs' = jobs \/ jobs' = Append(jobs, AsJob(graph'))
        BY <1>1, <3>3 DEF MainRead
      <4>5. jobs' \in Seq([n : Nat, edges : SUBSET Pair])
        <5>1. jobs \in Seq([n : Nat, edges : SUBSET Pair])
          BY DEF TypeInv, GraphsOK
        <5>2. \A e \in [n : Nat, edges : SUBSET Pair] :
                Append(jobs, e) \in Seq([n : Nat, edges : SUBSET Pair])
          <6> HIDE TypeFrame, MainMoves
          <6> QED
            BY <5>1, AppendProperties
        <5> QED
          BY <4>3, <4>4, <5>1, <5>2
      <4> QED
        BY <4>2, <4>5 DEF GraphsOK, Fits
    <3> QED
      BY <3>2, <3>3
  <2> QED
    BY <1>1, <2>1, <2>2 DEF MainRead, TypeInv
<1>2. CASE MainSeparator
  <2>1. CopiesOK'
    BY <1>2 DEF MainSeparator, TypeInv, CopiesOK
  <2>2. FlagsOK'
    BY <1>2 DEF MainSeparator, TypeInv, FlagsOK
  <2>3. seps \in Nat => seps' \in Nat
    BY <1>2 DEF MainSeparator
  <2>4. TracesOK'
    BY <1>2, <2>3 DEF MainSeparator, TypeInv, TracesOK
  <2> QED
    BY <1>2, <2>1, <2>2, <2>4 DEF MainSeparator, TypeInv
<1>3. ASSUME NEW i \in Solvers, MainCopyEdges(i) PROVE TypeInv'
  <2>1. Len(jobs) \in Nat
    BY DEF TypeInv, GraphsOK
  <2>2. CopiesOK'
    BY <1>3, <2>1 DEF MainCopyEdges, TypeInv, CopiesOK
  <2> QED
    BY <1>3, <2>2 DEF MainCopyEdges, TypeInv
<1>4. ASSUME NEW w \in Approx, MainCopyCover(w) PROVE TypeInv'
  <2>1. CopiesOK'
    BY <1>4 DEF MainCopyCover, TypeInv, CopiesOK
  <2> QED
    BY <1>4, <2>1 DEF MainCopyCover, TypeInv
<1>5. ASSUME NEW i \in Solvers, MainJoin(i) PROVE TypeInv'
  BY <1>5 DEF MainJoin, TypeInv
<1>6. ASSUME NEW w \in Approx, MainCreateWorker(w) PROVE TypeInv'
  <2>1. FlagsOK'
    BY <1>6 DEF MainCreateWorker, TypeInv, FlagsOK
  <2> QED
    BY <1>6, <2>1 DEF MainCreateWorker, TypeInv
<1>7. CASE MainCreateCnf
  <2>1. FlagsOK'
    BY <1>7 DEF MainCreateCnf, TypeInv, FlagsOK
  <2>2. NewCnf \in CnfRecord
    BY DEF NewCnf, CnfRecord, CnfPlaces, ChildPlaces
  <2>3. cnf' \in Seq(CnfRecord)
    BY <1>7, <2>2 DEF MainCreateCnf, TypeInv
  <2> QED
    BY <1>7, <2>1, <2>3 DEF MainCreateCnf, TypeInv
<1>8. CASE MainClear
  <2>1. GraphsOK'
    BY <1>8 DEF MainClear, TypeInv, GraphsOK, Graph, Fits
  <2> QED
    BY <1>8, <2>1 DEF MainClear, TypeInv
<1>9. CASE MainCancel
  <2>1. FlagsOK'
    BY <1>9 DEF MainCancel, TypeInv, FlagsOK
  <2> QED
    BY <1>9, <2>1 DEF MainCancel, TypeInv
<1>10. CASE MainCreateFails \/ MainLock \/ MainUnlock \/ MainJoinNothing
  BY <1>10 DEF MainCreateFails, MainLock, MainUnlock, MainJoinNothing, TypeInv
<1> QED
  BY <1>1, <1>2, <1>3, <1>4, <1>5, <1>6, <1>7, <1>8, <1>9, <1>10 DEF MainThread

LEMMA TypeWorker ==
    ASSUME TypeInv, NEW w \in Approx, WorkerThread(w)
    PROVE  TypeInv'
<1> USE TypeFrame DEF TypeInv, inputVars, flagVars, sharedVars
<1>1. PlacesOK'
  <2>1. mutex' = mutex \/ mutex' = Worker(w) \/ mutex' = Free
    BY DEF WorkerThread, WorkerLoop, WorkerLook, WorkerSolve, WorkerLock, WorkerPrint,
           WorkerReset, WorkerFinish
  <2>2. mutex' \in Holders /\ (mutex' = Main => mutex = Main)
    BY <2>1 DEF PlacesOK, Holders, Worker, Free, Main
  <2>3. worker' \in [Approx -> WorkerPlaces] /\ main' = main
    BY DEF WorkerThread, WorkerLoop, WorkerLook, WorkerSolve, WorkerLock, WorkerPrint,
           WorkerReset, WorkerFinish, GoTo, PlacesOK, WorkerPlaces
  <2> QED
    BY <2>2, <2>3 DEF PlacesOK, LockInv, Running
<1>2. CopiesOK'
  <2>1. CASE WorkerSolve(w)
    BY <2>1 DEF WorkerSolve, CopiesOK, Approx, Solvers
  <2>2. CASE WorkerReset(w)
    BY <2>2 DEF WorkerReset, CopiesOK
  <2>3. CASE WorkerFinish(w)
    BY <2>3 DEF WorkerFinish, CopiesOK
  <2>4. CASE WorkerLoop(w) \/ WorkerLook(w) \/ WorkerLock(w) \/ WorkerPrint(w)
    BY <2>4 DEF WorkerLoop, WorkerLook, WorkerLock, WorkerPrint
  <2> QED
    BY <2>1, <2>2, <2>3, <2>4 DEF WorkerThread
<1>3. TracesOK'
  <2>1. CASE WorkerPrint(w)
    <3>1. gCover[w] \in Nat /\ w \in Solvers
      BY DEF CopiesOK, Approx, Solvers
    <3> QED
      BY <2>1, <3>1 DEF WorkerPrint, TracesOK
  <2>2. CASE ~WorkerPrint(w)
    BY <2>2 DEF WorkerThread, WorkerLoop, WorkerLook, WorkerSolve, WorkerLock, WorkerReset,
                WorkerFinish
  <2> QED
    BY <2>1, <2>2
<1> QED
  BY <1>1, <1>2, <1>3 DEF WorkerThread, WorkerLoop, WorkerLook, WorkerSolve, WorkerLock,
                          WorkerPrint, WorkerReset, WorkerFinish

LEMMA TypeCnf ==
    ASSUME TypeInv, NEW j \in Jobs, CnfThread(j) \/ CnfDeadline(j)
    PROVE  TypeInv'
<1> USE TypeFrame DEF TypeInv, inputVars, flagVars, sharedVars
<1>1. PlacesOK'
  <2>1. mutex' = mutex \/ mutex' = Cnf(j) \/ mutex' = Free
    BY DEF CnfThread, CnfFork, CnfForkFails, CnfDeadline, CnfPoll, CnfWait, CnfAfter, CnfGiveUp,
           CnfKill
  <2>2. mutex' \in Holders /\ (mutex' = Main => mutex = Main)
    BY <2>1 DEF PlacesOK, Holders, Cnf, Free, Main, Jobs
  <2>3. worker' = worker /\ (main' = main \/ main' = "failed")
    BY DEF CnfThread, CnfFork, CnfForkFails, CnfDeadline, CnfPoll, CnfWait, CnfAfter, CnfGiveUp,
           CnfKill, CnfUnchanged
  <2> QED
    BY <2>2, <2>3 DEF PlacesOK, LockInv, Running, MainPlaces, Halted
<1>2. CopiesOK'
  BY DEF CnfThread, CnfFork, CnfForkFails, CnfDeadline, CnfPoll, CnfWait, CnfAfter, CnfGiveUp,
         CnfKill, CnfUnchanged, CopiesOK, Solvers
<1>3. cnf' \in Seq(CnfRecord)
  <2>1. CASE cnf' = cnf
    BY <2>1
  <2>2. CASE cnf' # cnf
    <3>1. j \in DOMAIN cnf /\ cnf[j] \in CnfRecord
      BY <2>2 DEF CnfThread, CnfFork, CnfForkFails, CnfDeadline, CnfPoll, CnfWait, CnfAfter,
                  CnfGiveUp, CnfKill, CnfAt
    <3>2. gEdges[1] \in Nat /\ (mutex # Free) \in BOOLEAN
      BY DEF CopiesOK, Solvers
    <3>3. PICK r \in CnfRecord : cnf' = [cnf EXCEPT ![j] = r]
      <4> USE <3>1, <3>2 DEF CnfRecord, CnfPlaces, ChildPlaces, Gone
      <4>1. CASE CnfFork(j)
        BY <4>1 DEF CnfFork
      <4>2. CASE CnfDeadline(j)
        BY <4>2 DEF CnfDeadline
      <4>3. CASE CnfPoll(j)
        BY <4>3 DEF CnfPoll
      <4>4. CASE CnfWait(j)
        BY <4>4 DEF CnfWait
      <4>5. CASE CnfAfter(j)
        BY <4>5 DEF CnfAfter
      <4>6. CASE CnfGiveUp(j)
        BY <4>6 DEF CnfGiveUp
      <4>7. CASE CnfKill(j)
        BY <4>7 DEF CnfKill
      <4> QED
        BY <2>2, <4>1, <4>2, <4>3, <4>4, <4>5, <4>6, <4>7 DEF CnfThread, CnfForkFails
    <3> QED
      BY <3>1, <3>3
  <2> QED
    BY <2>1, <2>2
<1>4. TracesOK'
  BY DEF CnfThread, CnfFork, CnfForkFails, CnfDeadline, CnfPoll, CnfWait, CnfAfter, CnfGiveUp,
         CnfKill, CnfUnchanged, TracesOK
<1>5. UNCHANGED <<inputVars, flagVars>>
  BY DEF CnfThread, CnfFork, CnfForkFails, CnfDeadline, CnfPoll, CnfWait, CnfAfter, CnfGiveUp,
         CnfKill, CnfUnchanged
<1> QED
  BY <1>1, <1>2, <1>3, <1>4, <1>5

LEMMA TypeChild ==
    ASSUME TypeInv, NEW j \in Jobs, Child(j)
    PROVE  TypeInv'
<1> USE TypeFrame DEF TypeInv, inputVars, flagVars, sharedVars
<1>1. j \in DOMAIN cnf /\ cnf[j] \in CnfRecord /\ ChildUnchanged
  BY DEF Child, ChildSolve, ChildCrash, ChildPrint, ChildAt
<1>2. cnf' \in Seq(CnfRecord)
  <2>1. cnf' = [cnf EXCEPT ![j].child = "lock"] \/ cnf' = [cnf EXCEPT ![j].child = "zombie"]
    BY DEF Child, ChildSolve, ChildCrash, ChildPrint
  <2>2. \A c \in ChildPlaces : [cnf[j] EXCEPT !.child = c] \in CnfRecord
    BY <1>1 DEF CnfRecord
  <2>3. PICK r \in CnfRecord : cnf' = [cnf EXCEPT ![j] = r]
    BY <1>1, <2>1, <2>2 DEF ChildPlaces
  <2> QED
    BY <1>1, <2>3
<1>3. TracesOK'
  <2>1. cnf[j].job \in Nat
    BY <1>1 DEF CnfRecord
  <2>2. answers' = answers \/ answers' = [answers EXCEPT ![1] = Append(@, cnf[j].job)]
    BY DEF Child, ChildSolve, ChildCrash, ChildPrint
  <2>3. answers \in [Solvers -> Seq(Nat)] /\ 1 \in Solvers
    BY DEF TracesOK, Solvers
  <2>4. Append(answers[1], cnf[j].job) \in Seq(Nat)
    BY <2>1, <2>3
  <2>5. answers' \in [Solvers -> Seq(Nat)]
    BY <2>2, <2>3, <2>4
  <2> QED
    BY <1>1, <2>5 DEF TracesOK, ChildUnchanged
<1> QED
  BY <1>1, <1>2, <1>3 DEF ChildUnchanged

LEMMA TypeNext == TypeInv /\ [Next]_vars => TypeInv'
<1> SUFFICES ASSUME TypeInv, [Next]_vars PROVE TypeInv'
  OBVIOUS
<1>1. CASE UNCHANGED vars
  BY <1>1, TypeFrame DEF TypeInv, vars, inputVars, flagVars, sharedVars
<1> QED
  BY <1>1, TypeMain, TypeWorker, TypeCnf, TypeChild DEF Next

(* Whatever the threads, the children and failing system calls do, every       *)
(* variable keeps its type, the graph main reads into keeps its edges in range *)
(* of its size, and main holds g_mutex only where it signals.                  *)
THEOREM PipelineTypes == Spec => []TypeOK
<1>1. TypeInv /\ [Next]_vars => TypeInv'
  BY TypeNext
<1> QED
  BY TypeInit, <1>1, TypeInvIsType, PTL DEF Spec

-------------------------------------------------------------------------------
(* Rounds.                                                                     *)

\* What no step but main's can change.
LEMMA OthersFrame ==
    ASSUME \/ \E w \in Approx : WorkerThread(w)
           \/ \E j \in Jobs : CnfThread(j) \/ CnfDeadline(j) \/ Child(j)
    PROVE  /\ UNCHANGED <<inputVars, flagVars, seps>>
           /\ main' = main \/ main' = "failed"
<1>1. ASSUME NEW w \in Approx, WorkerThread(w)
      PROVE  UNCHANGED <<inputVars, flagVars, seps>> /\ main' = main
  BY <1>1 DEF WorkerThread, WorkerLoop, WorkerLook, WorkerSolve, WorkerLock, WorkerPrint,
              WorkerReset, WorkerFinish
<1>2. ASSUME NEW j \in Jobs, CnfThread(j) \/ CnfDeadline(j)
      PROVE  UNCHANGED <<inputVars, flagVars, seps>> /\ (main' = main \/ main' = "failed")
  BY <1>2 DEF CnfThread, CnfFork, CnfForkFails, CnfDeadline, CnfPoll, CnfWait, CnfAfter,
              CnfGiveUp, CnfKill, CnfUnchanged
<1>3. ASSUME NEW j \in Jobs, Child(j)
      PROVE  UNCHANGED <<inputVars, flagVars, seps>> /\ main' = main
  BY <1>3 DEF Child, ChildSolve, ChildCrash, ChildPrint, ChildUnchanged
<1> QED
  BY <1>1, <1>2, <1>3

\* A worker whose flag is down has answered: its round is open.
LEMMA FlagDownIsOpen ==
    ASSUME NEW w \in Approx, WorkerInv(w), ~ready[w]
    PROVE  Len(jobs) = seps + 1 /\ Finished(w) /\ Len(answers[w]) = seps + 1
BY DEF WorkerInv, Idle, Assigned, Busy, Told

LEMMA ReadCases ==
    ASSUME TypeInv, RoundInv, MainRead
    PROVE  \/ main' \in {"loop", "crashed"} /\ jobs' = jobs /\ graph'.edges = {}
           \/ /\ main' = "copy1" /\ Len(jobs) = seps
              /\ jobs' = Append(jobs, AsJob(graph')) /\ Len(jobs') = seps + 1
              /\ graph'.edges # {}
<1>1. main = "loop" /\ graph.edges = {} /\ (check_timeout <=> Len(jobs) = seps + 1)
  BY DEF MainRead, RoundInv
<1>2. CASE Throws(NextLine, graph)
  BY <1>1, <1>2 DEF MainRead
<1>3. CASE ~Throws(NextLine, graph) /\ graph'.edges = {}
  BY <1>1, <1>3 DEF MainRead
<1>4. CASE ~Throws(NextLine, graph) /\ graph'.edges # {}
  <2>1. graph' = Parse(NextLine, graph)
    BY <1>4 DEF MainRead
  <2>2. NextLine # Blank
    BY <1>1, <1>4, <2>1, BlankLine
  <2>3. ~check_timeout
    BY <2>2 DEF NextLine
  <2>4. Len(jobs) = seps
    BY <1>1, <2>3 DEF RoundInv
  <2>5. main' = "copy1" /\ jobs' = Append(jobs, AsJob(graph'))
    BY <1>4 DEF MainRead
  <2>6. jobs \in Seq([n : Nat, edges : SUBSET Pair])
    BY DEF TypeInv, GraphsOK
  <2>7. Len(jobs') = Len(jobs) + 1
    BY <2>5, <2>6
  <2> QED
    BY <1>4, <2>4, <2>5, <2>7
<1> QED
  BY <1>2, <1>3, <1>4

LEMMA RoundNext ==
    ASSUME TypeInv, RoundInv, \A w \in Approx : WorkerInv(w), Next
    PROVE  RoundInv'
<1> USE DEF RoundInv, OpenPlaces, Launched
<1>1. CASE MainThread
  <2>1. CASE MainRead
    <3>1. seps' = seps /\ check_timeout' = check_timeout /\ main = "loop"
      BY <2>1 DEF MainRead, flagVars
    <3> QED
      BY <2>1, <3>1, ReadCases
  <2>2. CASE MainSeparator
    <3>1. Len(jobs) = seps + 1
      BY <2>2, FlagDownIsOpen DEF MainSeparator, NoneReady, Approx, Solvers
    <3>2. seps \in Nat
      BY DEF TypeInv, TracesOK
    <3> QED
      BY <2>2, <3>1, <3>2 DEF MainSeparator, inputVars
  <2> USE DEF inputVars, flagVars, Then
  <2>3. ASSUME NEW i \in Solvers, MainCopyEdges(i) PROVE RoundInv'
    BY <2>3 DEF MainCopyEdges, Solvers, CopyAt
  <2>4. ASSUME NEW i \in Solvers, MainJoin(i) PROVE RoundInv'
    BY <2>4 DEF MainJoin, Solvers, JoinAt
  <2>5. ASSUME NEW w \in Approx, MainCopyCover(w) PROVE RoundInv'
    BY <2>5 DEF MainCopyCover, Approx, RestAt
  <2>6. ASSUME NEW w \in Approx, MainCreateWorker(w) PROVE RoundInv'
    BY <2>6 DEF MainCreateWorker, Approx, CreateAt
  <2>7. CASE MainCreateCnf
    BY <2>7 DEF MainCreateCnf
  <2>8. CASE MainCreateFails
    BY <2>8 DEF MainCreateFails
  <2>9. CASE MainLock
    BY <2>9 DEF MainLock
  <2>10. CASE MainUnlock
    BY <2>10 DEF MainUnlock, TypeInv, PlacesOK, LockInv, Signals
  <2>11. CASE MainClear
    BY <2>11 DEF MainClear, TypeInv, GraphsOK, Graph
  <2>12. CASE MainCancel
    BY <2>12 DEF MainCancel
  <2>13. CASE MainJoinNothing
    BY <2>13 DEF MainJoinNothing
  <2> QED
    BY <1>1, <2>1, <2>2, <2>3, <2>4, <2>5, <2>6, <2>7, <2>8, <2>9, <2>10, <2>11, <2>12, <2>13
       DEF MainThread
<1>2. CASE ~MainThread
  BY <1>2, OthersFrame DEF Next, inputVars, flagVars
<1> QED
  BY <1>1, <1>2

LEMMA ThreadNext ==
    ASSUME TypeInv, ThreadInv, Next
    PROVE  ThreadInv'
<1> USE DEF ThreadInv, Closing, Halted
<1>1. CASE MainThread
  <2> USE DEF flagVars, sharedVars, Then
  <2>1. CASE MainRead \/ MainSeparator
    BY <2>1 DEF MainRead, MainSeparator
  <2>2. ASSUME NEW i \in Solvers, MainCopyEdges(i) PROVE ThreadInv'
    BY <2>2 DEF MainCopyEdges, Solvers, CopyAt
  <2>3. ASSUME NEW i \in Solvers, MainJoin(i) PROVE ThreadInv'
    BY <2>3 DEF MainJoin, Solvers, JoinAt
  <2>4. ASSUME NEW w \in Approx, MainCopyCover(w) PROVE ThreadInv'
    BY <2>4 DEF MainCopyCover, Approx, RestAt
  <2>5. ASSUME NEW w \in Approx, MainCreateWorker(w) PROVE ThreadInv'
    <3>1. worker \in [Approx -> WorkerPlaces]
      BY DEF TypeInv, PlacesOK
    <3> QED
      BY <2>5, <3>1 DEF MainCreateWorker, Approx, CreateAt
  <2>6. CASE MainCreateCnf \/ MainCreateFails
    BY <2>6 DEF MainCreateCnf, MainCreateFails
  <2>7. CASE MainLock
    BY <2>7 DEF MainLock
  <2>8. CASE MainUnlock
    BY <2>8 DEF MainUnlock, TypeInv, PlacesOK, LockInv, Signals
  <2>9. CASE MainClear \/ MainCancel \/ MainJoinNothing
    BY <2>9 DEF MainClear, MainCancel, MainJoinNothing
  <2> QED
    BY <1>1, <2>1, <2>2, <2>3, <2>4, <2>5, <2>6, <2>7, <2>8, <2>9 DEF MainThread
<1>2. ASSUME NEW w \in Approx, WorkerThread(w) PROVE ThreadInv'
  <2>1. UNCHANGED <<main, flagVars>> /\ worker[w] # "none"
    BY <1>2 DEF WorkerThread, WorkerLoop, WorkerLook, WorkerSolve, WorkerLock, WorkerPrint,
                WorkerReset, WorkerFinish, WorkerAt
  <2>2. \E place \in WorkerPlaces :
          /\ worker' = [worker EXCEPT ![w] = place]
          /\ place = "exit" => g_cancel
    BY <1>2 DEF WorkerThread, WorkerLoop, WorkerLook, WorkerSolve, WorkerLock, WorkerPrint,
                WorkerReset, WorkerFinish, GoTo, WorkerPlaces
  <2>3. worker \in [Approx -> WorkerPlaces]
    BY DEF TypeInv, PlacesOK
  <2> QED
    BY <2>1, <2>2, <2>3 DEF Approx, flagVars
<1>3. ASSUME NEW j \in Jobs, CnfThread(j) \/ CnfDeadline(j) \/ Child(j) PROVE ThreadInv'
  <2>1. worker' = worker
    BY <1>3 DEF CnfThread, CnfFork, CnfForkFails, CnfDeadline, CnfPoll, CnfWait, CnfAfter,
                CnfGiveUp, CnfKill, CnfUnchanged, Child, ChildSolve, ChildCrash, ChildPrint,
                ChildUnchanged
  <2> QED
    BY <1>3, <2>1, OthersFrame DEF flagVars
<1> QED
  BY <1>1, <1>2, <1>3 DEF Next

\* WorkerInv and InOrder look at these variables only.
LEMMA SeenUnchanged ==
    ASSUME NEW w \in Approx, WorkerInv(w), InOrder(w), TypeInv,
           UNCHANGED <<jobs, seps, ready[w], gEdges[w], gCover[w], worker[w], answers[w]>>,
           main' = main \/ main' \in Halted
    PROVE  WorkerInv(w)' /\ InOrder(w)'
<1>1. InOrder(w)'
  BY DEF InOrder
<1>2. WorkerInv(w)'
  BY DEF WorkerInv, Idle, Assigned, Busy, Told, Finished, Before, Halted
<1> QED
  BY <1>1, <1>2

LEMMA WorkerMain ==
    ASSUME IInv, MainThread, NEW w \in Approx
    PROVE  WorkerInv(w)' /\ InOrder(w)'
<1> USE DEF IInv
<1>1. CASE MainRead
  <2>1. UNCHANGED <<seps, sharedVars, worker, answers>>
    BY <1>1 DEF MainRead
  <2>2. CASE jobs' = jobs /\ main' = "crashed"
    BY <2>1, <2>2, SeenUnchanged DEF sharedVars, Halted
  <2>3. CASE jobs' = jobs /\ main' = "loop"
    BY <1>1, <2>1, <2>3, SeenUnchanged DEF MainRead, sharedVars
  <2>4. CASE main' = "copy1" /\ Len(jobs) = seps /\ Len(jobs') = seps + 1
    <3>1. Idle(w) /\ Len(answers[w]) = seps
      <4>1. seps \in Nat
        BY DEF TypeInv, TracesOK
      <4> QED
        BY <2>4, <4>1 DEF WorkerInv
    <3>2. Idle(w)'
      BY <2>1, <3>1 DEF Idle, sharedVars
    <3>3. main' \in Before(w)
      BY <2>4 DEF Before
    <3> QED
      BY <2>1, <2>4, <3>1, <3>2, <3>3 DEF WorkerInv, InOrder, sharedVars
  <2> QED
    BY <1>1, <2>2, <2>3, <2>4, ReadCases
<1>2. CASE MainSeparator
  <2>1. Len(jobs) = seps + 1 /\ Finished(w) /\ Len(answers[w]) = seps + 1
    BY <1>2, FlagDownIsOpen DEF MainSeparator, NoneReady, Approx, Solvers
  <2>2. ready'[w] /\ seps' = seps + 1
    BY <1>2 DEF MainSeparator, Approx, Solvers
  <2> QED
    BY <1>2, <2>1, <2>2 DEF MainSeparator, WorkerInv, Idle, Finished, InOrder, inputVars
<1>3. ASSUME NEW i \in Solvers, MainCopyEdges(i) PROVE WorkerInv(w)' /\ InOrder(w)'
  <2>1. main = CopyAt[i] /\ main' = Then[main] /\ Len(jobs) = seps + 1
    BY <1>3 DEF MainCopyEdges, RoundInv, Solvers, CopyAt, OpenPlaces
  <2>2. UNCHANGED <<jobs, seps, ready, gCover, worker, answers>>
    BY <1>3 DEF MainCopyEdges, inputVars
  <2>3. CASE i = w
    <3>1. Idle(w) /\ Len(answers[w]) = seps /\ worker[w] # "exit"
      BY <2>1, <2>3 DEF WorkerInv, Approx, CopyAt, Before, TypeInv, TracesOK, ThreadInv, Closing,
                        Halted
    <3>2. gEdges'[w] = Len(jobs)
      BY <1>3, <2>3 DEF MainCopyEdges, TypeInv, CopiesOK
    <3>3. main' \notin Before(w)
      BY <2>1, <2>3 DEF Approx, CopyAt, Then, Before
    <3>4. Assigned(w)'
      BY <2>2, <3>1, <3>2 DEF Idle, Assigned
    <3> QED
      BY <2>1, <2>2, <3>1, <3>3, <3>4 DEF WorkerInv, InOrder
  <2>4. CASE i # w
    <3>1. gEdges'[w] = gEdges[w]
      BY <1>3, <2>4 DEF MainCopyEdges, TypeInv, CopiesOK, Approx, Solvers
    <3>2. main' \in Before(w) <=> main \in Before(w)
      BY <2>1, <2>4 DEF Approx, Solvers, CopyAt, Then, Before
    <3>3. main \notin Halted
      BY <2>1 DEF Solvers, CopyAt, Halted
    <3> QED
      BY <2>1, <2>2, <3>1, <3>2, <3>3
         DEF WorkerInv, InOrder, Idle, Assigned, Busy, Told, Finished
  <2> QED
    BY <2>3, <2>4
<1>4. ASSUME NEW v \in Approx, MainCopyCover(v) PROVE WorkerInv(w)' /\ InOrder(w)'
  <2>1. main = RestAt[v] /\ main' = Then[main] /\ gCover'[w] \in {0, gCover[w]}
    BY <1>4 DEF MainCopyCover, TypeInv, CopiesOK
  <2>2. UNCHANGED <<jobs, seps, ready, gEdges, worker, answers>>
    BY <1>4 DEF MainCopyCover, inputVars
  <2>3. main' \in Before(w) <=> main \in Before(w)
    BY <2>1 DEF Approx, RestAt, Then, Before
  <2>4. main \notin Halted
    BY <2>1 DEF Approx, RestAt, Halted
  <2> QED
    BY <2>1, <2>2, <2>3, <2>4 DEF WorkerInv, InOrder, Idle, Assigned, Busy, Told, Finished
<1>5. ASSUME NEW v \in Approx, MainCreateWorker(v) PROVE WorkerInv(w)' /\ InOrder(w)'
  <2>1. main = CreateAt[v] /\ main' = Then[main] /\ Len(jobs) = seps + 1
    BY <1>5 DEF MainCreateWorker, RoundInv, Approx, CreateAt, OpenPlaces
  <2>2. UNCHANGED <<jobs, seps, ready, gEdges, gCover, answers>>
    BY <1>5 DEF MainCreateWorker, inputVars, sharedVars
  <2>3. main' \notin Before(w) \union Halted /\ main \notin Before(w) \union Halted
    BY <2>1 DEF Approx, CreateAt, Then, Before, Halted
  <2>4. worker'[w] = worker[w] \/ (worker[w] = "none" /\ worker'[w] = "loop")
    BY <1>5, <2>1 DEF MainCreateWorker, ThreadInv, TypeInv, PlacesOK, Approx, CreateAt
  <2>5. InOrder(w)'
    BY <2>2 DEF InOrder
  <2>6. WorkerInv(w)'
    BY <2>1, <2>2, <2>3, <2>4 DEF WorkerInv, Idle, Assigned, Busy, Told, Finished
  <2> QED
    BY <2>5, <2>6
<1>6. ASSUME \/ MainCreateCnf \/ MainCreateFails \/ MainLock \/ MainUnlock \/ MainClear
             \/ MainCancel \/ MainJoinNothing \/ (\E i \in Solvers : MainJoin(i))
      PROVE  WorkerInv(w)' /\ InOrder(w)'
  <2>1. UNCHANGED <<jobs, seps, ready, gEdges, gCover, worker, answers>>
    BY <1>6 DEF MainCreateCnf, MainCreateFails, MainLock, MainUnlock, MainClear, MainCancel,
                MainJoinNothing, MainJoin, inputVars, sharedVars
  <2>2. main \notin Before(w) \union Halted
    BY <1>6 DEF MainCreateCnf, MainCreateFails, MainLock, MainUnlock, MainClear, MainCancel,
                MainJoinNothing, MainJoin, Before, Halted, Signals, Running, Solvers, JoinAt,
                TypeInv, PlacesOK, LockInv
  <2>3. main' \notin Before(w)
    BY <1>6 DEF MainCreateCnf, MainCreateFails, MainLock, MainUnlock, MainClear, MainCancel,
                MainJoinNothing, MainJoin, Before, Signals, Running, Solvers, JoinAt, Then,
                TypeInv, PlacesOK, LockInv
  <2>4. InOrder(w)'
    BY <2>1 DEF InOrder
  <2>5. WorkerInv(w)'
    BY <2>1, <2>2, <2>3 DEF WorkerInv, Idle, Assigned, Busy, Told, Finished
  <2> QED
    BY <2>4, <2>5
<1> QED
  BY <1>1, <1>2, <1>3, <1>4, <1>5, <1>6 DEF MainThread

LEMMA WorkerOwn ==
    ASSUME IInv, NEW w \in Approx, WorkerThread(w)
    PROVE  WorkerInv(w)' /\ InOrder(w)'
<1> USE DEF WorkerAt, GoTo, inputVars, sharedVars
<1>1. /\ worker \in [Approx -> WorkerPlaces] /\ gEdges \in [Solvers -> Nat]
      /\ gCover \in [Approx -> Nat] /\ ready \in [Solvers -> BOOLEAN] /\ w \in Solvers
      /\ answers \in [Solvers -> Seq(Nat)] /\ seps \in Nat /\ WorkerInv(w) /\ InOrder(w)
      /\ Running /\ Len(jobs) \in Nat
  BY DEF IInv, TypeInv, PlacesOK, CopiesOK, TracesOK, GraphsOK, Approx, Solvers, WorkerThread,
         WorkerLoop, WorkerLook, WorkerSolve, WorkerLock, WorkerPrint, WorkerReset, WorkerFinish
<1>2. UNCHANGED <<jobs, seps, main>>
  BY DEF WorkerThread, WorkerLoop, WorkerLook, WorkerSolve, WorkerLock, WorkerPrint,
         WorkerReset, WorkerFinish
<1>3. main \notin Halted
  BY <1>1 DEF Running
<1> USE <1>1, <1>2, <1>3 DEF WorkerInv, Idle, Assigned, Busy, Told, Finished
<1>4. CASE WorkerLoop(w)
  BY <1>4 DEF WorkerLoop, InOrder
<1>5. CASE WorkerLook(w)
  BY <1>5 DEF WorkerLook, InOrder
<1>6. CASE WorkerSolve(w)
  <2>1. Assigned(w) /\ main \notin Before(w) /\ Len(jobs) = seps + 1 /\ Len(answers[w]) = seps
    BY <1>6 DEF WorkerSolve
  <2>2. /\ worker'[w] = "lock" /\ gEdges'[w] = 0 /\ gCover'[w] = Len(jobs)
        /\ ready'[w] = ready[w] /\ answers' = answers
    BY <1>6, <2>1 DEF WorkerSolve
  <2> QED
    BY <2>1, <2>2 DEF InOrder
<1>7. CASE WorkerLock(w)
  BY <1>7 DEF WorkerLock, InOrder
<1>8. CASE WorkerPrint(w)
  <2>1. Busy(w) /\ main \notin Before(w) /\ Len(jobs) = seps + 1 /\ Len(answers[w]) = seps
    BY <1>8 DEF WorkerPrint
  <2>2. /\ worker'[w] = "reset" /\ UNCHANGED <<gEdges, ready>>
        /\ answers'[w] = Append(answers[w], gCover[w])
    BY <1>8 DEF WorkerPrint
  <2>3. answers[w] \in Seq(Nat) /\ gCover[w] \in {0, seps + 1} /\ gCover[w] \in Nat
    BY <2>1
  <2>4. Len(answers'[w]) = seps + 1
    BY <2>1, <2>2, <2>3
  <2>5. InOrder(w)'
    <3>1. \A i \in 1 .. seps : answers'[w][i] = answers[w][i] /\ answers[w][i] \in {0, i}
      BY <2>1, <2>2, <2>3 DEF InOrder
    <3>2. answers'[w][seps + 1] \in {0, seps + 1} /\ DOMAIN answers'[w] = 1 .. seps + 1
      BY <2>1, <2>2, <2>3
    <3> QED
      BY <3>1, <3>2 DEF InOrder
  <2> QED
    BY <2>1, <2>2, <2>4, <2>5
<1>9. CASE WorkerReset(w)
  BY <1>9 DEF WorkerReset, InOrder
<1>10. CASE WorkerFinish(w)
  BY <1>10 DEF WorkerFinish, InOrder
<1> QED
  BY <1>4, <1>5, <1>6, <1>7, <1>8, <1>9, <1>10 DEF WorkerThread

LEMMA WorkerOther ==
    ASSUME IInv, NEW w \in Approx,
           \/ \E v \in Approx : v # w /\ WorkerThread(v)
           \/ \E j \in Jobs : CnfThread(j) \/ CnfDeadline(j) \/ Child(j)
    PROVE  WorkerInv(w)' /\ InOrder(w)'
<1> USE DEF IInv
<1>1. /\ worker \in [Approx -> WorkerPlaces] /\ gEdges \in [Solvers -> Nat]
      /\ gCover \in [Approx -> Nat] /\ ready \in [Solvers -> BOOLEAN]
      /\ answers \in [Solvers -> Seq(Nat)] /\ w \in Solvers /\ w # 1
  BY DEF TypeInv, PlacesOK, CopiesOK, TracesOK, Approx, Solvers
<1>2. UNCHANGED <<ready[w], gEdges[w], gCover[w], worker[w], answers[w]>>
  <2> USE <1>1
  <2>1. ASSUME NEW v \in Approx, v # w, WorkerThread(v)
        PROVE  UNCHANGED <<ready[w], gEdges[w], gCover[w], worker[w], answers[w]>>
    BY <2>1 DEF WorkerThread, WorkerLoop, WorkerLook, WorkerSolve, WorkerLock, WorkerPrint,
                WorkerReset, WorkerFinish, GoTo, sharedVars
  <2>2. ASSUME NEW j \in Jobs, CnfThread(j) \/ CnfDeadline(j)
        PROVE  UNCHANGED <<ready[w], gEdges[w], gCover[w], worker[w], answers[w]>>
    BY <2>2 DEF CnfThread, CnfFork, CnfForkFails, CnfDeadline, CnfPoll, CnfWait, CnfAfter,
                CnfGiveUp, CnfKill, CnfUnchanged
  <2>3. ASSUME NEW j \in Jobs, Child(j)
        PROVE  UNCHANGED <<ready[w], gEdges[w], gCover[w], worker[w], answers[w]>>
    BY <2>3 DEF Child, ChildSolve, ChildCrash, ChildPrint, ChildUnchanged, sharedVars
  <2> QED
    BY <2>1, <2>2, <2>3
<1>3. UNCHANGED <<jobs, seps>> /\ (main' = main \/ main' \in Halted)
  BY OthersFrame DEF inputVars, Halted
<1> QED
  BY <1>2, <1>3, SeenUnchanged

LEMMA InvNext == IInv /\ [Next]_vars => IInv'
<1> SUFFICES ASSUME IInv, [Next]_vars PROVE IInv'
  OBVIOUS
<1>1. CASE Next
  <2>1. TypeInv'
    BY TypeNext DEF IInv
  <2>2. RoundInv' /\ ThreadInv'
    BY <1>1, RoundNext, ThreadNext DEF IInv
  <2>3. ASSUME NEW w \in Approx PROVE WorkerInv(w)' /\ InOrder(w)'
    BY <1>1, WorkerMain, WorkerOwn, WorkerOther DEF Next
  <2> QED
    BY <2>1, <2>2, <2>3 DEF IInv
<1>2. CASE UNCHANGED vars
  <2>1. TypeInv'
    BY TypeNext DEF IInv
  <2>2. RoundInv' /\ ThreadInv'
    BY <1>2 DEF IInv, RoundInv, ThreadInv, vars, inputVars, flagVars
  <2>3. ASSUME NEW w \in Approx PROVE WorkerInv(w)' /\ InOrder(w)'
    BY <1>2, SeenUnchanged DEF IInv, vars, inputVars, sharedVars
  <2> QED
    BY <2>1, <2>2, <2>3 DEF IInv
<1> QED
  BY <1>1, <1>2

LEMMA InvInit == Init => IInv
<1> SUFFICES ASSUME Init PROVE IInv
  OBVIOUS
<1>1. TypeInv
  BY TypeInit
<1>2. RoundInv /\ ThreadInv
  BY DEF Init, RoundInv, ThreadInv, EmptyGraph, OpenPlaces, Launched, Approx
<1>3. ASSUME NEW w \in Approx PROVE WorkerInv(w) /\ InOrder(w)
  BY DEF Init, WorkerInv, Idle, InOrder, Approx, Solvers
<1> QED
  BY <1>1, <1>2, <1>3 DEF IInv

(* The separator is a barrier for both spinning solvers (main.cpp:341-349): in *)
(* whatever order the threads run, and however cnf_sat polls, gives up or      *)
(* fails, a round is closed only after both have answered its graph, no graph  *)
(* is accepted while a round is open and no solver answers a graph twice.      *)
THEOREM RoundsAreComplete == Spec => []RoundsComplete
<1>1. IInv => RoundsComplete
  <2> SUFFICES ASSUME IInv PROVE RoundsComplete
    OBVIOUS
  <2>1. seps \in Nat
    BY DEF IInv, TypeInv, TracesOK
  <2> QED
    BY <2>1 DEF IInv, RoundInv, WorkerInv, RoundsComplete
<1> QED
  BY InvInit, InvNext, <1>1, PTL DEF Spec

(* Each line a spinning solver prints belongs to the round it is printed in,   *)
(* or is empty because main's copy of the vertex cover came late.              *)
THEOREM AnswersStayInOrder == Spec => []AnswersInOrder
<1>1. IInv => AnswersInOrder
  BY DEF IInv, InOrder, AnswersInOrder
<1> QED
  BY InvInit, InvNext, <1>1, PTL DEF Spec

(* Main copies the edges of a new graph only into a graph_t nobody is using,   *)
(* although no lock protects graph_t2 and graph_t3: the reset comes before the *)
(* flag (main.cpp:178-180), and a thread leaves only when main is past reading.*)
THEOREM NoGraphOverwritten == Spec => []NoOverwriteInUse
<1>1. IInv => NoOverwriteInUse
  <2> SUFFICES ASSUME IInv, NEW w \in Approx, main \in {CopyAt[i] : i \in 1 .. w}
               PROVE  gEdges[w] = 0 /\ worker[w] \in {"none", "loop", "look"}
    BY DEF NoOverwriteInUse
  <2>1. main \in Before(w) /\ Len(jobs) = seps + 1
    BY DEF Approx, CopyAt, Before, IInv, RoundInv, OpenPlaces
  <2>2. Idle(w)
    <3>1. seps \in Nat
      BY DEF IInv, TypeInv, TracesOK
    <3> QED
      BY <2>1, <3>1 DEF IInv, WorkerInv
  <2>3. worker[w] # "exit"
    BY <2>1 DEF IInv, ThreadInv, Before, Closing, Halted, Approx
  <2> QED
    BY <2>2, <2>3 DEF Idle
<1> QED
  BY InvInit, InvNext, <1>1, PTL DEF Spec

(* Every graph handed to the solvers is one they are made for: it has vertices *)
(* and edges, and no edge names a vertex above its size.                       *)
THEOREM AcceptedGraphsAreParsed == Spec => []AcceptedGraphsParsed
<1> DEFINE Inv == IInv /\ AcceptedGraphsParsed
<1>1. Init => Inv
  BY InvInit DEF Init, AcceptedGraphsParsed
<1>2. Inv /\ [Next]_vars => Inv'
  <2> SUFFICES ASSUME Inv, [Next]_vars PROVE AcceptedGraphsParsed'
    BY InvNext
  <2>1. CASE MainRead
    <3>1. CASE jobs' = jobs
      BY <3>1 DEF AcceptedGraphsParsed
    <3>2. CASE graph'.edges # {} /\ jobs' = Append(jobs, AsJob(graph'))
      <4>1. graph' \in Graph /\ Fits(graph')
        BY TypeNext DEF IInv, TypeInv, GraphsOK, Fits
      <4>2. AsJob(graph') \in ParsedGraph
        BY <3>2, <4>1 DEF Graph, Pair, Fits, AsJob, ParsedGraph
      <4>3. jobs \in Seq([n : Nat, edges : SUBSET Pair])
        BY DEF IInv, TypeInv, GraphsOK
      <4>4. \A j \in DOMAIN jobs' : jobs'[j] = AsJob(graph') \/ (j \in DOMAIN jobs /\ jobs'[j] = jobs[j])
        BY <3>2, <4>3
      <4> QED
        BY <4>2, <4>4 DEF AcceptedGraphsParsed
    <3> QED
      BY <2>1, <3>1, <3>2, ReadCases DEF IInv
  <2>2. CASE ~MainRead
    <3>1. jobs' = jobs
      <4>1. CASE MainThread
        BY <2>2, <4>1 DEF MainThread, MainSeparator, MainCopyEdges, MainJoin, MainCopyCover,
               MainCreateWorker, MainCreateCnf, MainCreateFails, MainLock, MainUnlock, MainClear,
               MainCancel, MainJoinNothing, inputVars
      <4>2. CASE UNCHANGED vars
        BY <4>2 DEF vars, inputVars
      <4> QED
        BY <4>1, <4>2, OthersFrame DEF Next, inputVars
    <3> QED
      BY <3>1 DEF AcceptedGraphsParsed
  <2> QED
    BY <2>1, <2>2
<1>3. Inv => AcceptedGraphsParsed
  OBVIOUS
<1> QED
  BY <1>1, <1>2, <1>3, PTL DEF Spec
-------------------------------------------------------------------------------
(* The cnf_sat threads of the launcher and the processes they fork: their      *)
(* answers can be counted, so the launcher implements Rounds; there is one per *)
(* graph, and none of them disturbs a round that is not its own, as long as no *)
(* thread goes on polling a child it has already waited for.                   *)

(* What the user of the launcher sees is a sequence of rounds, for every set   *)
(* of scripts.  What IInv does not give is the count of the answers             *)
(* of CNF-SAT-VC, which come from processes nobody joins.                      *)

\* The threads whose child may still print.
Pending == {j \in DOMAIN cnf : cnf[j].child \in {"none", "solve", "lock"}}

\* Main's places between accepting a graph and creating its cnf_sat thread.
Uncreated == {"copy1", "copy2", "rest2", "copy3", "rest3", "create1"}

\* Each thread answers at most once, so its child counts once while it may print.
CountInv ==
    /\ \A j \in DOMAIN cnf : cnf[j].pc = "fork" => cnf[j].child = "none"
    /\ Len(answers[1]) + Cardinality(Pending) <= Len(cnf)
    /\ Len(cnf) <= Len(jobs)
    /\ main \in Uncreated => Len(cnf) <= seps

LEMMA CountType ==
    ASSUME TypeInv
    PROVE  /\ IsFiniteSet(Pending) /\ Cardinality(Pending) \in Nat
           /\ Len(cnf) \in Nat /\ Len(jobs) \in Nat /\ Len(answers[1]) \in Nat /\ seps \in Nat
           /\ DOMAIN cnf = 1 .. Len(cnf)
           /\ \A j \in DOMAIN cnf : cnf[j] \in CnfRecord
<1>1. cnf \in Seq(CnfRecord) /\ answers[1] \in Seq(Nat) /\ seps \in Nat
  BY DEF TypeInv, TracesOK, Solvers
<1>2. Len(cnf) \in Nat /\ DOMAIN cnf = 1 .. Len(cnf)
  BY <1>1
<1>3. IsFiniteSet(1 .. Len(cnf))
  BY <1>2, FS_Interval
<1>4. IsFiniteSet(Pending) /\ Cardinality(Pending) \in Nat
  BY <1>2, <1>3, FS_Subset, FS_CardinalityType DEF Pending
<1>5. Len(jobs) \in Nat
  BY DEF TypeInv, GraphsOK
<1> QED
  BY <1>1, <1>2, <1>4, <1>5

\* Ending, killing or waiting for a child can only take it out of the count.
LEMMA CountShrinks ==
    ASSUME TypeInv, CountInv, Pending' \subseteq Pending, Len(cnf') = Len(cnf),
           answers'[1] = answers[1], UNCHANGED <<jobs, seps>>,
           main' \in Uncreated => main \in Uncreated,
           \A j \in DOMAIN cnf' : cnf'[j].pc = "fork" => cnf'[j].child = "none"
    PROVE  CountInv'
<1>1. Cardinality(Pending') <= Cardinality(Pending) /\ Cardinality(Pending') \in Nat
  BY CountType, FS_Subset, FS_CardinalityType
<1> QED
  BY <1>1, CountType DEF CountInv

LEMMA CountMain ==
    ASSUME IInv, CountInv, MainThread
    PROVE  CountInv'
<1> USE DEF IInv
<1>1. CASE MainRead
  <2>1. UNCHANGED <<cnf, answers, seps>>
    BY <1>1 DEF MainRead
  <2>2. Pending' = Pending
    BY <2>1 DEF Pending
  <2>3. Len(cnf) <= Len(jobs) /\ Len(jobs') >= Len(jobs)
    BY <1>1, ReadCases, CountType DEF CountInv
  <2>4. main' \in Uncreated => Len(cnf) <= seps
    BY <1>1, ReadCases, CountType DEF CountInv, Uncreated
  <2> QED
    BY <2>1, <2>2, <2>3, <2>4, <1>1, ReadCases, CountType DEF CountInv
<1>2. CASE MainCreateCnf
  <2>1. /\ main = "create1" /\ UNCHANGED <<jobs, seps, answers>>
        /\ main' \notin Uncreated
    BY <1>2 DEF MainCreateCnf, inputVars, Uncreated
  <2>2. CASE cnf' = cnf
    <3>1. Pending' = Pending
      BY <2>2 DEF Pending
    <3> QED
      BY <2>1, <2>2, <3>1, CountShrinks DEF CountInv
  <2>3. CASE cnf' = Append(cnf, NewCnf)
    <3> DEFINE k == Len(cnf) + 1
    <3>1. cnf \in Seq(CnfRecord) /\ NewCnf \in CnfRecord
      BY DEF TypeInv, NewCnf, CnfRecord, CnfPlaces, ChildPlaces
    <3>2. /\ Len(cnf') = k /\ DOMAIN cnf' = 1 .. k /\ cnf'[k] = NewCnf
          /\ \A j \in DOMAIN cnf : j \in DOMAIN cnf' /\ cnf'[j] = cnf[j]
          /\ \A j \in DOMAIN cnf' : j # k => j \in DOMAIN cnf
      BY <2>3, <3>1
    <3>3. Pending' = Pending \union {k} /\ k \notin Pending
      BY <3>2, CountType DEF Pending, NewCnf
    <3>4. Cardinality(Pending') = Cardinality(Pending) + 1
      BY <3>3, CountType, FS_AddElement
    <3>5. Len(cnf) <= seps /\ Len(jobs) = seps + 1
      BY <2>1 DEF CountInv, RoundInv, Uncreated, OpenPlaces
    <3>6. Len(answers[1]) + Cardinality(Pending') <= Len(cnf') /\ Len(cnf') <= Len(jobs)
      BY <3>2, <3>4, <3>5, CountType DEF CountInv
    <3>7. \A j \in DOMAIN cnf' : cnf'[j].pc = "fork" => cnf'[j].child = "none"
      BY <3>2 DEF CountInv, NewCnf
    <3> QED
      BY <2>1, <3>6, <3>7 DEF CountInv
  <2> QED
    BY <1>2, <2>2, <2>3 DEF MainCreateCnf
<1>3. CASE MainSeparator
  <2>1. UNCHANGED <<cnf, answers, jobs, main>> /\ seps' = seps + 1 /\ main \notin Uncreated
    BY <1>3 DEF MainSeparator, inputVars, Uncreated
  <2>2. Pending' = Pending
    BY <2>1 DEF Pending
  <2> QED
    BY <2>1, <2>2 DEF CountInv
<1>4. CASE ~MainRead /\ ~MainCreateCnf /\ ~MainSeparator
  <2>1. UNCHANGED <<cnf, answers, jobs, seps>>
    BY <1>4 DEF MainThread, MainCopyEdges, MainJoin, MainCopyCover, MainCreateWorker,
           MainCreateFails, MainLock, MainUnlock, MainClear, MainCancel, MainJoinNothing, inputVars
  <2>2. Pending' = Pending
    BY <2>1 DEF Pending
  <2>3. main' \in Uncreated => main \in Uncreated
    BY <1>4 DEF MainThread, MainCopyEdges, MainJoin, MainCopyCover, MainCreateWorker,
           MainCreateFails, MainLock, MainUnlock, MainClear, MainCancel, MainJoinNothing,
           Uncreated, Then, CopyAt, RestAt, CreateAt, JoinAt, Solvers, Approx, Signals, Running,
           TypeInv, PlacesOK, LockInv
  <2> QED
    BY <2>1, <2>2, <2>3, CountShrinks DEF CountInv
<1> QED
  BY <1>1, <1>2, <1>3, <1>4

LEMMA CountCnf ==
    ASSUME IInv, CountInv, NEW j \in Jobs, CnfThread(j) \/ CnfDeadline(j)
    PROVE  CountInv'
<1>1. UNCHANGED <<answers, jobs, seps>> /\ (main' = main \/ main' = "failed")
  BY OthersFrame DEF inputVars, CnfThread, CnfFork, CnfForkFails, CnfDeadline, CnfPoll, CnfWait,
         CnfAfter, CnfGiveUp, CnfKill, CnfUnchanged
<1>2. CASE cnf' = cnf
  BY <1>1, <1>2, CountShrinks DEF IInv, CountInv, Pending, Uncreated
<1>3. CASE cnf' # cnf
  <2>1. j \in DOMAIN cnf /\ cnf[j] \in CnfRecord /\ cnf \in Seq(CnfRecord)
    BY <1>3 DEF IInv, TypeInv, CnfThread, CnfFork, CnfForkFails, CnfDeadline, CnfPoll, CnfWait,
                CnfAfter, CnfGiveUp, CnfKill, CnfAt
  <2>2. /\ DOMAIN cnf' = DOMAIN cnf /\ Len(cnf') = Len(cnf)
        /\ \A i \in DOMAIN cnf : i # j => cnf'[i] = cnf[i]
        /\ cnf'[j].pc # "fork" \/ cnf'[j].child = cnf[j].child
        /\ cnf'[j].pc = "fork" => cnf[j].pc = "fork"
        /\ cnf'[j].child \in {"none", "solve", "lock"} =>
              cnf[j].child \in {"none", "solve", "lock"}
    <3> USE <2>1 DEF CnfRecord
    <3>1. CASE CnfFork(j)
      BY <3>1 DEF CnfFork, CnfAt, CountInv
    <3>2. CASE CnfDeadline(j)
      BY <3>2 DEF CnfDeadline
    <3>3. CASE CnfPoll(j)
      BY <3>3 DEF CnfPoll
    <3>4. CASE CnfWait(j)
      BY <3>4 DEF CnfWait
    <3>5. CASE CnfAfter(j)
      BY <3>5 DEF CnfAfter
    <3>6. CASE CnfGiveUp(j)
      BY <3>6 DEF CnfGiveUp
    <3>7. CASE CnfKill(j)
      BY <3>7 DEF CnfKill
    <3> QED
      BY <1>3, <3>1, <3>2, <3>3, <3>4, <3>5, <3>6, <3>7 DEF CnfThread, CnfForkFails
  <2>3. Pending' \subseteq Pending
    BY <2>1, <2>2 DEF Pending
  <2>4. \A i \in DOMAIN cnf' : cnf'[i].pc = "fork" => cnf'[i].child = "none"
    BY <2>1, <2>2 DEF CountInv
  <2> QED
    BY <1>1, <2>2, <2>3, <2>4, CountShrinks DEF IInv, Uncreated
<1> QED
  BY <1>2, <1>3

\* The child of a thread that still counts prints: one answer more, one to come less.
LEMMA CountPrint ==
    ASSUME IInv, CountInv, NEW j \in Jobs, ChildPrint(j)
    PROVE  /\ CountInv' /\ Len(answers[1]) < Len(jobs)
           /\ Len(answers'[1]) = Len(answers[1]) + 1
           /\ \A w \in Approx : answers'[w] = answers[w]
<1>1. /\ j \in DOMAIN cnf /\ cnf[j] \in CnfRecord /\ cnf \in Seq(CnfRecord)
      /\ cnf[j].child = "lock" /\ UNCHANGED <<jobs, seps, main>>
      /\ answers \in [Solvers -> Seq(Nat)]
  BY DEF ChildPrint, ChildAt, ChildUnchanged, inputVars, IInv, TypeInv, TracesOK
<1>2. cnf' = [cnf EXCEPT ![j] = [cnf[j] EXCEPT !.child = "zombie"]]
  BY DEF ChildPrint
<1>3. /\ DOMAIN cnf' = DOMAIN cnf /\ Len(cnf') = Len(cnf) /\ cnf'[j].child = "zombie"
      /\ cnf'[j].pc = cnf[j].pc /\ \A i \in DOMAIN cnf : i # j => cnf'[i] = cnf[i]
  BY <1>1, <1>2 DEF CnfRecord
<1>4. Pending' = Pending \ {j} /\ j \in Pending
  BY <1>1, <1>3 DEF Pending
<1>5. Cardinality(Pending') = Cardinality(Pending) - 1
  BY <1>4, CountType, FS_RemoveElement DEF IInv
<1>6. cnf[j].job \in Nat
  BY <1>1 DEF CnfRecord
<1>7. /\ Len(answers'[1]) = Len(answers[1]) + 1
      /\ \A w \in Approx : answers'[w] = answers[w]
  BY <1>1, <1>6 DEF ChildPrint, Solvers, Approx
<1>8. Cardinality(Pending') \in Nat
  BY <1>4, CountType, FS_Subset, FS_CardinalityType DEF IInv
<1>9. Len(answers[1]) < Len(jobs)
  BY <1>5, <1>8, CountType DEF CountInv, IInv
<1>10. \A i \in DOMAIN cnf' : cnf'[i].pc = "fork" => cnf'[i].child = "none"
  BY <1>1, <1>3 DEF CountInv
<1>11. CountInv'
  BY <1>1, <1>3, <1>5, <1>7, <1>10, CountType DEF CountInv, IInv
<1> QED
  BY <1>7, <1>9, <1>11

LEMMA CountChild ==
    ASSUME IInv, CountInv, NEW j \in Jobs, ChildSolve(j) \/ ChildCrash(j)
    PROVE  CountInv'
<1>1. /\ j \in DOMAIN cnf /\ cnf[j] \in CnfRecord /\ cnf \in Seq(CnfRecord)
      /\ cnf[j].child = "solve" /\ UNCHANGED <<answers, jobs, seps, main>>
  BY DEF ChildSolve, ChildCrash, ChildAt, ChildUnchanged, inputVars, IInv, TypeInv
<1>2. PICK c \in {"lock", "zombie"} : cnf' = [cnf EXCEPT ![j] = [cnf[j] EXCEPT !.child = c]]
  BY DEF ChildSolve, ChildCrash
<1>3. /\ DOMAIN cnf' = DOMAIN cnf /\ Len(cnf') = Len(cnf)
      /\ cnf'[j].pc = cnf[j].pc /\ \A i \in DOMAIN cnf : i # j => cnf'[i] = cnf[i]
  BY <1>1, <1>2 DEF CnfRecord
<1>4. Pending' \subseteq Pending
  BY <1>1, <1>3 DEF Pending
<1>5. \A i \in DOMAIN cnf' : cnf'[i].pc = "fork" => cnf'[i].child = "none"
  BY <1>1, <1>3 DEF CountInv
<1> QED
  BY <1>1, <1>3, <1>4, <1>5, CountShrinks DEF IInv

LEMMA CountNext == IInv /\ CountInv /\ [Next]_vars => CountInv'
<1> SUFFICES ASSUME IInv, CountInv, [Next]_vars PROVE CountInv'
  OBVIOUS
<1>1. ASSUME NEW w \in Approx, WorkerThread(w) PROVE CountInv'
  <2>1. UNCHANGED <<cnf, jobs, seps, main>> /\ answers'[1] = answers[1]
    BY <1>1 DEF WorkerThread, WorkerLoop, WorkerLook, WorkerSolve, WorkerLock, WorkerPrint,
                WorkerReset, WorkerFinish, inputVars, IInv, TypeInv, TracesOK, Approx, Solvers
  <2> QED
    BY <2>1, CountShrinks DEF IInv, CountInv, Pending
<1>2. CASE UNCHANGED vars
  BY <1>2, CountShrinks DEF IInv, CountInv, Pending, vars, inputVars
<1> QED
  BY <1>1, <1>2, CountMain, CountCnf, CountPrint, CountChild DEF Next, Child

-------------------------------------------------------------------------------
(* Every step of the launcher is a step of Rounds or leaves what its user sees *)
(* alone.                                                                      *)

LEMMA PromiseInit == Init => Promise!Init
<1> SUFFICES ASSUME Init PROVE Promise!Init
  OBVIOUS
<1>1. Len(jobs) = 0 /\ Running /\ Len(answers[1]) = 0 /\ seps = 0
  BY DEF Init, Running, Halted, Solvers
<1>2. [w \in Approx |-> Len(answers[w])] = [w \in Approx |-> 0]
  BY DEF Init, Approx, Solvers
<1> QED
  BY <1>1, <1>2 DEF Promise!Init

\* What Rounds sees of the state.
LEMMA PromiseStutter ==
    ASSUME UNCHANGED <<jobs, answers, seps>>, main' \notin Halted, main \notin Halted
    PROVE  UNCHANGED Promise!vars
BY DEF Promise!vars, Running

\* The program stops, or had stopped, and nothing else that Rounds sees changes.
LEMMA PromiseEnd ==
    ASSUME UNCHANGED <<jobs, answers, seps>>, main' \in Halted \/ main' = main
    PROVE  [Promise!Next]_Promise!vars
<1>1. CASE main' = main \/ (main \in Halted /\ main' \in Halted)
  BY <1>1 DEF Promise!vars, Running
<1>2. CASE main \notin Halted /\ main' \in Halted
  <2>1. Promise!End
    BY <1>2 DEF Promise!End, Running
  <2> QED
    BY <2>1 DEF Promise!Next
<1> QED
  BY <1>1, <1>2

LEMMA PromiseMain ==
    ASSUME IInv, MainThread
    PROVE  [Promise!Next]_Promise!vars
<1> USE DEF IInv
<1>1. CASE MainRead
  <2>1. UNCHANGED <<answers, seps>> /\ main = "loop"
    BY <1>1 DEF MainRead
  <2>2. CASE jobs' = jobs /\ main' \in {"loop", "crashed"}
    BY <2>1, <2>2, PromiseEnd DEF Halted
  <2>3. CASE main' = "copy1" /\ Len(jobs) = seps /\ Len(jobs') = seps + 1
    <3>1. Promise!Accept
      BY <2>1, <2>3 DEF Promise!Accept, Running, Halted
    <3> QED
      BY <3>1 DEF Promise!Next
  <2> QED
    BY <1>1, <2>2, <2>3, ReadCases
<1>2. CASE MainSeparator
  <2>1. \A w \in Approx : Len(jobs) = seps + 1 /\ Len(answers[w]) = seps + 1
    BY <1>2, FlagDownIsOpen DEF MainSeparator, NoneReady, Approx, Solvers
  <2>2. seps < Len(jobs) /\ seps \in Nat
    BY <2>1 DEF TypeInv, TracesOK, Approx
  <2>3. UNCHANGED <<jobs, answers, main>> /\ seps' = seps + 1 /\ main = "loop"
    BY <1>2 DEF MainSeparator, inputVars
  <2>4. Promise!Close
    BY <2>1, <2>2, <2>3 DEF Promise!Close, Running, Halted
  <2> QED
    BY <2>4 DEF Promise!Next
<1>3. CASE ~MainRead /\ ~MainSeparator
  <2>1. UNCHANGED <<jobs, answers, seps>>
    BY <1>3 DEF MainThread, MainCopyEdges, MainJoin, MainCopyCover, MainCreateWorker,
           MainCreateCnf, MainCreateFails, MainLock, MainUnlock, MainClear, MainCancel,
           MainJoinNothing, inputVars
  <2>2. main \notin Halted
    BY <1>3 DEF MainThread, MainCopyEdges, MainJoin, MainCopyCover, MainCreateWorker,
           MainCreateCnf, MainCreateFails, MainLock, MainUnlock, MainClear, MainCancel,
           MainJoinNothing, Halted, CopyAt, RestAt, CreateAt, JoinAt, Solvers, Approx, Signals,
           Running
  <2> QED
    BY <2>1, <2>2, PromiseEnd, PromiseStutter
<1> QED
  BY <1>1, <1>2, <1>3

LEMMA PromiseWorker ==
    ASSUME IInv, NEW w \in Approx, WorkerThread(w)
    PROVE  [Promise!Next]_Promise!vars
<1>1. CASE WorkerPrint(w)
  <2>1. main \notin Halted /\ UNCHANGED <<jobs, seps, main>>
    BY <1>1 DEF WorkerPrint, WorkerAt, Running, inputVars
  <2>2. Len(jobs) = seps + 1 /\ Len(answers[w]) = seps
    BY <1>1 DEF WorkerPrint, WorkerAt, IInv, WorkerInv, Idle, Assigned, Busy, Told, Finished
  <2>3. seps \in Nat /\ answers \in [Solvers -> Seq(Nat)] /\ gCover[w] \in Nat
    BY DEF IInv, TypeInv, TracesOK, CopiesOK
  <2>4. /\ answers' = [answers EXCEPT ![w] = Append(answers[w], gCover[w])]
        /\ Len(answers'[w]) = Len(answers[w]) + 1
        /\ \A v \in Solvers : v # w => answers'[v] = answers[v]
    BY <1>1, <2>3 DEF WorkerPrint, Approx, Solvers
  <2> DEFINE answered == [v \in Approx |-> Len(answers[v])]
  <2>5. answered' = [answered EXCEPT ![w] = @ + 1]
    <3>1. \A v \in Approx : v \in Solvers
      BY DEF Approx, Solvers
    <3>2. \A v \in Approx : Len(answers'[v]) = IF v = w THEN Len(answers[v]) + 1
                                                      ELSE Len(answers[v])
      BY <2>4, <3>1
    <3> QED
      BY <3>2
  <2>6. answered[w] < Len(jobs)
    BY <2>2, <2>3
  <2>7. answers'[1] = answers[1] /\ Running /\ Running'
    BY <2>1, <2>4 DEF Running, Approx, Solvers
  <2>8. Promise!Answer(w)
    BY <2>1, <2>5, <2>6, <2>7 DEF Promise!Answer
  <2> QED
    BY <2>8 DEF Promise!Next
<1>2. CASE ~WorkerPrint(w)
  <2>1. UNCHANGED <<jobs, answers, seps, main>>
    BY <1>2 DEF WorkerThread, WorkerLoop, WorkerLook, WorkerSolve, WorkerLock, WorkerReset,
                WorkerFinish, inputVars
  <2> QED
    BY <2>1, PromiseEnd
<1> QED
  BY <1>1, <1>2

LEMMA PromiseChild ==
    ASSUME IInv, CountInv, NEW j \in Jobs, Child(j)
    PROVE  [Promise!Next]_Promise!vars
<1>1. UNCHANGED <<jobs, seps, main>>
  BY DEF Child, ChildSolve, ChildCrash, ChildPrint, ChildUnchanged, inputVars
<1>2. CASE ChildPrint(j)
  <2>1. /\ Len(answers[1]) < Len(jobs) /\ Len(answers'[1]) = Len(answers[1]) + 1
        /\ \A w \in Approx : answers'[w] = answers[w]
    BY <1>2, CountPrint
  <2>2. Promise!CnfAnswer
    BY <1>1, <2>1 DEF Promise!CnfAnswer, Running
  <2> QED
    BY <2>2 DEF Promise!Next
<1>3. CASE ChildSolve(j) \/ ChildCrash(j)
  BY <1>1, <1>3, PromiseEnd DEF ChildSolve, ChildCrash
<1> QED
  BY <1>2, <1>3 DEF Child

LEMMA PromiseNext == IInv /\ CountInv /\ [Next]_vars => [Promise!Next]_Promise!vars
<1> SUFFICES ASSUME IInv, CountInv, [Next]_vars PROVE [Promise!Next]_Promise!vars
  OBVIOUS
<1>1. CASE UNCHANGED vars
  BY <1>1, PromiseEnd DEF vars, inputVars
<1>2. ASSUME NEW j \in Jobs, CnfThread(j) \/ CnfDeadline(j)
      PROVE  [Promise!Next]_Promise!vars
  <2>1. UNCHANGED <<jobs, answers, seps>> /\ (main' = main \/ main' \in Halted)
    BY <1>2 DEF CnfThread, CnfFork, CnfForkFails, CnfDeadline, CnfPoll, CnfWait, CnfAfter,
                CnfGiveUp, CnfKill, CnfUnchanged, inputVars, Halted
  <2> QED
    BY <2>1, PromiseEnd
<1> QED
  BY <1>1, <1>2, PromiseMain, PromiseWorker, PromiseChild DEF Next

(* The threads of main.cpp implement the rounds of Rounds.tla: a graph is      *)
(* accepted only when no round is open, each spinning solver answers it once   *)
(* before the separator, and CNF-SAT-VC answers at most as many graphs as were *)
(* accepted, whatever its threads and their children do.                       *)
THEOREM LauncherImplementsRounds == Spec => ImplementsRounds
<1> DEFINE Inv == IInv /\ CountInv
<1>1. Init => Inv
  <2> SUFFICES ASSUME Init PROVE CountInv
    BY InvInit
  <2>1. cnf = <<>> /\ Len(jobs) = 0 /\ Len(answers[1]) = 0 /\ main = "loop"
    BY DEF Init, Solvers
  <2>2. Pending = {} /\ DOMAIN cnf = {}
    BY <2>1 DEF Pending
  <2> QED
    BY <2>1, <2>2, FS_EmptySet DEF CountInv, Uncreated
<1>2. Inv /\ [Next]_vars => Inv'
  BY InvNext, CountNext
<1>3. Inv /\ [Next]_vars => [Promise!Next]_Promise!vars
  BY PromiseNext
<1> QED
  BY <1>1, <1>2, <1>3, PromiseInit, PTL DEF Spec, ImplementsRounds, Promise!Spec

-------------------------------------------------------------------------------
(* Main creates one thread per graph.                                          *)

\* thread_deleted is set at every separator and cleared when a thread is created,
\* first until the two spinning threads exist; the threads count the graphs.
CreateInv ==
    /\ main \in Uncreated \/ (main = "loop" /\ ~check_timeout) => CreatesCnfThread
    /\ first => seps = 0
    /\ Len(cnf) <= Len(jobs)
    /\ main \in Uncreated => Len(cnf) = seps
    /\ main \notin Uncreated \union {"failed"} => Len(cnf) = Len(jobs)
    /\ main \in Uncreated \ {"copy1"} => gEdges[1] = Len(jobs)

LEMMA ThreadCreated ==
    ASSUME IInv, CreateInv, MainCreateCnf
    PROVE  /\ main = "create1" /\ cnf' = Append(cnf, NewCnf) /\ Len(jobs) = seps + 1
           /\ Len(cnf) = seps /\ Len(cnf') = seps + 1 /\ cnf'[seps + 1] = NewCnf
           /\ DOMAIN cnf' = DOMAIN cnf \union {seps + 1}
           /\ \A j \in DOMAIN cnf : cnf'[j] = cnf[j] /\ j # seps + 1
           /\ main' = IF first THEN "create2" ELSE "sig2"
           /\ UNCHANGED <<inputVars, first, g_cancel, sharedVars, worker, answers, seps, stale>>
<1>1. main = "create1" /\ Len(jobs) = seps + 1 /\ Len(cnf) = seps /\ CreatesCnfThread
  BY DEF MainCreateCnf, CreateInv, Uncreated, IInv, RoundInv, OpenPlaces
<1>2. cnf' = Append(cnf, NewCnf)
  BY <1>1 DEF MainCreateCnf
<1>3. cnf \in Seq(CnfRecord) /\ NewCnf \in CnfRecord /\ seps \in Nat
  BY DEF IInv, TypeInv, TracesOK, NewCnf, CnfRecord, CnfPlaces, ChildPlaces
<1>4. /\ Len(cnf') = seps + 1 /\ cnf'[seps + 1] = NewCnf
      /\ DOMAIN cnf' = DOMAIN cnf \union {seps + 1}
      /\ \A j \in DOMAIN cnf : cnf'[j] = cnf[j] /\ j # seps + 1
  BY <1>1, <1>2, <1>3
<1> QED
  BY <1>1, <1>2, <1>4 DEF MainCreateCnf, CreatesCnfThread

LEMMA CreateMain ==
    ASSUME IInv, CreateInv, MainThread
    PROVE  CreateInv'
<1> USE DEF IInv, CreatesCnfThread, inputVars, flagVars, sharedVars
<1>1. Len(cnf) \in Nat /\ Len(jobs) \in Nat /\ seps \in Nat
  BY CountType
<1>2. CASE MainRead
  <2>1. UNCHANGED <<flagVars, sharedVars, cnf, seps>> /\ main = "loop"
    BY <1>2 DEF MainRead
  <2>2. Len(cnf) = Len(jobs)
    BY <2>1 DEF CreateInv, Uncreated
  <2>3. CASE main' \in {"loop", "crashed"} /\ jobs' = jobs
    BY <2>1, <2>2, <2>3 DEF CreateInv, Uncreated
  <2>4. CASE main' = "copy1" /\ Len(jobs) = seps /\ Len(jobs') = seps + 1
    <3>1. ~check_timeout
      BY <2>1, <2>4, <1>1 DEF RoundInv
    <3> QED
      BY <1>1, <2>1, <2>2, <2>4, <3>1 DEF CreateInv, Uncreated
  <2> QED
    BY <1>2, <2>3, <2>4, ReadCases
<1>3. CASE MainSeparator
  <2>1. main = "loop" /\ main' = main /\ thread_deleted' /\ UNCHANGED <<cnf, jobs, first>>
    BY <1>3 DEF MainSeparator
  <2>2. ~first
    <3>1. Finished(2)
      BY <1>3, FlagDownIsOpen DEF MainSeparator, NoneReady, Approx, Solvers
    <3> QED
      BY <3>1 DEF Finished, ThreadInv
  <2> QED
    BY <2>1, <2>2 DEF CreateInv, Uncreated
<1>4. CASE MainCreateCnf
  <2>1. main' \notin Uncreated \union {"failed", "loop"}
    BY <1>4, ThreadCreated DEF Uncreated
  <2> QED
    BY <1>4, <2>1, ThreadCreated DEF CreateInv
<1>5. ASSUME NEW i \in Solvers, MainCopyEdges(i) PROVE CreateInv'
  <2>1. main \in Uncreated /\ main' \in Uncreated /\ main' = Then[main] /\ main = CopyAt[i]
    BY <1>5 DEF MainCopyEdges, CopyAt, Solvers, Then, Uncreated
  <2>2. gEdges' = [gEdges EXCEPT ![i] = Len(jobs)] /\ gEdges \in [Solvers -> Nat]
    BY <1>5 DEF MainCopyEdges, TypeInv, CopiesOK
  <2>3. gEdges'[1] = Len(jobs)
    BY <2>1, <2>2 DEF CreateInv, CopyAt, Solvers
  <2> QED
    BY <1>5, <2>1, <2>3 DEF MainCopyEdges, CreateInv
<1>6. ASSUME NEW w \in Approx, MainCopyCover(w) PROVE CreateInv'
  <2>1. main \in Uncreated \ {"copy1"} /\ main' \in Uncreated
    BY <1>6 DEF MainCopyCover, RestAt, Approx, Then, Uncreated
  <2> QED
    BY <1>6, <2>1 DEF MainCopyCover, CreateInv
<1>7. ASSUME NEW w \in Approx, MainCreateWorker(w) PROVE CreateInv'
  <2>1. main \in {"create2", "create3"} /\ main' \in {"create3", "clear"}
    BY <1>7 DEF MainCreateWorker, CreateAt, Approx, Then
  <2> QED
    BY <1>7, <2>1 DEF MainCreateWorker, CreateInv, Uncreated
<1>8. CASE MainCreateFails
  BY <1>8 DEF MainCreateFails, CreateInv, Uncreated
<1>9. CASE MainLock
  BY <1>9 DEF MainLock, CreateInv
<1>10. CASE MainUnlock
  <2>1. main \in Signals /\ main' = Then[main]
    BY <1>10 DEF MainUnlock, TypeInv, PlacesOK, LockInv
  <2>2. main \notin Uncreated \union {"failed"} /\ main' \notin Uncreated \union {"failed", "loop"}
    BY <2>1 DEF Signals, Then, Uncreated
  <2> QED
    BY <1>10, <2>2 DEF MainUnlock, CreateInv
<1>11. CASE MainClear
  <2>1. main = "clear" /\ main' = "loop" /\ check_timeout
    BY <1>11 DEF MainClear, Then, RoundInv, Launched
  <2> QED
    BY <1>11, <2>1 DEF MainClear, CreateInv, Uncreated
<1>12. CASE MainCancel \/ MainJoinNothing
  BY <1>12 DEF MainCancel, MainJoinNothing, CreateInv, Uncreated
<1>13. ASSUME NEW i \in Solvers, MainJoin(i) PROVE CreateInv'
  <2>1. /\ main \in {"join1", "join2", "join3"} /\ main' \in {"join2", "join3", "done"}
    BY <1>13 DEF MainJoin, JoinAt, Solvers, Then
  <2> QED
    BY <1>13, <2>1 DEF MainJoin, CreateInv, Uncreated
<1> QED
  BY <1>2, <1>3, <1>4, <1>5, <1>6, <1>7, <1>8, <1>9, <1>10, <1>11, <1>12, <1>13 DEF MainThread

\* What a step of another thread leaves alone.
LEMMA ThreadsStay ==
    ASSUME IInv, \/ \E w \in Approx : WorkerThread(w)
                 \/ \E j \in Jobs : CnfThread(j) \/ CnfDeadline(j) \/ Child(j)
    PROVE  gEdges'[1] = gEdges[1] /\ Len(cnf') = Len(cnf) /\ DOMAIN cnf' = DOMAIN cnf
<1>1. cnf \in Seq(CnfRecord) /\ gEdges \in [Solvers -> Nat]
  BY DEF IInv, TypeInv, CopiesOK
<1>2. ASSUME NEW w \in Approx, WorkerThread(w)
      PROVE  cnf' = cnf /\ gEdges'[1] = gEdges[1]
  BY <1>1, <1>2 DEF WorkerThread, WorkerLoop, WorkerLook, WorkerSolve, WorkerLock, WorkerPrint,
                    WorkerReset, WorkerFinish, sharedVars, Approx, Solvers
<1>3. ASSUME NEW j \in Jobs, CnfThread(j) \/ CnfDeadline(j) \/ Child(j)
      PROVE  gEdges' = gEdges /\ Len(cnf') = Len(cnf) /\ DOMAIN cnf' = DOMAIN cnf
  <2>1. gEdges' = gEdges
    BY <1>3 DEF CnfThread, CnfFork, CnfForkFails, CnfDeadline, CnfPoll, CnfWait, CnfAfter,
                CnfGiveUp, CnfKill, Child, ChildSolve, ChildCrash, ChildPrint, CnfUnchanged,
                ChildUnchanged, sharedVars
  <2>2. DOMAIN cnf' = DOMAIN cnf
    <3>1. CASE CnfFork(j)
      BY <3>1 DEF CnfFork
    <3>2. CASE CnfForkFails(j)
      BY <3>2 DEF CnfForkFails
    <3>3. CASE CnfDeadline(j)
      BY <3>3 DEF CnfDeadline
    <3>4. CASE CnfPoll(j)
      BY <3>4 DEF CnfPoll
    <3>5. CASE CnfWait(j)
      BY <3>5 DEF CnfWait
    <3>6. CASE CnfAfter(j)
      BY <3>6 DEF CnfAfter
    <3>7. CASE CnfGiveUp(j)
      BY <3>7 DEF CnfGiveUp
    <3>8. CASE CnfKill(j)
      BY <3>8 DEF CnfKill
    <3>9. CASE Child(j)
      BY <3>9 DEF Child, ChildSolve, ChildCrash, ChildPrint
    <3> QED
      BY <1>3, <3>1, <3>2, <3>3, <3>4, <3>5, <3>6, <3>7, <3>8, <3>9 DEF CnfThread
  <2>3. cnf' \in Seq(CnfRecord)
    BY <1>3, TypeNext DEF IInv, TypeInv, Next
  <2> QED
    BY <1>1, <2>1, <2>2, <2>3
<1> QED
  BY <1>2, <1>3

LEMMA CreateNext == IInv /\ CreateInv /\ [Next]_vars => CreateInv'
<1> SUFFICES ASSUME IInv, CreateInv, [Next]_vars PROVE CreateInv'
  OBVIOUS
<1>1. CASE UNCHANGED vars
  BY <1>1 DEF vars, inputVars, flagVars, sharedVars, CreateInv, CreatesCnfThread
<1>2. CASE Next /\ ~MainThread
  <2>1. /\ UNCHANGED <<inputVars, flagVars, seps>> /\ (main' = main \/ main' = "failed")
        /\ gEdges'[1] = gEdges[1] /\ Len(cnf') = Len(cnf)
    BY <1>2, OthersFrame, ThreadsStay DEF Next
  <2> QED
    BY <2>1 DEF CreateInv, CreatesCnfThread, inputVars, flagVars, Uncreated
<1> QED
  BY <1>1, <1>2, CreateMain DEF Next

\* A cnf_sat thread and its child change their own record only.
LEMMA OwnRecord ==
    ASSUME IInv, NEW j \in Jobs, CnfThread(j) \/ CnfDeadline(j) \/ Child(j)
    PROVE  /\ cnf \in Seq(CnfRecord) /\ cnf' \in Seq(CnfRecord)
           /\ \A i \in DOMAIN cnf : i # j => cnf'[i] = cnf[i]
<1>1. cnf \in Seq(CnfRecord) /\ cnf' \in Seq(CnfRecord)
  BY TypeNext DEF IInv, TypeInv, Next
<1>2. ASSUME NEW i \in DOMAIN cnf, i # j
      PROVE  cnf'[i] = cnf[i]
  <2> USE <1>2
  <2>1. CASE CnfFork(j)
    BY <2>1 DEF CnfFork
  <2>2. CASE CnfForkFails(j)
    BY <2>2 DEF CnfForkFails
  <2>3. CASE CnfDeadline(j)
    BY <2>3 DEF CnfDeadline
  <2>4. CASE CnfPoll(j)
    BY <2>4 DEF CnfPoll
  <2>5. CASE CnfWait(j)
    BY <2>5 DEF CnfWait
  <2>6. CASE CnfAfter(j)
    BY <2>6 DEF CnfAfter
  <2>7. CASE CnfGiveUp(j)
    BY <2>7 DEF CnfGiveUp
  <2>8. CASE CnfKill(j)
    BY <2>8 DEF CnfKill
  <2>9. CASE Child(j)
    BY <2>9 DEF Child, ChildSolve, ChildCrash, ChildPrint
  <2> QED
    BY <2>1, <2>2, <2>3, <2>4, <2>5, <2>6, <2>7, <2>8, <2>9 DEF CnfThread
<1> QED
  BY <1>1, <1>2

\* What each step makes of the record of its thread.
LEMMA StepRecord ==
    ASSUME NEW j \in DOMAIN cnf, cnf \in Seq(CnfRecord)
    PROVE  /\ CnfFork(j) =>
                /\ cnf[j].pc = "fork" /\ cnf'[j].pc = "poll" /\ cnf'[j].job = gEdges[1]
                /\ cnf'[j].child = IF gEdges[1] = 0 THEN "zombie" ELSE "solve"
           /\ CnfDeadline(j) =>
                /\ cnf[j].pc \in {"poll", "wait"} /\ cnf[j].child \notin Gone
                /\ cnf'[j].pc = cnf[j].pc /\ cnf'[j].child = cnf[j].child
                /\ cnf'[j].job = cnf[j].job /\ cnf'[j].late
           /\ CnfPoll(j) =>
                /\ cnf[j].pc = "poll" /\ cnf'[j].pc = IF PollsOn(j) THEN "wait" ELSE "after"
                /\ cnf'[j].late = cnf[j].late /\ cnf'[j].child = cnf[j].child
                /\ cnf'[j].job = cnf[j].job
           /\ CnfWait(j) =>
                /\ cnf[j].pc = "wait" /\ cnf'[j].pc = "poll" /\ cnf'[j].job = cnf[j].job
                /\ ChildEnded(j) => cnf'[j].child = "reaped" /\ ~cnf'[j].late
                /\ ~ChildEnded(j) => cnf'[j].child = cnf[j].child
           /\ CnfAfter(j) =>
                /\ cnf[j].pc = "after"
                /\ cnf'[j].pc = IF cnf[j].late /\ ready[1] THEN "lock" ELSE "exit"
                /\ cnf'[j].late = cnf[j].late /\ cnf'[j].child = cnf[j].child
                /\ cnf'[j].job = cnf[j].job
           /\ CnfGiveUp(j) =>
                /\ cnf[j].pc = "lock" /\ cnf'[j].pc = "kill"
                /\ cnf'[j].child = cnf[j].child /\ cnf'[j].job = cnf[j].job
           /\ CnfKill(j) =>
                /\ cnf[j].pc = "kill" /\ cnf'[j].pc = "exit" /\ cnf'[j].job = cnf[j].job
                /\ cnf'[j].child = IF cnf[j].child = "zombie" THEN "reaped" ELSE "killed"
           /\ Child(j) =>
                /\ cnf'[j].pc = cnf[j].pc /\ cnf'[j].late = cnf[j].late
                /\ cnf'[j].job = cnf[j].job
                /\ cnf[j].child \in {"solve", "lock"} /\ cnf'[j].child \in {"lock", "zombie"}
<1>1. cnf[j] = [pc |-> cnf[j].pc, late |-> cnf[j].late, child |-> cnf[j].child,
                job |-> cnf[j].job, held |-> cnf[j].held]
  <2>1. cnf[j] \in CnfRecord
    OBVIOUS
  <2> QED
    BY <2>1 DEF CnfRecord
<1> USE <1>1
<1>2. ASSUME CnfFork(j)
      PROVE  /\ cnf[j].pc = "fork" /\ cnf'[j].pc = "poll" /\ cnf'[j].job = gEdges[1]
             /\ cnf'[j].child = IF gEdges[1] = 0 THEN "zombie" ELSE "solve"
  BY <1>2 DEF CnfFork, CnfAt
<1>3. ASSUME CnfDeadline(j)
      PROVE  /\ cnf[j].pc \in {"poll", "wait"} /\ cnf[j].child \notin Gone
             /\ cnf'[j].pc = cnf[j].pc /\ cnf'[j].child = cnf[j].child
             /\ cnf'[j].job = cnf[j].job /\ cnf'[j].late
  BY <1>3 DEF CnfDeadline, CnfAt
<1>4. ASSUME CnfPoll(j)
      PROVE  /\ cnf[j].pc = "poll" /\ cnf'[j].pc = IF PollsOn(j) THEN "wait" ELSE "after"
             /\ cnf'[j].late = cnf[j].late /\ cnf'[j].child = cnf[j].child
             /\ cnf'[j].job = cnf[j].job
  BY <1>4 DEF CnfPoll, CnfAt
<1>5. ASSUME CnfWait(j)
      PROVE  /\ cnf[j].pc = "wait" /\ cnf'[j].pc = "poll" /\ cnf'[j].job = cnf[j].job
             /\ ChildEnded(j) => cnf'[j].child = "reaped" /\ ~cnf'[j].late
             /\ ~ChildEnded(j) => cnf'[j].child = cnf[j].child
  BY <1>5 DEF CnfWait, CnfAt
<1>6. ASSUME CnfAfter(j)
      PROVE  /\ cnf[j].pc = "after"
             /\ cnf'[j].pc = IF cnf[j].late /\ ready[1] THEN "lock" ELSE "exit"
             /\ cnf'[j].late = cnf[j].late /\ cnf'[j].child = cnf[j].child
             /\ cnf'[j].job = cnf[j].job
  BY <1>6 DEF CnfAfter, CnfAt
<1>7. ASSUME CnfGiveUp(j)
      PROVE  /\ cnf[j].pc = "lock" /\ cnf'[j].pc = "kill"
             /\ cnf'[j].child = cnf[j].child /\ cnf'[j].job = cnf[j].job
  BY <1>7 DEF CnfGiveUp, CnfAt
<1>8. ASSUME CnfKill(j)
      PROVE  /\ cnf[j].pc = "kill" /\ cnf'[j].pc = "exit" /\ cnf'[j].job = cnf[j].job
             /\ cnf'[j].child = IF cnf[j].child = "zombie" THEN "reaped" ELSE "killed"
  BY <1>8 DEF CnfKill, CnfAt
<1>9. ASSUME Child(j)
      PROVE  /\ cnf'[j].pc = cnf[j].pc /\ cnf'[j].late = cnf[j].late
             /\ cnf'[j].job = cnf[j].job
             /\ cnf[j].child \in {"solve", "lock"} /\ cnf'[j].child \in {"lock", "zombie"}
  BY <1>9 DEF Child, ChildSolve, ChildCrash, ChildPrint, ChildAt
<1> QED
  BY <1>2, <1>3, <1>4, <1>5, <1>6, <1>7, <1>8, <1>9

-------------------------------------------------------------------------------
(* g_mutex.                                                                    *)

\* Who prints or kills holds g_mutex.
MutexInv ==
    /\ \A w \in Approx : worker[w] = "print" => mutex = Worker(w)
    /\ \A j \in DOMAIN cnf : cnf[j].pc = "kill" => mutex = Cnf(j)

LEMMA MutexNext == IInv /\ CreateInv /\ MutexInv /\ [Next]_vars => MutexInv'
<1> SUFFICES ASSUME IInv, CreateInv, MutexInv, [Next]_vars PROVE MutexInv'
  OBVIOUS
<1> USE DEF Free, Main, Worker, Cnf
<1>1. CASE MainThread
  <2>1. CASE MainCreateCnf
    BY <2>1, ThreadCreated DEF MutexInv, NewCnf, sharedVars
  <2>2. CASE ~MainCreateCnf
    <3>1. cnf' = cnf /\ \A w \in Approx : worker'[w] = "print" => worker[w] = "print"
      BY <1>1, <2>2
         DEF MainThread, MainRead, MainSeparator, MainCopyEdges, MainJoin, MainCopyCover,
             MainCreateWorker, MainCreateFails, MainLock, MainUnlock, MainClear, MainCancel,
             MainJoinNothing, IInv, TypeInv, PlacesOK
    <3>2. mutex' = mutex \/ mutex \in {Free, Main}
      BY <1>1, <2>2
         DEF MainThread, MainRead, MainSeparator, MainCopyEdges, MainJoin, MainCopyCover,
             MainCreateWorker, MainCreateFails, MainLock, MainUnlock, MainClear, MainCancel,
             MainJoinNothing, sharedVars
    <3> QED
      BY <3>1, <3>2 DEF MutexInv
  <2> QED
    BY <2>1, <2>2
<1>2. ASSUME NEW w \in Approx, WorkerThread(w) PROVE MutexInv'
  <2>1. cnf' = cnf /\ worker \in [Approx -> WorkerPlaces] /\ worker' = [worker EXCEPT ![w] = worker'[w]]
    BY <1>2 DEF WorkerThread, WorkerLoop, WorkerLook, WorkerSolve, WorkerLock, WorkerPrint,
                WorkerReset, WorkerFinish, GoTo, IInv, TypeInv, PlacesOK
  <2>2. CASE WorkerLock(w)
    <3>1. mutex = Free /\ mutex' = Worker(w)
      BY <2>2 DEF WorkerLock
    <3> QED
      BY <2>1, <3>1 DEF MutexInv
  <2>3. CASE WorkerPrint(w)
    <3>1. mutex = Worker(w) /\ worker'[w] = "reset"
      BY <2>1, <2>3 DEF WorkerPrint, WorkerAt, GoTo, MutexInv
    <3> QED
      BY <2>1, <3>1 DEF MutexInv
  <2>4. CASE ~WorkerLock(w) /\ ~WorkerPrint(w)
    <3>1. mutex' = mutex /\ worker'[w] # "print"
      BY <1>2, <2>1, <2>4
         DEF WorkerThread, WorkerLoop, WorkerLook, WorkerSolve, WorkerReset, WorkerFinish, GoTo,
             sharedVars
    <3> QED
      BY <2>1, <3>1 DEF MutexInv
  <2> QED
    BY <2>2, <2>3, <2>4
<1>3. ASSUME NEW j \in Jobs, CnfThread(j) \/ CnfDeadline(j) \/ Child(j) PROVE MutexInv'
  <2>1. /\ worker' = worker /\ DOMAIN cnf' = DOMAIN cnf /\ cnf \in Seq(CnfRecord)
        /\ \A i \in DOMAIN cnf : i # j => cnf'[i] = cnf[i]
    BY <1>3, ThreadsStay, OwnRecord
       DEF CnfThread, CnfFork, CnfForkFails, CnfDeadline, CnfPoll, CnfWait, CnfAfter, CnfGiveUp,
           CnfKill, Child, ChildSolve, ChildCrash, ChildPrint, CnfUnchanged, ChildUnchanged
  <2>2. CASE CnfGiveUp(j)
    <3>1. mutex = Free /\ mutex' = Cnf(j)
      BY <2>2 DEF CnfGiveUp
    <3> QED
      BY <2>1, <3>1 DEF MutexInv
  <2>3. CASE CnfKill(j)
    <3>1. j \in DOMAIN cnf
      BY <2>3 DEF CnfKill, CnfAt
    <3>2. mutex = Cnf(j) /\ cnf'[j].pc = "exit"
      BY <2>1, <2>3, <3>1, StepRecord DEF MutexInv
    <3> QED
      BY <2>1, <3>2 DEF MutexInv
  <2>4. CASE ~CnfGiveUp(j) /\ ~CnfKill(j)
    <3>1. mutex' = mutex
      BY <1>3, <2>4
         DEF CnfThread, CnfFork, CnfForkFails, CnfDeadline, CnfPoll, CnfWait, CnfAfter, Child,
             ChildSolve, ChildCrash, ChildPrint, ChildUnchanged, sharedVars
    <3>2. CASE CnfForkFails(j)
      BY <3>1, <3>2 DEF CnfForkFails, CnfUnchanged, MutexInv
    <3>3. CASE ~CnfForkFails(j)
      <4>1. j \in DOMAIN cnf
        BY <1>3, <2>4, <3>3
           DEF CnfThread, CnfFork, CnfDeadline, CnfPoll, CnfWait, CnfAfter, CnfAt, Child,
               ChildSolve, ChildCrash, ChildPrint, ChildAt
      <4>2. cnf'[j].pc = "kill" => cnf[j].pc = "kill"
        BY <1>3, <2>1, <2>4, <3>3, <4>1, StepRecord DEF CnfThread
      <4> QED
        BY <2>1, <3>1, <4>2 DEF MutexInv
    <3> QED
      BY <3>2, <3>3
  <2> QED
    BY <2>2, <2>3, <2>4
<1>4. CASE UNCHANGED vars
  BY <1>4 DEF vars, sharedVars, MutexInv
<1> QED
  BY <1>1, <1>2, <1>3, <1>4 DEF Next

-------------------------------------------------------------------------------
(* The threads and their rounds.                                               *)

Living == {"solve", "lock", "zombie"}

\* A thread that writes its flag no more: it is about to kill its child, has
\* waited for it, or has ended.
Quiet(j) ==
    \/ cnf[j].pc = "kill" /\ cnf[j].child \in Living
    \/ cnf[j].pc \in {"poll", "after"} /\ cnf[j].child = "reaped" /\ ~cnf[j].late
    \/ cnf[j].pc = "exit" /\ cnf[j].child \in Gone

Working(j) ==
    \/ cnf[j].pc = "fork" /\ cnf[j].child = "none"
    \/ cnf[j].pc \in {"poll", "wait"} /\ cnf[j].child \in Living
    \/ cnf[j].pc \in {"after", "lock"} /\ cnf[j].child \in Living /\ cnf[j].late

\* The round that is open is the one of thread j, and its flag is up.
Current(j) == /\ ready[1] /\ main \notin Uncreated /\ gEdges[1] = j
              /\ j = Len(cnf) /\ j = Len(jobs) /\ j = seps + 1

InRound(j) == Quiet(j) \/ (Working(j) /\ Current(j))

OwnJob(j) == cnf[j].child # "none" => cnf[j].job = j

Settled(j) == HasVertexZero(j) \/ j \in Range(answers[1])

Accounted(j) == cnf[j].child \in {"zombie", "reaped"} => Settled(j)

\* The second before the kill may reach into the next round, but not past the
\* signal main sends in it, for which it needs the mutex.
KillsSoon(j) == cnf[j].pc = "kill" /\ j < Len(cnf) => main \in {"sig2", "failed"}

ThreadOK(j) == InRound(j) /\ OwnJob(j) /\ Accounted(j) /\ KillsSoon(j)

CnfInv ==
    ~stale => /\ main \in Uncreated => ready[1]
              /\ \A j \in DOMAIN cnf : ThreadOK(j)

JoinInv == main \in {"join2", "join3", "done"} /\ cnf # <<>> => cnf[Len(cnf)].pc = "exit"

\* An answer stays an answer.
LEMMA StaysSettled ==
    ASSUME IInv, CreateInv, NEW j \in DOMAIN cnf, Settled(j),
           \A i \in DOMAIN jobs : jobs'[i] = jobs[i],
           Range(answers[1]) \subseteq Range(answers'[1])
    PROVE  Settled(j)'
<1>1. j \in DOMAIN jobs
  <2>1. /\ jobs \in Seq([n : Nat, edges : SUBSET Pair]) /\ cnf \in Seq(CnfRecord)
        /\ Len(cnf) <= Len(jobs)
    BY DEF IInv, TypeInv, GraphsOK, CreateInv
  <2> QED
    BY <2>1
<1> QED
  BY <1>1 DEF Settled, HasVertexZero

\* A step of one thread or child, with what it must not do to the others.
LEMMA OneThread ==
    ASSUME IInv, CreateInv, CnfInv, ~stale,
           NEW j \in DOMAIN cnf,
           UNCHANGED <<jobs, seps>>, gEdges'[1] = gEdges[1], main' = main \/ main' = "failed",
           Len(cnf') = Len(cnf), DOMAIN cnf' = DOMAIN cnf,
           \A i \in DOMAIN cnf : i # j => cnf'[i] = cnf[i],
           Range(answers[1]) \subseteq Range(answers'[1]),
           ready'[1] = ready[1] \/ Current(j),
           ThreadOK(j)'
    PROVE  CnfInv'
<1>1. main' \in Uncreated => ready'[1]
  BY DEF CnfInv, Current, Uncreated
<1>2. ASSUME NEW i \in DOMAIN cnf, i # j
      PROVE  ThreadOK(i)'
  <2>1. ThreadOK(i) /\ cnf'[i] = cnf[i]
    BY <1>2 DEF CnfInv
  <2>2. Quiet(i) => Quiet(i)'
    BY <2>1 DEF Quiet
  <2>3. Working(i) /\ Current(i) => Working(i)' /\ Current(i)'
    BY <1>2, <2>1 DEF Working, Current, Uncreated
  <2>4. OwnJob(i)' /\ KillsSoon(i)'
    BY <2>1 DEF ThreadOK, OwnJob, KillsSoon
  <2>5. Accounted(i)'
    BY <2>1, StaysSettled DEF ThreadOK, Accounted
  <2> QED
    BY <2>1, <2>2, <2>3, <2>4, <2>5 DEF ThreadOK, InRound
<1> QED
  BY <1>1, <1>2 DEF CnfInv

LEMMA CnfOwn ==
    ASSUME IInv, CreateInv, CnfInv, ~stale', NEW j \in Jobs, CnfThread(j) \/ CnfDeadline(j)
    PROVE  CnfInv'
<1>1. ~stale /\ UNCHANGED <<jobs, seps, answers>>
  BY OthersFrame
     DEF inputVars, CnfThread, CnfFork, CnfForkFails, CnfDeadline, CnfPoll, CnfWait, CnfAfter,
         CnfGiveUp, CnfKill, CnfUnchanged, IInv, TypeInv, TracesOK
<1>2. /\ gEdges'[1] = gEdges[1] /\ Len(cnf') = Len(cnf) /\ DOMAIN cnf' = DOMAIN cnf
      /\ cnf \in Seq(CnfRecord) /\ \A i \in DOMAIN cnf : i # j => cnf'[i] = cnf[i]
  BY ThreadsStay, OwnRecord
<1>3. j \in DOMAIN cnf
  BY DEF CnfThread, CnfFork, CnfForkFails, CnfDeadline, CnfPoll, CnfWait, CnfAfter, CnfGiveUp,
         CnfKill, CnfAt
<1>4. ThreadOK(j)
  BY <1>1, <1>3 DEF CnfInv
<1>5. Settled(j) => Settled(j)'
  BY <1>1, <1>3, StaysSettled
<1>6. /\ CnfForkFails(j) \/ main' = main
      /\ main' = main \/ main' = "failed"
  BY DEF CnfThread, CnfFork, CnfForkFails, CnfDeadline, CnfPoll, CnfWait, CnfAfter, CnfGiveUp,
         CnfKill, CnfUnchanged
<1> DEFINE Kept == /\ ready'[1] = ready[1] /\ (Current(j) => Current(j)')
           Goal == /\ cnf'[j].pc = "kill" => cnf[j].pc = "kill" \/ Current(j)
                   /\ ready'[1] = ready[1] \/ Current(j)
                   /\ InRound(j)' /\ OwnJob(j)' /\ Accounted(j)'
<1>7. ready' = ready => Kept
  BY <1>1, <1>2, <1>6 DEF Current, Uncreated
<1> HIDE DEF Kept
<1>8. Goal
  <2> USE <1>2, <1>3, StepRecord DEF InRound, Working, OwnJob, Accounted, Kept
  <2>1. CASE CnfFork(j)
    <3>1. ready' = ready /\ Working(j) /\ Current(j)
      BY <1>4, <2>1 DEF CnfFork, ThreadOK, Quiet
    <3>2. gEdges[1] = j /\ j # 0
      BY <3>1 DEF Current
    <3>3. cnf'[j].pc = "poll" /\ cnf'[j].child = "solve" /\ cnf'[j].job = j
      BY <2>1, <3>2
    <3> QED
      BY <1>7, <3>1, <3>3 DEF Living
  <2>2. CASE CnfForkFails(j)
    <3>1. ready' = ready /\ cnf' = cnf
      BY <2>2 DEF CnfForkFails
    <3> QED
      BY <1>7, <1>4, <1>5, <3>1 DEF ThreadOK, Quiet
  <2>3. CASE CnfDeadline(j)
    <3>1. ready' = ready
      BY <2>3 DEF CnfDeadline
    <3>2. Working(j) /\ Current(j)
      BY <1>4, <2>3 DEF ThreadOK, Quiet, Gone
    <3> QED
      BY <1>7, <2>3, <1>4, <1>5, <3>1, <3>2 DEF ThreadOK
  <2>4. CASE CnfPoll(j)
    <3>1. ready' = ready
      BY <2>4 DEF CnfPoll
    <3>2. CASE Working(j) /\ Current(j)
      BY <1>7, <2>4, <1>4, <1>5, <3>1, <3>2 DEF ThreadOK, PollsOn, Current
    <3>3. CASE Quiet(j)
      <4>1. ~(PollsOn(j) /\ cnf[j].child \in Gone)
        BY <2>4 DEF CnfPoll
      <4>2. cnf[j].child = "reaped" /\ ~cnf[j].late
        BY <2>4, <3>3 DEF Quiet
      <4> QED
        BY <2>4, <1>4, <1>5, <3>1, <4>1, <4>2 DEF ThreadOK, Quiet, Gone
    <3> QED
      BY <1>4, <3>2, <3>3 DEF ThreadOK
  <2>5. CASE CnfWait(j)
    <3>1. Working(j) /\ Current(j) /\ cnf[j].child \in Living
      BY <1>4, <2>5 DEF ThreadOK, Quiet
    <3>2. CASE ChildEnded(j)
      <4>1. cnf[j].child = "zombie"
        BY <3>1, <3>2 DEF ChildEnded, Living, Gone
      <4> QED
        BY <2>5, <1>4, <1>5, <3>1, <3>2, <4>1 DEF ThreadOK, Quiet
    <3>3. CASE ~ChildEnded(j)
      <4>1. ready' = ready
        BY <2>5, <3>3 DEF CnfWait
      <4> QED
        BY <1>7, <2>5, <1>4, <1>5, <3>1, <3>3, <4>1 DEF ThreadOK
    <3> QED
      BY <3>2, <3>3
  <2>6. CASE CnfAfter(j)
    <3>1. ready' = ready
      BY <2>6 DEF CnfAfter
    <3>2. CASE Working(j) /\ Current(j)
      BY <1>7, <2>6, <1>4, <1>5, <3>1, <3>2 DEF ThreadOK, Current
    <3>3. CASE Quiet(j)
      BY <2>6, <1>4, <1>5, <3>1, <3>3 DEF ThreadOK, Quiet, Gone
    <3> QED
      BY <1>4, <3>2, <3>3 DEF ThreadOK
  <2>7. CASE CnfGiveUp(j)
    <3>1. Working(j) /\ Current(j)
      BY <1>4, <2>7 DEF ThreadOK, Quiet
    <3> QED
      BY <2>7, <1>4, <1>5, <3>1 DEF ThreadOK, Quiet
  <2>8. CASE CnfKill(j)
    <3>1. ready' = ready /\ cnf[j].child \in Living
      BY <1>4, <2>8 DEF CnfKill, ThreadOK, Quiet
    <3> QED
      BY <2>8, <1>4, <1>5, <3>1 DEF ThreadOK, Quiet, Gone, Living
  <2> QED
    BY <2>1, <2>2, <2>3, <2>4, <2>5, <2>6, <2>7, <2>8 DEF CnfThread
<1>9. KillsSoon(j)'
  BY <1>2, <1>4, <1>6, <1>8 DEF ThreadOK, KillsSoon, Current
<1> QED
  BY <1>1, <1>2, <1>3, <1>6, <1>8, <1>9, OneThread DEF ThreadOK

\* The child of graph j prints the answer of graph j.
LEMMA PrintsOwn ==
    ASSUME IInv, NEW j \in DOMAIN cnf, OwnJob(j), ChildPrint(j)
    PROVE  /\ answers'[1] = Append(answers[1], j)
           /\ Range(answers'[1]) = Range(answers[1]) \union {j}
<1>1. /\ answers \in [Solvers -> Seq(Nat)] /\ cnf[j].child = "lock" /\ cnf[j].job = j
      /\ cnf \in Seq(CnfRecord)
  BY DEF IInv, TypeInv, TracesOK, ChildPrint, ChildAt, OwnJob
<1>2. answers'[1] = Append(answers[1], j)
  BY <1>1 DEF ChildPrint, Solvers
<1>3. answers[1] \in Seq(Nat) /\ j \in Nat
  BY <1>1 DEF Solvers
<1>4. /\ DOMAIN answers'[1] = DOMAIN answers[1] \union {Len(answers[1]) + 1}
      /\ answers'[1][Len(answers[1]) + 1] = j
      /\ \A k \in DOMAIN answers[1] : answers'[1][k] = answers[1][k]
  BY <1>2, <1>3
<1> QED
  BY <1>2, <1>4 DEF Range

LEMMA CnfChild ==
    ASSUME IInv, CreateInv, CnfInv, ~stale', NEW j \in Jobs, Child(j)
    PROVE  CnfInv'
<1>1. ~stale /\ UNCHANGED <<jobs, seps, main, ready>>
  BY DEF Child, ChildSolve, ChildCrash, ChildPrint, ChildUnchanged, inputVars, sharedVars
<1>2. /\ gEdges'[1] = gEdges[1] /\ Len(cnf') = Len(cnf) /\ DOMAIN cnf' = DOMAIN cnf
      /\ cnf \in Seq(CnfRecord) /\ \A i \in DOMAIN cnf : i # j => cnf'[i] = cnf[i]
  BY ThreadsStay, OwnRecord
<1>3. j \in DOMAIN cnf
  BY DEF Child, ChildSolve, ChildCrash, ChildPrint, ChildAt
<1>4. ThreadOK(j)
  BY <1>1, <1>3 DEF CnfInv
<1>5. /\ cnf'[j].pc = cnf[j].pc /\ cnf'[j].late = cnf[j].late /\ cnf'[j].job = cnf[j].job
      /\ cnf[j].child \in {"solve", "lock"} /\ cnf'[j].child \in {"lock", "zombie"}
  BY <1>2, <1>3, StepRecord
<1>6. Range(answers[1]) \subseteq Range(answers'[1])
  <2>1. CASE ChildPrint(j)
    BY <1>3, <1>4, <2>1, PrintsOwn DEF ThreadOK
  <2>2. CASE ChildSolve(j) \/ ChildCrash(j)
    BY <2>2 DEF ChildSolve, ChildCrash
  <2> QED
    BY <2>1, <2>2 DEF Child
<1>7. InRound(j)'
  <2>1. Current(j) => Current(j)'
    BY <1>1, <1>2 DEF Current
  <2> QED
    BY <1>4, <1>5, <2>1 DEF ThreadOK, InRound, Quiet, Working, Living, Gone
<1>8. OwnJob(j)' /\ KillsSoon(j)'
  BY <1>1, <1>2, <1>4, <1>5 DEF ThreadOK, OwnJob, KillsSoon
<1>9. Accounted(j)'
  <2> SUFFICES ASSUME cnf'[j].child = "zombie" PROVE Settled(j)'
    BY <1>5 DEF Accounted
  <2>1. CASE ChildPrint(j)
    BY <1>3, <1>4, <2>1, PrintsOwn DEF ThreadOK, Settled
  <2>2. CASE ChildCrash(j)
    <3>1. HasVertexZero(j)
      BY <1>4, <1>5, <2>2 DEF ChildCrash, ThreadOK, OwnJob
    <3> QED
      BY <1>1, <3>1 DEF Settled, HasVertexZero
  <2>3. CASE ChildSolve(j)
    <3>1. cnf[j] \in CnfRecord /\ cnf' = [cnf EXCEPT ![j].child = "lock"]
      BY <1>2, <1>3, <2>3 DEF ChildSolve
    <3>2. cnf'[j].child = "lock"
      BY <1>3, <3>1 DEF CnfRecord
    <3> QED
      BY <3>2
  <2> QED
    BY <2>1, <2>2, <2>3 DEF Child
<1> QED
  BY <1>1, <1>2, <1>3, <1>6, <1>7, <1>8, <1>9, OneThread DEF ThreadOK

\* A step that leaves the threads, their flag and their answers alone.
LEMMA ThreadsKept ==
    ASSUME IInv, CreateInv, CnfInv, ~stale,
           UNCHANGED <<cnf, answers>>, \A i \in DOMAIN jobs : jobs'[i] = jobs[i],
           main' \in Uncreated => ready'[1],
           \A j \in DOMAIN cnf : Current(j) => Current(j)',
           \A j \in DOMAIN cnf : KillsSoon(j) => KillsSoon(j)'
    PROVE  CnfInv'
<1>1. ASSUME NEW j \in DOMAIN cnf PROVE ThreadOK(j)'
  <2>1. ThreadOK(j)
    BY DEF CnfInv
  <2>2. Settled(j) => Settled(j)'
    BY StaysSettled
  <2>3. InRound(j)' /\ OwnJob(j)' /\ Accounted(j)'
    BY <2>1, <2>2 DEF ThreadOK, InRound, Quiet, Working, OwnJob, Accounted
  <2> QED
    BY <2>1, <2>3 DEF ThreadOK
<1> QED
  BY <1>1 DEF CnfInv

LEMMA CnfWorker ==
    ASSUME IInv, CreateInv, CnfInv, ~stale', NEW w \in Approx, WorkerThread(w)
    PROVE  CnfInv'
<1>1. /\ ~stale /\ UNCHANGED <<jobs, seps, main, cnf>>
      /\ ready'[1] = ready[1] /\ gEdges'[1] = gEdges[1] /\ answers'[1] = answers[1]
  BY DEF WorkerThread, WorkerLoop, WorkerLook, WorkerSolve, WorkerLock, WorkerPrint, WorkerReset,
         WorkerFinish, inputVars, sharedVars, IInv, TypeInv, TracesOK, CopiesOK, Approx, Solvers
<1>2. \A j \in DOMAIN cnf : ThreadOK(j) => ThreadOK(j)'
  BY <1>1 DEF ThreadOK, InRound, Quiet, Working, Current, OwnJob, Accounted, Settled,
              HasVertexZero, KillsSoon
<1> QED
  BY <1>1, <1>2 DEF CnfInv

LEMMA CnfMain ==
    ASSUME IInv, CreateInv, MutexInv, CnfInv, ~stale', MainThread
    PROVE  CnfInv'
<1>1. ~stale /\ UNCHANGED answers
  BY DEF MainThread, MainRead, MainSeparator, MainCopyEdges, MainJoin, MainCopyCover,
         MainCreateWorker, MainCreateCnf, MainCreateFails, MainLock, MainUnlock, MainClear,
         MainCancel, MainJoinNothing
<1>2. /\ Len(cnf) \in Nat /\ Len(jobs) \in Nat /\ seps \in Nat /\ DOMAIN cnf = 1 .. Len(cnf)
      /\ jobs \in Seq([n : Nat, edges : SUBSET Pair])
  BY CountType DEF IInv, TypeInv, GraphsOK
<1>3. CASE MainRead
  <2>1. UNCHANGED <<sharedVars, cnf, seps>> /\ main = "loop" /\ ready[1]
    BY <1>3 DEF MainRead, AllReady, Solvers
  <2>2. CASE main' \in {"loop", "crashed"} /\ jobs' = jobs
    BY <1>1, <2>1, <2>2, ThreadsKept DEF Current, KillsSoon, sharedVars, Uncreated
  <2>3. CASE main' = "copy1" /\ Len(jobs) = seps /\ jobs' = Append(jobs, AsJob(graph'))
    <3>1. \A i \in DOMAIN jobs : jobs'[i] = jobs[i]
      <4>1. AsJob(graph') \in [n : Nat, edges : SUBSET Pair]
        BY <1>3, TypeMain DEF IInv, TypeInv, GraphsOK, Graph, AsJob
      <4> QED
        BY <1>2, <2>3, <4>1
    <3>2. \A j \in DOMAIN cnf : ~Current(j)
      BY <1>2, <2>3 DEF Current
    <3> QED
      BY <1>1, <2>1, <2>3, <3>1, <3>2, ThreadsKept DEF KillsSoon, sharedVars
  <2> QED
    BY <1>3, <2>2, <2>3, ReadCases DEF IInv
<1>4. CASE MainSeparator
  <2>1. UNCHANGED <<cnf, jobs, main>> /\ ~ready[1] /\ ready'[1]
    BY <1>4 DEF MainSeparator, NoneReady, Solvers, inputVars
  <2> QED
    BY <1>1, <2>1, ThreadsKept DEF Current, KillsSoon
<1>5. CASE MainCreateCnf
  <2>0. PICK k : k = seps + 1
    OBVIOUS
  <2>1. /\ main = "create1" /\ main \in Uncreated /\ main' \notin Uncreated
        /\ UNCHANGED <<jobs, seps, gEdges, ready>>
    BY <1>5, ThreadCreated DEF Uncreated, inputVars, sharedVars
  <2>2. /\ Len(cnf') = k /\ cnf'[k] = NewCnf /\ DOMAIN cnf' = DOMAIN cnf \union {k}
        /\ \A j \in DOMAIN cnf : cnf'[j] = cnf[j] /\ j # k
    BY <1>5, <2>0, ThreadCreated
  <2>3. ThreadOK(k)'
    <3>1. gEdges[1] = k /\ Len(jobs) = k /\ ready[1]
      BY <1>1, <1>5, <2>0, <2>1, ThreadCreated DEF CreateInv, CnfInv
    <3>2. Current(k)' /\ Working(k)'
      BY <2>0, <2>1, <2>2, <3>1 DEF Current, Working, NewCnf
    <3>3. OwnJob(k)' /\ Accounted(k)' /\ KillsSoon(k)'
      <4>1. cnf'[k].pc = "fork" /\ cnf'[k].child = "none"
        BY <2>2 DEF NewCnf
      <4> QED
        BY <4>1 DEF OwnJob, Accounted, KillsSoon
    <3> QED
      BY <3>2, <3>3 DEF ThreadOK, InRound
  <2>4. ASSUME NEW j \in DOMAIN cnf PROVE ThreadOK(j)'
    <3>1. ThreadOK(j) /\ Quiet(j) /\ cnf'[j] = cnf[j]
      BY <1>1, <2>1, <2>2 DEF CnfInv, ThreadOK, InRound, Current
    <3>2. Settled(j) => Settled(j)'
      BY <1>1, <2>1, StaysSettled
    <3>3. KillsSoon(j)'
      <4>1. ~first
        <5>1. Len(cnf) = seps /\ j \in 1 .. Len(cnf)
          BY <1>2, <1>5, ThreadCreated
        <5>2. seps # 0
          BY <5>1
        <5> QED
          BY <5>2 DEF CreateInv
      <4>2. main' = "sig2"
        BY <1>5, <4>1, ThreadCreated
      <4> QED
        BY <4>2 DEF KillsSoon
    <3> QED
      BY <3>1, <3>2, <3>3 DEF ThreadOK, InRound, Quiet, OwnJob, Accounted
  <2> QED
    BY <2>1, <2>2, <2>3, <2>4 DEF CnfInv
<1>6. ASSUME NEW i \in Solvers, MainCopyEdges(i) PROVE CnfInv'
  <2>1. main \in Uncreated /\ main # "sig2" /\ UNCHANGED <<jobs, ready, cnf>>
    BY <1>6 DEF MainCopyEdges, CopyAt, Solvers, Uncreated, inputVars
  <2>2. ready[1]
    BY <1>1, <2>1 DEF CnfInv
  <2> QED
    BY <1>1, <2>1, <2>2, ThreadsKept DEF Current, KillsSoon, Uncreated
<1>7. ASSUME NEW w \in Approx, MainCopyCover(w) PROVE CnfInv'
  <2>1. main \in Uncreated /\ main # "sig2" /\ UNCHANGED <<jobs, ready, cnf>>
    BY <1>7 DEF MainCopyCover, RestAt, Approx, Uncreated, inputVars
  <2>2. ready[1]
    BY <1>1, <2>1 DEF CnfInv
  <2> QED
    BY <1>1, <2>1, <2>2, ThreadsKept DEF Current, KillsSoon, Uncreated
<1>8. ASSUME UNCHANGED <<jobs, seps, ready, gEdges, cnf>>, main' \notin Uncreated,
             main = "sig2" => main' = "sig2" \/ mutex = Main,
             main = "failed" => main' = "failed"
      PROVE  CnfInv'
  <2>1. \A j \in DOMAIN cnf : KillsSoon(j) => KillsSoon(j)'
    <3> SUFFICES ASSUME NEW j \in DOMAIN cnf, KillsSoon(j), cnf[j].pc = "kill", j < Len(cnf)
                 PROVE  main' \in {"sig2", "failed"}
      BY <1>8 DEF KillsSoon
    <3>1. mutex # Main
      BY DEF MutexInv, Main, Cnf
    <3> QED
      BY <1>8, <3>1 DEF KillsSoon
  <2> QED
    BY <1>1, <1>8, <2>1, ThreadsKept DEF Current
<1>9. ASSUME NEW w \in Approx, MainCreateWorker(w) PROVE CnfInv'
  BY <1>8, <1>9 DEF MainCreateWorker, CreateAt, Approx, Then, Uncreated, inputVars, sharedVars
<1>10. CASE MainCreateFails
  BY <1>8, <1>10 DEF MainCreateFails, Uncreated, inputVars, sharedVars
<1>11. CASE MainLock
  BY <1>8, <1>11 DEF MainLock, Signals, Uncreated, inputVars
<1>12. CASE MainUnlock
  <2>1. main \in Signals /\ main' = Then[main]
    BY <1>12 DEF MainUnlock, IInv, TypeInv, PlacesOK, LockInv
  <2>2. main # "failed" /\ main' \notin Uncreated
    BY <2>1 DEF Signals, Then, Uncreated
  <2> QED
    BY <1>8, <1>12, <2>2 DEF MainUnlock, inputVars
<1>13. CASE MainClear
  BY <1>8, <1>13 DEF MainClear, Then, Uncreated, sharedVars
<1>14. CASE MainCancel \/ MainJoinNothing
  BY <1>8, <1>14 DEF MainCancel, MainJoinNothing, Uncreated, inputVars, sharedVars
<1>15. ASSUME NEW i \in Solvers, MainJoin(i) PROVE CnfInv'
  BY <1>8, <1>15 DEF MainJoin, JoinAt, Solvers, Then, Uncreated, inputVars, sharedVars
<1> QED
  BY <1>3, <1>4, <1>5, <1>6, <1>7, <1>9, <1>10, <1>11, <1>12, <1>13, <1>14, <1>15 DEF MainThread

LEMMA CnfNext == IInv /\ CreateInv /\ MutexInv /\ CnfInv /\ [Next]_vars => CnfInv'
<1> SUFFICES ASSUME IInv, CreateInv, MutexInv, CnfInv, ~stale', [Next]_vars PROVE CnfInv'
  BY DEF CnfInv
<1>1. CASE UNCHANGED vars
  BY <1>1 DEF vars, inputVars, sharedVars, CnfInv, ThreadOK, InRound, Quiet, Working, Current,
              OwnJob, Accounted, Settled, HasVertexZero, KillsSoon
<1> QED
  BY <1>1, CnfMain, CnfWorker, CnfOwn, CnfChild DEF Next

LEMMA JoinNext == IInv /\ CreateInv /\ JoinInv /\ [Next]_vars => JoinInv'
<1> SUFFICES ASSUME IInv, CreateInv, JoinInv, [Next]_vars,
                    main' \in {"join2", "join3", "done"}, cnf' # <<>>
             PROVE  cnf'[Len(cnf')].pc = "exit"
  BY DEF JoinInv
<1>1. cnf \in Seq(CnfRecord)
  BY DEF IInv, TypeInv
<1>2. CASE MainJoin(1)
  <2>1. cnf' = cnf /\ cnf[Len(cnf)].pc = "exit"
    BY <1>2 DEF MainJoin, Ended
  <2> QED
    BY <2>1
<1>3. CASE MainThread /\ ~MainJoin(1)
  <2>1. cnf' = cnf /\ main \in {"join2", "join3", "done"}
    <3>1. ~MainCreateCnf
      BY ThreadCreated
    <3>2. cnf' = cnf
      BY <1>3, <3>1
         DEF MainThread, MainRead, MainSeparator, MainCopyEdges, MainJoin, MainCopyCover,
             MainCreateWorker, MainCreateFails, MainLock, MainUnlock, MainClear, MainCancel,
             MainJoinNothing
    <3>3. CASE MainUnlock
      <4>1. main \in Signals /\ main' = Then[main]
        BY <3>3 DEF MainUnlock, IInv, TypeInv, PlacesOK, LockInv
      <4> QED
        BY <4>1 DEF Signals, Then
    <3>4. CASE \E i \in Solvers : MainJoin(i)
      BY <1>3, <3>2, <3>4 DEF MainJoin, JoinAt, Solvers
    <3>5. CASE MainRead
      BY <3>5, ReadCases DEF IInv
    <3> QED
      BY <1>3, <3>1, <3>2, <3>3, <3>4, <3>5
         DEF MainThread, MainSeparator, MainCopyEdges, MainCopyCover, MainCreateWorker,
             MainCreateFails, MainLock, MainClear, MainCancel, MainJoinNothing, CopyAt, RestAt,
             CreateAt, Then, Signals, Solvers, Approx
  <2> QED
    BY <2>1 DEF JoinInv
<1>4. ASSUME NEW w \in Approx, WorkerThread(w) PROVE cnf'[Len(cnf')].pc = "exit"
  <2>1. cnf' = cnf /\ main' = main
    BY <1>4 DEF WorkerThread, WorkerLoop, WorkerLook, WorkerSolve, WorkerLock, WorkerPrint,
                WorkerReset, WorkerFinish
  <2> QED
    BY <2>1 DEF JoinInv
<1>5. ASSUME NEW j \in Jobs, CnfThread(j) \/ CnfDeadline(j) \/ Child(j)
      PROVE  cnf'[Len(cnf')].pc = "exit"
  <2>1. /\ Len(cnf') = Len(cnf) /\ DOMAIN cnf' = DOMAIN cnf /\ main' = main
        /\ cnf' \in Seq(CnfRecord) /\ \A i \in DOMAIN cnf : i # j => cnf'[i] = cnf[i]
    BY <1>5, ThreadsStay, OwnRecord, OthersFrame
  <2> DEFINE k == Len(cnf)
  <2>2. cnf # <<>> /\ k \in DOMAIN cnf /\ cnf[k].pc = "exit"
    BY <1>1, <2>1 DEF JoinInv
  <2>3. j = k => cnf'[k].pc = "exit"
    BY <1>1, <1>5, <2>1, <2>2, StepRecord DEF CnfThread, CnfForkFails
  <2> QED
    BY <2>1, <2>2, <2>3
<1>6. CASE UNCHANGED vars
  BY <1>6 DEF vars, JoinInv
<1> QED
  BY <1>2, <1>3, <1>4, <1>5, <1>6 DEF Next

-------------------------------------------------------------------------------
(* What the threads promise.                                                   *)

CInv == IInv /\ CreateInv /\ MutexInv /\ CnfInv /\ JoinInv

LEMMA CInvInit == Init => CInv
<1> SUFFICES ASSUME Init PROVE CreateInv /\ MutexInv /\ CnfInv /\ JoinInv
  BY InvInit DEF CInv
<1> USE DEF Init
<1>1. CreateInv
  BY DEF CreateInv, CreatesCnfThread, Uncreated
<1>2. MutexInv /\ CnfInv /\ JoinInv
  BY DEF MutexInv, CnfInv, JoinInv, Uncreated
<1> QED
  BY <1>1, <1>2

LEMMA CInvNext == CInv /\ [Next]_vars => CInv'
BY InvNext, CreateNext, MutexNext, CnfNext, JoinNext DEF CInv

(* Every graph gets a cnf_sat thread of its own: main never reaches the        *)
(* signalling of solver 1 (main.cpp:316-321), for the separator that ends a    *)
(* round says that the thread is gone.                                         *)
THEOREM ThreadPerGraph == Spec => []CnfAlwaysRecreated
<1>1. CInv => CnfAlwaysRecreated
  BY DEF CInv, CreateInv, CnfAlwaysRecreated, Uncreated
<1> QED
  BY <1>1, CInvInit, CInvNext, PTL DEF Spec

(* As long as no thread polls a child it has waited for, the thread of graph j *)
(* works on graph j, and once the thread of the next graph exists it writes    *)
(* the flag of solver 1 no more (main.cpp:72-126).                             *)
THEOREM ThreadsKeepToRounds == Spec => []CnfThreadsMatchRounds
<1>1. CInv => CnfThreadsMatchRounds
  <2> SUFFICES ASSUME CInv, ~stale, NEW j \in DOMAIN cnf
               PROVE  /\ cnf[j].child # "none" => cnf[j].job = j
                      /\ j < Len(cnf) =>
                           cnf[j].pc = "kill" \/ (cnf[j].child \in Gone /\ cnf[j].pc # "wait")
    BY DEF CnfThreadsMatchRounds
  <2>1. ThreadOK(j) /\ Len(cnf) \in Nat
    BY CountType DEF CInv, CnfInv, IInv
  <2> QED
    BY <2>1 DEF ThreadOK, OwnJob, InRound, Quiet, Current, Gone
<1> QED
  BY <1>1, CInvInit, CInvNext, PTL DEF Spec

(* With the same proviso no graph is forgotten: when main returns, each child  *)
(* has been waited for or killed, and a child that ended by itself has either  *)
(* printed its cover or read literals[-1] on a vertex 0.                       *)
THEOREM NoGraphForgotten == Spec => []CnfAccountedFor
<1>1. CInv => CnfAccountedFor
  <2> SUFFICES ASSUME CInv, main = "done", ~stale, NEW j \in DOMAIN jobs
               PROVE  /\ cnf[j].child \in Gone
                      /\ cnf[j].child = "reaped" => HasVertexZero(j) \/ j \in Range(answers[1])
    BY DEF CnfAccountedFor
  <2>1. /\ j \in DOMAIN cnf /\ DOMAIN cnf = 1 .. Len(cnf) /\ Len(cnf) \in Nat
    <3>1. /\ Len(cnf) = Len(jobs) /\ jobs \in Seq([n : Nat, edges : SUBSET Pair])
          /\ cnf \in Seq(CnfRecord)
      BY DEF CInv, CreateInv, Uncreated, IInv, TypeInv, GraphsOK
    <3> QED
      BY <3>1
  <2>2. ThreadOK(j)
    BY <2>1 DEF CInv, CnfInv
  <2>3. CASE j = Len(cnf)
    <3>1. cnf[j].pc = "exit"
      BY <2>1, <2>3 DEF CInv, JoinInv
    <3> QED
      BY <2>2, <3>1 DEF ThreadOK, InRound, Quiet, Working, Accounted, Settled
  <2>4. CASE j < Len(cnf)
    <3>1. Quiet(j) /\ cnf[j].pc # "kill"
      BY <2>1, <2>2, <2>4 DEF ThreadOK, InRound, Current, KillsSoon
    <3> QED
      BY <2>2, <3>1 DEF ThreadOK, Quiet, Accounted, Settled, Gone
  <2> QED
    BY <2>1, <2>3, <2>4
<1> QED
  BY <1>1, CInvInit, CInvNext, PTL DEF Spec

(* Whoever prints a cover of the parent process, or kills a child, holds       *)
(* g_mutex (main.cpp:106-126, 174-177, 201-204), whatever flag 1 has become.  *)
THEOREM PrinterHoldsMutex == Spec => []MutexInv
<1>1. CInv => MutexInv
  BY DEF CInv
<1> QED
  BY <1>1, CInvInit, CInvNext, PTL DEF Spec

(* With the same proviso CNF-SAT-VC answers a graph while the round of the     *)
(* graph is open, or in the second between giving it up and killing its child  *)
(* (main.cpp:108-111).                                                         *)
THEOREM AnswersInItsRound == Spec => CnfAnswersItsRound
<1>1. ASSUME CInv, [Next]_vars, answers'[1] # answers[1], ~stale
      PROVE  \E j \in DOMAIN cnf : /\ answers'[1] = Append(answers[1], j)
                                   /\ j = seps + 1 \/ cnf[j].pc = "kill"
  <2>1. PICK j \in Jobs : ChildPrint(j)
    <3>1. ~MainThread
      BY <1>1 DEF MainThread, MainRead, MainSeparator, MainCopyEdges, MainJoin, MainCopyCover,
         MainCreateWorker, MainCreateCnf, MainCreateFails, MainLock, MainUnlock, MainClear,
         MainCancel, MainJoinNothing
    <3>2. ASSUME NEW w \in Approx, WorkerThread(w) PROVE FALSE
      BY <1>1, <3>2 DEF WorkerThread, WorkerLoop, WorkerLook, WorkerSolve, WorkerLock,
         WorkerPrint, WorkerReset, WorkerFinish, CInv, IInv, TypeInv, TracesOK, Approx, Solvers
    <3>3. ASSUME NEW j \in Jobs, CnfThread(j) \/ CnfDeadline(j) PROVE FALSE
      BY <1>1, <3>3 DEF CnfThread, CnfFork, CnfForkFails, CnfDeadline, CnfPoll, CnfWait,
         CnfAfter, CnfGiveUp, CnfKill, CnfUnchanged
    <3> QED
      BY <1>1, <3>1, <3>2, <3>3 DEF Next, Child, ChildSolve, ChildCrash, vars
  <2>2. j \in DOMAIN cnf /\ cnf[j].child = "lock"
    BY <2>1 DEF ChildPrint, ChildAt
  <2>3. ThreadOK(j)
    BY <1>1, <2>2 DEF CInv, CnfInv
  <2>4. answers'[1] = Append(answers[1], j)
    BY <1>1, <2>1, <2>2, <2>3, PrintsOwn DEF CInv, ThreadOK
  <2>5. j = seps + 1 \/ cnf[j].pc = "kill"
    BY <2>2, <2>3 DEF ThreadOK, InRound, Quiet, Current, Gone
  <2> QED
    BY <2>2, <2>4, <2>5
<1>2. CInv /\ [Next]_vars =>
        [answers'[1] # answers[1] /\ ~stale =>
            \E j \in DOMAIN cnf : /\ answers'[1] = Append(answers[1], j)
                                  /\ j = seps + 1 \/ cnf[j].pc = "kill"]_vars
  BY <1>1
<1> QED
  BY <1>2, CInvInit, CInvNext, PTL DEF Spec, CnfAnswersItsRound
===============================================================================
