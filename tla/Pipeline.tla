------------------------------- MODULE Pipeline -------------------------------
(* main.cpp: the main thread reads lines and hands each accepted graph to      *)
(* three solvers.  Solver 1 is a thread per graph that forks a process for     *)
(* CNF-SAT-VC and polls it; solvers 2 and 3 are two threads, started with the  *)
(* first graph, that spin on their own copy of the graph.  The only            *)
(* synchronisation is one ready_for_task flag per solver, g_cancel and g_mutex. *)
(*                                                                             *)
(* A graph is represented by its number, the order in which it was accepted;   *)
(* 0 is the empty graph and the empty cover.  One step is one access to shared *)
(* memory that another thread could see between two others.                    *)
EXTENDS LineParser, VertexCover

CONSTANTS Scripts,       \* the inputs: sequences of lines, the last one what follows
                         \* the last newline character (Blank, in a terminated file)
          MaxLines,      \* bound on the length of a script
          MayFail        \* whether pthread_create and fork may fail

ASSUME ScriptsAssumption ==
    /\ MaxLines \in Nat
    /\ Scripts \subseteq Seq(Line)
    /\ \A s \in Scripts : Len(s) <= MaxLines
ASSUME MayFailAssumption == MayFail \in BOOLEAN

Solvers == 1 .. 3
Approx  == {2, 3}        \* approxCv1 and approxCv2
Jobs    == 1 .. MaxLines

VARIABLES
  input,                 \* what is left on stdin
  eof,                   \* std::cin.eof()
  main,                  \* the main thread's place
  graph,                 \* main's MyGraph
  jobs,                  \* the graphs accepted so far
  gEdges, gCover,        \* graph_t1..3: whose edges, whose vertex_cover
  ready,                 \* thread_data1..3->ready_for_task
  check_timeout, thread_deleted, first, g_cancel,
  mutex,                 \* the holder of g_mutex
  worker,                \* the places of threads 2 and 3
  cnf,                   \* one record per cnf_sat thread, with its child process
  answers,               \* per solver: the covers printed, in order
  seps,                  \* the separators main has printed
  stale                  \* auxiliary: a cnf_sat thread went on polling a dead child

inputVars  == <<input, eof, graph, jobs>>
flagVars   == <<check_timeout, thread_deleted, first, g_cancel>>
sharedVars == <<gEdges, gCover, ready, mutex>>
vars == <<inputVars, main, flagVars, sharedVars, worker, cnf, answers, seps, stale>>

-------------------------------------------------------------------------------
(* Holders of g_mutex, and places.                                             *)

Free      == <<"nobody", 0>>
Main      == <<"main", 0>>
Worker(w) == <<"worker", w>>
Cnf(j)    == <<"cnf", j>>

Halted  == {"done", "failed", "crashed"}
Running == main \notin Halted

\* Main's straight-line code.
Then == [copy1 |-> "copy2", copy2 |-> "rest2", rest2 |-> "copy3", copy3 |-> "rest3",
         rest3 |-> "create1", create2 |-> "create3", create3 |-> "clear",
         sig1 |-> "sig2", sig2 |-> "sig3", sig3 |-> "clear", clear |-> "loop",
         end1 |-> "end2", end2 |-> "end3", end3 |-> "join1",
         join1 |-> "join2", join2 |-> "join3", join3 |-> "done"]

CopyAt   == <<"copy1", "copy2", "copy3">>
RestAt   == <<"rest1", "rest2", "rest3">>
CreateAt == <<"create1", "create2", "create3">>
JoinAt   == <<"join1", "join2", "join3">>
Signals  == {"sig1", "sig2", "sig3", "end1", "end2", "end3"}

\* A child process that is not there any more: answered and waited for, or killed.
Gone == {"reaped", "killed"}

NewCnf == [pc |-> "fork", late |-> FALSE, child |-> "none", job |-> 0, held |-> FALSE]

AllReady  == \A i \in Solvers : ready[i]
\* Mutants of NoneReady, main.cpp:341 with a condition lost.
SomeNotReady == ~AllReady
FirstTwoDone == ~ready[1] /\ ~ready[2]
LastTwoDone  == ~ready[2] /\ ~ready[3]

NoneReady == \A i \in Solvers : ~ready[i]

Init ==
    /\ input \in Scripts /\ eof = FALSE
    /\ main = "loop" /\ graph = EmptyGraph /\ jobs = <<>>
    /\ gEdges = [i \in Solvers |-> 0] /\ gCover = [w \in Approx |-> 0]
    /\ ready = [i \in Solvers |-> TRUE]
    /\ check_timeout = FALSE /\ thread_deleted = FALSE /\ first = TRUE /\ g_cancel = FALSE
    /\ mutex = Free
    /\ worker = [w \in Approx |-> "none"]
    /\ cnf = <<>>
    /\ answers = [i \in Solvers |-> <<>>] /\ seps = 0 /\ stale = FALSE

-------------------------------------------------------------------------------
(* The main thread.  No solver sets its flag back to TRUE, so reading the      *)
(* three flags one after another finds the same as reading them at once.       *)

\* getline: reading what follows the last newline character ends the stream.
EndsStream == Len(input) <= 1

Getline ==
    IF check_timeout
    THEN UNCHANGED <<input, eof>>
    ELSE /\ input' = IF input = <<>> THEN <<>> ELSE Tail(input)
         /\ eof' = EndsStream

AsJob(g) == [n |-> g.n, edges |-> g.edges]

NextLine == IF check_timeout \/ input = <<>> THEN Blank ELSE Head(input)

MainRead ==
    /\ main = "loop" /\ ~eof /\ AllReady
    /\ Getline
    /\ IF Throws(NextLine, graph)
       THEN main' = "crashed" /\ UNCHANGED <<graph, jobs>>
       ELSE /\ graph' = Parse(NextLine, graph)
            /\ IF graph'.edges = {}
               THEN UNCHANGED <<main, jobs>>
               ELSE main' = "copy1" /\ jobs' = Append(jobs, AsJob(graph'))
    /\ UNCHANGED <<flagVars, sharedVars, worker, cnf, answers, seps, stale>>

\* Mutant of MainSeparator: thread_deleted is not set.
SeparatorKeepsThread ==
    /\ main = "loop" /\ ~eof /\ NoneReady
    /\ check_timeout' = FALSE /\ seps' = seps + 1
    /\ ready' = [i \in Solvers |-> TRUE]
    /\ UNCHANGED <<inputVars, main, thread_deleted, first, g_cancel, gEdges, gCover, mutex,
                   worker, cnf, answers, stale>>

MainSeparator ==
    /\ main = "loop" /\ ~eof /\ NoneReady
    /\ check_timeout' = FALSE /\ thread_deleted' = TRUE
    /\ ready' = [i \in Solvers |-> TRUE]
    /\ seps' = seps + 1
    /\ UNCHANGED <<inputVars, main, first, g_cancel, gEdges, gCover, mutex, worker, cnf,
                   answers, stale>>

\* graph_ti = graph copies the members in the order of the class: the edges ...
MainCopyEdges(i) ==
    /\ main = CopyAt[i] /\ main' = Then[main]
    /\ gEdges' = [gEdges EXCEPT ![i] = Len(jobs)]
    /\ UNCHANGED <<inputVars, flagVars, gCover, ready, mutex, worker, cnf, answers, seps, stale>>

\* ... and, four members later, the empty vertex_cover.
MainCopyCover(w) ==
    /\ main = RestAt[w] /\ main' = Then[main]
    /\ gCover' = [gCover EXCEPT ![w] = 0]
    /\ UNCHANGED <<inputVars, flagVars, gEdges, ready, mutex, worker, cnf, answers, seps, stale>>

CreatesCnfThread == first \/ thread_deleted

\* Mutant of MainCreateCnf: main goes on reading (check_timeout is not set).
CreateCnfReadsOn ==
    /\ main = "create1"
    /\ main' = IF first THEN "create2" ELSE IF thread_deleted THEN "sig2" ELSE "sig1"
    /\ cnf' = IF CreatesCnfThread THEN Append(cnf, NewCnf) ELSE cnf
    /\ thread_deleted' = (first /\ thread_deleted)
    /\ UNCHANGED <<inputVars, check_timeout, first, g_cancel, sharedVars, worker, answers,
                   seps, stale>>

MainCreateCnf ==
    /\ main = "create1"
    /\ main' = IF first THEN "create2" ELSE IF thread_deleted THEN "sig2" ELSE "sig1"
    /\ cnf' = IF CreatesCnfThread THEN Append(cnf, NewCnf) ELSE cnf
    /\ check_timeout' = TRUE
    /\ thread_deleted' = (first /\ thread_deleted)
    /\ UNCHANGED <<inputVars, first, g_cancel, sharedVars, worker, answers, seps, stale>>

MainCreateWorker(w) ==
    /\ main = CreateAt[w] /\ main' = Then[main]
    /\ worker' = [worker EXCEPT ![w] = "loop"]
    /\ first' = FALSE
    /\ UNCHANGED <<inputVars, check_timeout, thread_deleted, g_cancel, sharedVars, cnf,
                   answers, seps, stale>>

MainCreateFails ==
    /\ MayFail
    /\ main \in {"create1", "create2", "create3"}
    /\ main = "create1" => CreatesCnfThread
    /\ main' = "failed"
    /\ UNCHANGED <<inputVars, flagVars, sharedVars, worker, cnf, answers, seps, stale>>

\* pthread_cond_signal under g_mutex; no thread waits on a condition variable.
MainLock ==
    /\ main \in Signals /\ mutex = Free /\ mutex' = Main
    /\ UNCHANGED <<inputVars, main, flagVars, gEdges, gCover, ready, worker, cnf, answers,
                   seps, stale>>

MainUnlock ==
    /\ Running /\ mutex = Main /\ mutex' = Free /\ main' = Then[main]
    /\ UNCHANGED <<inputVars, flagVars, gEdges, gCover, ready, worker, cnf, answers, seps, stale>>

MainClear ==
    /\ main = "clear" /\ main' = Then[main]
    /\ graph' = [graph EXCEPT !.edges = {}]
    /\ UNCHANGED <<input, eof, jobs, flagVars, sharedVars, worker, cnf, answers,
                   seps, stale>>

MainCancel ==
    /\ main = "loop" /\ eof
    /\ g_cancel' = TRUE /\ main' = "end1"
    /\ UNCHANGED <<inputVars, check_timeout, thread_deleted, first, sharedVars, worker, cnf,
                   answers, seps, stale>>

\* Before the first graph the handles are uninitialised: joining them fails or crashes.
MainJoinNothing ==
    /\ main = "join1" /\ first
    /\ main' \in {"failed", "crashed"}
    /\ UNCHANGED <<inputVars, flagVars, sharedVars, worker, cnf, answers, seps, stale>>

\* Mutant of Ended: the cnf_sat thread is not waited for.
EndedApprox(i) == IF i = 1 THEN TRUE ELSE worker[i] = "exit"

Ended(i) == IF i = 1 THEN cnf[Len(cnf)].pc = "exit" ELSE worker[i] = "exit"

MainJoin(i) ==
    /\ main = JoinAt[i] /\ ~first /\ Ended(i)
    /\ main' = Then[main]
    /\ UNCHANGED <<inputVars, flagVars, sharedVars, worker, cnf, answers, seps, stale>>

MainThread ==
    \/ MainRead \/ MainSeparator
    \/ \E i \in Solvers : MainCopyEdges(i) \/ MainJoin(i)
    \/ \E w \in Approx : MainCopyCover(w) \/ MainCreateWorker(w)
    \/ MainCreateCnf \/ MainCreateFails
    \/ MainLock \/ MainUnlock \/ MainClear \/ MainCancel \/ MainJoinNothing

-------------------------------------------------------------------------------
(* approxCv1 and approxCv2, the threads 2 and 3.                               *)

WorkerAt(w, place) == Running /\ worker[w] = place

GoTo(w, place) == worker' = [worker EXCEPT ![w] = place]

\* Both loops run for ever on an edge <0,0>: no vertex of 1 .. n removes it.
SolvesApprox(j) == <<0, 0>> \notin jobs[j].edges

WorkerLoop(w) ==
    /\ WorkerAt(w, "loop")
    /\ GoTo(w, IF g_cancel THEN "exit" ELSE "look")
    /\ UNCHANGED <<inputVars, main, flagVars, sharedVars, cnf, answers, seps, stale>>

WorkerLook(w) ==
    /\ WorkerAt(w, "look")
    /\ GoTo(w, IF gEdges[w] # 0 THEN "solve" ELSE "loop")
    /\ UNCHANGED <<inputVars, main, flagVars, sharedVars, cnf, answers, seps, stale>>

\* The solver consumes the edges, then assigns the cover.
WorkerSolve(w) ==
    /\ WorkerAt(w, "solve") /\ SolvesApprox(gEdges[w])
    /\ GoTo(w, "lock")
    /\ gEdges' = [gEdges EXCEPT ![w] = 0]
    /\ gCover' = [gCover EXCEPT ![w] = gEdges[w]]
    /\ UNCHANGED <<inputVars, main, flagVars, ready, mutex, cnf, answers, seps, stale>>

WorkerLock(w) ==
    /\ WorkerAt(w, "lock") /\ mutex = Free /\ mutex' = Worker(w)
    /\ GoTo(w, "print")
    /\ UNCHANGED <<inputVars, main, flagVars, gEdges, gCover, ready, cnf, answers, seps, stale>>

\* Mutants of WorkerPrint: the flag is cleared with the lock held, before the
\* reset; the lock is not released.
PrintAndFinish(w) ==
    /\ WorkerAt(w, "print") /\ mutex' = Free
    /\ GoTo(w, "reset")
    /\ answers' = [answers EXCEPT ![w] = Append(@, gCover[w])]
    /\ ready' = [ready EXCEPT ![w] = FALSE]
    /\ UNCHANGED <<inputVars, main, flagVars, gEdges, gCover, cnf, seps, stale>>

PrintKeepsLock(w) ==
    /\ WorkerAt(w, "print")
    /\ GoTo(w, "reset")
    /\ answers' = [answers EXCEPT ![w] = Append(@, gCover[w])]
    /\ UNCHANGED <<inputVars, main, flagVars, sharedVars, cnf, seps, stale>>

\* Nothing else can tell the end of the printing from the release of the mutex.
WorkerPrint(w) ==
    /\ WorkerAt(w, "print") /\ mutex' = Free
    /\ GoTo(w, "reset")
    /\ answers' = [answers EXCEPT ![w] = Append(@, gCover[w])]
    /\ UNCHANGED <<inputVars, main, flagVars, gEdges, gCover, ready, cnf, seps, stale>>

\* resetEverything(); setSize(0);
WorkerReset(w) ==
    /\ WorkerAt(w, "reset")
    /\ GoTo(w, "finish")
    /\ gEdges' = [gEdges EXCEPT ![w] = 0]
    /\ gCover' = [gCover EXCEPT ![w] = 0]
    /\ UNCHANGED <<inputVars, main, flagVars, ready, mutex, cnf, answers, seps, stale>>

WorkerFinish(w) ==
    /\ WorkerAt(w, "finish")
    /\ GoTo(w, "loop")
    /\ ready' = [ready EXCEPT ![w] = FALSE]
    /\ UNCHANGED <<inputVars, main, flagVars, gEdges, gCover, mutex, cnf, answers, seps, stale>>

WorkerThread(w) ==
    \/ WorkerLoop(w) \/ WorkerLook(w) \/ WorkerSolve(w) \/ WorkerLock(w)
    \/ WorkerPrint(w) \/ WorkerReset(w) \/ WorkerFinish(w)

-------------------------------------------------------------------------------
(* cnf_sat, the thread of graph j (the parent's side of the fork).             *)

CnfAt(j, place) == Running /\ j \in DOMAIN cnf /\ cnf[j].pc = place

CnfUnchanged == UNCHANGED <<inputVars, flagVars, gEdges, gCover, worker, answers, seps>>

\* The child gets a copy of graph_t1 and of g_mutex, as they are at this moment.
\* With no edges it would return at once.
CnfFork(j) ==
    /\ CnfAt(j, "fork")
    /\ cnf' = [cnf EXCEPT ![j].pc = "poll",
                          ![j].child = IF gEdges[1] = 0 THEN "zombie" ELSE "solve",
                          ![j].job = gEdges[1],
                          ![j].held = (mutex # Free)]
    /\ CnfUnchanged /\ UNCHANGED <<main, ready, mutex, stale>>

CnfForkFails(j) ==
    /\ CnfAt(j, "fork") /\ MayFail
    /\ main' = "failed"
    /\ CnfUnchanged /\ UNCHANGED <<cnf, ready, mutex, stale>>

\* The 14 seconds are over.  A thread that has seen its child end has set the
\* elapsed time back to 0 and does so again each time it looks.
CnfDeadline(j) ==
    /\ CnfAt(j, "poll") \/ CnfAt(j, "wait")
    /\ ~cnf[j].late /\ cnf[j].child \notin Gone
    /\ cnf' = [cnf EXCEPT ![j].late = TRUE]
    /\ CnfUnchanged /\ UNCHANGED <<main, ready, mutex, stale>>

PollsOn(j) == ~cnf[j].late /\ ready[1]

CnfPoll(j) ==
    /\ CnfAt(j, "poll")
    /\ cnf' = [cnf EXCEPT ![j].pc = IF PollsOn(j) THEN "wait" ELSE "after"]
    /\ stale' = (stale \/ (PollsOn(j) /\ cnf[j].child \in Gone))
    /\ CnfUnchanged /\ UNCHANGED <<main, ready, mutex>>

\* waitpid(WNOHANG) is 0 while the child runs, its pid when it has ended, and -1
\* (also taken for "ended") when it was waited for before.
ChildEnded(j) == cnf[j].child \in {"zombie"} \union Gone

CnfWait(j) ==
    /\ CnfAt(j, "wait")
    /\ IF ChildEnded(j)
       THEN /\ ready' = [ready EXCEPT ![1] = FALSE]
            /\ cnf' = [cnf EXCEPT ![j].pc = "poll", ![j].late = FALSE, ![j].child = "reaped"]
       ELSE /\ cnf' = [cnf EXCEPT ![j].pc = "poll"]
            /\ UNCHANGED ready
    /\ CnfUnchanged /\ UNCHANGED <<main, mutex, stale>>

CnfAfter(j) ==
    /\ CnfAt(j, "after")
    /\ cnf' = [cnf EXCEPT ![j].pc = IF cnf[j].late /\ ready[1] THEN "lock" ELSE "exit"]
    /\ CnfUnchanged /\ UNCHANGED <<main, ready, mutex, stale>>

\* Take g_mutex and give the round up ...
CnfGiveUp(j) ==
    /\ CnfAt(j, "lock") /\ mutex = Free /\ mutex' = Cnf(j)
    /\ ready' = [ready EXCEPT ![1] = FALSE]
    /\ cnf' = [cnf EXCEPT ![j].pc = "kill"]
    /\ CnfUnchanged /\ UNCHANGED <<main, stale>>

\* Mutants of CnfKill: the child is left alone; the lock is not released.
KillForgets(j) ==
    /\ CnfAt(j, "kill") /\ mutex' = Free
    /\ cnf' = [cnf EXCEPT ![j].pc = "exit"]
    /\ CnfUnchanged /\ UNCHANGED <<main, ready, stale>>

KillKeepsLock(j) ==
    /\ CnfAt(j, "kill")
    /\ cnf' = [cnf EXCEPT ![j].pc = "exit",
                          ![j].child = IF @ = "zombie" THEN "reaped" ELSE "killed"]
    /\ CnfUnchanged /\ UNCHANGED <<main, mutex, ready, stale>>

\* ... and a second later kill, wait until the child is gone, and unlock.
CnfKill(j) ==
    /\ CnfAt(j, "kill") /\ mutex' = Free
    /\ cnf' = [cnf EXCEPT ![j].pc = "exit",
                          ![j].child = IF @ = "zombie" THEN "reaped" ELSE "killed"]
    /\ CnfUnchanged /\ UNCHANGED <<main, ready, stale>>

CnfThread(j) ==
    \/ CnfFork(j) \/ CnfForkFails(j) \/ CnfPoll(j) \/ CnfWait(j) \/ CnfAfter(j)
    \/ CnfGiveUp(j) \/ CnfKill(j)

-------------------------------------------------------------------------------
(* The child process of graph j.  It outlives the program if nobody waits.     *)

ChildAt(j, place) == j \in DOMAIN cnf /\ cnf[j].child = place

ChildUnchanged ==
    UNCHANGED <<inputVars, main, flagVars, sharedVars, worker, seps, stale>>

\* Encoding an edge with the vertex 0 reads literals[-1]: any outcome, or a crash.
HasVertexZero(j) == \E p \in jobs[j].edges : 0 \in {p[1], p[2]}

ChildSolve(j) ==
    /\ ChildAt(j, "solve")
    /\ cnf' = [cnf EXCEPT ![j].child = "lock"]
    /\ ChildUnchanged /\ UNCHANGED answers

ChildCrash(j) ==
    /\ ChildAt(j, "solve") /\ HasVertexZero(cnf[j].job)
    /\ cnf' = [cnf EXCEPT ![j].child = "zombie"]
    /\ ChildUnchanged /\ UNCHANGED answers

\* The child's own copy of g_mutex: if a thread held it at the fork, that thread
\* does not exist here and nobody will ever release it.
\* Then print, unlock and reset the copies, and return: the process ends.
ChildPrint(j) ==
    /\ ChildAt(j, "lock") /\ ~cnf[j].held
    /\ cnf' = [cnf EXCEPT ![j].child = "zombie"]
    /\ answers' = [answers EXCEPT ![1] = Append(@, cnf[j].job)]
    /\ ChildUnchanged

Child(j) == ChildSolve(j) \/ ChildCrash(j) \/ ChildPrint(j)

-------------------------------------------------------------------------------
Next ==
    \/ MainThread
    \/ \E w \in Approx : WorkerThread(w)
    \/ \E j \in Jobs : CnfThread(j) \/ CnfDeadline(j) \/ Child(j)

Spec == Init /\ [][Next]_vars

\* The kernel schedules every thread and the clock advances.  Nothing is assumed
\* of a child: finding a minimum cover may take longer than anybody waits.
Fairness ==
    /\ WF_vars(MainThread)
    /\ \A w \in Approx : WF_vars(WorkerThread(w))
    /\ \A j \in Jobs : WF_vars(CnfThread(j)) /\ WF_vars(CnfDeadline(j))

FairSpec == Spec /\ Fairness

-------------------------------------------------------------------------------
(* Type invariant.                                                             *)

MainPlaces   == {"loop", "create1"} \union Halted \union DOMAIN Then
WorkerPlaces == {"none", "loop", "look", "solve", "lock", "print", "reset", "finish",
                 "exit"}
CnfPlaces    == {"fork", "poll", "wait", "after", "lock", "kill", "exit"}
ChildPlaces  == {"none", "solve", "lock", "zombie"} \union Gone
CnfRecord    == [pc : CnfPlaces, late : BOOLEAN, child : ChildPlaces, job : Nat,
                 held : BOOLEAN]
Holders      == {Free, Main} \union ({"worker"} \X Approx) \union ({"cnf"} \X Nat)

\* Every variable has the type its C++ counterpart has, and n fits an int.
TypeOK ==
    /\ input \in Seq(Line) /\ eof \in BOOLEAN
    /\ main \in MainPlaces /\ graph \in Graph /\ graph.n <= IntMax
    /\ jobs \in Seq([n : Nat, edges : SUBSET Pair])
    /\ gEdges \in [Solvers -> Nat] /\ gCover \in [Approx -> Nat]
    /\ ready \in [Solvers -> BOOLEAN]
    /\ check_timeout \in BOOLEAN /\ thread_deleted \in BOOLEAN
    /\ first \in BOOLEAN /\ g_cancel \in BOOLEAN
    /\ mutex \in Holders
    /\ worker \in [Approx -> WorkerPlaces]
    /\ cnf \in Seq(CnfRecord)
    /\ answers \in [Solvers -> Seq(Nat)] /\ seps \in Nat /\ stale \in BOOLEAN

-------------------------------------------------------------------------------
(* Safety.                                                                     *)

\* The separator is a barrier: when main prints it (main.cpp:341-349) both
\* approximate solvers have answered the graph, no graph is accepted before the
\* round of the one before is closed, and no solver answers a graph twice.
RoundsComplete ==
    /\ Len(jobs) <= seps + 1
    /\ \A w \in Approx : seps <= Len(answers[w]) /\ Len(answers[w]) <= Len(jobs)

\* The i-th cover a spinning solver prints is the one of the i-th graph, or
\* nothing, when main's copy of the empty vertex_cover came after it.
AnswersInOrder ==
    \A w \in Approx : \A i \in DOMAIN answers[w] : answers[w][i] \in {0, i}

\* Main copies a new graph only into a graph whose solver is not using it: from
\* acceptance until its edges are copied, worker w holds nothing (the reset of
\* main.cpp:178 comes before the flag of main.cpp:180).
NoOverwriteInUse ==
    \A w \in Approx :
        main \in {CopyAt[i] : i \in 1 .. w} =>
            gEdges[w] = 0 /\ worker[w] \in {"none", "loop", "look"}

\* Unless a cnf_sat thread went on polling a child it had already waited for,
\* the process of thread j solves graph j, and when the next thread exists
\* thread j has given its child up or waited for it: it writes the flag no more.
CnfThreadsMatchRounds ==
    ~stale => \A j \in DOMAIN cnf :
        /\ cnf[j].child # "none" => cnf[j].job = j
        /\ j < Len(cnf) =>
             cnf[j].pc = "kill" \/ (cnf[j].child \in Gone /\ cnf[j].pc # "wait")

\* Unless polling went stale, when main returns every child is gone, and the
\* only graphs CNF-SAT-VC left without an answer are those whose child was
\* killed after 14 seconds or crashed on a vertex 0.
CnfAccountedFor ==
    main = "done" /\ ~stale => \A j \in DOMAIN jobs :
        /\ cnf[j].child \in Gone
        /\ cnf[j].child = "reaped" => HasVertexZero(j) \/ j \in Range(answers[1])

\* A graph that is handed out is one the solvers are made for: it has vertices and
\* edges, and no edge names a vertex above its size, although its edges and its
\* size come from different lines and edges.clear() keeps the size.
AcceptedGraphsParsed == \A j \in DOMAIN jobs : jobs[j] \in ParsedGraph

\* Main never reaches the signalling of solver 1 (main.cpp:316-321): its thread
\* is gone and created again in every round after the first.
CnfAlwaysRecreated == main = "create1" => CreatesCnfThread

\* Unless polling went stale, CNF-SAT-VC answers a graph in the round of the
\* graph, or in the second its thread sleeps between giving it up and killing it
\* (main.cpp:108-111), when the round may be closed and the next one open.
CnfAnswersItsRound ==
    [][answers'[1] # answers[1] /\ ~stale =>
          \E j \in DOMAIN cnf : /\ answers'[1] = Append(answers[1], j)
                                /\ j = seps + 1 \/ cnf[j].pc = "kill"]_vars

\* The program implements the rounds its user sees.
Promise == INSTANCE Rounds WITH
    accepted   <- Len(jobs),
    answered   <- [w \in Approx |-> Len(answers[w])],
    cnfAnswers <- Len(answers[1]),
    closed     <- seps,
    over       <- ~Running

ImplementsRounds == Promise!Spec

-------------------------------------------------------------------------------
(* Liveness, under FairSpec.                                                   *)

\* Some graph contains the edge <0,0>, on which both approximate solvers spin.
NeverSolved == \E j \in DOMAIN jobs : ~SolvesApprox(j)

\* The program ends, whatever the children do, unless polling went stale or a
\* graph has an edge <0,0>: every lock is released and every thread joined.
Terminates == <>(~Running \/ stale \/ NeverSolved)

\* A graph accepted is answered by both approximate solvers (main.cpp:166-183),
\* unless main has cancelled them or the program is over.
AcceptedIsAnswered ==
    \A j \in Jobs : \A w \in Approx :
        (j \in DOMAIN jobs /\ SolvesApprox(j)) ~>
            (Len(answers[w]) >= j \/ g_cancel \/ ~Running)

-------------------------------------------------------------------------------
(* What the documentation says and the code does not do.                       *)

\* README.md:56: the cover computed by CNF-SAT-VC is printed.  A child whose copy
\* of g_mutex is locked at the fork never prints it.
ChildNeverBlocked == \A j \in DOMAIN cnf : ~(cnf[j].child = "lock" /\ cnf[j].held)

\* README.md:56: what is printed is the computed cover, never an empty one.
PrintedCoverIsComputed ==
    \A w \in Approx : \A i \in DOMAIN answers[w] : answers[w][i] # 0

\* README.md:56: every graph given as input has both its approximate covers
\* printed when the program ends.
EndAnswersAll == main = "done" => \A w \in Approx : Len(answers[w]) = Len(jobs)

\* README.md:56: every graph given as input is read and answered in the end.
EveryGraphAnswered ==
    <>(input = <<>> /\ \A w \in Approx : Len(answers[w]) = Len(jobs))
===============================================================================
