--------------------------- MODULE SerialExecutor ---------------------------
(* SerialExecutor (lib/Support/SerialExecutor.cpp): tasks run one after the   *)
(* other on a worker thread, which ends when it had nothing to do for a while *)
(* and is started again by the next add().  Tasks are added by other threads  *)
(* and by tasks; the destructor, called when no other thread uses the         *)
(* executor, waits for what was added.                                        *)
EXTENDS Naturals, Sequences, FiniteSets

CONSTANTS
    Adders,      \* threads that call add()
    Workers,     \* bound: worker threads that can be started, 1 .. n
    MaxAdded     \* bound: tasks that can be added

VARIABLES
    threadState,   \* threadState_
    taskQueue,     \* tasks_
    execMutex,     \* the holder of mutex_, or "free"
    wakeUp,        \* wakeUpSig_ was notified while a worker waits
    tid,           \* tid_: the last worker started, 0 if none
    workerAt,      \* where each worker is
    adding,        \* where each adder, and the destructor, is
    added,         \* history: tasks in the order of their add()
    started        \* history: tasks in the order they were begun

execVars == <<threadState, taskQueue, execMutex, wakeUp, tid, workerAt, adding,
              added, started>>

Destructor == "destructor"

ASSUME ExecutorAssumption == Destructor \notin Adders

------------------------------------------------------------------------------
(* add().                                                                     *)

\* The next task is queued and the worker notified.
Push ==
    /\ taskQueue' = Append(taskQueue, Len(added) + 1)
    /\ added' = Append(added, Len(added) + 1)
    /\ wakeUp' = TRUE

NeedsWorker == threadState # "Initialized"

\* mutex_ is taken; the caller goes on holding it.  No add() during teardown.
AddLock(a) ==
    /\ adding[a] = "idle" /\ adding[Destructor] = "idle"
    /\ execMutex = "free"
    /\ Len(added) < MaxAdded /\ (NeedsWorker => tid + 1 \in Workers)
    /\ execMutex' = a
    /\ adding' = [adding EXCEPT ![a] = "locked"]
    /\ UNCHANGED <<threadState, taskQueue, wakeUp, tid, workerAt, added, started>>

\* A worker that timed out is joined, mutex_ held, and a new one created.
AddEnd(a) ==
    /\ adding[a] = "locked"
    /\ IF NeedsWorker
       THEN /\ threadState = "TimedOut" => workerAt[tid] = "dead"
            /\ tid' = tid + 1
            /\ workerAt' = [workerAt EXCEPT ![tid + 1] = "start"]
            /\ threadState' = "Initialized"
       ELSE UNCHANGED <<tid, workerAt, threadState>>
    /\ Push
    /\ execMutex' = "free"
    /\ adding' = [adding EXCEPT ![a] = "idle"]
    /\ UNCHANGED started

------------------------------------------------------------------------------
(* The worker: run().                                                         *)

\* It takes mutex_ at the start, after a task and when wait_for() is over.
Lock(w) ==
    /\ workerAt[w] = "start" /\ execMutex = "free"
    /\ execMutex' = "worker"
    /\ workerAt' = [workerAt EXCEPT ![w] = "loop"]
    /\ UNCHANGED <<threadState, taskQueue, wakeUp, tid, adding, added, started>>

\* mutant: the last task of the queue is taken.
RunTask_Last(w) ==
    /\ workerAt[w] = "loop" /\ taskQueue # <<>>
    /\ started' = Append(started, taskQueue[Len(taskQueue)])
    /\ taskQueue' = SubSeq(taskQueue, 1, Len(taskQueue) - 1)
    /\ execMutex' = "free"
    /\ workerAt' = [workerAt EXCEPT ![w] = "task"]
    /\ UNCHANGED <<threadState, wakeUp, tid, adding, added>>

RunTask(w) ==
    /\ workerAt[w] = "loop" /\ taskQueue # <<>>
    /\ started' = Append(started, Head(taskQueue))
    /\ taskQueue' = Tail(taskQueue)
    /\ execMutex' = "free"
    /\ workerAt' = [workerAt EXCEPT ![w] = "task"]
    /\ UNCHANGED <<threadState, wakeUp, tid, adding, added>>

TaskDone(w) ==
    /\ workerAt[w] = "task"
    /\ workerAt' = [workerAt EXCEPT ![w] = "start"]
    /\ UNCHANGED <<threadState, taskQueue, execMutex, wakeUp, tid, adding, added,
                   started>>

\* A task calls add(): its thread is the worker, which need not be started.
TaskAdds(w) ==
    /\ workerAt[w] = "task" /\ execMutex = "free"
    /\ threadState = "Initialized" /\ Len(added) < MaxAdded
    /\ Push
    /\ UNCHANGED <<threadState, execMutex, tid, workerAt, adding, started>>

ReturnFromRun(w) ==
    /\ workerAt[w] = "loop" /\ taskQueue = <<>> /\ threadState = "Terminating"
    /\ execMutex' = "free"
    /\ workerAt' = [workerAt EXCEPT ![w] = "exit"]
    /\ UNCHANGED <<threadState, taskQueue, wakeUp, tid, adding, added, started>>

WaitForTask(w) ==
    /\ workerAt[w] = "loop" /\ taskQueue = <<>> /\ threadState # "Terminating"
    /\ execMutex' = "free" /\ wakeUp' = FALSE
    /\ workerAt' = [workerAt EXCEPT ![w] = "wait"]
    /\ UNCHANGED <<threadState, taskQueue, tid, adding, added, started>>

\* wait_for() returns no_timeout ...
WakeUp(w) ==
    /\ workerAt[w] = "wait" /\ wakeUp /\ execMutex = "free"
    /\ execMutex' = "worker"
    /\ workerAt' = [workerAt EXCEPT ![w] = "loop"]
    /\ UNCHANGED <<threadState, taskQueue, wakeUp, tid, adding, added, started>>

\* mutant: the queue is not looked at when the time is over.
NothingToDo_NotChecked == TRUE
NothingToDo == taskQueue = <<>>

\* ... or timeout, notified or not: the worker ends if there is nothing to do.
TimeOut(w) ==
    /\ workerAt[w] = "wait" /\ execMutex = "free"
    /\ IF NothingToDo
       THEN /\ threadState' = "TimedOut"
            /\ workerAt' = [workerAt EXCEPT ![w] = "exit"]
            /\ UNCHANGED execMutex
       ELSE /\ execMutex' = "worker"
            /\ workerAt' = [workerAt EXCEPT ![w] = "loop"]
            /\ UNCHANGED threadState
    /\ UNCHANGED <<taskQueue, wakeUp, tid, adding, added, started>>

ThreadEnds(w) ==
    /\ workerAt[w] = "exit"
    /\ workerAt' = [workerAt EXCEPT ![w] = "dead"]
    /\ UNCHANGED <<threadState, taskQueue, execMutex, wakeUp, tid, adding, added,
                   started>>

------------------------------------------------------------------------------
(* The destructor.                                                            *)

\* mutant: the waiting worker is not notified.
Terminate_NoNotify ==
    /\ adding[Destructor] = "idle" /\ \A a \in Adders : adding[a] = "idle"
    /\ execMutex = "free"
    /\ threadState' = "Terminating"
    /\ adding' = [adding EXCEPT ![Destructor] = IF threadState = "Uninitialized"
                                                THEN "done" ELSE "join"]
    /\ UNCHANGED <<taskQueue, execMutex, wakeUp, tid, workerAt, added, started>>

Terminate ==
    /\ adding[Destructor] = "idle" /\ \A a \in Adders : adding[a] = "idle"
    /\ execMutex = "free"
    /\ threadState' = "Terminating" /\ wakeUp' = TRUE
    /\ adding' = [adding EXCEPT ![Destructor] = IF threadState = "Uninitialized"
                                                THEN "done" ELSE "join"]
    /\ UNCHANGED <<taskQueue, execMutex, tid, workerAt, added, started>>

Join ==
    /\ adding[Destructor] = "join" /\ workerAt[tid] = "dead"
    /\ adding' = [adding EXCEPT ![Destructor] = "done"]
    /\ UNCHANGED <<threadState, taskQueue, execMutex, wakeUp, tid, workerAt, added,
                   started>>

------------------------------------------------------------------------------
ExecInit ==
    /\ threadState = "Uninitialized" /\ taskQueue = <<>> /\ execMutex = "free"
    /\ wakeUp = FALSE /\ tid = 0
    /\ workerAt = [w \in Workers |-> "none"]
    /\ adding = [a \in Adders \cup {Destructor} |-> "idle"]
    /\ added = <<>> /\ started = <<>>

Worker(w) == Lock(w) \/ RunTask(w) \/ TaskDone(w) \/ ReturnFromRun(w)
                 \/ WaitForTask(w) \/ WakeUp(w) \/ ThreadEnds(w)

ExecNext ==
    \/ \E a \in Adders : AddLock(a) \/ AddEnd(a)
    \/ \E w \in Workers : Worker(w) \/ TaskAdds(w) \/ TimeOut(w)
    \/ Terminate \/ Join

\* The threads go on.  The worker's time need not be over, ever: the default
\* timeout is the longest there is.
ExecFair ==
    /\ \A w \in Workers : WF_execVars(Worker(w))
    /\ \A a \in Adders : WF_execVars(AddEnd(a))
    /\ WF_execVars(Join)

------------------------------------------------------------------------------
\* "Simple executor that guarantees serial execution of tasks": they are begun in
\* the order of their add(), each once, and never two at a time, whatever
\* workers timed out and were started in between (run, add).
SerialOrder ==
    /\ started \o taskQueue = added
    /\ Cardinality({w \in Workers : workerAt[w] \notin {"none", "exit", "dead"}})
           <= 1

\* A task that was added is run although the worker's time may be over at any
\* moment, and without another add() to wake the worker up; and the destructor
\* returns, when the "Thread should have drained all tasks" (add, run,
\* ~SerialExecutor).
TasksExecuted ==
    /\ taskQueue # <<>> ~> taskQueue = <<>>
    /\ adding[Destructor] = "join" ~> adding[Destructor] = "done" /\ taskQueue = <<>>
==============================================================================
