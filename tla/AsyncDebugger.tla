---------------------------- MODULE AsyncDebugger ----------------------------
(* AsyncDebuggerAPI and RuntimeTaskRunner (API/hermes): other threads submit  *)
(* tasks for the runtime, each through two queues, set and clear the event    *)
(* callback; the runtime thread runs JavaScript, is interrupted, pauses in    *)
(* didPause() and waits there for a command, running tasks meanwhile.         *)
(*                                                                            *)
(* Every call with the suffix _TS holds mutex_ throughout and is one step.    *)
(* The client's code (tasks, event callback, eval callback) runs on the       *)
(* runtime thread; of all that it can do, giving a command matters here.      *)
EXTENDS Naturals, Sequences, FiniteSets

CONSTANTS
    Tasks,
    Commands,           \* what the client uses of {"continue", "step", "eval"}
    EvalMayChain        \* may an eval callback call evalWhilePaused?

ASSUME ClientAssumption ==
    /\ Commands \subseteq {"continue", "step", "eval"}
    /\ EvalMayChain \in BOOLEAN

VARIABLES
    \* shared, guarded by mutex_
    eventCallback,      \* is eventCallback_ set?
    interrupts,         \* interruptCallbacks_
    signaled,           \* has signal_ been notified since the thread waits?
    \* shared, without a lock
    implicitBreak,      \* asyncBreakRequestFlag_, bit DebuggerImplicit
    integrator,         \* tasks in the integrator's queue
    submitted,          \* how far enqueueTask is: "no", "queued", "all"
    \* the runtime thread
    pc, isWaitingForCommand, nextCommand,
    evalCallback,       \* is oneTimeEvalCompleteCallback_ set?
    stepping,           \* Debugger::curStepMode_ has a value
    deferred,           \* asyncTriggerPauseReason_ is AsyncTriggerImplicit
    alreadyRan,         \* the flag of a task that its two copies share
    \* history
    ran,                \* how often a task really ran
    cleared,            \* was there a time without event callback in this didPause()?
    dropped             \* was the last request cleared, and no interrupt run for it?

requestVars == <<implicitBreak, deferred, dropped>>
clientVars == <<eventCallback, cleared, interrupts, signaled, requestVars>>
queueVars == <<integrator, submitted>>
pauseVars == <<isWaitingForCommand, nextCommand, evalCallback, stepping>>
taskVars == <<alreadyRan, ran>>
vars == <<clientVars, queueVars, pc, pauseVars, taskVars>>

\* Where the runtime thread is inside didPause().
PausePoints == {"event", "process", "wait", "interrupt", "exit", "return"}
Alive == pc \notin {"destroy", "end"}

------------------------------------------------------------------------------
(* Other threads.                                                             *)

\* A notification reaches the thread only if it waits.
Notify == signaled' = (pc = "wait")

SetDebuggerEventCallback ==
    /\ Alive
    /\ eventCallback' = TRUE /\ Notify
    /\ UNCHANGED <<cleared, interrupts, requestVars, queueVars, pc, pauseVars,
                   taskVars>>

ClearDebuggerEventCallback ==
    /\ Alive
    /\ eventCallback' = FALSE /\ Notify
    /\ cleared' = (pc \in PausePoints)
    /\ UNCHANGED <<interrupts, requestVars, queueVars, pc, pauseVars, taskVars>>

\* enqueueTask(task, All) asks the integrator first ...
EnqueueRuntimeTask(t) ==
    /\ Alive /\ submitted[t] = "no"
    /\ submitted' = [submitted EXCEPT ![t] = "queued"]
    /\ integrator' = Append(integrator, t)
    /\ UNCHANGED <<clientVars, pc, pauseVars, taskVars>>

\* ... and then the debugger.
TriggerInterrupt(t) ==
    /\ submitted[t] = "queued"
    /\ submitted' = [submitted EXCEPT ![t] = "all"]
    /\ interrupts' = Append(interrupts, t) /\ Notify
    /\ implicitBreak' = TRUE /\ dropped' = FALSE
    /\ UNCHANGED <<eventCallback, cleared, deferred, integrator, pc, pauseVars,
                   taskVars>>

------------------------------------------------------------------------------
(* The runtime thread outside of didPause().                                  *)

\* Both copies of a task look at the flag that they share, and set it.  Mutated
\* form: the integrator's copy does not set it, or only when the task is over.
MarkRan_AfterTask(t) == UNCHANGED alreadyRan
MarkRan(t) == alreadyRan' = alreadyRan \cup {t}

\* The integrator runs the next task in its queue, which may run JavaScript.
RunIntegratorTask ==
    /\ pc \in {"idle", "end"} /\ integrator # <<>>
    /\ integrator' = Tail(integrator)
    /\ LET t == Head(integrator) IN
         IF t \in alreadyRan
         THEN UNCHANGED <<pc, taskVars>>
         ELSE /\ MarkRan(t)
              /\ ran' = [ran EXCEPT ![t] = @ + 1]
              /\ pc' = IF pc = "idle" THEN "js" ELSE pc
    /\ UNCHANGED <<clientVars, submitted, pauseVars>>

EnterJS ==
    /\ pc = "idle" /\ pc' = "js"
    /\ UNCHANGED <<clientVars, queueVars, pauseVars, taskVars>>

LeaveJS ==
    /\ pc = "js" /\ pc' = "idle"
    /\ UNCHANGED <<clientVars, queueVars, pauseVars, taskVars>>

\* The interpreter sees the request at its next check, and clears it.  The
\* debugger pauses where there is a source location, or will pause when it gets to
\* one: at a temporary breakpoint, or, if the function is about to return, as if
\* stepping out of it.  It drops the request while stepping ("Avoid draining the
\* queue or corrupting step state"), when the search for a location throws, and in
\* the condition of a breakpoint.
AsyncBreak ==
    /\ pc = "js" /\ implicitBreak /\ implicitBreak' = FALSE
    /\ \/ ~stepping /\ pc' = "implicit" /\ UNCHANGED <<deferred, dropped, stepping>>
       \/ /\ ~stepping /\ deferred' = TRUE /\ stepping' \in BOOLEAN
          /\ dropped' = TRUE /\ UNCHANGED pc
       \/ dropped' = TRUE /\ UNCHANGED <<pc, deferred, stepping>>
    /\ UNCHANGED <<eventCallback, cleared, interrupts, signaled, queueVars,
                   isWaitingForCommand, nextCommand, evalCallback, taskVars>>

\* The program gets to the temporary breakpoint, which may be about to return too.
DeferredPause ==
    /\ pc = "js" /\ deferred /\ ~stepping
    /\ \/ pc' = "implicit" /\ deferred' = FALSE /\ dropped' = FALSE /\ UNCHANGED stepping
       \/ stepping' = TRUE /\ UNCHANGED <<pc, deferred, dropped>>
    /\ UNCHANGED <<eventCallback, cleared, interrupts, signaled, implicitBreak,
                   queueVars, isWaitingForCommand, nextCommand, evalCallback,
                   taskVars>>

\* JavaScript that is run by a callback or evaluated during a pause: the
\* interpreter clears the request, and the debugger, already debugging, drops it.
DropBreak ==
    /\ pc \in {"event", "interrupt", "implicit", "eval", "return"}
    /\ implicitBreak /\ implicitBreak' = FALSE /\ dropped' = TRUE
    /\ UNCHANGED <<eventCallback, cleared, interrupts, signaled, deferred, queueVars,
                   pc, pauseVars, taskVars>>

\* Must be destroyed when nothing interacts with the runtime any more.
Destroy ==
    /\ pc = "idle" /\ \A t \in Tasks : submitted[t] # "queued"
    /\ pc' = "destroy"
    /\ UNCHANGED <<clientVars, queueVars, pauseVars, taskVars>>

------------------------------------------------------------------------------
(* Interrupts.                                                                *)

\* A callback gives a command, or does not: resumeFromPaused() and
\* evalWhilePaused() are refused unless a command is waited for.
NoCommand == UNCHANGED <<isWaitingForCommand, nextCommand, evalCallback>>
GiveCommand(allowed) ==
    /\ isWaitingForCommand /\ isWaitingForCommand' = FALSE
    /\ nextCommand' \in allowed
    /\ evalCallback' = (evalCallback \/ nextCommand' = "eval")

\* takeNextInterruptCallback() and the task it returns, if it has not run.
TakeInterrupt ==
    /\ interrupts # <<>> /\ interrupts' = Tail(interrupts)
    /\ LET t == Head(interrupts) IN
         /\ alreadyRan' = alreadyRan \cup {t}
         /\ ran' = IF t \in alreadyRan THEN ran ELSE [ran EXCEPT ![t] = @ + 1]
    /\ UNCHANGED <<eventCallback, cleared, signaled, requestVars, queueVars, stepping>>

\* runInterrupts() of an implicit pause and of the destructor: all of them.
RunInterrupt ==
    /\ pc \in {"implicit", "destroy"} /\ TakeInterrupt
    /\ NoCommand /\ UNCHANGED pc
InterruptsDone ==
    /\ pc \in {"implicit", "destroy"} /\ interrupts = <<>>
    /\ pc' = IF pc = "destroy" THEN "end" ELSE "js"
    /\ UNCHANGED <<clientVars, queueVars, pauseVars, taskVars>>

------------------------------------------------------------------------------
(* didPause().                                                                *)

\* A breakpoint, a debugger statement, the end of a step ...: the pause does
\* not take place if nobody listens.  A deferred pause may be lost with it: its
\* breakpoint is cleared, or it ends as a step.
DidPause ==
    /\ pc = "js"
    /\ IF eventCallback
       THEN /\ pc' = "event" /\ isWaitingForCommand' = TRUE /\ cleared' = FALSE
            /\ UNCHANGED stepping
       ELSE stepping' = FALSE /\ UNCHANGED <<pc, isWaitingForCommand, cleared>>
    /\ deferred' \in {FALSE, deferred}
    /\ UNCHANGED <<eventCallback, interrupts, signaled, implicitBreak, dropped,
                   queueVars, nextCommand, evalCallback, taskVars>>

RunEventCallback ==
    /\ pc = "event" /\ pc' = "process"
    /\ NoCommand \/ (eventCallback /\ GiveCommand(Commands))
    /\ UNCHANGED <<clientVars, queueVars, stepping, taskVars>>

\* processInterruptWhilePaused(): what the loop does next, with mutex_ held.
\* Mutated form: an interrupt is not looked for before waiting.
ProcessLoop_WaitsFirst ==
    IF ~(isWaitingForCommand /\ eventCallback) THEN "exit"
    ELSE IF pc = "process" \/ interrupts = <<>> THEN "wait" ELSE "interrupt"
ProcessLoop ==
    IF ~(isWaitingForCommand /\ eventCallback) THEN "exit"
    ELSE IF interrupts = <<>> THEN "wait" ELSE "interrupt"

ProcessInterruptWhilePaused ==
    /\ \/ pc = "process"
       \/ pc = "wait" /\ signaled
       \/ pc = "interrupt" /\ interrupts = <<>>
    /\ pc' = ProcessLoop
    /\ signaled' = FALSE
    /\ UNCHANGED <<eventCallback, cleared, interrupts, requestVars, queueVars,
                   pauseVars, taskVars>>

\* runInterrupts(false) stops when one of them has given the next command.
\* Mutated form: it goes on.
StopAfterCommand_Not == FALSE
StopAfterCommand == ~isWaitingForCommand'

RunInterruptWhilePaused ==
    /\ pc = "interrupt" /\ TakeInterrupt
    /\ NoCommand \/ GiveCommand(Commands)
    /\ pc' = IF StopAfterCommand THEN "process" ELSE "interrupt"

\* The last look at eventCallback_: without it, execution continues.  Mutated
\* form: the flag stays set.
Abandon_KeepsWaiting ==
    pc' = "js" /\ stepping' = FALSE /\ cleared' = FALSE /\ UNCHANGED isWaitingForCommand
Abandon ==
    pc' = "js" /\ stepping' = FALSE /\ cleared' = FALSE /\ isWaitingForCommand' = FALSE

ExitPause ==
    /\ pc = "exit"
    /\ IF eventCallback
       THEN pc' = "return" /\ UNCHANGED <<isWaitingForCommand, stepping, cleared>>
       ELSE Abandon
    /\ UNCHANGED <<eventCallback, interrupts, signaled, requestVars, queueVars,
                   nextCommand, evalCallback, taskVars>>

\* "Should only exit didPause with a debugger::Command": the assertion fails, and
\* ends the program, if a callback cleared during the pause, which ended the loop,
\* is set again before the last look at it.
NothingToReturn == pc = "return" /\ isWaitingForCommand

\* The command is moved out of nextCommand_; an eval is carried out at once.
Return ==
    /\ pc = "return" /\ ~isWaitingForCommand
    /\ pc' = IF nextCommand = "eval" THEN "eval" ELSE "js"
    /\ stepping' = (nextCommand = "step" \/ (nextCommand = "eval" /\ stepping))
    /\ nextCommand' = "moved" /\ cleared' = FALSE
    /\ UNCHANGED <<eventCallback, interrupts, signaled, requestVars, queueVars,
                   isWaitingForCommand, evalCallback, taskVars>>

\* "We're still waiting on the next command."  Mutated form: we are not.
AwaitNext_Not == UNCHANGED <<isWaitingForCommand, nextCommand>>
AwaitNext == isWaitingForCommand' = TRUE /\ UNCHANGED nextCommand

\* The expression has been evaluated and didPause() is called again.  The
\* callback may give the next command; then it is cleared.
EvalComplete ==
    /\ pc = "eval" /\ pc' = "process"
    /\ \/ AwaitNext
       \/ /\ isWaitingForCommand' = FALSE
          /\ nextCommand' \in Commands \ (IF EvalMayChain THEN {} ELSE {"eval"})
    /\ evalCallback' = FALSE /\ cleared' = ~eventCallback
    /\ UNCHANGED <<eventCallback, interrupts, signaled, requestVars, queueVars,
                   stepping, taskVars>>

------------------------------------------------------------------------------
Init ==
    /\ eventCallback = FALSE /\ interrupts = <<>> /\ signaled = FALSE
    /\ implicitBreak = FALSE /\ deferred = FALSE /\ integrator = <<>>
    /\ submitted = [t \in Tasks |-> "no"]
    /\ pc = "idle" /\ isWaitingForCommand = FALSE /\ nextCommand = "continue"
    /\ evalCallback = FALSE /\ stepping = FALSE
    /\ alreadyRan = {} /\ ran = [t \in Tasks |-> 0]
    /\ cleared = FALSE /\ dropped = FALSE

OtherThreads ==
    \/ SetDebuggerEventCallback \/ ClearDebuggerEventCallback
    \/ \E t \in Tasks : EnqueueRuntimeTask(t) \/ TriggerInterrupt(t)

\* What the program and its owner decide, ...
Choices ==
    \/ EnterJS \/ LeaveJS \/ DidPause \/ Destroy
    \/ DeferredPause \/ DropBreak

\* ... and what the runtime thread does of its own.
RuntimeThread ==
    \/ RunIntegratorTask \/ AsyncBreak \/ RunInterrupt \/ InterruptsDone
    \/ RunEventCallback \/ ProcessInterruptWhilePaused \/ RunInterruptWhilePaused
    \/ ExitPause \/ Return \/ EvalComplete

\* Nothing is left to be done, or the assertion has ended the program.
Finished ==
    /\ (pc = "end" /\ integrator = <<>>) \/ NothingToReturn
    /\ UNCHANGED vars

Next == OtherThreads \/ Choices \/ RuntimeThread \/ Finished
Spec == Init /\ [][Next]_vars

\* The runtime thread keeps running; JavaScript that runs for ever gets to a
\* check for interrupts again and again (checks are at calls, returns and loops)
\* even if it pauses in between; the integrator, whenever no JavaScript runs, gets
\* to its queue sooner or later; a thread in enqueueTask finishes the call.
Fairness ==
    /\ WF_vars(RuntimeThread) /\ SF_vars(AsyncBreak) /\ SF_vars(RunIntegratorTask)
    /\ \A t \in Tasks : WF_vars(TriggerInterrupt(t))

------------------------------------------------------------------------------
(* Properties.                                                                *)

\* Types; a command is waited for, or one that was given is kept, only inside
\* didPause(): outside of it resumeFromPaused() is refused.
TypeOK ==
    /\ eventCallback \in BOOLEAN /\ signaled \in BOOLEAN
    /\ implicitBreak \in BOOLEAN /\ deferred \in BOOLEAN /\ stepping \in BOOLEAN
    /\ evalCallback \in BOOLEAN /\ cleared \in BOOLEAN /\ dropped \in BOOLEAN
    /\ interrupts \in Seq(Tasks) /\ integrator \in Seq(Tasks)
    /\ submitted \in [Tasks -> {"no", "queued", "all"}]
    /\ pc \in PausePoints \cup {"idle", "js", "implicit", "eval", "destroy", "end"}
    /\ isWaitingForCommand \in BOOLEAN
    /\ nextCommand \in {"continue", "step", "eval", "moved"}
    /\ alreadyRan \subseteq Tasks
    /\ ran \in [Tasks -> Nat]
    /\ isWaitingForCommand => pc \in PausePoints

\* Besides the types: a task runs once although it is in two queues and its run through one of
\* them may cause the run through the other; and every interrupt has run when
\* the API is destroyed ("guaranteed to run exactly once").
ExactlyOnce ==
    /\ TypeOK
    /\ \A t \in Tasks : ran[t] <= 1
    /\ pc = "end" => \A t \in Tasks : submitted[t] = "all" => ran[t] = 1

\* Whatever interrupts, callbacks and commands come in which order, what didPause()
\* returns is a command that the client gave in this pause; and it comes to have
\* none only if the event callback was cleared, and set again, while it waited.
ExitsWithCommand ==
    pc = "return" => IF isWaitingForCommand THEN cleared ELSE nextCommand # "moved"

\* "Should only exit didPause with a debugger::Command", the assertion itself.
ReturnAsserted == ~NothingToReturn

\* "There should always be a non-empty callback to receive the EvalResult": when
\* an evaluation ends, the client that asked for it can be told.
EvalHasCallback == pc = "eval" => evalCallback

\* Interrupts behind the one that gave the command are left for the next pause:
\* at most one command is taken from the client in a pause.
CommandKeptStep ==
    pc \in {"interrupt", "process", "wait"} /\ ~isWaitingForCommand
        /\ pc' \in PausePoints
    => interrupts' \in {interrupts} \cup {Append(interrupts, t) : t \in Tasks}
CommandKept == [][CommandKeptStep]_vars

\* A task that was submitted runs, whether JavaScript runs for ever, never, or
\* is paused for ever: no wake-up of the paused thread is lost, and no interrupt is
\* without a request unless the interpreter has cleared that without a pause (while
\* stepping, or in JavaScript that runs during a pause) and returned to the program.
\* If the program lets the integrator run again and again, every task runs.
Stranded(t) ==
    /\ pc = "js" /\ ~implicitBreak /\ dropped
    /\ \E i \in DOMAIN interrupts : interrupts[i] = t
TasksRun ==
    /\ \A t \in Tasks :
         submitted[t] = "all" ~> ran[t] > 0 \/ Stranded(t) \/ NothingToReturn
    /\ []<>(pc = "idle") => \A t \in Tasks : submitted[t] = "all" ~> ran[t] > 0
==============================================================================
