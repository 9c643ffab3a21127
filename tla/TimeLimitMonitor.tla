-------------------------- MODULE TimeLimitMonitor --------------------------
(* TimeLimitMonitor (lib/VM/TimeLimitMonitor.cpp): one thread for all         *)
(* runtimes sleeps until the next deadline and asks the runtime whose deadline*)
(* it is for a break.  Runtimes are watched, watched anew, unwatched and      *)
(* destroyed meanwhile; the last one takes the monitor along.                 *)
(*                                                                            *)
(* What holds lock_ throughout and does nothing else is one step; the timer   *)
(* thread, which looks at one runtime after the other, holds timerLock.       *)
EXTENDS Naturals, FiniteSets

CONSTANTS
    Runtimes,
    Timeouts,      \* what watchRuntime() is called with
    MaxTime        \* bound: the clock

ASSUME TimesAssumption == MaxTime \in Nat /\ Timeouts \subseteq Nat

VARIABLES
    now,           \* the clock
    deadline,      \* watchedRuntimes_; NoDeadline for one that is not watched
    timeoutBit,    \* asyncBreakRequestFlag_, bit Timeout
    runtimeAt,     \* "unwatched": it has no monitor yet, "idle", "notify", "gone"
    monitorEnabled,\* enabled_
    monitorAt,     \* the monitor's life: "none", "alive", then its destructor
    timerAt,       \* the timer thread: "start", "scan", "wait", "done"
    readAt, seen,  \* this round: when it read the clock, whom it has looked at
    wakeAt,        \* the time it waits for
    notified       \* timerLoopCond_ was notified while it waits

timerVars == <<timerAt, readAt, seen, wakeAt>>
timeVars == <<now, deadline, timeoutBit, runtimeAt, monitorEnabled, monitorAt,
              timerVars, notified>>

NoDeadline == MaxTime + 1
Holders == {r \in Runtimes : runtimeAt[r] \in {"idle", "notify"}}
timerLock == timerAt = "scan"

Earliest(S) == CHOOSE t \in S : \A u \in S : t <= u

------------------------------------------------------------------------------
(* The runtimes' threads.                                                     *)

\* The runtime takes part in the monitor there is, or creates it, and sets its
\* deadline, whether it has one or not; notify_all() follows without lock_.
WatchRuntime(r) ==
    /\ runtimeAt[r] \in {"unwatched", "idle"} /\ monitorAt \in {"none", "alive"}
    /\ ~timerLock
    /\ \E t \in Timeouts :
         /\ now + t <= MaxTime
         /\ deadline' = [deadline EXCEPT ![r] = now + t]
    /\ runtimeAt' = [runtimeAt EXCEPT ![r] = "notify"]
    /\ monitorAt' = "alive"
    /\ UNCHANGED <<now, timeoutBit, monitorEnabled, timerVars, notified>>

\* mutant: the timer thread is only notified of the first runtime.
NotifyLoop_First == notified' = (Cardinality(Holders) = 1)
NotifyLoop == notified' = TRUE
NotifyTimer(r) ==
    /\ runtimeAt[r] = "notify" /\ runtimeAt' = [runtimeAt EXCEPT ![r] = "idle"]
    /\ NotifyLoop
    /\ UNCHANGED <<now, deadline, timeoutBit, monitorEnabled, monitorAt,
                   timerVars>>

\* "No need to notify the timer loop".  The bit may be set already, and stays.
Unwatch(r) == deadline' = [deadline EXCEPT ![r] = NoDeadline]
UnwatchRuntime(r) ==
    /\ runtimeAt[r] = "idle" /\ ~timerLock
    /\ Unwatch(r)
    /\ UNCHANGED <<now, timeoutBit, runtimeAt, monitorEnabled, monitorAt,
                   timerVars, notified>>

\* The interpreter finds the bit at its next check.
AsyncBreakCheck(r) ==
    /\ runtimeAt[r] \in {"unwatched", "idle"} /\ timeoutBit[r]
    /\ timeoutBit' = [timeoutBit EXCEPT ![r] = FALSE]
    /\ UNCHANGED <<now, deadline, runtimeAt, monitorEnabled, monitorAt,
                   timerVars, notified>>

\* mutant: a runtime is destroyed while it is watched.
DestroyRuntime_Watched(r) ==
    /\ runtimeAt[r] = "idle" /\ ~timerLock
    /\ runtimeAt' = [runtimeAt EXCEPT ![r] = "gone"]
    /\ monitorAt' = IF Holders = {r} THEN "disable" ELSE monitorAt
    /\ UNCHANGED <<now, deadline, timeoutBit, monitorEnabled, timerVars,
                   notified>>

\* ~Runtime() unwatches, and then lets go of the monitor.
DestroyRuntime(r) ==
    /\ runtimeAt[r] = "idle" /\ ~timerLock
    /\ Unwatch(r)
    /\ runtimeAt' = [runtimeAt EXCEPT ![r] = "gone"]
    /\ monitorAt' = IF Holders = {r} THEN "disable" ELSE monitorAt
    /\ UNCHANGED <<now, timeoutBit, monitorEnabled, timerVars, notified>>

------------------------------------------------------------------------------
(* ~TimeLimitMonitor().                                                       *)

DisableMonitor ==
    /\ monitorAt = "disable" /\ ~timerLock /\ monitorEnabled' = FALSE
    /\ monitorAt' = "notify"
    /\ UNCHANGED <<now, deadline, timeoutBit, runtimeAt, timerVars, notified>>
TickleTimer ==
    /\ monitorAt = "notify" /\ monitorAt' = "join" /\ notified' = TRUE
    /\ UNCHANGED <<now, deadline, timeoutBit, runtimeAt, monitorEnabled,
                   timerVars>>
JoinTimer ==
    /\ monitorAt = "join" /\ timerAt = "done" /\ monitorAt' = "gone"
    /\ UNCHANGED <<now, deadline, timeoutBit, runtimeAt, monitorEnabled,
                   timerVars, notified>>

------------------------------------------------------------------------------
(* The timer thread.                                                          *)

\* At the start, when notified, or at the time it waits for, it takes lock_ and
\* ends or looks at the runtimes.
TimerWakes ==
    /\ \/ timerAt = "start" /\ monitorAt # "none"
       \/ timerAt = "wait" /\ (notified \/ now >= wakeAt)
    /\ timerAt' = IF monitorEnabled THEN "scan" ELSE "done"
    /\ readAt' = now /\ seen' = {} /\ wakeAt' = NoDeadline
    /\ UNCHANGED <<now, deadline, timeoutBit, runtimeAt, monitorEnabled,
                   monitorAt, notified>>

\* mutant: the last deadline is kept, not the earliest.
NextDeadline_Last(r) == deadline[r]
NextDeadline(r) == Earliest({wakeAt, deadline[r]})

\* The time is that of the beginning of the round.
LookAt(r) ==
    /\ timerLock /\ r \notin seen /\ deadline[r] # NoDeadline
    /\ seen' = seen \cup {r}
    /\ IF deadline[r] <= readAt
       THEN /\ timeoutBit' = [timeoutBit EXCEPT ![r] = TRUE]
            /\ deadline' = [deadline EXCEPT ![r] = NoDeadline]
            /\ UNCHANGED wakeAt
       ELSE /\ wakeAt' = NextDeadline(r)
            /\ UNCHANGED <<timeoutBit, deadline>>
    /\ UNCHANGED <<now, runtimeAt, monitorEnabled, monitorAt, timerAt, readAt,
                   notified>>

\* wait() or wait_until(): what was notified before is not remembered.
TimerWaits ==
    /\ timerLock /\ \A r \in Runtimes : r \in seen \/ deadline[r] = NoDeadline
    /\ timerAt' = "wait" /\ notified' = FALSE
    /\ UNCHANGED <<now, deadline, timeoutBit, runtimeAt, monitorEnabled,
                   monitorAt, readAt, seen, wakeAt>>

Tick ==
    /\ now < MaxTime /\ now' = now + 1
    /\ UNCHANGED <<deadline, timeoutBit, runtimeAt, monitorEnabled, monitorAt,
                   timerVars, notified>>

------------------------------------------------------------------------------
TimeInit ==
    /\ now = 0 /\ deadline = [r \in Runtimes |-> NoDeadline]
    /\ timeoutBit = [r \in Runtimes |-> FALSE]
    /\ runtimeAt = [r \in Runtimes |-> "unwatched"]
    /\ monitorEnabled = TRUE /\ monitorAt = "none"
    /\ timerAt = "start" /\ readAt = 0 /\ seen = {} /\ wakeAt = NoDeadline
    /\ notified = FALSE

Timer == TimerWakes \/ (\E r \in Runtimes : LookAt(r)) \/ TimerWaits
MonitorDestructor == DisableMonitor \/ TickleTimer \/ JoinTimer

\* The threads go on: nobody else holds lock_ for ever.
TimeFair ==
    /\ WF_timeVars(Timer) /\ WF_timeVars(MonitorDestructor)
    /\ \A r \in Runtimes : WF_timeVars(NotifyTimer(r))

TimeNext ==
    \/ \E r \in Runtimes :
         WatchRuntime(r) \/ NotifyTimer(r) \/ UnwatchRuntime(r)
             \/ AsyncBreakCheck(r) \/ DestroyRuntime(r)
    \/ MonitorDestructor \/ Timer \/ Tick

------------------------------------------------------------------------------
\* The timer thread has no pointer to a runtime that is destroyed: it is not
\* watched, and no break is requested while its destructor runs or after it
\* (unwatchRuntime in ~Runtime, timerLoop).
WatchedAlive ==
    \A r \in Runtimes : deadline[r] # NoDeadline => runtimeAt[r] # "gone"

\* The timer thread never oversleeps: no runtime has a deadline before the time
\* it waits for, unless it has been or is about to be notified, although it
\* looks at the runtimes one by one, is not notified by unwatchRuntime(), and the
\* notification comes after lock_ is released.  Nor does it look at a runtime
\* that is gone (watchRuntime, timerLoop, unwatchRuntime).
SleepBounded ==
    /\ WatchedAlive
    /\ timerAt = "wait" /\ ~notified /\ (\A r \in Runtimes : runtimeAt[r] # "notify")
         => \A r \in Runtimes : wakeAt <= deadline[r]

\* A deadline that has passed is answered, if the runtime is not unwatched or
\* watched anew, and the monitor's destructor, which joins the timer thread,
\* returns (watchRuntime, timerLoop, ~TimeLimitMonitor).
DeadlinesAnswered ==
    /\ \A r \in Runtimes : deadline[r] <= now ~> deadline[r] > now
    /\ monitorAt = "disable" ~> monitorAt = "gone"
==============================================================================
