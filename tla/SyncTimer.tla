----------------------------- MODULE SyncTimer -----------------------------
(***************************************************************************)
(* The sync lock and the interval timer of SyncEngineLevel: sync(),        *)
(* startSync() and stopSync().  What a run does is SyncEngine; here it     *)
(* begins, takes the lock, and ends, well or badly.                        *)
(*                                                                         *)
(* JavaScript runs one task at a time: an action is the code between two   *)
(* awaits that reach the event loop.  When a run ends its caller's         *)
(* continuation follows in the same task, before any timer can fire.       *)
(***************************************************************************)
EXTENDS Integers, FiniteSets

CONSTANTS
    MaxTimer, \* bound: interval timers; the identity of one cleared is reused
    Stopper,  \* the callers of stopSync()
    Polls     \* how often stopSync() waits again before it gives up

Timer   == 1..MaxTimer
NoTimer == 0

ASSUME TimerAssumption == MaxTimer \in Nat /\ Polls \in Nat

\* A run belongs to the interval, to a startSync() call, or to a sync() call.
Kind == {"tick", "start", "call"}

VARIABLES
    live,            \* the timers the event loop will fire
    syncIntervalId,  \* _syncIntervalId
    syncLock,        \* _syncLock
    running,         \* the runs in progress, by kind
    stopping,        \* per stopSync() call: how often it has waited again
    wanted           \* whether the last startSync() has not been stopped

timerVars == <<live, syncIntervalId, syncLock, running, stopping, wanted>>

NotStopping == -1

TimerTypeOK ==
    /\ live \subseteq Timer
    /\ syncIntervalId \in Timer \cup {NoTimer}
    /\ syncLock \in BOOLEAN
    /\ running \in [Kind -> Nat]
    /\ stopping \in [Stopper -> NotStopping .. Polls]
    /\ wanted \in BOOLEAN

TimerInit ==
    /\ live = {} /\ syncIntervalId = NoTimer
    /\ syncLock = FALSE /\ running = [k \in Kind |-> 0]
    /\ stopping = [s \in Stopper |-> NotStopping]
    /\ wanted = FALSE

\* A run takes the lock in the task that starts it.
Begin(k) ==
    /\ syncLock' = TRUE
    /\ running' = [running EXCEPT ![k] = @ + 1]

\* setInterval() in place of the timer syncIntervalId names, if any.
SetInterval ==
    \E t \in Timer \ live :
        /\ live' = (live \ {syncIntervalId}) \cup {t}
        /\ syncIntervalId' = t

ClearInterval ==
    /\ live' = live \ {syncIntervalId}
    /\ syncIntervalId' = NoTimer

\* sync(): a call while the lock is held throws and changes nothing.
Sync ==
    /\ ~syncLock
    /\ Begin("call")
    /\ UNCHANGED <<live, syncIntervalId, stopping, wanted>>

\* Mutant: an earlier interval is not cleared.
StartSyncKeepsTimer ==
    /\ \E t \in Timer \ live : live' = live \cup {t} /\ syncIntervalId' = t
    /\ IF syncLock THEN UNCHANGED <<syncLock, running>> ELSE Begin("start")
    /\ wanted' = TRUE
    /\ UNCHANGED stopping

\* startSync(): a new interval, and a run at once unless one is in progress.
StartSync ==
    /\ SetInterval
    /\ IF syncLock THEN UNCHANGED <<syncLock, running>> ELSE Begin("start")
    /\ wanted' = TRUE
    /\ UNCHANGED stopping

\* intervalSync: the timer is put away while its run lasts.
IntervalSync(t) ==
    /\ t \in live
    /\ ~syncLock
    /\ ClearInterval
    /\ Begin("tick")
    /\ UNCHANGED <<stopping, wanted>>

\* Mutant: the interval is not set again.
RunEndsDisarmed(k) ==
    /\ running[k] > 0
    /\ running' = [running EXCEPT ![k] = @ - 1]
    /\ syncLock' = FALSE
    /\ UNCHANGED <<live, syncIntervalId, stopping, wanted>>

\* A run ends, by returning or throwing: the lock is released, and the
\* interval set again unless a startSync() has done so.
RunEnds(k) ==
    /\ running[k] > 0
    /\ running' = [running EXCEPT ![k] = @ - 1]
    /\ syncLock' = FALSE
    /\ IF k = "tick" /\ syncIntervalId = NoTimer
       THEN SetInterval
       ELSE UNCHANGED <<live, syncIntervalId>>
    /\ UNCHANGED <<stopping, wanted>>

\* stopSync() with no run in progress.
StopSync(s) ==
    /\ stopping[s] = NotStopping
    /\ ~syncLock
    /\ ClearInterval
    /\ wanted' = FALSE
    /\ UNCHANGED <<syncLock, running, stopping>>

\* stopSync() during a run: wait, and look at the lock again later.
StopSyncWaits(s) ==
    /\ syncLock
    /\ stopping[s] < Polls
    /\ stopping' = [stopping EXCEPT ![s] = @ + 1]
    /\ UNCHANGED <<live, syncIntervalId, syncLock, running, wanted>>

\* stopSync() finds the lock free on a later look.
StopSyncReturns(s) ==
    /\ stopping[s] # NotStopping
    /\ ~syncLock
    /\ ClearInterval
    /\ wanted' = FALSE
    /\ stopping' = [stopping EXCEPT ![s] = NotStopping]
    /\ UNCHANGED <<syncLock, running>>

\* stopSync() throws; the interval stays as it is.
StopSyncThrows(s) ==
    /\ syncLock
    /\ stopping[s] = Polls
    /\ stopping' = [stopping EXCEPT ![s] = NotStopping]
    /\ UNCHANGED <<live, syncIntervalId, syncLock, running, wanted>>

Stop(s) ==
    StopSync(s) \/ StopSyncWaits(s) \/ StopSyncReturns(s) \/ StopSyncThrows(s)

TimerNext ==
    \/ Sync
    \/ StartSync
    \/ \E t \in Timer : IntervalSync(t)
    \/ \E k \in Kind : RunEnds(k)
    \/ \E s \in Stopper : Stop(s)

\* A run ends (its calls answer or fail); a waiting stopSync() is woken by
\* its own timeout; an armed interval now and then fires while no run holds
\* the lock.
TimerFairness ==
    /\ \A k \in Kind : WF_timerVars(RunEnds(k))
    /\ \A s \in Stopper : WF_timerVars(stopping[s] # NotStopping /\ Stop(s))
    /\ SF_timerVars(\E t \in Timer : IntervalSync(t))

TimerSpec == TimerInit /\ [][TimerNext]_timerVars /\ TimerFairness

-----------------------------------------------------------------------------

\* Safety: the lock is held exactly while one run is in progress, whoever
\* started it, so no two runs work the queues at once (lines 311-325).
OneRun ==
    /\ \A j, k \in Kind : running[j] > 0 /\ running[k] > 0 => j = k
    /\ \A k \in Kind : running[k] <= 1
    /\ syncLock <=> \E k \in Kind : running[k] > 0

\* Safety: every timer that can fire is the one stopSync() would clear
\* (lines 338-360): however startSync(), a tick and its end interleave, no
\* interval is leaked and none is set twice.
NoStrayTimer == live = {syncIntervalId} \ {NoTimer}

\* Safety: one run and one timer at a time.
OneTimer == TimerTypeOK /\ OneRun /\ NoStrayTimer

\* Safety: a periodic sync that was started and not stopped is armed or
\* running, after a failed run too (lines 341-350); one that was stopped is
\* neither (lines 382-385).
ArmedWhileWanted ==
    wanted <=> syncIntervalId # NoTimer \/ running["tick"] > 0

\* Liveness: a periodic sync that is wanted for ever runs again and again.
KeepsSyncing == []<>(~wanted \/ running["tick"] > 0)
=============================================================================
