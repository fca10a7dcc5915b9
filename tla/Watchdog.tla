------------------------------- MODULE Watchdog -------------------------------
(***************************************************************************)
(* The watchdog of an attached myfirst device: the sysctl that sets its     *)
(* interval, the callout that looks for a stalled buffer, and the recovery  *)
(* task it hands the stall to.  The sysctl reads the old interval without   *)
(* sc->mtx, then copies the new one in, which may sleep, and only then      *)
(* takes the lock; the heartbeat and tick-source sysctls do the same.       *)
(***************************************************************************)
EXTENDS Integers

CONSTANTS Handlers, \* threads in myfirst_sysctl_watchdog_interval_ms()
          MaxUsed   \* the most bytes the buffer holds

ASSUME WatchdogAssumption == MaxUsed \in Nat

VARIABLES
    interval,   \* watchdog_interval_ms > 0
    armed,      \* is watchdog_co scheduled?
    handler_pc, old,    \* each handler's position and the interval it has read
    overtaken,  \* not in the code: the handlers that copy in a value while
                \* another has set the interval since they read it
    used,       \* cbuf_used(&sc->cb)
    last_used,  \* watchdog_last_used
    recovery_in_progress,
    queued,     \* is recovery_task pending?
    recovery    \* where recovery_task runs: "idle", "started", "cleared"

sysctlVars   == <<handler_pc, old, overtaken>>
timerVars    == <<interval, armed, last_used>>
recoveryVars == <<recovery_in_progress, queued, recovery>>
watchdogVars == <<sysctlVars, timerVars, used, recoveryVars>>

WatchdogInit ==
    /\ interval = FALSE /\ armed = FALSE
    /\ handler_pc = [h \in Handlers |-> "idle"]
    /\ old = [h \in Handlers |-> FALSE] /\ overtaken = {}
    /\ used = 0 /\ last_used = 0
    /\ recovery_in_progress = FALSE /\ queued = FALSE /\ recovery = "idle"

\* Readers, writers and the tick source move bytes.
transfer ==
    /\ used' \in 0 .. MaxUsed
    /\ UNCHANGED <<sysctlVars, timerVars, recoveryVars>>

\* The old interval, before sysctl_handle_int().
sysctl_read(h) ==
    /\ handler_pc[h] = "idle"
    /\ old' = [old EXCEPT ![h] = interval]
    /\ handler_pc' = [handler_pc EXCEPT ![h] = "copyin"]
    /\ UNCHANGED <<overtaken, timerVars, used, recoveryVars>>

\* Slip: turning the watchdog off leaves the callout to find out for itself.
StopLeftOut(new, before) == IF new THEN TRUE ELSE armed

\* Scheduled on the way from 0, stopped on the way to 0, left alone otherwise.
Rescheduled(new, before) ==
    IF new /\ ~before THEN TRUE ELSE IF ~new /\ before THEN FALSE ELSE armed

\* The new interval, under the lock.
sysctl_set(h, new) ==
    /\ handler_pc[h] = "copyin"
    /\ interval' = new
    /\ armed' = Rescheduled(new, old[h])
    /\ last_used' = IF new /\ ~old[h] THEN used ELSE last_used
    /\ handler_pc' = [handler_pc EXCEPT ![h] = "idle"]
    /\ old' = [old EXCEPT ![h] = FALSE]
    /\ overtaken' = {g \in Handlers \ {h} : handler_pc[g] = "copyin"}
    /\ UNCHANGED <<used, recoveryVars>>

\* A read of the sysctl, a failed copyin, a negative interval.
sysctl_return(h) ==
    /\ handler_pc[h] = "copyin"
    /\ handler_pc' = [handler_pc EXCEPT ![h] = "idle"]
    /\ old' = [old EXCEPT ![h] = FALSE]
    /\ overtaken' = overtaken \ {h}
    /\ UNCHANGED <<timerVars, used, recoveryVars>>

Stalled == used > 0 /\ used = last_used

\* Slip: the flag is set even when there is nothing to recover from.
TriggerUnconditionally ==
    /\ recovery_in_progress' = TRUE
    /\ queued' = (queued \/ (Stalled /\ ~recovery_in_progress))

\* A stall is handed over, unless the last one still is.
Trigger ==
    LET new == Stalled /\ ~recovery_in_progress
    IN  /\ recovery_in_progress' = (recovery_in_progress \/ new)
        /\ queued' = (queued \/ new)

\* The callout, with sc->mtx held.
myfirst_watchdog ==
    /\ armed
    /\ Trigger
    /\ last_used' = used
    /\ armed' = interval
    /\ UNCHANGED <<sysctlVars, interval, used, recovery>>

recovery_start ==
    /\ queued /\ recovery = "idle"
    /\ queued' = FALSE
    /\ recovery' = "started"
    /\ UNCHANGED <<sysctlVars, timerVars, used, recovery_in_progress>>

\* The critical section of the task; what is left of it after the unlock may
\* still run when the watchdog fires next.
myfirst_recovery_task ==
    /\ recovery = "started"
    /\ recovery_in_progress' = FALSE
    /\ recovery' = "cleared"
    /\ UNCHANGED <<sysctlVars, timerVars, used, queued>>

recovery_end ==
    /\ recovery = "cleared"
    /\ recovery' = "idle"
    /\ UNCHANGED <<sysctlVars, timerVars, used, recovery_in_progress, queued>>

taskqueue_thread == recovery_start \/ myfirst_recovery_task \/ recovery_end

WatchdogNext ==
    \/ transfer
    \/ \E h \in Handlers :
          \/ sysctl_read(h) \/ sysctl_return(h)
          \/ \E new \in BOOLEAN : sysctl_set(h, new)
    \/ myfirst_watchdog
    \/ taskqueue_thread

WatchdogSpec == WatchdogInit /\ [][WatchdogNext]_watchdogVars

\* Time passes, so a scheduled callout fires, and the taskqueue thread runs.
WatchdogFairSpec ==
    /\ WatchdogSpec
    /\ WF_watchdogVars(myfirst_watchdog) /\ WF_watchdogVars(taskqueue_thread)

------------------------------------------------------------------------------
WatchdogTypeOK ==
    /\ interval \in BOOLEAN /\ armed \in BOOLEAN
    /\ handler_pc \in [Handlers -> {"idle", "copyin"}]
    /\ old \in [Handlers -> BOOLEAN] /\ overtaken \subseteq Handlers
    /\ used \in Nat /\ last_used \in Nat
    /\ recovery_in_progress \in BOOLEAN /\ queued \in BOOLEAN
    /\ recovery \in {"idle", "started", "cleared"}

\* The flag is set exactly while a recovery is on the queue or on its way to
\* clear it: it never keeps a second recovery away for ever, and there are never
\* two that wait or work at a time (LOCKING.md:109).
FlagMeansRecovery ==
    /\ recovery_in_progress <=> queued \/ recovery = "started"
    /\ ~(queued /\ recovery = "started")

\* However many handlers of the MPSAFE sysctl are at work, the callout and the
\* interval part (a positive interval with nothing scheduled, or the other way
\* round) only when a handler sets what it has copied in although another has set
\* the interval since it read the old one.
OnlyOvertakenMisarm ==
    [][(armed <=> interval) /\ ~(armed' <=> interval')
          => \E h \in overtaken : handler_pc'[h] = "idle"]_watchdogVars

\* Between two calls of the sysctl, the callout is scheduled exactly when the
\* interval is positive (chapter-13.md:839: "If the user toggles the heartbeat
\* off and on rapidly, the handler does the right thing each time"): not so once
\* two calls have overlapped (WatchdogTwoSysctls.cfg).
ArmedMeansInterval ==
    (\A h \in Handlers : handler_pc[h] = "idle") => armed = interval

\* A stall that lasts is recovered from, as long as the watchdog stays on.
StallRecovered ==
    Stalled /\ interval /\ armed ~> recovery = "started" \/ ~Stalled \/ ~interval
==============================================================================
