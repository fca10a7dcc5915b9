--------------------------------- MODULE Dma ----------------------------------
(***************************************************************************)
(* Interrupt-driven transfers of the myfirst PCI driver (Chapter 21, stage  *)
(* 4), the simulated engine that serves them, and suspend, resume and       *)
(* shutdown (Chapter 22, stage 4).                                          *)
(*                                                                          *)
(* One buffer, one transfer at a time: a caller takes dma_in_flight, starts *)
(* the engine and sleeps on dma_cv for at most a second.  The engine is a   *)
(* callout that holds no lock; it raises an interrupt, whose filter queues  *)
(* the receive task, which takes sc->mtx, gives dma_in_flight back and      *)
(* wakes everybody.  A critical section of sc->mtx is one step.             *)
(***************************************************************************)
EXTENDS Integers, Sequences, SequencesExt

CONSTANTS Callers, \* threads in myfirst_dma_do_transfer_intr()
          Frozen   \* are user threads stopped while the system is suspended?

ASSUME DmaAssumption == Frozen \in BOOLEAN /\ "drain" \notin Callers

VARIABLES
    calm,        \* no receive interrupts but completions, and a wait of a
                 \* second is never too short (chosen once)
    in_flight, last_status, \* dma_in_flight, dma_last_status
    pc,          \* each caller: "idle", "waiting" or "expired"
    dma_cv,      \* the sleepers of dma_cv, oldest first
    status, armed,          \* the engine's DMA_STATUS and sim->dma.armed
    callout,     \* is done_co scheduled?
    done_co,     \* where its callback is, if it runs
    mask, complete,         \* INTR_MASK, and the COMPLETE bit of INTR_STATUS
    irq,         \* an interrupt is queued
    rx_pending, rx_running, \* the receive task
    phase,       \* where the thread that suspends and resumes is
    suspended, saved_mask

driverVars == <<in_flight, last_status, pc, dma_cv>>
engineVars == <<status, armed, callout, done_co>>
intrVars   == <<mask, complete, irq, rx_pending, rx_running>>
powerVars  == <<phase, suspended, saved_mask>>
vars == <<calm, driverVars, engineVars, intrVars, powerVars>>

\* What INTR_MASK can hold: the three bits set by msix_setup, all ones, and
\* everything but COMPLETE.
Masks == {"enabled", "ones", "not_complete"}

Init ==
    /\ calm \in BOOLEAN
    /\ in_flight = FALSE /\ last_status = {}
    /\ pc = [c \in Callers |-> "idle"] /\ dma_cv = <<>>
    /\ status = {} /\ armed = FALSE /\ callout = FALSE /\ done_co = "idle"
    /\ mask = "enabled" /\ complete = FALSE /\ irq = FALSE
    /\ rx_pending = FALSE /\ rx_running = FALSE
    /\ phase = "running" /\ suspended = FALSE /\ saved_mask = "zero"

Sleeping(x) == x \in ToSet(dma_cv)

Goto(c, label) == pc' = [pc EXCEPT ![c] = label]

\* Is anything on its way that will end the transfer in flight?
Underway == callout \/ done_co # "idle" \/ irq \/ rx_pending \/ rx_running

------------------------------------------------------------------------------
(* The simulated engine, as register writes drive it.                       *)

\* A callback that is under way stores its status in the middle of a register
\* write, which no lock excludes: one of the two stores gets lost.
Overlap == done_co = "copying" /\ done_co' = "raising"

\* DMA_CTRL = START.  While a callout_drain() waits for the callback,
\* callout_reset() schedules nothing.
EngineStart ==
    \/ /\ "RUNNING" \in status
       /\ status' = status \cup {"ERR"} /\ UNCHANGED callout
       /\ \/ UNCHANGED <<armed, done_co>>
          \/ Overlap /\ armed' = FALSE
    \/ /\ "RUNNING" \notin status
       /\ callout' = ~(phase = "drain_callout" /\ done_co # "idle")
       /\ \/ status' = {"RUNNING"} /\ armed' = TRUE /\ UNCHANGED done_co
          \/ Overlap /\ status' \in {{"RUNNING"}, {"DONE"}, {"ERR"}} /\ armed' \in BOOLEAN

\* DMA_CTRL = ABORT.  callout_stop() does not stop a callback that runs.
EngineAbort ==
    /\ status' = (status \ {"RUNNING"}) \cup {"ERR"}
    /\ armed' = FALSE
    /\ callout' = (callout /\ ~armed)
    /\ Overlap \/ UNCHANGED done_co

\* myfirst_sim_dma_done_co(): the copy, or none when the engine does not know the
\* address or the length; then the status of either, then the interrupt.
done_co_fire ==
    /\ callout /\ done_co = "idle"
    /\ callout' = FALSE /\ done_co' = "copying"
    /\ UNCHANGED <<calm, driverVars, status, armed, intrVars, powerVars>>

done_co_store ==
    /\ done_co = "copying"
    /\ status' \in {{"DONE"}, {"ERR"}} /\ armed' = FALSE /\ done_co' = "raising"
    /\ UNCHANGED <<calm, driverVars, callout, intrVars, powerVars>>

\* myfirst_sim_dma_raise_complete(): a set bit of INTR_MASK enables.
done_co_raise ==
    /\ done_co = "raising"
    /\ done_co' = "idle"
    /\ complete' = TRUE
    /\ irq' = (irq \/ mask \in {"enabled", "ones"})
    /\ UNCHANGED <<calm, driverVars, status, armed, callout, mask, rx_pending,
                   rx_running, powerVars>>

------------------------------------------------------------------------------
(* myfirst_msix_rx_filter() and myfirst_msix_rx_task_fn().                  *)

\* The filter acknowledges what it sees and queues the task for it.
Handle(data) ==
    /\ complete' = FALSE
    /\ rx_pending' = (rx_pending \/ complete \/ data)

rx_filter ==
    /\ irq /\ irq' = FALSE
    /\ Handle(FALSE)
    /\ UNCHANGED <<calm, driverVars, engineVars, mask, rx_running, powerVars>>

\* The same filter on account of MYFIRST_INTR_DATA_AV.
rx_filter_data ==
    /\ ~calm
    /\ Handle(TRUE)
    /\ UNCHANGED <<calm, driverVars, engineVars, mask, irq, rx_running, powerVars>>

rx_task_start ==
    /\ rx_pending /\ ~rx_running
    /\ rx_pending' = FALSE /\ rx_running' = TRUE
    /\ UNCHANGED <<calm, driverVars, engineVars, mask, complete, irq, powerVars>>

\* Slip: the status of the engine is not looked at.
KeepStatus == UNCHANGED last_status

\* dma_last_status = CSR_READ_4(sc, MYFIRST_REG_DMA_STATUS)
ReadStatus == last_status' = status

\* The task under the lock: myfirst_dma_handle_complete(), whichever interrupt
\* queued it.
rx_task ==
    /\ rx_running
    /\ rx_running' = FALSE
    /\ IF in_flight THEN in_flight' = FALSE /\ ReadStatus /\ dma_cv' = <<>>
                    ELSE UNCHANGED <<in_flight, last_status, dma_cv>>
    /\ UNCHANGED <<calm, pc, engineVars, mask, complete, irq, rx_pending, powerVars>>

------------------------------------------------------------------------------
(* myfirst_dma_do_transfer_intr().                                          *)

MayCall == Frozen => phase = "running"

\* With dma_in_flight set the call is EBUSY and changes nothing.
transfer_start(c) ==
    /\ pc[c] = "idle" /\ MayCall /\ ~in_flight
    /\ in_flight' = TRUE
    /\ EngineStart
    /\ dma_cv' = Append(dma_cv, c)
    /\ Goto(c, "waiting")
    /\ UNCHANGED <<calm, last_status, intrVars, powerVars>>

\* Slip: the transfer is given up but the device stays busy.
StaysBusy == UNCHANGED in_flight

GiveUp == in_flight' = FALSE

\* cv_timedwait() has timed out and c has the lock again.
Expire(c) ==
    /\ EngineAbort
    /\ GiveUp
    /\ Goto(c, "idle")

transfer_expired(c) ==
    /\ pc[c] = "expired"
    /\ Expire(c)
    /\ UNCHANGED <<calm, last_status, dma_cv, intrVars, powerVars>>

\* Woken by the task, c returns 0 or, with ERR in last_status, EIO.
transfer_woken(c) ==
    /\ pc[c] = "waiting" /\ ~Sleeping(c)
    /\ Goto(c, "idle")
    /\ UNCHANGED <<calm, in_flight, last_status, dma_cv, engineVars, intrVars,
                   powerVars>>

\* Slip: the drain waits without a time limit.
OnlyCallersExpire(x) == x # "drain" /\ (calm => ~Underway)

MayExpire(x) == calm => ~Underway

\* All waits are a second long, so that the oldest expires first.  On a calm
\* machine no wait expires before its time, and the thread has the lock at once.
wait_expires ==
    /\ dma_cv # <<>> /\ MayExpire(Head(dma_cv))
    /\ dma_cv' = Tail(dma_cv)
    /\ IF Head(dma_cv) = "drain"
         THEN /\ phase' = "drain_expired"
              /\ UNCHANGED <<in_flight, pc, engineVars, suspended, saved_mask>>
         ELSE /\ IF calm THEN Expire(Head(dma_cv))
                 ELSE Goto(Head(dma_cv), "expired") /\ UNCHANGED <<in_flight, engineVars>>
              /\ UNCHANGED powerVars
    /\ UNCHANGED <<calm, last_status, intrVars>>

------------------------------------------------------------------------------
(* myfirst_quiesce(), from myfirst_power_suspend() or _shutdown().          *)

quiesce_begin ==
    /\ phase = "running"
    /\ suspended' = TRUE /\ phase' = "mask"
    /\ UNCHANGED <<calm, driverVars, engineVars, intrVars, saved_mask>>

\* Slip: the mask is overwritten without having been saved.
SaveNothing == UNCHANGED saved_mask

SaveMask == saved_mask' = mask

mask_interrupts ==
    /\ phase = "mask"
    /\ SaveMask /\ mask' = "ones" /\ complete' = FALSE
    /\ phase' = "drain_dma"
    /\ UNCHANGED <<calm, driverVars, engineVars, irq, rx_pending, rx_running,
                   suspended>>

\* Slip: the drain gives the device free before the engine has stopped.
drain_dma_at_once ==
    /\ phase = "drain_dma"
    /\ IF in_flight THEN EngineAbort /\ in_flight' = FALSE
                    ELSE UNCHANGED <<engineVars, in_flight>>
    /\ phase' = "workers"
    /\ UNCHANGED <<calm, last_status, pc, dma_cv, intrVars, suspended, saved_mask>>

\* Under the lock: abort, and wait like a caller.
drain_dma ==
    /\ phase = "drain_dma"
    /\ IF in_flight
         THEN /\ EngineAbort
              /\ dma_cv' = Append(dma_cv, "drain") /\ phase' = "drain_wait"
         ELSE /\ phase' = "workers"
              /\ UNCHANGED <<engineVars, dma_cv>>
    /\ UNCHANGED <<calm, in_flight, last_status, pc, intrVars, suspended, saved_mask>>

drain_woken ==
    /\ phase = "drain_wait" /\ ~Sleeping("drain")
    /\ phase' = "workers"
    /\ UNCHANGED <<calm, driverVars, engineVars, intrVars, suspended, saved_mask>>

drain_expired ==
    /\ phase = "drain_expired"
    /\ in_flight' = FALSE
    /\ phase' = "workers"
    /\ UNCHANGED <<calm, last_status, pc, dma_cv, engineVars, intrVars, suspended,
                   saved_mask>>

\* Slip: the drain waits for the callback but leaves the callout scheduled.
LeaveScheduled == UNCHANGED callout

\* callout_drain() cancels, then waits for a callback that runs.
Cancel == callout' = FALSE

drain_callout ==
    /\ phase = "workers"
    /\ Cancel
    /\ phase' = "drain_callout"
    /\ UNCHANGED <<calm, driverVars, status, armed, done_co, intrVars, suspended,
                   saved_mask>>

drain_callout_done ==
    /\ phase = "drain_callout" /\ done_co = "idle"
    /\ phase' = "drain_task"
    /\ UNCHANGED <<calm, driverVars, engineVars, intrVars, suspended, saved_mask>>

\* taskqueue_drain(taskqueue_thread, ...): the task runs on sc->intr_tq, so that
\* only its being pending is waited for.  What follows is the assertion.
drain_task ==
    /\ phase = "drain_task" /\ ~rx_pending
    /\ phase' \in {"suspended", "off"}
    /\ UNCHANGED <<calm, driverVars, engineVars, intrVars, suspended, saved_mask>>

\* A shutdown of a suspended device finds nothing to quiesce.
shutdown_suspended ==
    /\ phase = "suspended"
    /\ phase' = "off"
    /\ UNCHANGED <<calm, driverVars, engineVars, intrVars, suspended, saved_mask>>

\* myfirst_restore(): the mask before the lock, the flag under it.
restore_mask ==
    /\ phase = "suspended"
    /\ saved_mask' = IF saved_mask = "ones" THEN "not_complete" ELSE saved_mask
    /\ mask' = saved_mask'
    /\ phase' = "restore"
    /\ UNCHANGED <<calm, driverVars, engineVars, complete, irq, rx_pending,
                   rx_running, suspended>>

restore_flag ==
    /\ phase = "restore"
    /\ suspended' = FALSE /\ phase' = "running"
    /\ UNCHANGED <<calm, driverVars, engineVars, intrVars, saved_mask>>

------------------------------------------------------------------------------
engine == done_co_fire \/ done_co_store \/ done_co_raise
interrupts == rx_filter \/ rx_task_start \/ rx_task
caller(c) == transfer_expired(c) \/ transfer_woken(c)
quiesce ==
    \/ mask_interrupts \/ drain_dma \/ drain_woken \/ drain_expired
    \/ drain_callout \/ drain_callout_done \/ drain_task

Next ==
    \/ engine \/ interrupts \/ rx_filter_data \/ wait_expires
    \/ \E c \in Callers : transfer_start(c) \/ caller(c)
    \/ quiesce_begin \/ quiesce
    \/ shutdown_suspended \/ restore_mask \/ restore_flag

\* A scheduled callout fires, an interrupt is delivered, the task's thread
\* runs, a wait ends after its second, and a thread inside the driver goes on.
\* Nothing makes a user call or the system suspend.
Fairness ==
    /\ WF_vars(engine) /\ WF_vars(interrupts) /\ WF_vars(wait_expires)
    /\ \A c \in Callers : WF_vars(caller(c))
    /\ WF_vars(quiesce)

Spec == Init /\ [][Next]_vars
FairSpec == Spec /\ Fairness

------------------------------------------------------------------------------
Quiescing == {"mask", "drain_dma", "drain_wait", "drain_expired", "workers",
              "drain_callout", "drain_task"}
Quiesced == {"suspended", "off", "restore"}

StatusBits == {"DONE", "ERR", "RUNNING"}

DriverTypeOK ==
    /\ in_flight \in BOOLEAN /\ last_status \in SUBSET StatusBits
    /\ pc \in [Callers -> {"idle", "waiting", "expired"}]
    /\ dma_cv \in Seq(Callers \cup {"drain"})

EngineTypeOK ==
    /\ status \in SUBSET StatusBits /\ armed \in BOOLEAN /\ callout \in BOOLEAN
    /\ done_co \in {"idle", "copying", "raising"}

IntrTypeOK ==
    /\ mask \in Masks
    /\ {complete, irq, rx_pending, rx_running} \subseteq BOOLEAN

PowerTypeOK ==
    /\ phase \in Quiescing \cup Quiesced \cup {"running"}
    /\ suspended \in BOOLEAN /\ saved_mask \in Masks \cup {"zero"}

\* Types.  That INTR_MASK never becomes zero says that resume restores a mask
\* that was saved (myfirst_power.c:58 and :135).
DmaTypeOK ==
    /\ calm \in BOOLEAN
    /\ DriverTypeOK /\ EngineTypeOK /\ IntrTypeOK /\ PowerTypeOK

\* A busy device has an owner: while dma_in_flight is set, some caller is
\* asleep with a time limit or about to give up, so that EBUSY cannot outlive
\* the transfers, whatever completions, expiries and drains do to each other
\* (chapter-21.md:1770, "Every exit path in the helper clears dma_in_flight").
BusyHasOwner ==
    in_flight => \E c \in Callers : Sleeping(c) \/ pc[c] = "expired"

\* When the quiesce is over no transfer is in flight and the engine neither
\* runs nor is about to (POWER.md, myfirst_power.c:119).
QuietWhenSuspended ==
    phase \in Quiesced => ~in_flight /\ ~callout /\ done_co # "copying"

\* The engine touches the buffer only while the driver holds it busy.
EngineOnlyWhenBusy == callout \/ done_co = "copying" => in_flight

\* A caller that is woken without ERR was woken by a transfer that is done.
SuccessMeansDone ==
    \A c \in Callers :
        pc[c] = "waiting" /\ ~Sleeping(c) => {"DONE", "ERR"} \cap last_status # {}

\* On a calm machine it does, drains and aborts included: nothing of a transfer
\* that was given up is left to work on the next (chapter-21.md:1921).
CalmEngineOnlyWhenBusy == calm => EngineOnlyWhenBusy

\* On a calm machine nobody is told of success while the engine still works,
\* whoever shares the status and the wakeup (myfirst_dma.c:267, :299).
CalmSuccessMeansDone == calm => SuccessMeansDone

\* A device that is busy becomes free again.
BusyEnds == in_flight ~> ~in_flight

\* On a calm machine a quiesce that has begun ends, although the abort raises no
\* completion and the mask may have taken the one that was on its way.
QuiesceEnds == calm /\ phase = "mask" ~> phase \in Quiesced
==============================================================================
