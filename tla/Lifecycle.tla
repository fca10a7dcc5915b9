------------------------------ MODULE Lifecycle -------------------------------
(***************************************************************************)
(* Attach, use and detach of the myfirst driver (Chapter 15, stage 4): who *)
(* may still be running, and on which lock, queue or buffer, while         *)
(* myfirst_detach() takes the device apart.                                *)
(*                                                                         *)
(* The agents are user threads (one per open file: open, read, write,      *)
(* poll, close), sysctl handlers, the three callouts, the taskqueue thread *)
(* and the newbus thread that attaches and detaches.  Every handler is cut *)
(* at its lock operations, sleeps and calls out; a critical section of     *)
(* sc->mtx is one step.  The bytes are abstracted away (module DataPath    *)
(* has them): whether the buffer has data or room is a free choice here.   *)
(***************************************************************************)
EXTENDS Integers, Sequences, FiniteSets

CONSTANTS Users,        \* files, each with the thread that uses it
          Handlers,     \* threads that run a sysctl handler
          Kinds,        \* the sysctl handlers that are called
          Racing,       \* those that may run while a detach is under way
          Timers,       \* the callouts in use
          WritersLimit, \* MYFIRST_WRITERS_DEFAULT
          MaxSema       \* bound on the semaphore's value

AllTimers == {"heartbeat", "watchdog", "tick_source"}
AllTasks  == {"selwake", "bulk_writer", "reset_delayed", "recovery"}

AllKinds == {"cb_used", "cfg", "reset", "bytes_written_10s", "interval",
             "bulk_writer_flood", "reset_delayed", "writers_limit",
             "writers_sema_value"}

ASSUME LifecycleAssumption ==
    /\ IsFiniteSet(Users)
    /\ Kinds \subseteq AllKinds /\ Racing \subseteq Kinds
    /\ Timers \subseteq AllTimers
    /\ WritersLimit \in Nat \ {0} /\ MaxSema \in Nat

\* What myfirst_attach() creates and myfirst_detach() destroys.  "cdev" and
\* "sysctl" are the two doors: while they are live a call can come in.
Resources == {"mtx", "cvs", "cfg_sx", "stats_sx", "sema", "tq", "counters",
              "cbuf", "selinfo", "cdev", "sysctl"}

VARIABLES
    stage,       \* "absent", "attaching", "attached", "detaching"
    dstep,       \* index into DetachSeq of the next step, 0 when not detaching
    live,        \* the resources that exist
    is_attached, \* sc->is_attached
    pc, fh,      \* each user's position and its struct myfirst_fh
    active_fhs,  \* sc->active_fhs
    sema, writers_limit, writers_inflight,
    interval,    \* the callouts whose interval sysctl is above zero
    armed,       \* the callouts that are scheduled
    pending,     \* the tasks on the queue
    timeout,     \* is reset_delayed_task's timeout scheduled?
    running,     \* the task the taskqueue thread executes, with what is left
    handler,     \* each handler thread's call, with what is left of it
    faults       \* what went wrong so far: resources used while they did not
                 \* exist, and failed assertions

deviceVars == <<stage, dstep, live, is_attached>>
userVars   == <<pc, fh, active_fhs>>
semaVars   == <<sema, writers_limit, writers_inflight>>
timerVars  == <<interval, armed>>
taskVars   == <<pending, timeout, running>>
vars == <<deviceVars, userVars, semaVars, timerVars, taskVars, handler, faults>>

NoTask == [task |-> "none", left |-> <<>>]
NoCall == [kind |-> "none", timer |-> "none", old |-> FALSE, left |-> <<>>]

Init ==
    /\ stage = "absent" /\ dstep = 0 /\ live = {} /\ is_attached = FALSE
    /\ pc = [u \in Users |-> "idle"] /\ fh = [u \in Users |-> "none"]
    /\ active_fhs = 0
    /\ sema = 0 /\ writers_limit = 0 /\ writers_inflight = 0
    /\ interval = {} /\ armed = {}
    /\ pending = {} /\ timeout = FALSE /\ running = NoTask
    /\ handler = [h \in Handlers |-> NoCall]
    /\ faults = {}

\* A step that uses the resources rs.
Use(rs) == faults' = faults \cup (rs \ live)

\* The same with KASSERT(sc->is_attached), as in myfirst_buf_read/_write.
UseAttached(rs) ==
    faults' = faults \cup (rs \ live)
                     \cup (IF is_attached THEN {} ELSE {"KASSERT"})

Goto(u, label) == pc' = [pc EXCEPT ![u] = label]

------------------------------------------------------------------------------
(* myfirst_attach().  Until make_dev_s() returns nobody else can reach the   *)
(* softc, so everything up to it is one step; the node is usable before the  *)
(* sysctl tree exists.                                                       *)

\* What exists when attach jumps to a fail label, and what the labels release.
Created(failed) ==
    {"mtx", "cvs", "cfg_sx", "stats_sx", "sema"}
      \cup (IF failed = "tq" THEN {} ELSE {"tq"})
      \cup (IF failed = "make_dev" THEN {"counters", "cbuf"} ELSE {})

Unwound(failed) ==
    {"sema", "stats_sx", "cvs", "cfg_sx", "mtx"}                  \* fail_sema
      \cup (IF failed = "tq" THEN {} ELSE {"tq"})                 \* fail_tq
      \cup (IF failed = "make_dev" THEN {"cbuf"} ELSE {})         \* fail_cb

attach_fail(failed) ==
    /\ stage = "absent"
    /\ live' = Created(failed) \ Unwound(failed)
    /\ UNCHANGED <<stage, dstep, is_attached, userVars, semaVars, timerVars,
                   taskVars, handler, faults>>

attach_make_dev ==
    /\ stage = "absent"
    /\ stage' = "attaching"
    /\ live' = Resources \ {"sysctl"}
    /\ is_attached' = TRUE
    /\ active_fhs' = 0
    /\ sema' = WritersLimit /\ writers_limit' = WritersLimit
    /\ writers_inflight' = 0
    /\ interval' = {}
    /\ UNCHANGED <<dstep, pc, fh, armed, taskVars, handler, faults>>

attach_sysctl ==
    /\ stage = "attaching"
    /\ stage' = "attached"
    /\ live' = live \cup {"sysctl"}
    /\ UNCHANGED <<dstep, is_attached, userVars, semaVars, timerVars, taskVars,
                   handler, faults>>

------------------------------------------------------------------------------
(* myfirst_open() and the destructor of the per-file state.                 *)

\* The node can be entered and is_attached is set: otherwise ENXIO.
open_check(u) ==
    /\ pc[u] = "idle" /\ fh[u] = "none"
    /\ "cdev" \in live /\ is_attached
    /\ Goto(u, "op_priv")
    /\ UNCHANGED <<deviceVars, fh, active_fhs, semaVars, timerVars, taskVars,
                   handler, faults>>

\* malloc() may sleep; devfs_set_cdevpriv() may fail.
open_set_cdevpriv(u) ==
    /\ pc[u] = "op_priv"
    /\ \/ fh' = [fh EXCEPT ![u] = "private"] /\ Goto(u, "op_count")
       \/ Goto(u, "idle") /\ UNCHANGED fh
    /\ UNCHANGED <<deviceVars, active_fhs, semaVars, timerVars, taskVars,
                   handler, faults>>

open_count(u) ==
    /\ pc[u] = "op_count"
    /\ active_fhs' = active_fhs + 1
    /\ fh' = [fh EXCEPT ![u] = "counted"]
    /\ Goto(u, "idle")
    /\ Use({"mtx"})
    /\ UNCHANGED <<deviceVars, semaVars, timerVars, taskVars, handler>>

\* The last reference to the file goes away: devfs runs myfirst_fh_dtor().
close_dtor(u) ==
    /\ pc[u] = "idle" /\ fh[u] = "counted"
    /\ active_fhs' = active_fhs - 1
    /\ fh' = [fh EXCEPT ![u] = "none"]
    /\ Use({"mtx"})
    /\ UNCHANGED <<deviceVars, pc, semaVars, timerVars, taskVars, handler>>

------------------------------------------------------------------------------
(* myfirst_read(), myfirst_write() and myfirst_poll().                      *)

\* Entering a method: devfs_get_cdevpriv(), then the is_attached check.
io_enter(u) ==
    /\ pc[u] = "idle" /\ fh[u] = "counted"
    /\ "cdev" \in live /\ is_attached
    /\ \E label \in {"rd_lock", "wr_enter", "po_lock"} : Goto(u, label)
    /\ UNCHANGED <<deviceVars, fh, active_fhs, semaVars, timerVars, taskVars,
                   handler, faults>>

\* The critical section of a read: myfirst_wait_data() finds bytes and
\* myfirst_buf_read() takes them, or it sleeps on data_cv, or it gives up
\* (EAGAIN, or the partial-progress exit).
read_section(u) ==
    \/ /\ Goto(u, "rd_signal")
       /\ UseAttached({"mtx", "cbuf", "counters"})
    \/ /\ Goto(u, "rd_sleep")
       /\ Use({"mtx", "cbuf", "cvs"})
    \/ /\ Goto(u, "idle")
       /\ Use({"mtx", "cbuf"})

read_lock(u) ==
    /\ pc[u] = "rd_lock"
    /\ read_section(u)
    /\ UNCHANGED <<deviceVars, fh, active_fhs, semaVars, timerVars, taskVars,
                   handler>>

\* Awake again with sc->mtx held: a signal, a timeout or a detach ends the
\* read, anything else looks at the buffer again.
read_woken(u) ==
    /\ pc[u] = "rd_sleep"
    /\ \/ Goto(u, "idle") /\ Use({"mtx", "cvs"})
       \/ is_attached /\ read_section(u)
    /\ UNCHANGED <<deviceVars, fh, active_fhs, semaVars, timerVars, taskVars,
                   handler>>

\* cv_signal(room_cv), selwakeup(wsel), uiomove(); then the next piece or out.
read_signal(u) ==
    /\ pc[u] = "rd_signal"
    /\ Use({"cvs", "selinfo"})
    /\ \E label \in {"rd_lock", "idle"} : Goto(u, label)
    /\ UNCHANGED <<deviceVars, fh, active_fhs, semaVars, timerVars, taskVars,
                   handler>>

poll_lock(u) ==
    /\ pc[u] = "po_lock"
    /\ Use({"mtx", "cbuf", "selinfo"})
    /\ Goto(u, "idle")
    /\ UNCHANGED <<deviceVars, fh, active_fhs, semaVars, timerVars, taskVars,
                   handler>>

\* myfirst_sync_writer_enter(): count, check, wait for a slot (or try for one:
\* IO_NDELAY), check again.
writer_enter_count(u) ==
    /\ pc[u] = "wr_enter"
    /\ writers_inflight' = writers_inflight + 1
    /\ Goto(u, "wr_check")
    /\ UNCHANGED <<deviceVars, fh, active_fhs, sema, writers_limit, timerVars,
                   taskVars, handler, faults>>

writer_enter_check(u) ==
    /\ pc[u] = "wr_check"
    /\ \E label \in IF is_attached THEN {"wr_sema", "wr_try"} ELSE {"wr_uncount"} :
         Goto(u, label)
    /\ UNCHANGED <<deviceVars, fh, active_fhs, semaVars, timerVars, taskVars,
                   handler, faults>>

writer_enter_sema(u) ==
    /\ pc[u] \in {"wr_sema", "wr_try"}
    /\ sema > 0
    /\ sema' = sema - 1
    /\ Use({"sema"})
    /\ Goto(u, "wr_recheck")
    /\ UNCHANGED <<deviceVars, fh, active_fhs, writers_limit, writers_inflight,
                   timerVars, taskVars, handler>>

\* Slip: the EAGAIN exit returns without counting itself out.
writer_enter_again_forgets(u) ==
    /\ pc[u] = "wr_try" /\ sema = 0
    /\ Use({"sema", "mtx"})
    /\ Goto(u, "idle")
    /\ UNCHANGED <<deviceVars, fh, active_fhs, semaVars, timerVars, taskVars,
                   handler>>

\* Slip: the EAGAIN exit counts itself out and then calls writer_leave().
writer_enter_again_leaves(u) ==
    /\ pc[u] = "wr_try" /\ sema = 0
    /\ Use({"sema", "mtx"})
    /\ writers_inflight' = writers_inflight - 1
    /\ Goto(u, "wr_post")
    /\ UNCHANGED <<deviceVars, fh, active_fhs, sema, writers_limit, timerVars,
                   taskVars, handler>>

\* IO_NDELAY and no slot: sema_trywait() fails, the failure is counted under
\* sc->mtx, EAGAIN.
writer_enter_again(u) ==
    /\ pc[u] = "wr_try"
    /\ sema = 0
    /\ Use({"sema", "mtx"})
    /\ Goto(u, "wr_uncount")
    /\ UNCHANGED <<deviceVars, fh, active_fhs, semaVars, timerVars, taskVars,
                   handler>>

writer_enter_recheck(u) ==
    /\ pc[u] = "wr_recheck"
    /\ Goto(u, IF is_attached THEN "wr_limit" ELSE "wr_post")
    /\ UNCHANGED <<deviceVars, fh, active_fhs, semaVars, timerVars, taskVars,
                   handler, faults>>

\* The two halves of myfirst_sync_writer_leave(), and of the ENXIO exit.
writer_leave_post(u) ==
    /\ pc[u] = "wr_post"
    /\ sema' = sema + 1
    /\ Use({"sema"})
    /\ Goto(u, "wr_uncount")
    /\ UNCHANGED <<deviceVars, fh, active_fhs, writers_limit, writers_inflight,
                   timerVars, taskVars, handler>>

writer_uncount(u) ==
    /\ pc[u] = "wr_uncount"
    /\ writers_inflight' = writers_inflight - 1
    /\ Goto(u, "idle")
    /\ UNCHANGED <<deviceVars, fh, active_fhs, sema, writers_limit, timerVars,
                   taskVars, handler, faults>>

\* myfirst_get_soft_byte_limit() at the top of every round of the write loop.
write_limit(u) ==
    /\ pc[u] = "wr_limit"
    /\ Use({"cfg_sx"})
    /\ Goto(u, "wr_lock")
    /\ UNCHANGED <<deviceVars, fh, active_fhs, semaVars, timerVars, taskVars,
                   handler>>

\* The first critical section of a round: room is found, or the writer sleeps
\* on room_cv, or it gives up (soft limit, EAGAIN, partial progress).
write_section(u) ==
    /\ \E label \in {"wr_copy", "wr_sleep", "wr_post"} : Goto(u, label)
    /\ Use({"mtx", "cbuf", "cvs"})

write_lock(u) ==
    /\ pc[u] = "wr_lock"
    /\ write_section(u)
    /\ UNCHANGED <<deviceVars, fh, active_fhs, semaVars, timerVars, taskVars,
                   handler>>

write_woken(u) ==
    /\ pc[u] = "wr_sleep"
    /\ \/ Goto(u, "wr_post") /\ Use({"mtx", "cvs"})
       \/ is_attached /\ write_section(u)
    /\ UNCHANGED <<deviceVars, fh, active_fhs, semaVars, timerVars, taskVars,
                   handler>>

\* uiomove() outside the lock, which may fault; then myfirst_buf_write().
write_copy(u) ==
    /\ pc[u] = "wr_copy"
    /\ \/ Goto(u, "wr_post") /\ UNCHANGED faults
       \/ Goto(u, "wr_signal") /\ UseAttached({"mtx", "cbuf", "counters"})
    /\ UNCHANGED <<deviceVars, fh, active_fhs, semaVars, timerVars, taskVars,
                   handler>>

\* cv_signal(data_cv), selwakeup(rsel), the debug level; next round or out.
write_signal(u) ==
    /\ pc[u] = "wr_signal"
    /\ Use({"cvs", "selinfo", "cfg_sx"})
    /\ \E label \in {"wr_limit", "wr_post"} : Goto(u, label)
    /\ UNCHANGED <<deviceVars, fh, active_fhs, semaVars, timerVars, taskVars,
                   handler>>

------------------------------------------------------------------------------
(* The callouts.  callout_init_mtx() makes the kernel take sc->mtx around a *)
(* callback, so a firing is one step; a callback that finds the device      *)
(* detached returns without arming itself again.                            *)

CallbackUses(t) ==
    CASE t = "heartbeat"   -> {"cbuf", "counters"}
      [] t = "watchdog"    -> {"cbuf", "tq"}
      [] t = "tick_source" -> {"cbuf", "counters", "cvs", "tq"}

\* What a callback may put on the queue: the watchdog on a stall, the tick
\* source when it stored a byte.
CallbackTasks(t) ==
    CASE t = "heartbeat"   -> {}
      [] t = "watchdog"    -> {"recovery"}
      [] t = "tick_source" -> {"selwake"}

callout_fire(t) ==
    /\ t \in armed
    /\ IF is_attached
         THEN /\ Use({"mtx"} \cup CallbackUses(t))
              /\ armed' = IF t \in interval THEN armed ELSE armed \ {t}
              /\ \/ pending' = pending \cup CallbackTasks(t)
                 \/ UNCHANGED pending
         ELSE /\ Use({"mtx"})
              /\ armed' = armed \ {t}
              /\ UNCHANGED pending
    /\ UNCHANGED <<deviceVars, userVars, semaVars, interval, timeout, running,
                   handler>>

------------------------------------------------------------------------------
(* The private taskqueue and its one thread.                                *)

\* The lock sections of a task, in order, by the resources each one uses.
\* selwake takes the lock only to count coalesced enqueues, and bulk_writer
\* returns early when its batch is zero.
TaskRuns(t) ==
    CASE t = "selwake"       -> {<<{"mtx"}, {"selinfo"}>>, <<{"selinfo"}>>}
      [] t = "bulk_writer"   -> {<<{"mtx"}>>,
                                 <<{"mtx"}, {"mtx", "cbuf", "counters", "cvs"},
                                   {"selinfo"}>>}
      [] t = "reset_delayed" -> {<<{"mtx", "cfg_sx", "cbuf", "counters"},
                                   {"cvs"}>>}
      [] t = "recovery"      -> {<<{"mtx"}>>}

\* taskqueue_timeout_func(): the delay is over, the task goes on the queue.
task_timeout ==
    /\ timeout
    /\ timeout' = FALSE
    /\ pending' = pending \cup {"reset_delayed"}
    /\ Use({"tq"})
    /\ UNCHANGED <<deviceVars, userVars, semaVars, timerVars, running, handler>>

task_start(t) ==
    /\ "tq" \in live
    /\ running = NoTask /\ t \in pending
    /\ pending' = pending \ {t}
    /\ \E left \in TaskRuns(t) : running' = [task |-> t, left |-> left]
    /\ UNCHANGED <<deviceVars, userVars, semaVars, timerVars, timeout, handler,
                   faults>>

\* Slip: a task puts itself on the queue again.
task_step_again ==
    /\ running # NoTask
    /\ Use(Head(running.left))
    /\ IF Len(running.left) = 1
         THEN running' = NoTask /\ pending' = pending \cup {running.task}
         ELSE running' = [running EXCEPT !.left = Tail(@)] /\ UNCHANGED pending
    /\ UNCHANGED <<deviceVars, userVars, semaVars, timerVars, timeout, handler>>

task_step ==
    /\ running # NoTask
    /\ Use(Head(running.left))
    /\ running' = IF Len(running.left) = 1 THEN NoTask
                  ELSE [running EXCEPT !.left = Tail(@)]
    /\ UNCHANGED <<deviceVars, userVars, semaVars, timerVars, pending, timeout,
                   handler>>

------------------------------------------------------------------------------
(* The sysctl handlers.  None of them looks at is_attached, and none holds   *)
(* an open file.                                                            *)

\* The lock sections of a handler, by the resources each one uses.
HandlerRun(kind) ==
    CASE kind = "cb_used"            -> <<{"mtx", "cbuf"}>>
      [] kind = "cfg"                -> <<{"cfg_sx"}, {"cfg_sx"}>>
      [] kind = "reset"              -> <<{"mtx", "cfg_sx", "cbuf", "counters"},
                                          {"cvs"}>>
      [] kind = "bytes_written_10s"  -> <<{"stats_sx"}, {"stats_sx", "counters"}>>
      [] kind = "interval"           -> <<{"mtx", "cbuf"}>>
      [] kind = "bulk_writer_flood"  -> <<{"tq"}, {"tq"}>>
      [] kind = "reset_delayed"      -> <<{"tq"}>>
      [] kind = "writers_limit"      -> <<{"mtx"}>>
      [] kind = "writers_sema_value" -> <<{"sema"}>>

\* A call comes in; the interval handlers read the old interval right away,
\* before the copyin of the new one.
handler_call(h, kind, t) ==
    /\ handler[h] = NoCall
    /\ "sysctl" \in live
    /\ stage = "attached" \/ kind \in Racing
    /\ handler' = [handler EXCEPT ![h] =
                     [kind |-> kind, timer |-> t, old |-> t \in interval,
                      left |-> HandlerRun(kind)]]
    /\ UNCHANGED <<deviceVars, userVars, semaVars, timerVars, taskVars, faults>>

\* One lock section of h's call is over.
Advance(h) ==
    LET left == handler[h].left
    IN  handler' = [handler EXCEPT ![h] =
                      IF Len(left) = 1 THEN NoCall ELSE [@ EXCEPT !.left = Tail(left)]]

\* The handlers whose effect is on data this module abstracts from.
handler_section(h) ==
    /\ handler[h].kind \in {"cb_used", "cfg", "reset", "bytes_written_10s",
                            "writers_sema_value"}
    /\ Use(Head(handler[h].left))
    /\ Advance(h)
    /\ UNCHANGED <<deviceVars, userVars, semaVars, timerVars, taskVars>>

handler_interval(h, new) ==
    LET t == handler[h].timer  old == handler[h].old
    IN  /\ handler[h].kind = "interval"
        /\ Use({"mtx"} \cup IF t = "watchdog" THEN {"cbuf"} ELSE {})
        /\ interval' = IF new THEN interval \cup {t} ELSE interval \ {t}
        /\ armed' = IF new /\ ~old THEN armed \cup {t}
                    ELSE IF ~new /\ old THEN armed \ {t} ELSE armed
        /\ Advance(h)
        /\ UNCHANGED <<deviceVars, userVars, semaVars, taskVars>>

\* Up to 10000 calls of taskqueue_enqueue() without a lock; two stand for them.
handler_flood(h) ==
    /\ handler[h].kind = "bulk_writer_flood"
    /\ Use({"tq"})
    /\ pending' = pending \cup {"bulk_writer"}
    /\ Advance(h)
    /\ UNCHANGED <<deviceVars, userVars, semaVars, timerVars, timeout, running>>

\* A positive delay schedules the task, zero cancels it.
handler_reset_delayed(h, on) ==
    /\ handler[h].kind = "reset_delayed"
    /\ Use({"tq"})
    /\ timeout' = on
    /\ pending' = IF on THEN pending ELSE pending \ {"reset_delayed"}
    /\ Advance(h)
    /\ UNCHANGED <<deviceVars, userVars, semaVars, timerVars, running>>

\* Under the lock the limit changes; the extra slots are posted after it.
handler_writers_limit(h, new) ==
    LET extra == new - writers_limit
    IN  /\ handler[h].kind = "writers_limit" /\ Head(handler[h].left) = {"mtx"}
        /\ sema + extra <= MaxSema
        /\ Use({"mtx"})
        /\ writers_limit' = new
        /\ handler' = [handler EXCEPT ![h] =
                         IF extra > 0
                           THEN [@ EXCEPT !.left = [i \in 1..extra |-> {"sema"}]]
                           ELSE NoCall]
        /\ UNCHANGED <<deviceVars, userVars, sema, writers_inflight, timerVars,
                       taskVars>>

handler_writers_post(h) ==
    /\ handler[h].kind = "writers_limit" /\ Head(handler[h].left) = {"sema"}
    /\ sema' = sema + 1
    /\ Use({"sema"})
    /\ Advance(h)
    /\ UNCHANGED <<deviceVars, userVars, writers_limit, writers_inflight,
                   timerVars, taskVars>>

------------------------------------------------------------------------------
(* myfirst_detach().                                                        *)

\* Slip: the timeout task is left out of the drains.
DelayedResetForgotten ==
    <<"post", "writers", "heartbeat", "watchdog", "tick_source",
      "selwake", "bulk_writer", "recovery", "selinfo", "tq", "sema",
      "cdev", "cdev_wait", "sysctl", "sysctl_wait", "cbuf", "counters",
      "stats_sx", "cvs", "cfg_sx", "mtx">>

\* Slip: the buffer is freed while its sysctls can still be read.
BufferBeforeSysctl ==
    <<"post", "writers", "heartbeat", "watchdog", "tick_source",
      "selwake", "bulk_writer", "reset_delayed", "recovery", "selinfo", "tq",
      "sema", "cdev", "cdev_wait", "cbuf", "sysctl", "sysctl_wait", "counters",
      "stats_sx", "cvs", "cfg_sx", "mtx">>

\* What follows the critical section that clears is_attached.  A resource name
\* stands for its destruction; destroy_dev() and sysctl_ctx_free() first close
\* the door and then wait for the calls inside.
DetachSeq ==
    <<"post", "writers", "heartbeat", "watchdog", "tick_source",
      "selwake", "bulk_writer", "reset_delayed", "recovery", "selinfo", "tq",
      "sema", "cdev", "cdev_wait", "sysctl", "sysctl_wait", "cbuf", "counters",
      "stats_sx", "cvs", "cfg_sx", "mtx">>

At(step) == stage = "detaching" /\ DetachSeq[dstep] = step

\* On to the next step; after the last one the device is gone.
Proceed ==
    IF dstep < Len(DetachSeq)
      THEN dstep' = dstep + 1 /\ UNCHANGED stage
      ELSE dstep' = 0 /\ stage' = "absent"

\* Slip: open descriptors do not stop a detach.
NoOpenFiles == TRUE

NotBusy == active_fhs = 0

\* Under sc->mtx: refuse with EBUSY, or clear is_attached.  (The handlers
\* outside Racing are assumed not to be called while a detach is under way.)
detach_begin ==
    /\ stage = "attached"
    /\ NotBusy
    /\ \A h \in Handlers : handler[h].kind \in Racing \cup {"none"}
    /\ is_attached' = FALSE
    /\ stage' = "detaching" /\ dstep' = 1
    /\ Use({"mtx", "cvs"})
    /\ UNCHANGED <<live, userVars, semaVars, timerVars, taskVars, handler>>

detach_post ==
    /\ At("post")
    /\ sema' = sema + writers_limit
    /\ Use({"sema"})
    /\ Proceed
    /\ UNCHANGED <<live, is_attached, userVars, writers_limit,
                   writers_inflight, timerVars, taskVars, handler>>

detach_writers_drain ==
    /\ At("writers")
    /\ writers_inflight = 0
    /\ Proceed
    /\ UNCHANGED <<live, is_attached, userVars, semaVars, timerVars, taskVars,
                   handler, faults>>

detach_callout_drain(t) ==
    /\ At(t)
    /\ armed' = armed \ {t}
    /\ Proceed
    /\ UNCHANGED <<live, is_attached, userVars, semaVars, interval, taskVars,
                   handler, faults>>

\* taskqueue_drain(); taskqueue_drain_timeout() cancels the timeout as well.
detach_task_drain(t) ==
    /\ At(t)
    /\ t \notin pending /\ running.task # t
    /\ timeout' = (timeout /\ t # "reset_delayed")
    /\ Use({"tq"})
    /\ Proceed
    /\ UNCHANGED <<live, is_attached, userVars, semaVars, timerVars, pending,
                   running, handler>>

\* taskqueue_free() asserts that nothing is queued, running or scheduled.
detach_destroy(r) ==
    /\ At(r)
    /\ live' = live \ {r}
    /\ faults' = faults \cup
         (IF r = "tq" /\ (pending # {} \/ running # NoTask \/ timeout)
            THEN {"busy_taskqueue"} ELSE {})
    /\ Proceed
    /\ UNCHANGED <<is_attached, userVars, semaVars, timerVars, taskVars, handler>>

\* destroy_dev() waits for the threads inside the methods, then runs the
\* destructor of every file that is still open.
detach_cdev_wait ==
    /\ At("cdev_wait")
    /\ \A u \in Users : pc[u] = "idle"
    /\ active_fhs' = active_fhs - Cardinality({u \in Users : fh[u] = "counted"})
    /\ fh' = [u \in Users |-> "none"]
    /\ Use(IF active_fhs = 0 THEN {} ELSE {"mtx"})
    /\ Proceed
    /\ UNCHANGED <<live, is_attached, pc, semaVars, timerVars, taskVars, handler>>

detach_sysctl_wait ==
    /\ At("sysctl_wait")
    /\ \A h \in Handlers : handler[h] = NoCall
    /\ Proceed
    /\ UNCHANGED <<live, is_attached, userVars, semaVars, timerVars, taskVars,
                   handler, faults>>

------------------------------------------------------------------------------
attach ==
    \/ \E failed \in {"tq", "threads", "make_dev"} : attach_fail(failed)
    \/ attach_make_dev
    \/ attach_sysctl

\* The steps of a call that is already inside the driver and not asleep.
user_step(u) ==
    \/ open_set_cdevpriv(u) \/ open_count(u)
    \/ read_lock(u) \/ read_signal(u) \/ poll_lock(u)
    \/ writer_enter_count(u) \/ writer_enter_check(u) \/ writer_enter_sema(u)
    \/ writer_enter_again(u) \/ writer_enter_recheck(u)
    \/ writer_leave_post(u) \/ writer_uncount(u)
    \/ write_limit(u) \/ write_lock(u) \/ write_copy(u) \/ write_signal(u)

user(u) ==
    \/ open_check(u) \/ io_enter(u) \/ close_dtor(u)
    \/ read_woken(u) \/ write_woken(u)
    \/ user_step(u)

handler_step(h) ==
    \/ handler_section(h)
    \/ \E new \in BOOLEAN : handler_interval(h, new)
    \/ handler_flood(h)
    \/ \E on \in BOOLEAN : handler_reset_delayed(h, on)
    \/ \E new \in 1 .. MaxSema : handler_writers_limit(h, new)
    \/ handler_writers_post(h)

handler_new(h) ==
    \/ \E kind \in Kinds \ {"interval"} : handler_call(h, kind, "none")
    \/ \E t \in Timers : "interval" \in Kinds /\ handler_call(h, "interval", t)

taskqueue_thread == task_step \/ \E t \in AllTasks : task_start(t)

detach_step ==
    \/ detach_post \/ detach_writers_drain
    \/ \E t \in AllTimers : detach_callout_drain(t)
    \/ \E t \in AllTasks : detach_task_drain(t)
    \/ \E r \in Resources : detach_destroy(r)
    \/ detach_cdev_wait \/ detach_sysctl_wait

Next ==
    \/ attach
    \/ \E u \in Users : user(u)
    \/ \E t \in AllTimers : callout_fire(t)
    \/ task_timeout
    \/ taskqueue_thread
    \/ \E h \in Handlers : handler_new(h) \/ handler_step(h)
    \/ detach_begin
    \/ detach_step

\* A thread inside the driver that can run does run, the taskqueue thread works
\* its queue off, and a detach goes on.  Nothing makes a user call, close or
\* interrupt a sleep, and nothing makes a callout fire.
Fairness ==
    /\ \A u \in Users : WF_vars(user_step(u))
    /\ \A h \in Handlers : WF_vars(handler_step(h))
    /\ WF_vars(taskqueue_thread)
    /\ WF_vars(detach_step)

Spec == Init /\ [][Next]_vars
FairSpec == Spec /\ Fairness

------------------------------------------------------------------------------
Labels == {"idle", "op_priv", "op_count", "rd_lock", "rd_sleep", "rd_signal",
           "po_lock", "wr_enter", "wr_check", "wr_sema", "wr_try",
           "wr_recheck", "wr_limit", "wr_lock", "wr_sleep", "wr_copy", "wr_signal",
           "wr_post", "wr_uncount"}

TypeOK ==
    /\ stage \in {"absent", "attaching", "attached", "detaching"}
    /\ dstep \in 0 .. Len(DetachSeq)
    /\ live \subseteq Resources
    /\ is_attached \in BOOLEAN
    /\ pc \in [Users -> Labels]
    /\ fh \in [Users -> {"none", "private", "counted"}]
    /\ active_fhs \in Nat
    /\ sema \in Nat /\ writers_limit \in Nat /\ writers_inflight \in Nat
    /\ interval \subseteq AllTimers /\ armed \subseteq AllTimers
    /\ pending \subseteq AllTasks /\ timeout \in BOOLEAN
    /\ running.task \in AllTasks \cup {"none"}
    /\ \A h \in Handlers : handler[h].kind \in AllKinds \cup {"none"}
    /\ faults \subseteq Resources \cup {"KASSERT", "busy_taskqueue"}

\* No agent uses a lock, queue, semaphore, counter or buffer that has not been
\* created or that detach has already destroyed (LOCKING.md:158: "Every destroy
\* happens after every possible user of the primitive has been quiesced").
NoUseAfterDestroy == faults \cap Resources = {}

\* myfirst_buf_read() and myfirst_buf_write() never run on a detached device:
\* their KASSERTs (myfirst.c:242 and 257) hold even for a write that slept, or
\* was copying user memory, while somebody tried to detach.
NoTransferAfterDetach == "KASSERT" \notin faults

\* A thread past the entry check of read, write or poll keeps the device
\* attached until it returns, because its file is counted in active_fhs.
IOPinsDevice ==
    \A u \in Users : pc[u] \notin {"idle", "op_priv", "op_count"} =>
        fh[u] = "counted" /\ is_attached /\ active_fhs > 0

\* taskqueue_free() finds nothing queued, running or scheduled.
TaskqueueFreedQuiet == "busy_taskqueue" \notin faults

\* Once a detach has cleared is_attached it always comes to its end.
DetachFinishes == stage = "detaching" ~> stage = "absent"

\* Whatever a detach waits for can come to its end without it.  No writer is
\* counted, in sema_wait() or anywhere else: its file would have made the detach
\* return EBUSY.  destroy_dev() waits for nothing but an open, a task drain for a
\* queue that exists, and sysctl_ctx_free() for handlers with work left.
DetachWaitsForRunners ==
    stage = "detaching" =>
        /\ writers_inflight = 0
        /\ \A u \in Users : pc[u] \in {"idle", "op_priv", "op_count"}
        /\ DetachSeq[dstep] \in AllTasks => "tq" \in live
        /\ \A h \in Handlers : handler[h] = NoCall \/ handler[h].left # <<>>

\* Behind the three callout_drain() calls no callout is scheduled any more
\* (chapter-13.md:1406: "After phase 4, no callout can be running").
CalloutsStayDrained ==
    stage = "detaching" /\ "mtx" \in live
      /\ (\A t \in AllTimers : dstep > CHOOSE i \in DOMAIN DetachSeq : DetachSeq[i] = t)
        => armed = {}

\* attach either succeeds or leaves nothing behind.
AttachFailureReleasesAll == stage = "absent" => live = {}
==============================================================================
