------------------------------- MODULE DataPath --------------------------------
(***************************************************************************)
(* Bytes through an attached myfirst device (Chapter 15, stage 4): blocking *)
(* and non-blocking reads and writes, poll, the tick source, the selwake    *)
(* and bulk-writer tasks, and the reset.  A critical section of sc->mtx is  *)
(* one step; between two of them a thread is at a label of its own, so the  *)
(* room a writer saw, the soft limit it read and the wakeups it still owes  *)
(* can all be out of date.                                                  *)
(*                                                                          *)
(* The buffer is its byte count (module Cbuf has the bytes).  The writer    *)
(* semaphore is module WriterSema's: here there are never more writers than *)
(* slots, so admission does not block.  Attach and detach are Lifecycle's.  *)
(***************************************************************************)
EXTENDS Integers, Sequences, FiniteSets

CONSTANTS Readers, Writers, Pollers, \* the threads, by what they call
          BufSize,    \* MYFIRST_BUFSIZE
          Bounce,     \* MYFIRST_BOUNCE
          MaxRequest, \* the longest request of a read or write
          SoftLimits, \* the values soft_byte_limit may have, 0 for none
          Batches,    \* the values bulk_writer_batch may have, {} for no flood
          Ticking,    \* is the tick source enabled?
          Resetting,  \* are the reset sysctls used?
          MaxCount    \* nothing adds bytes once bytes_written is this high

ASSUME DataPathAssumption ==
    /\ BufSize \in Nat \ {0} /\ Bounce \in Nat \ {0}
    /\ MaxRequest \in Nat /\ MaxCount \in Nat
    /\ SoftLimits \subseteq Nat /\ Batches \subseteq Nat
    /\ Ticking \in BOOLEAN /\ Resetting \in BOOLEAN
    /\ Readers \cap Writers = {}

VARIABLES
    used,             \* cbuf_used(&sc->cb)
    bytes_read, bytes_written,
    outrun,           \* not in the code: the bytes other producers have stored
                      \* since a writer that copies saw how much room there is
    data_cv, room_cv, \* the threads asleep on each condition variable
    rsel, wsel,       \* the pollers recorded in each selinfo
    events,           \* the event each poller waits for, "none" if it does not
    pc,               \* each reader's and writer's position
    nbefore, resid,   \* uio_resid when its call began, and now
    held,             \* a reader's got; a writer's limit, then its want
    stored,           \* what its call has added to fh->reads or fh->writes
    error,            \* what its last call returned
    resetter,         \* the thread in myfirst_sysctl_reset()
    queue, task       \* the taskqueue: tasks pending, and where its thread is

bufferVars == <<used, bytes_read, bytes_written, outrun>>
waitVars   == <<data_cv, room_cv>>
pollVars   == <<rsel, wsel, events>>
callVars   == <<pc, nbefore, resid, held, stored, error>>
taskVars   == <<resetter, queue, task>>
vars == <<bufferVars, waitVars, pollVars, callVars, taskVars>>

Threads == Readers \cup Writers

Least(a, b) == IF a <= b THEN a ELSE b

\* Slip: one byte more than there is room for.
FreeOffByOne == BufSize - used + 1

\* cbuf_free(&sc->cb)
Free == BufSize - used

Init ==
    /\ used = 0 /\ bytes_read = 0 /\ bytes_written = 0
    /\ outrun = [w \in Writers |-> 0]
    /\ data_cv = {} /\ room_cv = {}
    /\ rsel = {} /\ wsel = {} /\ events = [p \in Pollers |-> "none"]
    /\ pc = [t \in Threads |-> "idle"]
    /\ nbefore = [t \in Threads |-> 0] /\ resid = [t \in Threads |-> 0]
    /\ held = [t \in Threads |-> 0] /\ stored = [t \in Threads |-> 0]
    /\ error = [t \in Threads |-> "0"]
    /\ resetter = "idle" /\ queue = <<>> /\ task = "idle"

Goto(t, label) == pc' = [pc EXCEPT ![t] = label]

\* t's call is over and returns e.
Return(t, e) ==
    /\ Goto(t, "idle")
    /\ error' = [error EXCEPT ![t] = e]
    /\ held' = [held EXCEPT ![t] = 0]

\* t's call goes on at a label.
Continue(t, label) == Goto(t, label) /\ UNCHANGED <<error, held>>

Hold(t, n) == held' = [held EXCEPT ![t] = n]

\* The writers in uiomove(), between their two critical sections.
Copying == {w \in Writers : pc[w] = "wr_copy"}

\* n bytes more have got in beside the writers ws, who go on copying.
Outrun(ws, n) ==
    outrun' = [w \in Writers |-> IF w \in ws THEN outrun[w] + n ELSE 0]

\* The buffer and its counter after an attempt to append n bytes; slip: the
\* counter takes what was asked for.
StoreCountsAll(n) ==
    /\ used' = used + Least(n, Free)
    /\ bytes_written' = bytes_written + n
    /\ UNCHANGED bytes_read

Store(n) ==
    /\ used' = used + Least(n, Free)
    /\ bytes_written' = bytes_written + Least(n, Free)
    /\ UNCHANGED bytes_read

\* What cv_signal() may leave asleep: it wakes one sleeper if there is one.  A
\* thread that was woken keeps its label until it has the lock again.
Signalled(cv) == IF cv = {} THEN {{}} ELSE {cv \ {t} : t \in cv}

------------------------------------------------------------------------------
(* myfirst_read().                                                          *)

read_call(r) ==
    /\ pc[r] = "idle"
    /\ \E n \in 0 .. MaxRequest :
          /\ nbefore' = [nbefore EXCEPT ![r] = n]
          /\ resid' = [resid EXCEPT ![r] = n]
          /\ Goto(r, IF n > 0 THEN "rd_lock" ELSE "idle")
    /\ stored' = [stored EXCEPT ![r] = 0]
    /\ error' = [error EXCEPT ![r] = "0"]
    /\ UNCHANGED <<bufferVars, waitVars, pollVars, held, taskVars>>

\* Slip: a reader that has bytes already goes to sleep for the rest.
SleepsForRest(t) == TRUE

\* The loop head of myfirst_wait_data() and myfirst_wait_room(): a call that has
\* moved bytes does not wait for more.
MayWait(t) == resid[t] = nbefore[t]

\* Under the lock: take bytes, or end the call with what it has, or fail at
\* once (IO_NDELAY), or sleep.
read_section(r) ==
    \/ /\ used > 0
       /\ LET got == Least(used, Least(resid[r], Bounce))
          IN  /\ used' = used - got
              /\ bytes_read' = bytes_read + got
              /\ Hold(r, got)
              /\ stored' = [stored EXCEPT ![r] = @ + got]
       /\ Goto(r, "rd_signal")
       /\ UNCHANGED <<bytes_written, outrun, data_cv, error>>
    \/ /\ used = 0
       /\ \/ ~MayWait(r) /\ Return(r, "0") /\ UNCHANGED data_cv
          \/ MayWait(r) /\ Return(r, "EAGAIN") /\ UNCHANGED data_cv
          \/ /\ MayWait(r)
             /\ data_cv' = data_cv \cup {r}
             /\ Continue(r, "rd_sleep")
       /\ UNCHANGED <<bufferVars, stored>>

read_lock(r) ==
    /\ \/ pc[r] = "rd_lock"
       \/ pc[r] = "rd_sleep" /\ r \notin data_cv
    /\ read_section(r)
    /\ UNCHANGED <<room_cv, pollVars, nbefore, resid, taskVars>>

\* The timeout (EWOULDBLOCK) or a signal ends the sleep, and with it the read.
read_interrupt(r) ==
    /\ r \in data_cv
    /\ data_cv' = data_cv \ {r}
    /\ \E e \in {"EAGAIN", IF MayWait(r) THEN "EINTR" ELSE "0"} : Return(r, e)
    /\ UNCHANGED <<bufferVars, room_cv, pollVars, nbefore, resid, stored, taskVars>>

read_signal(r) ==
    /\ pc[r] = "rd_signal"
    /\ room_cv' \in Signalled(room_cv)
    /\ Continue(r, "rd_selwakeup")
    /\ UNCHANGED <<bufferVars, data_cv, pollVars, nbefore, resid, stored, taskVars>>

\* selwakeup() makes every poller recorded in wsel scan again; uiomove() hands
\* the bytes to the user, or it faults and they are gone.
read_copy(r) ==
    /\ pc[r] = "rd_selwakeup"
    /\ wsel' = {}
    /\ \/ /\ resid' = [resid EXCEPT ![r] = @ - held[r]]
          /\ IF resid[r] = held[r]
               THEN Return(r, "0")
               ELSE Goto(r, "rd_lock") /\ Hold(r, 0) /\ UNCHANGED error
       \/ Return(r, "EFAULT") /\ UNCHANGED resid
    /\ UNCHANGED <<bufferVars, waitVars, rsel, events, nbefore, stored, taskVars>>

------------------------------------------------------------------------------
(* myfirst_write().                                                         *)

write_call(w) ==
    /\ pc[w] = "idle" /\ bytes_written < MaxCount
    /\ \E n \in 0 .. MaxRequest :
          /\ nbefore' = [nbefore EXCEPT ![w] = n]
          /\ resid' = [resid EXCEPT ![w] = n]
          /\ Goto(w, IF n > 0 THEN "wr_limit" ELSE "idle")
    /\ stored' = [stored EXCEPT ![w] = 0]
    /\ error' = [error EXCEPT ![w] = "0"]
    /\ UNCHANGED <<bufferVars, waitVars, pollVars, held, taskVars>>

\* myfirst_get_soft_byte_limit(), before the lock; the sysctl may change the
\* limit at any time, so the value read is any of the configured ones.
write_limit(w) ==
    /\ pc[w] = "wr_limit"
    /\ \E limit \in SoftLimits : Hold(w, limit)
    /\ Goto(w, "wr_lock")
    /\ UNCHANGED <<bufferVars, waitVars, pollVars, nbefore, resid, stored, error,
                   taskVars>>

OverLimit(limit) == limit > 0 /\ used + Bounce > limit

\* Slip: the round is as long as the bounce, whatever the room.
WantUnclamped(w) == Least(resid[w], Bounce)

\* The size of a round, from the room there is before the lock is dropped.
Want(w) == Least(Free, Least(resid[w], Bounce))

\* myfirst_wait_room() and, with room, on to the copy.
write_section(w) ==
    \/ /\ Free > 0
       /\ Hold(w, Want(w))
       /\ Goto(w, "wr_copy")
       /\ UNCHANGED <<room_cv, error>>
    \/ /\ Free = 0
       /\ \/ ~MayWait(w) /\ Return(w, "0") /\ UNCHANGED room_cv
          \/ MayWait(w) /\ Return(w, "EAGAIN") /\ UNCHANGED room_cv
          \/ /\ MayWait(w)
             /\ room_cv' = room_cv \cup {w}
             /\ Hold(w, 0) /\ Goto(w, "wr_sleep")
             /\ UNCHANGED error

write_lock(w) ==
    /\ \/ pc[w] = "wr_lock" /\ ~OverLimit(held[w])
       \/ pc[w] = "wr_sleep" /\ w \notin room_cv
    /\ write_section(w)
    /\ UNCHANGED <<bufferVars, data_cv, pollVars, nbefore, resid, stored,
                   taskVars>>

write_over_limit(w) ==
    /\ pc[w] = "wr_lock" /\ OverLimit(held[w])
    /\ Return(w, IF resid[w] # nbefore[w] THEN "0" ELSE "EAGAIN")
    /\ UNCHANGED <<bufferVars, waitVars, pollVars, nbefore, resid, stored, taskVars>>

write_interrupt(w) ==
    /\ w \in room_cv
    /\ room_cv' = room_cv \ {w}
    /\ \E e \in {"EAGAIN", IF MayWait(w) THEN "EINTR" ELSE "0"} : Return(w, e)
    /\ UNCHANGED <<bufferVars, data_cv, pollVars, nbefore, resid, stored, taskVars>>

\* uiomove() faults before anything is stored.
write_fault(w) ==
    /\ pc[w] = "wr_copy"
    /\ Return(w, "EFAULT")
    /\ outrun' = [outrun EXCEPT ![w] = 0]
    /\ UNCHANGED <<used, bytes_read, bytes_written, waitVars, pollVars, nbefore,
                   resid, stored, taskVars>>

\* The top of the loop, or the end of it.
NextRound(w) ==
    IF resid'[w] = 0 THEN Return(w, "0")
    ELSE Goto(w, "wr_limit") /\ Hold(w, 0) /\ UNCHANGED error

\* Slip: the wakeups are skipped by the round that ends the call.
AfterPutQuiet(w, put) ==
    IF put > 0 /\ resid'[w] > 0 THEN Continue(w, "wr_signal") ELSE NextRound(w)

\* What follows the second critical section.
AfterPut(w, put) ==
    IF put > 0 THEN Continue(w, "wr_signal") ELSE NextRound(w)

\* uiomove() consumed all of want; the second critical section stores as much
\* of it as there is room for now.
write_put(w) ==
    LET want == held[w]
        put  == Least(want, Free)
    IN  /\ pc[w] = "wr_copy"
        /\ resid' = [resid EXCEPT ![w] = @ - want]
        /\ Store(want)
        /\ Outrun(Copying \ {w}, put)
        /\ stored' = [stored EXCEPT ![w] = @ + put]
        /\ AfterPut(w, put)
        /\ UNCHANGED <<waitVars, pollVars, nbefore, taskVars>>

write_signal(w) ==
    /\ pc[w] = "wr_signal"
    /\ data_cv' \in Signalled(data_cv)
    /\ Continue(w, "wr_selwakeup")
    /\ UNCHANGED <<bufferVars, room_cv, pollVars, nbefore, resid, stored, taskVars>>

write_selwakeup(w) ==
    /\ pc[w] = "wr_selwakeup"
    /\ rsel' = {}
    /\ UNCHANGED resid
    /\ NextRound(w)
    /\ UNCHANGED <<bufferVars, waitVars, wsel, events, nbefore, stored, taskVars>>

------------------------------------------------------------------------------
(* myfirst_poll(), as the kernel's poll loop calls it.                       *)

poll_call(p) ==
    /\ events[p] = "none"
    /\ \E e \in {"POLLIN", "POLLOUT"} : events' = [events EXCEPT ![p] = e]
    /\ UNCHANGED <<bufferVars, waitVars, rsel, wsel, callVars, taskVars>>

\* Under the lock: ready, or recorded.  A selwakeup() that comes before the
\* thread sleeps makes it scan again, so recorded counts as asleep.
poll_lock(p) ==
    /\ events[p] # "none" /\ p \notin rsel \cup wsel
    /\ LET ready == IF events[p] = "POLLIN" THEN used > 0 ELSE Free > 0
       IN  /\ events' = IF ready THEN [events EXCEPT ![p] = "none"] ELSE events
           /\ rsel' = IF ~ready /\ events[p] = "POLLIN" THEN rsel \cup {p} ELSE rsel
           /\ wsel' = IF ~ready /\ events[p] = "POLLOUT" THEN wsel \cup {p} ELSE wsel
    /\ UNCHANGED <<bufferVars, waitVars, callVars, taskVars>>

\* The poll's own timeout.
poll_timeout(p) ==
    /\ p \in rsel \cup wsel
    /\ rsel' = rsel \ {p} /\ wsel' = wsel \ {p}
    /\ events' = [events EXCEPT ![p] = "none"]
    /\ UNCHANGED <<bufferVars, waitVars, callVars, taskVars>>

------------------------------------------------------------------------------
(* The tick source, the tasks and the reset.                                *)

Queued == {queue[i] : i \in DOMAIN queue}

\* Slip: an enqueue is dropped while another task is pending.
EnqueueIfEmpty(t) == queue' = IF queue = <<>> THEN <<t>> ELSE queue

\* taskqueue_enqueue(): a task that is pending already is only counted.
Enqueue(t) == queue' = IF t \in Queued THEN queue ELSE Append(queue, t)

myfirst_tick_source ==
    /\ Ticking /\ bytes_written < MaxCount
    /\ Free > 0
    /\ Store(1)
    /\ Outrun(Copying, 1)
    /\ data_cv' \in Signalled(data_cv)
    /\ Enqueue("selwake")
    /\ UNCHANGED <<room_cv, pollVars, callVars, resetter, task>>

bulk_writer_flood ==
    /\ Batches # {}
    /\ Enqueue("bulk_writer")
    /\ UNCHANGED <<bufferVars, waitVars, pollVars, callVars, resetter, task>>

reset_delayed ==
    /\ Resetting
    /\ Enqueue("reset_delayed")
    /\ UNCHANGED <<bufferVars, waitVars, pollVars, callVars, resetter, task>>

task_start ==
    /\ task = "idle" /\ queue # <<>>
    /\ task' = Head(queue) /\ queue' = Tail(queue)
    /\ UNCHANGED <<bufferVars, waitVars, pollVars, callVars, resetter>>

\* selwakeup(&sc->rsel) by the selwake task, or by the bulk writer after a put.
task_selwakeup ==
    /\ task \in {"selwake", "bulk_selwakeup"}
    /\ rsel' = {}
    /\ task' = "idle"
    /\ UNCHANGED <<bufferVars, waitVars, wsel, events, callVars, resetter, queue>>

myfirst_bulk_writer_task ==
    /\ task = "bulk_writer"
    /\ \E batch \in Batches :
          LET written == IF bytes_written < MaxCount THEN Least(batch, Free) ELSE 0
          IN  /\ Store(written)
              /\ Outrun(Copying, written)
              /\ IF written > 0
                   THEN data_cv' \in Signalled(data_cv) /\ task' = "bulk_selwakeup"
                   ELSE UNCHANGED data_cv /\ task' = "idle"
    /\ UNCHANGED <<room_cv, pollVars, callVars, resetter, queue>>

\* Slip: the reset forgets one of the two counters.
ResetKeepsRead == used' = 0 /\ bytes_written' = 0 /\ UNCHANGED <<bytes_read, outrun>>

\* The critical section both resets share.
ResetBuffer ==
    used' = 0 /\ bytes_read' = 0 /\ bytes_written' = 0 /\ UNCHANGED outrun

\* Slip: the reset wakes the readers, who have nothing to read.
BroadcastData == data_cv' = {} /\ UNCHANGED room_cv

Broadcast == room_cv' = {} /\ UNCHANGED data_cv

myfirst_sysctl_reset ==
    /\ Resetting /\ resetter = "idle"
    /\ ResetBuffer
    /\ resetter' = "broadcast"
    /\ UNCHANGED <<waitVars, pollVars, callVars, queue, task>>

sysctl_reset_broadcast ==
    /\ resetter = "broadcast"
    /\ Broadcast
    /\ resetter' = "idle"
    /\ UNCHANGED <<bufferVars, pollVars, callVars, queue, task>>

myfirst_reset_delayed_task ==
    /\ task = "reset_delayed"
    /\ ResetBuffer
    /\ task' = "reset_broadcast"
    /\ UNCHANGED <<waitVars, pollVars, callVars, resetter, queue>>

task_reset_broadcast ==
    /\ task = "reset_broadcast"
    /\ Broadcast
    /\ task' = "idle"
    /\ UNCHANGED <<bufferVars, pollVars, callVars, resetter, queue>>

------------------------------------------------------------------------------
reader(r) == read_lock(r) \/ read_signal(r) \/ read_copy(r)

writer(w) ==
    \/ write_limit(w) \/ write_lock(w) \/ write_over_limit(w)
    \/ write_fault(w) \/ write_put(w) \/ write_signal(w) \/ write_selwakeup(w)

taskqueue_thread ==
    \/ task_start \/ task_selwakeup \/ myfirst_bulk_writer_task
    \/ myfirst_reset_delayed_task \/ task_reset_broadcast

Next ==
    \/ \E r \in Readers : read_call(r) \/ read_interrupt(r) \/ reader(r)
    \/ \E w \in Writers : write_call(w) \/ write_interrupt(w) \/ writer(w)
    \/ \E p \in Pollers : poll_call(p) \/ poll_lock(p) \/ poll_timeout(p)
    \/ myfirst_tick_source \/ bulk_writer_flood \/ reset_delayed
    \/ taskqueue_thread
    \/ myfirst_sysctl_reset \/ sysctl_reset_broadcast

\* A thread inside the driver that is not asleep runs on, and so do the
\* taskqueue thread and a reset that has begun.  Nothing makes a user call, a
\* callout fire or a sleep end early.
Fairness ==
    /\ \A r \in Readers : WF_vars(reader(r))
    /\ \A w \in Writers : WF_vars(writer(w))
    /\ \A p \in Pollers : WF_vars(poll_lock(p))
    /\ WF_vars(taskqueue_thread)
    /\ WF_vars(sysctl_reset_broadcast)

Spec == Init /\ [][Next]_vars
FairSpec == Spec /\ Fairness

------------------------------------------------------------------------------
Labels == {"idle", "rd_lock", "rd_sleep", "rd_signal", "rd_selwakeup",
           "wr_limit", "wr_lock", "wr_sleep", "wr_copy", "wr_signal",
           "wr_selwakeup"}

DataPathTypeOK ==
    /\ used \in 0 .. BufSize
    /\ bytes_read \in Nat /\ bytes_written \in Nat
    /\ outrun \in [Writers -> Nat]
    /\ data_cv \subseteq Readers /\ room_cv \subseteq Writers
    /\ rsel \subseteq Pollers /\ wsel \subseteq Pollers
    /\ events \in [Pollers -> {"none", "POLLIN", "POLLOUT"}]
    /\ pc \in [Threads -> Labels]
    /\ nbefore \in [Threads -> Nat] /\ resid \in [Threads -> Nat]
    /\ held \in [Threads -> Nat] /\ stored \in [Threads -> Nat]
    /\ error \in [Threads -> {"0", "EAGAIN", "EINTR", "EFAULT"}]
    /\ resetter \in {"idle", "broadcast"}
    /\ queue \in Seq({"selwake", "bulk_writer", "reset_delayed"})
    /\ task \in {"idle", "selwake", "bulk_writer", "bulk_selwakeup",
                 "reset_delayed", "reset_broadcast"}

\* The two counters account for every byte in the buffer, whichever of the
\* five producers put it there and whenever the device was reset.
CountersAgree == bytes_written - bytes_read = used

\* Somebody who has put bytes in (made room) is still to signal it.
DataSignalComing == \E w \in Writers : pc[w] = "wr_signal"
RoomSignalComing ==
    \/ \E r \in Readers : pc[r] = "rd_signal"
    \/ resetter = "broadcast" \/ task = "reset_broadcast"

\* The readers are never all asleep while there are bytes to read and no
\* signal on its way, and likewise the writers while there is room, although
\* a transfer signals one thread only, after it has dropped the lock.
NobodyStranded ==
    /\ (used > 0 /\ Readers # {} /\ Readers \subseteq data_cv) => DataSignalComing
    /\ (Free > 0 /\ Writers # {} /\ Writers \subseteq room_cv) => RoomSignalComing

\* No reader sleeps on while there are bytes, no signal on its way and nobody
\* else in the middle of a read
\* (chapter-12.md:460: "If multiple waiters are blocked, the next signal will
\* wake the next one").
NoReaderStranded ==
    used > 0 /\ data_cv # {}
      => DataSignalComing \/ \E r \in Readers \ data_cv : pc[r] # "idle"

\* Only a call that has moved nothing sleeps or fails with EAGAIN or EINTR: a
\* short transfer is reported as such and never turned into an error
\* (chapter-10.md:1535).
ProgressEndsCall ==
    \A t \in Threads :
        t \in data_cv \cup room_cv \/ error[t] \in {"EAGAIN", "EINTR"}
          => resid[t] = nbefore[t]

\* A round of a write takes from its caller no more bytes than it stores, but for
\* those that other producers have stored while it copied: the room it saw before
\* it dropped the lock can go to the other writers, the tick source and the bulk
\* writer, and to nobody else.
RoundLosesToOthers ==
    [][\A w \in Writers : pc[w] = "wr_copy" /\ pc'[w] # "wr_copy"
          => (resid[w] - resid'[w]) - (stored'[w] - stored[w]) \in 0 .. outrun[w]]_vars

\* A write reports to its caller exactly the bytes that went into the buffer: not
\* so beside another producer (DataPathLostBytes.cfg).
WriteReportsStored ==
    \A w \in Writers : pc[w] = "idle" /\ error[w] # "EFAULT"
        => nbefore[w] - resid[w] = stored[w]

\* With one writer and one limit the buffer never holds more than the limit.
SoftLimitHolds == \A limit \in SoftLimits : limit > 0 => used <= limit

\* A poller asleep for POLLIN while there are bytes does not stay asleep,
\* whether a writer, the tick source or the bulk writer put them there.
PollInWakes ==
    \A p \in Pollers : p \in rsel /\ used > 0 ~> p \notin rsel \/ used = 0

\* Somebody who has put bytes in is still to call selwakeup(rsel): a writer, the
\* bulk writer, or the selwake task, queued or running.
SelwakeupComing ==
    \/ \E w \in Writers : pc[w] \in {"wr_signal", "wr_selwakeup"}
    \/ task \in {"selwake", "bulk_selwakeup"} \/ "selwake" \in Queued

\* At no moment is a poller asleep for POLLIN beside bytes with no selwakeup()
\* on its way: what PollInWakes rests on when it counts on the threads to run.
\* The tick source, the writers and the bulk writer owe it at different places,
\* and the tick source's may have been coalesced with an earlier one (541).
PollInCovered == rsel # {} /\ used > 0 => SelwakeupComing

\* No poller sleeps for POLLOUT while there is room and no selwakeup() on its
\* way (chapter-10.md:3401: "every state change that might make a
\* previously-not-ready condition into a ready condition must be paired with a
\* selwakeup call").
NoPollOutStranded ==
    Free > 0 /\ wsel # {}
      => \/ \E r \in Readers : pc[r] \in {"rd_signal", "rd_selwakeup"}
         \/ resetter # "idle" \/ task # "idle"
==============================================================================
