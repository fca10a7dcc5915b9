# A specification of the book's drivers

This directory specifies, model-checks and proves properties of the FreeBSD
device drivers that the book *FreeBSD Device Drivers* builds chapter by chapter.
The centre is the `myfirst` driver in the last stage it reaches before it gets
hardware: `examples/part-03/ch15-more-synchronization/stage4-final`
(`myfirst.c`, `myfirst_sync.h`, `cbuf.c`). Every earlier stage, from chapter 7 on,
is a subset of that one. From part 4 come the simulated device of chapter 17, the PCI
attach with the interrupt layer of chapter 20, and the DMA transfers of chapter 21
together with the power management of chapter 22; from part 7 the `evdemo` driver of
chapter 35.

Line numbers below are those of that `myfirst.c` unless another file is named.

## 1. The system

### 1.1 The myfirst driver (chapters 7 to 15)

| Component | State | Operations | Interacts with |
|---|---|---|---|
| Circular buffer, `cbuf.c` | `cb_data`, `cb_size`, `cb_head`, `cb_used` | `cbuf_init`, `_destroy`, `_reset`, `_write`, `_read`, `_free`, `_used` | called with `sc->mtx` held by every producer and consumer |
| Life cycle | `is_attached`, `active_fhs`, the locks, queues and doors (cdev, sysctl tree) that exist | `attach` (1071), `detach` (1352), `open` (892), the cdevpriv destructor (879) | everything else runs between attach and detach |
| Data path | buffer count, `bytes_read`, `bytes_written`, sleepers of `data_cv` and `room_cv`, `rsel`, `wsel` | `read` (924), `write` (965), `poll` (1029), the tick source (514), the bulk writer (367), two resets (399, 690) | condition variables, `selwakeup`, the taskqueue |
| Writer cap, `myfirst_sync.h` 79-139 | `writers_sema`, `writers_limit`, `writers_inflight` | `writer_enter`, `writer_leave`, `writers_drain`, the `writers_limit` sysctl (809) | entered by every write, drained by detach |
| Statistics cache | `stats_cache_bytes_10s`, `stats_cache_last_refresh_ticks`, `stats_cache_sx` | `bytes_written_10s` sysctl (850), refresh (423) | reads `bytes_written` and `ticks` |
| Callouts | three intervals and `struct callout`s | heartbeat (456), watchdog (482), tick source (514), their interval sysctls (613-688) | run under `sc->mtx`, enqueue tasks, drained by detach |
| Tasks | private taskqueue with one thread, four tasks, one of them delayed | selwake (353), bulk writer (367), delayed reset (399), recovery (437) | fed by callouts and sysctls, drained by detach |
| Configuration | `cfg` behind `cfg_sx` | three sysctls (548-611) | soft limit read by write, debug level by all |

What is hard about it: user threads, sysctl handlers, callouts, a taskqueue
thread and the newbus thread share one softc under five kinds of lock. A write
drops the lock in the middle. Wakeups are sent after the unlock, one per transfer.
Some of them are deferred to a task and coalesced. Admission uses a semaphore that
detach must empty before it destroys it. Handlers read a value before a copyin
that may sleep and use it after. And detach has twenty-two steps whose order is
everything.

What makes each component correct: the buffer is a bounded FIFO; nothing is used
before it is created or after it is destroyed; every detach ends; bytes are
counted exactly; nobody sleeps beside data or room with no wakeup on its way;
a call that has moved bytes says so; the cap caps; a cached answer is fresh; a
stall is recovered from.

### 1.2 The other drivers

| Part | What it adds | Here |
|---|---|---|
| chapters 16, 17: register block, simulated device | command and status registers, three simulation callouts, injected faults; the driver polls with timeouts and recovers | `SimDevice` |
| chapters 18 to 20: PCI, interrupts, MSI-X | attach with three fallbacks and their unwinding, filters, a task, teardown | `Msix` |
| chapter 21: DMA | one transfer in flight, engine callout, completion task, timeout and abort | `Dma` |
| chapter 22: power management | quiesce, suspend, resume, shutdown | `Dma` |
| chapter 28: `mynet` | interface init, stop, receive callout, clone destroy | not modelled |
| chapter 35: `evdemo` | event ring, condition variable, knotes, `selwakeup`, SIGIO, module unload | `EvDemo` |
| the other example drivers (chapters 23 to 27, 29 to 34, 36 to 38) | one kernel interface each, little state | not modelled |
| C and shell exercises, user-land test programs, the text, translations, scripts | sequential programs or prose | not modelled |

DMA and power management keep `dma_in_flight`, `dma_last_status`, `dma_cv`,
`suspended` and `saved_intr_mask` in the softc, and `status`, `armed` and a callout in
the simulated engine. Callers (the two test sysctls) take the busy flag, start the
engine and sleep for at most a second. The engine's callout, which holds no lock,
stores its status and raises an interrupt. The filter acknowledges it and queues the
receive task. The task gives the device back and wakes everybody. `myfirst_quiesce()`
masks, aborts, waits like a caller, and drains callout and task. Hard about it: four
agents end a transfer (task, caller, drain, and a drain that times out), one condition
variable and one status serve them all, the same task serves data interrupts, and an
abort neither stops a callback that runs nor raises a completion. It is correct when a
busy device always has an owner and becomes free again, when nothing of a transfer is
left for the next one, when success means done, and when a quiesced device is quiet.

The simulated device keeps `status` and the fault registers, `running`,
`command_pending`, `pending_fault` and three callouts that run under `sc->mtx`. A write
sends each byte as a command: it polls BUSY, writes CTRL.GO, polls DATA_AV, and cleans
up after a timeout; every poll drops the lock, so that commands of several calls, late
completions, faults and recoveries meet. It is correct when no completion survives the
command it belongs to, each is claimed once, and nothing is pending for ever.

The PCI driver keeps what attach has obtained: softc, BAR, hardware layer, taskqueue,
messages, a resource and a handler per vector, the node. Interrupts run filters at any
moment and without a lock, the receive filter defers to a task, and two sysctls call
filters by hand. It is correct when every failure releases exactly what was obtained,
the device interrupts only into handlers that are there, and the teardown outruns them.

`evdemo` keeps a ring of events, a condition variable, a `selinfo` with its knotes, a
callout, and a flag for the unload. A callout and two sysctls post, read, poll and kqueue
wait. It is correct when the ring is a queue that drops its oldest event, every kind of
waiter learns of every event and of the unload, and an unload sends the readers back and
leaves nothing behind that refers to the softc it frees. The last it does not manage: see
`EvDemoRacing.cfg` below.

Sections of these parts that are already known to be delicate are listed, line by
line, under `hazards` in `PROJECT.json`.

## 2. The modules

```
ByteQueue        operators: the promises of cbuf_write and cbuf_read
  ByteFifo       abstract machine: one bounded FIFO with cbuf's life cycle
  Cbuf           the circular buffer, refines ByteFifo        MCCbuf, CbufProofs
Lifecycle        attach, use, detach; who runs while what exists
                                                MCLifecycle, LifecycleProofs
DataPath         bytes and wakeups on an attached device
                                                MCDataPath, DataPathProofs
WriterSema       the writer cap on an attached device
                                                MCWriterSema, SyncProofs
StatsCache       the cached statistic              MCStatsCache, SyncProofs
Watchdog         interval sysctl, callout, recovery task           SyncProofs
Dma              transfers, engine, interrupts; suspend, resume     DmaProofs
SimDevice        simulated device, command cycle, faults       SimDeviceProofs
Msix             PCI attach, interrupt ladder, filters             MsixProofs
EventQueue       abstract machine: a queue that drops its oldest event
  EvDemo         event driver and unload, refines EventQueue    EvDemoProofs
```

`MC…` modules only define sets for a configuration file. `…Proofs` modules hold
theorems and extend the module they are about; `SyncProofs` extends the
three small modules `WriterSema`, `StatsCache` and `Watchdog`, which is why the last two
have specifications and variables with names of their own (`CacheSpec`, `WatchdogSpec`). The modules without an `MC…` need no sets
of their own and are checked as they are.

The device is cut along its data, so that each module can be checked with all of
its control: `Lifecycle` keeps every agent and every resource but no bytes;
`DataPath` keeps the bytes and sleepers but is attached throughout; `Cbuf` alone
names the bytes. Where one module leaves a decision to another it takes *every*
outcome: in `Lifecycle` a read may find data, sleep, or give up at any time; in
`DataPath` any configured soft limit may be read at any time.

### How a definition corresponds to the code

* An action is named after the function it is (a part of), or after the function
  and the point it starts at: `write_put` is what `myfirst_write` does from
  `uiomove` (1008) to the unlock (1017). `PROJECT.json` maps every definition to
  its lines.
* A critical section of `sc->mtx` is one action: nothing that shares its data runs
  without the lock. Between two critical sections the thread is at a label of its
  own and everybody else may move. `callout_init_mtx` makes the kernel hold
  `sc->mtx` around a callback, so that a firing is one action too. Atomic
  operations, semaphore operations, `cv_signal`, `selwakeup` and copies to or from
  user space are separate actions.
* `cv_wait_sig` is three actions: falling asleep (atomic with the unlock), being
  removed from the sleepers by a signal or a timeout, and looking again with the
  lock held. A thread that was signalled but has not run yet is out of `data_cv`
  while still at its sleeping label.
* The kernel is modelled from how the driver uses it, and marked external:
  `taskqueue_enqueue` ignores a task that is pending; `taskqueue_drain` waits for a
  task to be neither pending nor running; `taskqueue_free` asserts an empty queue;
  `destroy_dev` closes the door and waits for the threads inside; so does
  `sysctl_ctx_free` for handlers; `sx_try_upgrade` succeeds for the only sharer;
  `callout_drain` cancels and waits.
* A `faults` variable in `Lifecycle` collects the resources used while they did
  not exist and the assertions that failed; every action says what it uses, with
  `Use` and `UseAttached`.
* An operator marked "Slip" in a comment is a plausible mistake. No action uses
  it; substituting it for the operator below it must break a property, which
  shows that the property depends on that line of the code.

### Module by module

**Cbuf.** Storage, head and count as in the C structure; `cbuf_write` and
`cbuf_read` with the two `memcpy` pieces as functions on offsets. `reply` is the
value the last call returned, so the refinement compares results as well as
contents. `cbuf_init` is only called on a buffer without storage, as attach does.

**Lifecycle.** `live` is the set of existing resources, `stage` and `dstep` place
the newbus thread. Attach is one step up to `make_dev_s` (nobody can reach the
softc before), with an `attach_fail` for each reachable failure: `taskqueue_create`,
`taskqueue_start_threads`, `make_dev_s`. (`cbuf_init` cannot fail with a constant
positive size.) `DetachSeq` is the code of detach from 1380 to 1432 as data.
Handlers are sequences of lock sections, `HandlerRun`, and so are tasks,
`TaskRuns`. A flood of up to 10000 enqueues is two: after the first the task is
pending, running or done, and the second meets each of these.

**DataPath.** `held` is what a thread carries across an unlock: a reader's `got`, a
writer's soft limit and then its `want`. `outrun`, which the code does not have, counts for
each writer in `uiomove` what the others have stored since it saw its room. `stored` is what its call has added to
`fh->reads` or `fh->writes`, the number to compare with what `uio_resid` tells the
user. A poll that was recorded and is woken scans again. `IO_NDELAY` is a free
choice per decision; so is a fault of `uiomove`.

**WriterSema.** The exits of a write are one action, `writer_leave`; a raised limit
owes its slots until `sysctl_post` posts them one at a time, and several raises may
overlap.

**StatsCache.** `now` is the clock without a wrap, `ticks` its signed image, an
`int` that wraps from `Half - 1` to `-Half` (2^31 in the code, 8 in the runs). `sx_slock` waits behind a queued exclusive waiter, as sx(9) does.

**Watchdog.** The interval is a Boolean (zero or not), bytes come and go freely.
`recovery` tells the task before its critical section from the rest of its run,
because the callout may fire in between and enqueue it again. `overtaken`, which the code
does not have, is the set of handlers that copy in a value while another one has set the
interval since they read it.

**Dma.** `dma_cv` is the queue of sleepers: all wait for a second, so that the one
that went to sleep first expires first. `pc` tells an expired caller that has yet to
get the lock back. The engine (`myfirst_sim_dma_stage2.c`) is a status, `armed`, a
scheduled callout and the place of its callback. A callback that stores its status
while a register write updates the same fields may lose either store, `Overlap`. An
interrupt carries a cause (`complete`) that masking may clear, which makes it stray.
The final stage keeps the filter and the task of chapter 20 with the additions of
`ch21-dma/stage3-interrupt/myfirst_intr_additions.c`, where the lock-protected part of
the task is now `myfirst_dma_handle_complete()`. `phase` places the thread that
suspends, resumes or shuts down. Two choices stand for the world around the driver.
`calm`, drawn once, says that no data interrupts come and that a wait of one second
never expires while a completion (some ten milliseconds) is on its way. `Frozen` says
that user threads are stopped during a suspend, as a system suspend does and
`devctl suspend` of one device does not.

**SimDevice.** The registers that decide anything are sets of bits. A call is in
`wait_for_ready` or in `wait_for_data` with a number of looks left; the look that
succeeds, and all that follows it under the lock, is one step. A millisecond is a look,
and callouts may fire between any two, so that DELAY_MS needs no number. The device is
the file `myfirst_sim.c`; the driver's side of the commands exists in the repository as
the listings of chapter 17 (1160 to 1631) only, which are what is modelled. A
"sampler" is a call of `myfirst_sample_cmd`, which gives up without cleaning up.

**Msix.** `pc` is the configuration thread (attach, the ladder, detach), one kernel call
a step and each of them free to fail; `vec` is the index of its loops. `at` places each
vector's filter and one sysctl that calls a filter by hand. Between the look at `intr_tq`
and the enqueue a filter is at a label of its own. Chapter 20 has the interrupt layer
and chapter 18 the attach around it (`myfirst_pci.c`); where the interrupts go into it
is taken from the listing of chapter 19 (chapter-19.md:2173 to 2273). The kernel:
`bus_teardown_intr` waits for a running filter, `pci_release_msi` refuses while a vector
is allocated, `taskqueue_free` lets the thread finish.

**EvDemo.** The ring is the array with head, tail and count, so that the refinement of
`EventQueue` is about its arithmetic; `ev` is each reader's local copy. A post is its
critical section (store, broadcast, knotes) and then, without the lock, `selwakeup` and
the signal. A burst is a sysctl that goes on to another post. The callout already holds
`sc_mtx` when it posts: what is modelled is the kernel without INVARIANTS, where the
mutex recurses (with INVARIANTS the first tick panics). `destroy_dev_drain` takes the
cdevsw and waits until its cdevs have been destroyed (chapter-08.md:1295); line 464 hands
it the cdev, and nothing calls `destroy_dev`. So the node stays for good, nobody inside a
method is waited for, and the call returns or hangs, both of which `unload_destroy_dev`
allows. That is not what chapter 35 (4078) says of the unload. What a thread does with a
softc that has been freed is undefined: such a thread stops in the model, and the
properties ask only whether there is one.

## 3. What is checked

Passing runs (TLC explores the whole state space of each):

| Run | What it shows |
|---|---|
| `cbuf` | `CbufTypeOK`, `ImplementsFifo`: every call from every reachable head, wrap and content answers and leaves what the abstract queue does |
| `lifecycle_io` | two files opening, reading, writing, polling and closing, one sysctl thread, repeated attach and detach: `NoUseAfterDestroy`, `IOPinsDevice`, `DetachFinishes` |
| `lifecycle_deferred` | the same device with two callouts, four tasks and the sysctls that feed them: `NoUseAfterDestroy`, `TaskqueueFreedQuiet`, `DetachFinishes` |
| `transfers` | two readers, one writer, both resets: `CountersAgree`, `NobodyStranded`, `ProgressEndsCall` |
| `producers_poll` | all four producers, one reader, one poller: `PollInWakes`, `RoundLosesToOthers` |
| `writer_sema` | four writers, limits one to four, never lowered: `SlotsAccounted`, `CapHolds`, `DrainedMeansOut` |
| `stats_cache` | three readers across a wrap of the clock: `FilledAnswersFresh`, `OncePerInterval`, `CallsFinish` |
| `watchdog` | two interval handlers that may overlap: `FlagMeansRecovery`, `OnlyOvertakenMisarm`, `StallRecovered` |
| `dma_power` | two callers, data interrupts, suspend, resume and shutdown, user threads stopped meanwhile: `BusyHasOwner`, `QuietWhenSuspended`, `BusyEnds`; on a calm machine also `CalmEngineOnlyWhenBusy`, `CalmSuccessMeansDone` and `QuiesceEnds` |
| `evdemo` | two readers, a poller, a knote, the callout, two sysctl threads, the unload, a ring of three: `ImplementsEventQueue`, `NobodyMissesAnEvent`, `FreedSoftcHasNoWaiters`, `UnloadSendsReadersAway` |
| `sim_device` | two writers, the device with faults set and cleared at any time, enable, disable, detach: `CommandAccounted`, `OneClaimPerCompletion`, `CallbacksFindTheirSim`, `PendingEnds` |
| `msix` | attach failing anywhere on every rung, interrupts and simulated ones, detach, three vectors: `NothingLeaks`, `UnmaskedMeansHandled`, `NobodyUsesWhatIsGone`, `ConfigEnds` |

The readings of these properties that are worth an argument:

* `NoUseAfterDestroy` in the passing runs is under the assumption the `Racing`
  constant names: while a detach is under way only the handlers in `MCSafe` are
  called (those that touch nothing which is destroyed before `sysctl_ctx_free`). The
  others are the subject of three configurations below. `LifecycleProofs` proves it
  under the same assumption, for any agents.
* `RoundLosesToOthers` is what is left of "a write reports what it stored", which does
  not hold as soon as there is a second producer (`DataPathLostBytes.cfg`): the bytes a
  round takes from its caller and does not store are at most those that other writers,
  the tick source and the bulk writer stored since it saw its room.
* `NobodyStranded` is the strongest wakeup property the code has: *not all* readers
  sleep beside data unless a signal is on its way. That *none* does is what the book
  says and what `DataPathSecondReader.cfg` refutes.
* `OnlyOvertakenMisarm` says of overlapping interval handlers what the code guarantees:
  callout and interval part only when a handler sets its value although another has set
  the interval since it read the old one. That they never part is refuted by
  `WatchdogTwoSysctls.cfg`.
* The `Calm…` invariants say what the protocol of a transfer achieves by itself.
  Neither holds with data interrupts: `DmaDataInterrupt.cfg` and `DmaAbort.cfg`.
  On a calm machine they hold although the drain aborts transfers, waits beside
  their callers, and gives the device back when it is not woken.
* `QuietWhenSuspended` is the assertion at `myfirst_power.c:119` together with the
  engine's rest, for a whole suspension and not only at its beginning. It is checked
  with user threads stopped; without, `DmaUserSuspend.cfg` refutes it.
* `QuiesceEnds` is about a calm machine. On another one the wakeup a caller or the
  drain gets may come from a data interrupt, which makes nothing wait longer, but
  whose stream, modelled as free, may keep the task pending for ever.

* `NobodyUsesWhatIsGone` assumes that no sysctl is inside the driver when the detach
  begins (`Racing = FALSE`); with one, `MsixRacing.cfg` refutes it. The run of `EvDemo` has
  the same assumption, of which its theorems have no need.
* `FreedSoftcHasNoWaiters` and `UnloadSendsReadersAway` are what the unload of `evdemo`
  achieves: nothing is scheduled or asleep on a softc that is freed, and every reader is
  sent out although `destroy_dev_drain` waits for none and may never return. Whether a
  thread is inside a method when the softc is freed is another question, and the answer
  is the last line of the table below.
* `OneClaimPerCompletion` counts, because the calls cannot tell whose completion they
  take: with two writers the answer to one may well be claimed by the other, but no
  answer is claimed twice or made up.
* `ImplementsEventQueue` holds across a copy that faults: the event is forgotten by its
  reader and is not in the ring any more. That an event is never lost this way is not
  claimed; `read(2)` reports EFAULT.
* `MsixTypeOK`, `EvDemoTypeOK`, `DmaTypeOK` and `DataPathTypeOK` are proved and in no
  run; so are `NoTransferAfterDetach`, which follows from `IOPinsDevice`, and
  `CalloutsStayDrained`, which holds when no interval sysctl is in `Racing`.
* `DetachWaitsForRunners`, `NeverAllWait` and `PollInCovered` are the safety half of
  `DetachFinishes`, `CallsFinish` and `PollInWakes`: whoever could wait for ever has
  somebody left to end the wait. They are proved, and in no run because the liveness
  properties would fail there without them.
* The extra slots that detach posts (1380) wake nobody: a writer in `sema_wait()` has an
  open file, so that the detach has returned EBUSY before it could come to them. That
  is the first part of `DetachWaitsForRunners`.

Twenty more configurations are kept beside the runs because their counterexamples
explain limits of the properties above, most of them places where the code does
something other than what the repository says of it. `tlc -config X.cfg M` finds each
within seconds.

| Module, configuration | Refuted | What the code does |
|---|---|---|
| `MCLifecycle`, `LifecycleSemaSysctl.cfg` | `NoUseAfterDestroy` | `writers_limit` and `writers_sema_value` handlers can use the semaphore after 1413 destroyed it: the sysctls go at 1423 |
| `MCLifecycle`, `LifecycleIntervalSysctl.cfg` | `CalloutsStayDrained` | an interval handler can schedule a callout after its drain (chapter-13.md:1406 says none can be running then) |
| `MCLifecycle`, `LifecycleTaskSysctl.cfg` | `TaskqueueFreedQuiet` | the flood and delayed-reset handlers can enqueue between the drains and `taskqueue_free` (1406: "after every task is drained") |
| `MCLifecycle`, `LifecycleAttachFail.cfg` | `AttachFailureReleasesAll` | the counters allocated at 1144 are not freed when `make_dev_s` fails (chapter-07.md:3010: "either fully succeeds or fully fails") |
| `MCDataPath`, `DataPathLostBytes.cfg` | `WriteReportsStored` | a write whose room was taken while it copied reports bytes it dropped |
| `MCDataPath`, `DataPathSecondReader.cfg` | `NoReaderStranded` | one signal for a transfer of several bytes leaves a second reader asleep (chapter-12.md:460) |
| `MCDataPath`, `DataPathPollOut.cfg` | `NoPollOutStranded` | a reset makes room without a `selwakeup` for `wsel` (chapter-10.md:3401) |
| `MCDataPath`, `DataPathSoftLimit.cfg` | `SoftLimitHolds` | two writers that passed the check together exceed the limit (chapter-12.md:1213) |
| `MCWriterSema`, `WriterSemaLowered.cfg` | `NeverAboveEveryLimit` | lowering and raising the limit makes more slots than any limit allowed (LOCKING.md:15) |
| `MCStatsCache`, `StatsCacheNegative.cfg` | `AnswersFresh` | attached while `ticks` is negative, the cache serves its initial zero as fresh (chapter-15.md:676) |
| `Watchdog`, `WatchdogTwoSysctls.cfg` | `ArmedMeansInterval` | two overlapping interval handlers leave callout and interval out of step (chapter-13.md:839) |
| `Dma`, `DmaDataInterrupt.cfg` | `SuccessMeansDone` | the task of a data interrupt ends a transfer that is still running and its caller reports success (`DMA.md:21`: the helper is "called from the rx task when `MYFIRST_INTR_COMPLETE` was observed") |
| `Dma`, `DmaUserSuspend.cfg` | `QuietWhenSuspended` | `do_transfer_intr` does not look at `suspended`: a transfer starts after the drain and is in flight at the assertion of `myfirst_power.c:119` (chapter-22.md:678: "any new request … gets an error") |
| `Dma`, `DmaAbort.cfg` | `EngineOnlyWhenBusy` | a transfer that was given up is not over in the engine: a data interrupt's task frees the device while it runs, and an abort does not stop a callback that has begun (chapter-21.md:1921: "does not complete after the helper returns") |
| `SimDevice`, `SimDeviceStuckBusy.cfg` | `BusyClears` | nothing lowers a BUSY the busy callout raised once the fault is cleared, and `wait_for_ready` does not recover (`sim_stuck_busy_fault.sh`: "Clear the fault and wait for BUSY to naturally clear") |
| `SimDevice`, `SimDeviceError.cfg` | `ErrorIsAnswered` | a completion in error raises no DATA_AV, so the call times out instead of seeing ERROR (`sim_error_fault.sh` expects `cmd_errors` to grow with each) |
| `SimDevice`, `SimDeviceSampler.cfg` | `CommandAccounted` | `myfirst_sample_cmd` gives up and leaves its command pending (chapter-17.md:1464) |
| `Msix`, `MsixFallback.cfg` | `TasksAreInitialized` | the filter of the MSI and INTx rungs enqueues the task of chapter 19, which the setup of chapter 20 never initializes (`myfirst_msix.c` 269 and 285; the comment at 261 says "fall back to the Chapter 19 single-handler pattern") |
| `Msix`, `MsixRacing.cfg` | `NobodyUsesWhatIsGone` | a simulate sysctl inside a filter is waited for by nobody until after the BAR and the taskqueue are gone |
| `EvDemo`, `EvDemoRacing.cfg` | `NoMethodAfterFree`, `NoSysctlAfterFree` | nothing destroys the node and 464 waits for nobody, so that a reader may be in `evdemo_read`, or a knote attached, when 474 frees the softc (this needs no race); a trigger or burst sysctl that has read `evdemo_sc_global` uses it after `free`, which precedes the clearing of the pointer (475). TLC reports one of the two; take it off the cfg to see the other |

Reading chapters 21 and 22 against the code also showed: the mask is written as all
ones although a set bit enables (`myfirst_hw.h:29` of chapter 17; chapter-22.md:784 takes it for
masked); an abort raises no completion, so that a drain of a running transfer always
times out (chapter-22.md:801 expects it to be woken); the worker drain waits on
`taskqueue_thread` while the task runs on `sc->intr_tq`; a transfer that times out is
counted without a completion interrupt, against `DMA.md:76`; and `dma_test_write`
fills the buffer before it learns that a transfer is using it. In chapters 17, 20 and
35: a refused command answers its caller with the completion of another's
(`myfirst_sim.c:299`); the MSI rung and the simulate sysctl pass the vector to a filter
that takes its argument for the softc (`myfirst_msix.c:271`, `394`); a fault of `uiomove`
in `evdemo_read` loses the event it had dequeued; and so does one in `myfirst_read`
(958) its bytes.

### Bounds, and why they are enough

* `Cbuf`: capacities 0, 1 and 3 with requests of 0 to 4 bytes of two values reach
  every head position, every wrap, and requests larger than the buffer. The theorems
  need none of these bounds.
* `Lifecycle`: two users are one inside and one entering, or two competing for
  one slot (`WritersLimit = 1`); `MaxSema` caps the slots sysctls may create, so that
  the semaphore stays finite, and leaves room for one slot more than detach posts.
  Device generations are unbounded: the device goes back to absent.
* `DataPath`: a buffer of two bytes and requests of up to two make a call take
  several rounds, find the buffer full, half full and empty, and find it changed.
  `MaxCount` caps the total written between resets: producers stop there, consumers
  go on. In `transfers` each round of a write may read a soft limit of two bytes or
  none, so that it may be over the limit in its first round or in a later one.
* `WriterSema`: more writers than the default limit, `MaxSlots` caps the sum of slots.
* `StatsCache`: four bits of clock starting two ticks before the wrap, followed for
  `Horizon` ticks; three readers are one that upgrades, one that fails to and one
  that comes late.
* `Watchdog`: three fill levels are empty, stalled and changed; two handlers are one that
  overtakes and one that is overtaken. The theorems hold for any number.
* `Dma`: two callers are one whose transfer ends and one that starts the next; the
  theorems hold for any number. There is no other bound.
* `SimDevice`: one look for ready and three for data make a call see nothing, a late
  answer, or give up, with the other call's command in between; `MaxCommands` stops new
  calls after three completions, which are one that is given up, one that comes late and
  one that meets what they left.
* `Msix`: three vectors, as the code has; the theorems hold for any number.
* `EvDemo`: three events wrap, overflow and leave room for a reader in the middle; two
  readers compete for one event, two sysctl threads post between each other's steps. The
  theorems need none of these bounds.

### Fairness and deadlock

A thread that is inside the driver and not asleep runs on (weak fairness per thread),
the taskqueue thread works its queue off, a detach that has begun goes on, and in
`Watchdog` a scheduled callout fires because time passes. That is what the kernel's
scheduler gives. Nothing makes a user call, close a file, send a signal or set a
sysctl, and no sleep is assumed to end by itself. `DetachFinishes` needs no fairness
of the semaphore: the slots detach posts are enough.

In `Dma` a scheduled callout fires, a queued interrupt and a pending task are run,
the oldest sleeper's second passes, and the quiescing thread goes on; nobody is made
to call, to suspend or to resume.

In `SimDevice` only a call is fair: it polls to its end, while a completion may be any
time away, so that `PendingEnds` rests on the caller's timeout alone. In `Msix` the
configuration thread, filters and the taskqueue thread run, interrupts and the detach
need not come; in `EvDemo` readers inside the driver and the unloading thread run, and
no event, signal, tick or unload has to happen.

`CHECK_DEADLOCK FALSE` appears in the `Lifecycle`, `DataPath`, `Dma`, `SimDevice`,
`Msix` and `EvDemo` configurations only: with every byte of the bound written and
every reader asleep without data, with no caller left that may do anything, or after a
shutdown, a detach or an unload, the driver rightly waits for its users or stops. That
nobody waits for ever who should not is what the liveness properties and
`NobodyStranded` say.

## 4. What is proved

TLAPS checks these for every value of the constants under the modules' `ASSUME`s
(finite sets of threads where they are counted, positive sizes and limits, natural
requests):

| Theorem | Argument |
|---|---|
| `CbufTypeCorrect`, `CbufImplementsFifo` | the type invariant with "storage is NULL exactly when the size is zero" is inductive; for each call, the live bytes after it equal the abstract queue after it, by lemmas on offsets modulo the capacity and on the two copied pieces |
| `LifecycleIOPinsDevice` | `PinInv`: `active_fhs` is the number of counted files, a thread past the entry check has a counted file, and a counted file of a thread inside a call means the device is attached; the detach test `active_fhs = 0` then excludes every such thread |
| `LifecycleNoUseAfterDestroy` | assumes that the sysctls in `Racing` are harmless ones (`cb_used`, `cfg`, `reset`, `bytes_written_10s`), the assumption of the runs. `LifeInv`, see below |
| `LifecycleTaskqueueFreedQuiet` | assumes that neither sysctl that enqueues is in `Racing`; a task's drain finds it idle, and whatever could enqueue it again (a callout, a sysctl) is quiet or refused from there on |
| `LifecycleCalloutsStayDrained` | assumes that no interval sysctl is in `Racing`; behind the drain of a timer nobody who could arm it is inside |
| `LifecycleNoTransferAfterDetach` | no assumption: a thread at the KASSERTs of `myfirst_buf_read` and `myfirst_buf_write` has a counted file |
| `LifecycleDetachWaitsForRunners` | `writers_inflight` is the number of threads between the increment and the decrement of a write, and `PinInv` leaves no such thread to a device that is being detached; the task drains come before `taskqueue_free()`, and a handler inside has a section left |
| `DataPathTypeCorrect`, `DataPathCountersAgree`, `DataPathProgressEndsCall` | one inductive invariant that relates each thread's label to the sleepers it may be among and to `resid` and `nbefore`; each action is a lemma |
| `DataPathNobodyStranded` | a sleeper was added only when there was nothing to take, every store is followed by a label (or an action) that signals, and a signal that finds sleepers removes one, so that they are not all asleep any more |
| `DataPathRoundLosesToOthers` | no assumption on producers. `RoomLeft`: what a writer sized in its first critical section is at most the room there is plus what the others have stored since; each of their stores moves bytes from the one to the other, reads and resets only add room |
| `DataPathPollInCovered` | a poller goes to sleep only beside an empty buffer, and each producer that ends that state stands at a label, or has a task queued, that ends in `selwakeup(rsel)`; taking the task off the queue moves it to such a label |
| `DataPathPollOutWithoutResets` | assumes that the reset sysctls are not used; then the reads alone make room, and each owes its `selwakeup(wsel)`. `DataPathPollOut.cfg` shows that the assumption is needed |
| `SemaSlotsAccounted`, `SemaCapHolds` | each action moves one slot between the semaphore, a writer and the debt of a raise; the sum is the limit |
| `SemaDrainedMeansOut` | `writers_inflight` is the number of writers that are not out, for any changes of the limit |
| `WatchdogFlagMeansRecovery` | the two conjuncts are inductive together with the type invariant |
| `WatchdogOnlyOvertakenMisarm` | any number of handlers. `OldIsCurrent`: what a handler has read is still the interval unless it is in `overtaken`; with a current old value, starting and stopping the callout follow the interval |
| `CacheAnswersFresh`, `CacheOncePerInterval` | for any readers and any start of the clock, followed for less than `Half` ticks: as long as the last refresh is at most that far back, the `int` difference of two readings is the distance of the two moments (`Distance`), wrap or not, so that `IsStale` decides what it means to; a refresh happens only in the hands of the one exclusive owner, who has looked again |
| `CacheNeverAllWait` | under the same hypothesis; owner and sharers are past their waits, and a free lock can be had by whoever waits for it exclusively or, when nobody does, by whoever wants to share it |
| `SimDeviceType`, `SimDeviceOneClaim` | any callers, also ones that give up without cleaning up; a completion adds one to `op_counter` and raises at most one DATA_AV, and the look that finds it counts it and takes it down in the same critical section |
| `SimDeviceCallbacks` | `StoppedMeansQuiet`: `myfirst_sim_disable` comes when the node is gone and every call is over, it stops all three callouts, and from there on the simulation does not run and nobody can start it |
| `SimDeviceCommandAccounted` | assumes `Samplers = {}`; a completion is scheduled only with its command pending, and the recovery stops the one and clears the other in one critical section. `SimDeviceSampler.cfg` shows that a caller who does not recover breaks it |
| `DmaTypeCorrect` | the drain sleeps once, and only while the quiescing thread waits for it, so that an expiry finds that thread where the code has it; past the masking there is a mask to restore |
| `DmaBusyHasOwner` | inductive on the types: a start puts its caller to sleep, and whoever takes the last owner away clears the flag in the same critical section |
| `DmaQuietWhenSuspended` | assumes `Frozen`; a drain that was woken found the device given back, and each later step of the quiesce removes what the previous ones left |
| `DmaEngineOnlyWhenBusy`, `DmaSuccessMeansDone` | assume `Frozen`, for calm machines; the work of a transfer is in one place at a time (callout, callback, interrupt, task), the device is busy as long as it is anywhere, and an end is in the status before it leaves the engine |
| `EvDemoProofs`: `TypeCorrect`, `NobodyMisses` | the types, the shape of the ring (`qtail` is `nevents` slots after `qhead`) and the wakeups are inductive together: whoever makes the ring non-empty or sets `sc_detaching` wakes, in the same critical section or at a label that says so |
| `EvDemoProofs`: `RingImplementsQueue` | from that shape, lemmas on slots modulo the size: a post appends to the queued events, dropping the head of a full ring, a read takes their head, every other step leaves them alone |
| `EvDemoProofs`: `UnloadLeavesNoWaiters` | no assumption: races of sysctls and threads that come in after the free are included. Whoever finds `sc_detaching` set does not go to sleep, and the drain of the callout comes before the free |
| `MsixProofs`: `TypeCorrect`, `Leakless`, `Handled`, `SafeUse` | assume no race; one invariant says, for every label of the configuration thread, which resources exist and which vectors are installed (the ones below the index of the loop), so that the exits of attach and the end of detach find nothing left, and a filter that runs has its handler |

An invariant the runs check is seldom inductive by itself; each proof module
begins with the strengthening it uses and says why it is needed.

**Detach.** `LifeInv` is the argument for the order of `DetachSeq`. A resource is live
exactly up to the place in the sequence that destroys it (`LiveInv`; `NoStepTwice` and
`Positions` give each step one place). Each agent has a place behind which it is quiet:
files behind `cdev_wait` (`PinInv`), a timer behind its `callout_drain` (`TimersDrained`),
a task behind its `taskqueue_drain` (`TasksDrained`), and a sysctl handler behind
`sysctl_ctx_free`, unless `Racing` keeps its kind out from the start of the detach
(`HandlerInv`). `Uses` states, action by action, that an agent that is not quiet uses only
resources whose place is later than its own; `NextUses` collects these facts and the
theorems follow. The conjuncts depend on each other: a task is quiet because the callouts
that enqueue it were drained before it, and those because no handler can arm them again.
The conditions on `Racing` are the ones the three `Lifecycle…Sysctl.cfg` show to be
necessary.

**The clock.** The hypothesis `Horizon < Half` of the `Cache…` theorems is part of the
truth: a cache that nobody has asked for longer than half the range of `ticks` (24 days at
1000 Hz) can look fresh again. `StatsCache.cfg` follows four bits of clock for fewer ticks
than that.

Only model-checked: liveness (`DetachFinishes`, `PollInWakes`, `CallsFinish`,
`StallRecovered`, `BusyEnds`, `QuiesceEnds`, `UnloadSendsReadersAway`,
`PendingEnds`, `ConfigEnds`), which the prover cannot do under fairness. Every invariant, action
property and refinement a passing run checks is a theorem, and so is, where it could
be told apart, the part of a liveness property that is about states: somebody is always
left who can end the wait (`DetachWaitsForRunners`, `NeverAllWait`, `PollInCovered`,
and for `BusyEnds` and `PendingEnds` the checked `BusyHasOwner` and
`CommandAccounted`). What remains to TLC is that the fair threads get there.

## 5. What is left out

* The values of `debug_level` and `nickname`, log messages, permissions, and the
  read and write timeouts' lengths (a timeout is a free choice).
* `fh->reads` across calls: only the current call's share is kept.
* The memory model: `is_attached` is read with acquire and written with release, and
  the plain reads of it happen under `sc->mtx`, so sequential consistency is assumed.
* Resource exhaustion inside `malloc(M_WAITOK)`, which sleeps instead of failing.
* Callouts' periods: an armed callout may fire at any time.
* Of chapters 21 and 22: the polling transfer kept for comparison, DMA setup and
  teardown, what the buffer holds (the engine's copy may fail, whatever the address and
  the length), the counters, and runtime power management
  (`MYFIRST_ENABLE_RUNTIME_PM`, off by default).
* Of chapters 16 and 17: the access log, the sensor's values, the bytes of a command with
  the READ_1S fault that changes them, and the commands that are refused, which only
  count. Of chapters 18 to 20: probe, the walk of the capabilities, CPU binding, counters,
  and what the fallback filter does with an argument of the wrong type.
* Of chapter 35: who receives the signal (FIOSETOWN, FIOASYNC and the clearing of both by a
  close are a free choice at each post), the counters, and the contents of an event.

### Not modelled

* The drivers of chapters 23 to 34 and 36 to 38 (`vtedu`, `myfirst_blk`, `myfirst_usb`,
  `portdrv`, `secdev`, `mynet` and others) show one kernel interface each and keep little
  state of their own: what is hard about them is in the kernel, and a model of them would
  be a model of `g_bio`, `usbd_transfer` or `ifnet`, which are not in the repository.
* The earlier stages of `myfirst` (chapters 7 to 15, some sixty files) and the earlier
  stages of each later chapter are copies of the final stages with features missing. They
  make up most of the repository's C code. Modelling a prefix again would say nothing that
  the final stage's module does not say, so the modules map to the final stages only and
  most lines of the repository stay unmapped for that reason.
* The C and shell exercises of chapters 1 to 6, the user-land test programs, the text, its
  translations and the scripts keep no state worth a specification.

## 6. Plan

1. `Dma`: the polling transfer, setup and teardown (detach against a transfer in
   flight), and runtime power management; an abstract one-transfer engine that the
   calm machine refines.
2. Compositions: `WriterSema` with `DataPath` (admission and transfers), `Dma` with
   `Msix`.
3. An abstract command engine that `SimDevice` refines for a single caller.
4. Proofs: the refinements of points 1 and 3 step by step; for the compositions of point
   2, the invariants that relate the composed modules. And the state part of
   `UnloadSendsReadersAway`, `ConfigEnds` and `QuiesceEnds`, as `DetachWaitsForRunners` is that of
   `DetachFinishes`.
