--------------------------------- MODULE Msix ----------------------------------
(***************************************************************************)
(* The PCI driver's attach and detach (Chapters 18 and 19) around the       *)
(* interrupt layer of Chapter 20: the ladder MSI-X, MSI, INTx, a filter per *)
(* vector, the task the receive filter defers to, the sysctls that call a   *)
(* filter by hand, and the teardown.                                        *)
(*                                                                          *)
(* The configuration thread does one kernel call a step, and any of them    *)
(* may fail.  Interrupts come at any time a handler is installed, also past *)
(* the device's mask (one may be on its way, or the line is shared).        *)
(* Whether a filter finds its bit in INTR_STATUS is left open.              *)
(***************************************************************************)
EXTENDS Integers

CONSTANTS MaxVectors,    \* MYFIRST_MAX_VECTORS
          FallbackFires, \* is the single handler of MSI and INTx ever called?
          Racing         \* may a detach begin while a sysctl is inside a filter?

Admin == 0   \* MYFIRST_VECTOR_ADMIN
Rx == 1      \* MYFIRST_VECTOR_RX
Vectors == 0 .. MaxVectors - 1

ASSUME MsixAssumption ==
    MaxVectors \in Nat \ {0, 1} /\ FallbackFires \in BOOLEAN /\ Racing \in BOOLEAN

\* Who may be inside a filter: the interrupt of a vector, and one sysctl.
Sysctl == -1
Contexts == Vectors \cup {Sysctl}

VARIABLES
    pc, vec,      \* the configuration thread, and the index of its loops
    softc, bar, hw, cdev, pci_attached, \* what attach has obtained
    intr_tq,      \* is the taskqueue there?
    msi,          \* what pci_alloc_msi() and pci_alloc_msix() have reserved
    irqs,         \* the vectors with an irq_res,
    handlers,     \* and those with an intr_cookie
    admin_filter, \* the filter of vector 0
    intr_mode, num_vectors,
    unmasked,     \* is INTR_MASK set?
    at, slot,     \* each context: where in a filter; the vector of the sysctl
    queue, task   \* the tasks queued on intr_tq, and the one that runs

devVars == <<softc, bar, hw, cdev, pci_attached>>
irqVars == <<msi, irqs, handlers>>
modeVars == <<admin_filter, intr_mode, num_vectors, unmasked>>
filterVars == <<at, slot>>
taskVars == <<queue, task>>
vars == <<pc, vec, devVars, intr_tq, irqVars, modeVars, filterVars, taskVars>>

Init ==
    /\ pc = "init_softc" /\ vec = 0
    /\ softc = FALSE /\ bar = FALSE /\ hw = FALSE /\ cdev = FALSE
    /\ pci_attached = FALSE /\ intr_tq = FALSE
    /\ msi = "none" /\ irqs = {} /\ handlers = {}
    /\ admin_filter = "admin" /\ intr_mode = "legacy" /\ num_vectors = 0
    /\ unmasked = FALSE
    /\ at = [c \in Contexts |-> "idle"] /\ slot = Admin
    /\ queue = {} /\ task = "none"

Goto(label) == pc' = label

------------------------------------------------------------------------------
(* myfirst_pci_attach() up to the interrupts.                               *)

init_softc ==
    /\ pc = "init_softc"
    /\ \/ softc' = TRUE /\ Goto("alloc_bar")
       \/ Goto("gone") /\ UNCHANGED softc
    /\ UNCHANGED <<vec, bar, hw, cdev, pci_attached, intr_tq, irqVars, modeVars, filterVars, taskVars>>

alloc_bar ==
    /\ pc = "alloc_bar"
    /\ \/ bar' = TRUE /\ Goto("hw_attach_pci")
       \/ Goto("deinit_softc") /\ UNCHANGED bar
    /\ UNCHANGED <<vec, softc, hw, cdev, pci_attached, intr_tq, irqVars, modeVars, filterVars, taskVars>>

\* The BAR may be too small.
hw_attach_pci ==
    /\ pc = "hw_attach_pci"
    /\ \/ hw' = TRUE /\ Goto("create_taskqueue")
       \/ Goto("release_bar") /\ UNCHANGED hw
    /\ UNCHANGED <<vec, softc, bar, cdev, pci_attached, intr_tq, irqVars, modeVars, filterVars, taskVars>>

------------------------------------------------------------------------------
(* myfirst_msix_setup().                                                    *)

create_taskqueue ==
    /\ pc = "create_taskqueue"
    /\ intr_tq' = TRUE
    /\ Goto("alloc_msix")
    /\ UNCHANGED <<vec, devVars, irqVars, modeVars, filterVars, taskVars>>

\* Fewer vectors than wanted are given back at once.
alloc_msix ==
    /\ pc = "alloc_msix"
    /\ \/ msi' = "msix" /\ Goto("setup_vector") /\ vec' = 0
       \/ Goto("setup_msi") /\ UNCHANGED <<msi, vec>>
    /\ UNCHANGED <<devVars, intr_tq, irqs, handlers, modeVars, filterVars, taskVars>>

Install(v) == irqs' = irqs \cup {v} /\ handlers' = handlers \cup {v}

\* myfirst_msix_setup_vector(), which leaves nothing behind when it fails.
setup_vector ==
    /\ pc = "setup_vector"
    /\ \/ /\ Install(vec)
          /\ IF vec + 1 < MaxVectors
               THEN vec' = vec + 1 /\ UNCHANGED <<pc, intr_mode, num_vectors>>
               ELSE /\ Goto("enable") /\ UNCHANGED vec
                    /\ intr_mode' = "msix" /\ num_vectors' = MaxVectors
       \/ /\ vec' = vec - 1 /\ Goto("unwind")
          /\ UNCHANGED <<irqs, handlers, intr_mode, num_vectors>>
    /\ UNCHANGED <<devVars, intr_tq, msi, admin_filter, unmasked, filterVars, taskVars>>

\* pci_release_msi() refuses while a vector is still allocated.
ReleaseMsi == msi' = IF irqs = {} THEN "none" ELSE msi

\* bus_teardown_intr() takes the handler away, waits for it to return, and the
\* interrupt resource is released.
RemoveHandler(v) ==
    v \in handlers /\ handlers' = handlers \ {v} /\ UNCHANGED <<irqs, vec>>

ReleaseIrq(v) ==
    /\ v \notin handlers /\ at[v] = "idle"
    /\ irqs' = irqs \ {v} /\ vec' = vec - 1 /\ UNCHANGED handlers

\* Slip: the loop stops before vector 0.
unwind_short ==
    /\ pc = "unwind"
    /\ IF vec > 0
         THEN (RemoveHandler(vec) \/ ReleaseIrq(vec)) /\ UNCHANGED <<msi, pc>>
         ELSE ReleaseMsi /\ Goto("setup_msi") /\ UNCHANGED <<irqs, handlers, vec>>
    /\ UNCHANGED <<devVars, intr_tq, modeVars, filterVars, taskVars>>

unwind ==
    /\ pc = "unwind"
    /\ IF vec >= 0
         THEN (RemoveHandler(vec) \/ ReleaseIrq(vec)) /\ UNCHANGED <<msi, pc>>
         ELSE ReleaseMsi /\ Goto("setup_msi") /\ UNCHANGED <<irqs, handlers, vec>>
    /\ UNCHANGED <<devVars, intr_tq, modeVars, filterVars, taskVars>>

\* Without a message, or after a vector that cannot be set up and whose message
\* is given back, INTx is next.
setup_msi ==
    /\ pc = "setup_msi"
    /\ \/ /\ msi = "none"
          /\ admin_filter' = "intr"
          /\ \/ /\ msi' = "msi" /\ Install(Admin)
                /\ intr_mode' = "msi" /\ num_vectors' = 1
                /\ Goto("enable")
             \/ /\ Goto("setup_intx")
                /\ UNCHANGED <<irqVars, intr_mode, num_vectors>>
       \/ /\ Goto("setup_intx")
          /\ UNCHANGED <<irqVars, admin_filter, intr_mode, num_vectors>>
    /\ UNCHANGED <<vec, devVars, intr_tq, unmasked, filterVars, taskVars>>

\* The kernel gives out the INTx line only while no message is reserved.
setup_intx ==
    /\ pc = "setup_intx"
    /\ admin_filter' = "intr"
    /\ \/ /\ msi = "none"
          /\ Install(Admin)
          /\ intr_mode' = "legacy" /\ num_vectors' = 1
          /\ Goto("enable")
       \/ Goto("setup_failed") /\ UNCHANGED <<irqs, handlers, intr_mode, num_vectors>>
    /\ UNCHANGED <<vec, devVars, intr_tq, msi, unmasked, filterVars, taskVars>>

Quiet == queue = {} /\ task = "none"

\* taskqueue_free() lets the thread finish what is queued.
setup_failed ==
    /\ pc = "setup_failed" /\ Quiet
    /\ intr_tq' = FALSE
    /\ Goto("hw_detach")
    /\ UNCHANGED <<vec, devVars, irqVars, modeVars, filterVars, taskVars>>

enable ==
    /\ pc = "enable"
    /\ unmasked' = (unmasked \/ hw)
    /\ Goto("make_dev")
    /\ UNCHANGED <<vec, devVars, intr_tq, irqVars, admin_filter, intr_mode, num_vectors, filterVars, taskVars>>

------------------------------------------------------------------------------
(* The end of attach, and detach.                                           *)

make_dev ==
    /\ pc = "make_dev"
    /\ \/ cdev' = TRUE /\ Goto("publish")
       \/ Goto("mask") /\ UNCHANGED cdev
    /\ UNCHANGED <<vec, softc, bar, hw, pci_attached, intr_tq, irqVars, modeVars, filterVars, taskVars>>

publish ==
    /\ pc = "publish"
    /\ pci_attached' = TRUE
    /\ Goto("attached")
    /\ UNCHANGED <<vec, softc, bar, hw, cdev, intr_tq, irqVars, modeVars, filterVars, taskVars>>

\* A driver that is not busy.
detach ==
    /\ pc = "attached"
    /\ Racing \/ at[Sysctl] = "idle"
    /\ pci_attached' = FALSE
    /\ Goto("destroy_dev")
    /\ UNCHANGED <<vec, softc, bar, hw, cdev, intr_tq, irqVars, modeVars, filterVars, taskVars>>

destroy_dev ==
    /\ pc = "destroy_dev"
    /\ cdev' = FALSE
    /\ Goto("mask")
    /\ UNCHANGED <<vec, softc, bar, hw, pci_attached, intr_tq, irqVars, modeVars, filterVars, taskVars>>

\* Slip: the device is not masked.
mask_nothing ==
    /\ pc = "mask"
    /\ vec' = num_vectors - 1
    /\ Goto("teardown_vectors")
    /\ UNCHANGED <<devVars, intr_tq, irqVars, modeVars, filterVars, taskVars>>

\* myfirst_msix_teardown() begins.
mask ==
    /\ pc = "mask"
    /\ unmasked' = (unmasked /\ ~(hw /\ bar))
    /\ vec' = num_vectors - 1
    /\ Goto("teardown_vectors")
    /\ UNCHANGED <<devVars, intr_tq, irqVars, admin_filter, intr_mode, num_vectors, filterVars, taskVars>>

\* Slip: the task of a vector is drained before its handler is taken away.
drain_first ==
    /\ pc = "teardown_vectors"
    /\ IF vec >= 0
         THEN ((Quiet /\ RemoveHandler(vec)) \/ ReleaseIrq(vec)) /\ UNCHANGED pc
         ELSE Goto("drain") /\ UNCHANGED <<irqs, handlers, vec>>
    /\ UNCHANGED <<devVars, intr_tq, msi, modeVars, filterVars, taskVars>>

\* Slip: the running filter is not waited for.
teardown_without_wait ==
    /\ pc = "teardown_vectors"
    /\ IF vec >= 0
         THEN /\ handlers' = handlers \ {vec} /\ irqs' = irqs \ {vec}
              /\ vec' = vec - 1 /\ UNCHANGED pc
         ELSE Goto("drain") /\ UNCHANGED <<irqs, handlers, vec>>
    /\ UNCHANGED <<devVars, intr_tq, msi, modeVars, filterVars, taskVars>>

teardown_vectors ==
    /\ pc = "teardown_vectors"
    /\ IF vec >= 0
         THEN (RemoveHandler(vec) \/ ReleaseIrq(vec)) /\ UNCHANGED pc
         ELSE Goto("drain") /\ UNCHANGED <<irqs, handlers, vec>>
    /\ UNCHANGED <<devVars, intr_tq, msi, modeVars, filterVars, taskVars>>

\* taskqueue_drain() of the vectors below num_vectors that have a task.
drain ==
    /\ pc = "drain"
    /\ Rx < num_vectors => "rx" \notin queue /\ task # "rx"
    /\ Goto("free_taskqueue")
    /\ UNCHANGED <<vec, devVars, intr_tq, irqVars, modeVars, filterVars, taskVars>>

free_taskqueue ==
    /\ pc = "free_taskqueue" /\ Quiet
    /\ intr_tq' = FALSE
    /\ Goto("release_msi")
    /\ UNCHANGED <<vec, devVars, irqVars, modeVars, filterVars, taskVars>>

release_msi ==
    /\ pc = "release_msi"
    /\ IF intr_mode \in {"msi", "msix"} THEN ReleaseMsi ELSE UNCHANGED msi
    /\ num_vectors' = 0 /\ intr_mode' = "legacy"
    /\ Goto("hw_detach")
    /\ UNCHANGED <<vec, devVars, intr_tq, irqs, handlers, admin_filter, unmasked, filterVars, taskVars>>

\* The labels of a failed attach, and the end of detach.
hw_detach ==
    /\ pc = "hw_detach"
    /\ hw' = FALSE
    /\ Goto("release_bar")
    /\ UNCHANGED <<vec, softc, bar, cdev, pci_attached, intr_tq, irqVars, modeVars, filterVars, taskVars>>

release_bar ==
    /\ pc = "release_bar"
    /\ bar' = FALSE
    /\ Goto("deinit_softc")
    /\ UNCHANGED <<vec, softc, hw, cdev, pci_attached, intr_tq, irqVars, modeVars, filterVars, taskVars>>

deinit_softc ==
    /\ pc = "deinit_softc"
    /\ softc' = FALSE
    /\ Goto("gone")
    /\ UNCHANGED <<vec, bar, hw, cdev, pci_attached, intr_tq, irqVars, modeVars, filterVars, taskVars>>

Config ==
    \/ init_softc \/ alloc_bar \/ hw_attach_pci
    \/ create_taskqueue \/ alloc_msix \/ setup_vector \/ unwind
    \/ setup_msi \/ setup_intx \/ setup_failed \/ enable
    \/ make_dev \/ publish \/ destroy_dev
    \/ mask \/ teardown_vectors \/ drain \/ free_taskqueue \/ release_msi
    \/ hw_detach \/ release_bar \/ deinit_softc

------------------------------------------------------------------------------
(* Filters and tasks.                                                       *)

Call(c, label) == at' = [at EXCEPT ![c] = label]

\* May the filter of vector v be called at all?
Callable(v) == FallbackFires \/ v # Admin \/ admin_filter = "admin"

interrupt(v) ==
    /\ v \in handlers /\ at[v] = "idle" /\ Callable(v)
    /\ Call(v, "filter")
    /\ UNCHANGED <<pc, vec, devVars, intr_tq, irqVars, modeVars, slot, taskVars>>

\* myfirst_intr_simulate_vector_sysctl() writes INTR_STATUS under the lock and
\* then calls the filter without it.
intr_simulate(v) ==
    /\ at[Sysctl] = "idle" /\ Callable(v)
    /\ pc = "attached" /\ hw /\ bar
    /\ Call(Sysctl, "filter") /\ slot' = v
    /\ UNCHANGED <<pc, vec, devVars, intr_tq, irqVars, modeVars, taskVars>>

Slot(c) == IF c = Sysctl THEN slot ELSE c

\* The task that the filter of vector v defers to, if any.
TaskOf(v) == IF v = Rx THEN {"rx"}
             ELSE IF v = Admin /\ admin_filter = "intr" THEN {"data"} ELSE {}

\* A filter acknowledges its interrupt, or finds that it is not its own; the
\* taskqueue is looked up without a lock.
run_filter(c) ==
    /\ at[c] = "filter"
    /\ \/ Call(c, "idle")
       \/ TaskOf(Slot(c)) # {} /\ intr_tq /\ Call(c, "enqueue")
    /\ UNCHANGED <<pc, vec, devVars, intr_tq, irqVars, modeVars, slot, taskVars>>

enqueue_task(c) ==
    /\ at[c] = "enqueue"
    /\ queue' = queue \cup TaskOf(Slot(c))
    /\ Call(c, "idle")
    /\ UNCHANGED <<pc, vec, devVars, intr_tq, irqVars, modeVars, slot, task>>

Filter(c) == run_filter(c) \/ enqueue_task(c)

\* The thread of intr_tq.
run_task(t) ==
    /\ task = "none" /\ t \in queue
    /\ task' = t /\ queue' = queue \ {t}
    /\ UNCHANGED <<pc, vec, devVars, intr_tq, irqVars, modeVars, filterVars>>

\* What the task reads and counts, under the lock, changes nothing here.
end_task ==
    /\ task # "none"
    /\ task' = "none"
    /\ UNCHANGED <<pc, vec, devVars, intr_tq, irqVars, modeVars, filterVars, queue>>

Taskqueue == end_task \/ \E t \in {"rx", "data"} : run_task(t)

------------------------------------------------------------------------------
Next ==
    \/ Config \/ detach
    \/ \E v \in Vectors : interrupt(v) \/ intr_simulate(v)
    \/ \E c \in Contexts : Filter(c)
    \/ Taskqueue

Spec == Init /\ [][Next]_vars

\* Threads and filters run; interrupts, sysctls and the detach need not come.
FairSpec ==
    /\ Spec
    /\ WF_vars(Config) /\ WF_vars(Taskqueue)
    /\ \A c \in Contexts : WF_vars(Filter(c))

------------------------------------------------------------------------------
\* The types of the variables.
MsixTypeOK ==
    /\ vec \in -1 .. MaxVectors - 1 /\ num_vectors \in 0 .. MaxVectors
    /\ \A flag \in {softc, bar, hw, cdev, pci_attached, intr_tq, unmasked} : flag \in BOOLEAN
    /\ msi \in {"none", "msi", "msix"} /\ intr_mode \in {"legacy", "msi", "msix"}
    /\ admin_filter \in {"admin", "intr"}
    /\ handlers \subseteq irqs /\ irqs \subseteq Vectors
    /\ at \in [Contexts -> {"idle", "filter", "enqueue"}] /\ slot \in Vectors
    /\ queue \subseteq {"rx", "data"} /\ task \in {"none", "rx", "data"}

\* Wherever attach fails, and after a detach, the driver holds nothing: no
\* memory, node, taskqueue, vector or handler, and not the device's messages,
\* which the kernel refuses to take back while a vector is held.
NothingLeaks ==
    pc = "gone" =>
        /\ ~softc /\ ~bar /\ ~hw /\ ~cdev /\ ~pci_attached /\ ~intr_tq
        /\ msi = "none" /\ irqs = {} /\ handlers = {}

\* While the device may interrupt, the rung of the ladder that was reached is
\* complete: its messages, one handler for each of its vectors and no other.
UnmaskedMeansHandled ==
    unmasked => /\ num_vectors = IF intr_mode = "msix" THEN MaxVectors ELSE 1
                /\ handlers = 0 .. num_vectors - 1 /\ irqs = handlers
                /\ msi = IF intr_mode = "legacy" THEN "none" ELSE intr_mode
                /\ intr_tq

\* No interrupt and no task outlives what it uses: a filter reads the BAR, it
\* enqueues on the taskqueue it has looked up, and a task takes the lock of the
\* softc.
NobodyUsesWhatIsGone ==
    /\ \A c \in Contexts : /\ at[c] = "filter" => bar
                           /\ at[c] = "enqueue" => intr_tq
    /\ queue # {} \/ task # "none" => intr_tq /\ softc

\* Attach and detach come to an end, however many interrupts arrive meanwhile:
\* what the teardown waits for is never fed again.
ConfigEnds == pc # "attached" ~> pc \in {"attached", "gone"}

\* Every task was set up with TASK_INIT() before it is enqueued.  In the
\* fallback tiers it is not: the filter of Chapter 19 enqueues the task that
\* only the setup of Chapter 19 initializes.
TasksAreInitialized == queue \cup {task} \subseteq {"rx", "none"}
==============================================================================
