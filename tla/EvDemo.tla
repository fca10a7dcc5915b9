-------------------------------- MODULE EvDemo ---------------------------------
(***************************************************************************)
(* The evdemo driver (Chapter 35, lab 6): a ring of events that a callout   *)
(* and two sysctls fill, and that read(2), poll(2) and kqueue(2) wait for,  *)
(* with the teardown of the module.                                         *)
(*                                                                          *)
(* A critical section of sc_mtx is one step.  The callout holds sc_mtx      *)
(* around its callback, which takes it again: this is the outcome of a      *)
(* kernel without INVARIANTS, where the mutex recurses and the callback is  *)
(* one critical section; with INVARIANTS the first tick is a panic.         *)
(***************************************************************************)
EXTENDS Integers, Sequences

CONSTANTS Readers,   \* threads in evdemo_read()
          Pollers,   \* threads in poll(2)
          Knotes,    \* EVFILT_READ knotes of a kqueue
          Posters,   \* threads in the trigger and burst sysctls
          Kinds,     \* what tells one event from another
          NoEvent,
          QueueSize, \* EVDEMO_QUEUE_SIZE
          Racing     \* may a sysctl run while the module is unloaded?

ASSUME EvDemoAssumption ==
    QueueSize \in Nat \ {0} /\ NoEvent \notin Kinds /\ Racing \in BOOLEAN

VARIABLES
    queue, qhead, qtail, nevents, \* the ring of the softc
    detaching,
    rpc, ev,     \* each reader: where it is, and its local copy of an event
    selecting,   \* the pollers asleep on sc_rsel
    knotes,      \* the knotes attached to sc_rsel.si_note,
    active,      \* and those on their kqueue's list of events to report
    armed,       \* is sc_callout scheduled?
    ppc,         \* each poster: where it is
    phase        \* where MOD_UNLOAD is

ringVars == <<queue, qhead, qtail, nevents>>
readVars == <<rpc, ev>>
noteVars == <<knotes, active>>
vars == <<ringVars, detaching, readVars, selecting, noteVars, armed, ppc, phase>>

Init ==
    /\ queue = [i \in 0 .. QueueSize - 1 |-> NoEvent]
    /\ qhead = 0 /\ qtail = 0 /\ nevents = 0
    /\ detaching = FALSE
    /\ rpc = [r \in Readers |-> "user"] /\ ev = [r \in Readers |-> NoEvent]
    /\ selecting = {} /\ knotes = {} /\ active = {}
    /\ armed = TRUE
    /\ ppc = [p \in Posters |-> "idle"]
    /\ phase = "loaded"

\* The softc is there until MOD_UNLOAD has freed it.  The node stays: nothing
\* calls destroy_dev(), so that the methods can be entered at any time.  What a
\* thread does with a freed softc is not modelled: it stops at its next use.
Gone == phase \in {"cleared", "unloaded"}

AtRead(r, label) == rpc' = [rpc EXCEPT ![r] = label]
AtPost(p, label) == ppc' = [ppc EXCEPT ![p] = label]

------------------------------------------------------------------------------
(* The ring and the wakeups.                                                *)

Empty == nevents = 0

\* Slip: a full ring overwrites its oldest event and keeps its head.
enqueue_keeps_head(e) ==
    /\ queue' = [queue EXCEPT ![qtail] = e]
    /\ qtail' = (qtail + 1) % QueueSize
    /\ nevents' = IF nevents = QueueSize THEN nevents ELSE nevents + 1
    /\ UNCHANGED qhead

enqueue(e) ==
    /\ queue' = [queue EXCEPT ![qtail] = e]
    /\ qtail' = (qtail + 1) % QueueSize
    /\ IF nevents = QueueSize
         THEN qhead' = (qhead + 1) % QueueSize /\ UNCHANGED nevents
         ELSE nevents' = nevents + 1 /\ UNCHANGED qhead

dequeue(r) ==
    /\ ev' = [ev EXCEPT ![r] = queue[qhead]]
    /\ qhead' = (qhead + 1) % QueueSize
    /\ nevents' = nevents - 1
    /\ UNCHANGED <<queue, qtail>>

Asleep == {r \in Readers : rpc[r] = "asleep"}

\* Slip: cv_signal(), which wakes one sleeper.
WakeOne ==
    IF Asleep = {} THEN UNCHANGED rpc ELSE \E r \in Asleep : AtRead(r, "loop")

\* cv_broadcast(): the sleepers go back to the loop of evdemo_read().
WakeReaders == rpc' = [r \in Readers |-> IF r \in Asleep THEN "loop" ELSE rpc[r]]

\* KNOTE_LOCKED(): evdemo_kqread() returns 1 for a non-empty ring and for a
\* detaching device, which is when it is called from here.
ActivateKnotes == active' = knotes /\ UNCHANGED knotes

\* evdemo_post_event() up to mtx_unlock().
PostLocked(e) == enqueue(e) /\ WakeReaders /\ ActivateKnotes /\ UNCHANGED ev

\* selwakeup(): every recorded poller looks again.
Selwakeup == selecting' = {}

------------------------------------------------------------------------------
(* evdemo_trigger_sysctl() and evdemo_burst_sysctl().                       *)

\* The global softc pointer is read, without a lock.
sysctl_enter(p) ==
    /\ ppc[p] = "idle" /\ phase # "unloaded"
    /\ Racing \/ phase = "loaded"
    /\ AtPost(p, "post")
    /\ UNCHANGED <<ringVars, detaching, readVars, selecting, noteVars, armed, phase>>

post_event(p) ==
    /\ ppc[p] = "post" /\ ~Gone
    /\ \E e \in Kinds : PostLocked(e)
    /\ AtPost(p, "selwakeup")
    /\ UNCHANGED <<detaching, selecting, armed, phase>>

\* Slip: the pollers are woken only when a process has asked for signals.
selwakeup_if_async(p) ==
    /\ ppc[p] = "selwakeup" /\ ~Gone
    /\ \E next \in {"sigio", "post", "idle"} :
         /\ AtPost(p, next)
         /\ IF next = "sigio" THEN Selwakeup ELSE UNCHANGED selecting
    /\ UNCHANGED <<ringVars, detaching, readVars, noteVars, armed, phase>>

\* After the unlock; FIOASYNC decides about the signal, the count of a burst
\* about another event.
selwakeup(p) ==
    /\ ppc[p] = "selwakeup" /\ ~Gone
    /\ Selwakeup
    /\ \E next \in {"sigio", "post", "idle"} : AtPost(p, next)
    /\ UNCHANGED <<ringVars, detaching, readVars, noteVars, armed, phase>>

\* pgsigio() and the count of it under the lock.
sigio(p) ==
    /\ ppc[p] = "sigio" /\ ~Gone
    /\ \E next \in {"post", "idle"} : AtPost(p, next)
    /\ UNCHANGED <<ringVars, detaching, readVars, selecting, noteVars, armed, phase>>

\* evdemo_callout(), which schedules itself again.
evdemo_callout ==
    /\ armed /\ ~Gone
    /\ \E e \in Kinds : PostLocked(e)
    /\ Selwakeup
    /\ UNCHANGED <<detaching, armed, ppc, phase>>

------------------------------------------------------------------------------
(* read(2), poll(2) and kqueue(2).                                          *)

read_enter(r) ==
    /\ rpc[r] = "user"
    /\ AtRead(r, "loop")
    /\ UNCHANGED <<ringVars, detaching, ev, selecting, noteVars, armed, ppc, phase>>

\* One turn of the loop of evdemo_read() under the lock.
read_loop(r) ==
    /\ rpc[r] = "loop" /\ ~Gone
    /\ \/ /\ detaching
          /\ AtRead(r, "user") /\ UNCHANGED <<ringVars, ev>>
       \/ /\ ~detaching /\ ~Empty
          /\ dequeue(r) /\ AtRead(r, "copy")
       \/ /\ ~detaching /\ Empty          \* cv_wait_sig(), or EAGAIN
          /\ \E next \in {"asleep", "user"} : AtRead(r, next)
          /\ UNCHANGED <<ringVars, ev>>
    /\ UNCHANGED <<detaching, selecting, noteVars, armed, ppc, phase>>

\* A signal ends the wait.
read_signal(r) ==
    /\ rpc[r] = "asleep" /\ ~Gone
    /\ AtRead(r, "user")
    /\ UNCHANGED <<ringVars, detaching, ev, selecting, noteVars, armed, ppc, phase>>

\* uiomove(): there is room for another event, or the call ends; after a fault
\* the event is lost.
read_copy(r) ==
    /\ rpc[r] = "copy"
    /\ \E next \in {"loop", "user"} : AtRead(r, next)
    /\ ev' = [ev EXCEPT ![r] = NoEvent]
    /\ UNCHANGED <<ringVars, detaching, selecting, noteVars, armed, ppc, phase>>

\* evdemo_poll() for POLLIN, and the thread that goes to sleep on its answer.
\* Whoever is told of data or of the hangup comes back by itself.
poll_sleep(t) ==
    /\ ~Gone /\ t \notin selecting
    /\ Empty /\ ~detaching
    /\ selecting' = selecting \cup {t}
    /\ UNCHANGED <<ringVars, detaching, readVars, noteVars, armed, ppc, phase>>

\* poll(2) times out or is interrupted.
poll_expires(t) ==
    /\ t \in selecting
    /\ selecting' = selecting \ {t}
    /\ UNCHANGED <<ringVars, detaching, readVars, noteVars, armed, ppc, phase>>

\* evdemo_kqfilter(); the kernel then asks evdemo_kqread(), under the lock.
knote_attach(k) ==
    /\ ~Gone /\ k \notin knotes
    /\ knotes' = knotes \cup {k}
    /\ active' = IF ~Empty \/ detaching THEN active \cup {k} ELSE active
    /\ UNCHANGED <<ringVars, detaching, readVars, selecting, armed, ppc, phase>>

\* kevent(2) looks at an active knote: one whose filter says no is put back.
knote_scan(k) ==
    /\ k \in active /\ ~Gone /\ Empty /\ ~detaching
    /\ active' = active \ {k}
    /\ UNCHANGED <<ringVars, detaching, readVars, selecting, knotes, armed, ppc, phase>>

\* evdemo_kqdetach(), when the knote is deleted or the file is closed.
knote_detach(k) ==
    /\ k \in knotes /\ ~Gone
    /\ knotes' = knotes \ {k} /\ active' = active \ {k}
    /\ UNCHANGED <<ringVars, detaching, readVars, selecting, armed, ppc, phase>>

------------------------------------------------------------------------------
(* MOD_UNLOAD.                                                              *)

WakeForDetach == WakeReaders

unload_begin ==
    /\ phase = "loaded"
    /\ Racing \/ \A p \in Posters : ppc[p] = "idle"
    /\ detaching' = TRUE
    /\ WakeForDetach /\ ActivateKnotes
    /\ phase' = "selwakeup"
    /\ UNCHANGED <<ringVars, ev, selecting, armed, ppc>>

unload_selwakeup ==
    /\ phase = "selwakeup"
    /\ Selwakeup
    /\ phase' = "callout"
    /\ UNCHANGED <<ringVars, detaching, readVars, noteVars, armed, ppc>>

\* Slip: the callout is not drained.
unload_without_drain ==
    /\ phase = "callout"
    /\ phase' = "destroy_dev"
    /\ UNCHANGED <<ringVars, detaching, readVars, selecting, noteVars, armed, ppc>>

\* callout_drain(): the callback is one critical section, so that none is
\* half done here.
unload_callout ==
    /\ phase = "callout"
    /\ armed' = FALSE
    /\ phase' = "destroy_dev"
    /\ UNCHANGED <<ringVars, detaching, readVars, selecting, noteVars, ppc>>

\* destroy_dev_drain() waits until every device of a cdevsw has been destroyed.
\* It is given a cdev for the cdevsw, and nothing has called destroy_dev(): no
\* node is removed and nobody inside is waited for.  Whatever it takes for the
\* list of devices, it finds empty and returns, or sleeps for ever.
unload_destroy_dev ==
    /\ phase = "destroy_dev"
    /\ phase' \in {"clear", "hung"}
    /\ UNCHANGED <<ringVars, detaching, readVars, selecting, noteVars, armed, ppc>>

\* knlist_clear(), seldrain(), knlist_destroy() and funsetown()
unload_clear ==
    /\ phase = "clear"
    /\ Selwakeup
    /\ knotes' = {} /\ active' = {}
    /\ phase' = "free"
    /\ UNCHANGED <<ringVars, detaching, readVars, armed, ppc>>

\* The condition variable and the mutex are destroyed and the softc is freed.
unload_free ==
    /\ phase = "free"
    /\ phase' = "cleared"
    /\ UNCHANGED <<ringVars, detaching, readVars, selecting, noteVars, armed, ppc>>

\* evdemo_sc_global = NULL
unload_end ==
    /\ phase = "cleared"
    /\ phase' = "unloaded"
    /\ UNCHANGED <<ringVars, detaching, readVars, selecting, noteVars, armed, ppc>>

unload ==
    \/ unload_selwakeup \/ unload_callout \/ unload_destroy_dev
    \/ unload_clear \/ unload_free \/ unload_end

------------------------------------------------------------------------------
Reader(r) == read_loop(r) \/ read_copy(r)

Next ==
    \/ \E p \in Posters : sysctl_enter(p) \/ post_event(p) \/ selwakeup(p) \/ sigio(p)
    \/ evdemo_callout
    \/ \E r \in Readers : read_enter(r) \/ read_signal(r) \/ Reader(r)
    \/ \E t \in Pollers : poll_sleep(t) \/ poll_expires(t)
    \/ \E k \in Knotes : knote_attach(k) \/ knote_scan(k) \/ knote_detach(k)
    \/ unload_begin \/ unload

Spec == Init /\ [][Next]_vars

\* A runnable thread gets on with its call.  Nothing is assumed of what may or
\* may not happen: calls, signals, expiries, ticks and the unload itself.
FairSpec ==
    /\ Spec
    /\ \A r \in Readers : WF_vars(Reader(r))
    /\ WF_vars(unload)

------------------------------------------------------------------------------
\* The types of the variables.
EvDemoTypeOK ==
    /\ queue \in [0 .. QueueSize - 1 -> Kinds \cup {NoEvent}]
    /\ qhead \in 0 .. QueueSize - 1 /\ qtail \in 0 .. QueueSize - 1
    /\ nevents \in 0 .. QueueSize
    /\ detaching \in BOOLEAN /\ armed \in BOOLEAN
    /\ rpc \in [Readers -> {"user", "loop", "asleep", "copy"}]
    /\ ev \in [Readers -> Kinds \cup {NoEvent}]
    /\ selecting \subseteq Pollers /\ active \subseteq knotes /\ knotes \subseteq Knotes
    /\ ppc \in [Posters -> {"idle", "post", "selwakeup", "sigio"}]
    /\ phase \in {"loaded", "selwakeup", "callout", "destroy_dev", "hung",
                  "clear", "free", "cleared", "unloaded"}

\* The events in the order they arrived.
Queued == [i \in 1 .. nevents |-> queue[(qhead + i - 1) % QueueSize]]

Events == INSTANCE EventQueue WITH events <- Queued, Capacity <- QueueSize

\* The ring implements the bounded queue that drops its oldest event: whatever
\* the head and the wrap, a post or a read does to the queued events and to the
\* reader's copy what the abstract queue does.
ImplementsEventQueue == Events!QueueSpec

\* Is a call of selwakeup() on its way?
WakeupDue == phase = "selwakeup" \/ \E p \in Posters : ppc[p] = "selwakeup"

\* Whichever way somebody waits for the device, no event and no unload passes
\* by: a sleeper of the condition variable and an attached knote that reports
\* nothing mean an empty ring of a live device, and a poller sleeps beside an
\* event only while the selwakeup() that follows the unlock is still to come.
NobodyMissesAnEvent ==
    /\ Asleep # {} \/ knotes # active => Empty /\ ~detaching
    /\ selecting # {} => WakeupDue \/ (Empty /\ ~detaching)

\* What MOD_UNLOAD does achieve before it frees the softc: the callout is not
\* scheduled again, and nobody waits on its condition variable or its selinfo,
\* whoever comes in beside it.
FreedSoftcHasNoWaiters == Gone => ~armed /\ Asleep = {} /\ selecting = {}

\* What a module that frees its softc needs beside that, and what does not hold
\* here (see EvDemoRacing.cfg): no thread is left in a method and no knote on
\* the freed list,
NoMethodAfterFree == Gone => knotes = {} /\ \A r \in Readers : rpc[r] = "user"

\* and no thread in a sysctl, which has read the pointer to it.
NoSysctlAfterFree == Gone => \A p \in Posters : ppc[p] = "idle"

\* An unload that has begun sends every reader it finds, or that still comes,
\* back out of evdemo_read(): the one broadcast reaches all that sleep, no
\* reader goes to sleep again, and so it is whether or not the unload gets past
\* destroy_dev_drain().
UnloadSendsReadersAway ==
    \A r \in Readers : detaching /\ rpc[r] # "user" ~> rpc[r] = "user" \/ Gone
==============================================================================
