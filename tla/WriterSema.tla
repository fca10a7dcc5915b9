------------------------------ MODULE WriterSema ------------------------------
(***************************************************************************)
(* The writer-cap semaphore of the myfirst driver while the device is       *)
(* attached: writers that enter and leave through myfirst_sync.h, blocking  *)
(* or not, and writers_limit sysctls that change the cap meanwhile.  The    *)
(* new limit and its difference to the old one are fixed under sc->mtx; the *)
(* slots of a raise are posted one by one after the unlock, a lowered limit *)
(* takes nothing back.  (Detach's part of the protocol is Lifecycle's.)     *)
(***************************************************************************)
EXTENDS Integers, FiniteSets

CONSTANTS Writers,
          Limits,     \* the values the sysctl is called with
          Default,    \* MYFIRST_WRITERS_DEFAULT
          MayLower,   \* is the limit ever lowered?
          MaxSlots    \* no raise makes more slots than this

ASSUME WriterSemaAssumption ==
    /\ IsFiniteSet(Writers)
    /\ Limits \subseteq Nat \ {0} /\ Default \in Nat \ {0}
    /\ MayLower \in BOOLEAN /\ MaxSlots \in Nat

VARIABLES sema,             \* the value of writers_sema
          writers_limit,
          writers_inflight, \* the drain counter
          pc,               \* each writer's position
          owed              \* slots of a raise that are still to be posted

vars == <<sema, writers_limit, writers_inflight, pc, owed>>

Init ==
    /\ sema = Default /\ writers_limit = Default
    /\ writers_inflight = 0 /\ owed = 0
    /\ pc = [w \in Writers |-> "out"]

Goto(w, label) == pc' = [pc EXCEPT ![w] = label]

writer_enter(w) ==
    /\ pc[w] = "out"
    /\ writers_inflight' = writers_inflight + 1
    /\ Goto(w, "waiting")
    /\ UNCHANGED <<sema, writers_limit, owed>>

\* sema_wait() returns, or sema_trywait() succeeds.
writer_admit(w) ==
    /\ pc[w] = "waiting" /\ sema > 0
    /\ sema' = sema - 1
    /\ Goto(w, "inside")
    /\ UNCHANGED <<writers_limit, writers_inflight, owed>>

\* Slip: the way out of a failed sema_trywait() gives back a slot it never had.
AgainExitPosts == "leaving"

\* Where a failed sema_trywait() goes on: the EAGAIN exit only uncounts.
AgainExit == "uncounting"

writer_again(w) ==
    /\ pc[w] = "waiting" /\ sema = 0
    /\ Goto(w, AgainExit)
    /\ UNCHANGED <<sema, writers_limit, writers_inflight, owed>>

\* The write ends, on whichever of its exits.
writer_leave(w) ==
    /\ pc[w] = "inside"
    /\ Goto(w, "leaving")
    /\ UNCHANGED <<sema, writers_limit, writers_inflight, owed>>

\* The slot goes back first, then the counter goes down.
writer_post(w) ==
    /\ pc[w] = "leaving"
    /\ sema' = sema + 1
    /\ Goto(w, "uncounting")
    /\ UNCHANGED <<writers_limit, writers_inflight, owed>>

\* Slip: every exit counts itself out twice.
UncountTwice == writers_inflight' = writers_inflight - 2

Uncount == writers_inflight' = writers_inflight - 1

writer_uncount(w) ==
    /\ pc[w] = "uncounting"
    /\ Uncount
    /\ Goto(w, "out")
    /\ UNCHANGED <<sema, writers_limit, owed>>

\* Slip: the new limit is posted in full.
ExtraInFull(new) == new

\* The slots a new limit adds: delta, when it is positive.
Extra(new) == IF new > writers_limit THEN new - writers_limit ELSE 0

myfirst_sysctl_writers_limit(new) ==
    /\ MayLower \/ new >= writers_limit
    /\ sema + owed + Extra(new) <= MaxSlots
    /\ writers_limit' = new
    /\ owed' = owed + Extra(new)
    /\ UNCHANGED <<sema, writers_inflight, pc>>

sysctl_post ==
    /\ owed > 0
    /\ sema' = sema + 1
    /\ owed' = owed - 1
    /\ UNCHANGED <<writers_limit, writers_inflight, pc>>

writer(w) ==
    \/ writer_enter(w) \/ writer_admit(w) \/ writer_again(w)
    \/ writer_leave(w) \/ writer_post(w) \/ writer_uncount(w)

Next ==
    \/ \E w \in Writers : writer(w)
    \/ \E new \in Limits : myfirst_sysctl_writers_limit(new)
    \/ sysctl_post

Spec == Init /\ [][Next]_vars

------------------------------------------------------------------------------
\* The writers that hold a slot, and those the drain counter counts.
Holders == {w \in Writers : pc[w] \in {"inside", "leaving"}}
Counted == {w \in Writers : pc[w] # "out"}

WriterSemaTypeOK ==
    /\ sema \in Nat /\ owed \in Nat
    /\ writers_limit \in Nat \ {0}
    /\ writers_inflight \in Nat
    /\ pc \in [Writers -> {"out", "waiting", "inside", "leaving", "uncounting"}]

\* No slot is lost or made up: those in the semaphore, those the writers hold
\* and those a raise has still to post add up to the limit, as long as the limit
\* is only ever raised.
SlotsAccounted ==
    ~MayLower => sema + Cardinality(Holders) + owed = writers_limit

\* Then at most writers_limit writers are in myfirst_write at once
\* (chapter-15.md:1456), however the raises overlap with each other and with
\* the writers.
CapHolds == ~MayLower => Cardinality(Holders) <= writers_limit

\* What detach's myfirst_sync_writers_drain() relies on: once the drain counter
\* is zero no writer is at the semaphore, before it, inside or on its way out.
DrainedMeansOut == writers_inflight = 0 => Counted = {}

\* Whatever the limit is and was, there are never more writers inside than the
\* highest limit that was ever set allows (LOCKING.md:15: "Caps concurrent
\* writers at writers_limit").
NeverAboveEveryLimit ==
    \E limit \in Limits \cup {Default} : Cardinality(Holders) <= limit
==============================================================================
