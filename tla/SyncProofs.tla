------------------------------ MODULE SyncProofs ------------------------------
(***************************************************************************)
(* The three small protocols of Chapters 13 and 15 that share nothing but   *)
(* their driver: the writer-cap semaphore, the watchdog with its recovery   *)
(* task, and the statistics cache.                                          *)
(*                                                                         *)
(* For every finite set of writers, every set of limits and every default:  *)
(* while the limit is only raised, no slot of the writer-cap semaphore is   *)
(* lost or made up and the cap holds; and a drain counter of zero always    *)
(* means that no writer is anywhere near the semaphore.  The argument is    *)
(* one of counting: a writer's step changes the set of slot holders, or the *)
(* set of counted writers, by that writer alone, and two lemmas turn this   *)
(* into plus or minus one on the cardinalities.                             *)
(*                                                                         *)
(* For any number of sysctl handlers and any buffer size, the watchdog's    *)
(* recovery_in_progress flag is set exactly while a recovery waits or       *)
(* works, and its callout gets out of step with the interval only when one  *)
(* handler overtakes another.                                               *)
(*                                                                         *)
(* For any number of readers, and wherever ticks is when the device         *)
(* attaches, the statistics cache gives fresh answers and refreshes once.   *)
(***************************************************************************)
EXTENDS WriterSema, StatsCache, Watchdog, FiniteSetTheorems, TLAPS

\* The drain counter counts the writers between enter and leave: what makes
\* DrainedMeansOut inductive.
InflightCounted == writers_inflight = Cardinality(Counted)

SemaInv == WriterSemaTypeOK /\ SlotsAccounted /\ InflightCounted

\* The sets that are counted are finite.
LEMMA CountsAreNat ==
    /\ IsFiniteSet(Holders) /\ Cardinality(Holders) \in Nat
    /\ IsFiniteSet(Counted) /\ Cardinality(Counted) \in Nat
  <1>1. Holders \in SUBSET Writers /\ Counted \in SUBSET Writers
    BY DEF Holders, Counted
  <1>2. IsFiniteSet(Holders) /\ IsFiniteSet(Counted)
    BY <1>1, WriterSemaAssumption, FS_Subset
  <1> QED
    BY <1>2, FS_CardinalityType

\* What moving one writer to another position does to the number of holders.
LEMMA HoldersMove ==
    ASSUME WriterSemaTypeOK, NEW w \in Writers, NEW label, Goto(w, label)
    PROVE  LET before == w \in Holders
               after  == label \in {"inside", "leaving"}
           IN  /\ before /\ after => Cardinality(Holders') = Cardinality(Holders)
               /\ ~before /\ ~after => Cardinality(Holders') = Cardinality(Holders)
               /\ ~before /\ after
                    => Cardinality(Holders') = Cardinality(Holders) + 1
               /\ before /\ ~after
                    => Cardinality(Holders') = Cardinality(Holders) - 1
  <1> DEFINE after == label \in {"inside", "leaving"}
  <1>1. Holders' = IF after THEN Holders \cup {w} ELSE Holders \ {w}
    BY DEF WriterSemaTypeOK, Goto, Holders
  <1>2. IsFiniteSet(Holders)
    BY CountsAreNat
  <1>3. /\ Cardinality(Holders \cup {w}) =
              IF w \in Holders THEN Cardinality(Holders) ELSE Cardinality(Holders) + 1
        /\ Cardinality(Holders \ {w}) =
              IF w \in Holders THEN Cardinality(Holders) - 1 ELSE Cardinality(Holders)
    BY <1>2, FS_AddElement, FS_RemoveElement
  <1> HIDE DEF after
  <1>4. /\ w \in Holders /\ after => Cardinality(Holders') = Cardinality(Holders)
        /\ w \notin Holders /\ ~after => Cardinality(Holders') = Cardinality(Holders)
        /\ w \notin Holders /\ after
             => Cardinality(Holders') = Cardinality(Holders) + 1
        /\ w \in Holders /\ ~after
             => Cardinality(Holders') = Cardinality(Holders) - 1
    BY <1>1, <1>3
  <1> QED
    BY <1>4 DEF after

\* The same for the number of counted writers.
LEMMA CountedMove ==
    ASSUME WriterSemaTypeOK, NEW w \in Writers, NEW label, Goto(w, label)
    PROVE  LET before == w \in Counted
               after  == label # "out"
           IN  /\ before /\ after => Cardinality(Counted') = Cardinality(Counted)
               /\ ~before /\ after
                    => Cardinality(Counted') = Cardinality(Counted) + 1
               /\ before /\ ~after
                    => Cardinality(Counted') = Cardinality(Counted) - 1
  <1> DEFINE after == label # "out"
  <1>1. Counted' = IF after THEN Counted \cup {w} ELSE Counted \ {w}
    BY DEF WriterSemaTypeOK, Goto, Counted
  <1>2. IsFiniteSet(Counted)
    BY CountsAreNat
  <1>3. /\ Cardinality(Counted \cup {w}) =
              IF w \in Counted THEN Cardinality(Counted) ELSE Cardinality(Counted) + 1
        /\ Cardinality(Counted \ {w}) =
              IF w \in Counted THEN Cardinality(Counted) - 1 ELSE Cardinality(Counted)
    BY <1>2, FS_AddElement, FS_RemoveElement
  <1> HIDE DEF after
  <1>4. /\ w \in Counted /\ after => Cardinality(Counted') = Cardinality(Counted)
        /\ w \notin Counted /\ after
             => Cardinality(Counted') = Cardinality(Counted) + 1
        /\ w \in Counted /\ ~after
             => Cardinality(Counted') = Cardinality(Counted) - 1
    BY <1>1, <1>3
  <1> QED
    BY <1>4 DEF after

\* After the move the counted writers are still finitely many.
LEMMA CountedFinite ==
    ASSUME WriterSemaTypeOK, NEW w \in Writers, NEW label, Goto(w, label)
    PROVE  Cardinality(Counted') \in Nat
  <1>1. Counted' \in SUBSET Writers
    BY DEF Counted
  <1> QED
    BY <1>1, WriterSemaAssumption, FS_Subset, FS_CardinalityType

LEMMA SemaInit == Init => SemaInv
  <1> SUFFICES ASSUME Init PROVE SemaInv
    OBVIOUS
  <1>1. Holders = {} /\ Counted = {}
    BY DEF Init, Holders, Counted
  <1>2. Cardinality(Holders) = 0 /\ Cardinality(Counted) = 0
    BY <1>1, FS_EmptySet
  <1>3. WriterSemaTypeOK
    BY WriterSemaAssumption DEF Init, WriterSemaTypeOK
  <1>4. SlotsAccounted
    BY <1>2, WriterSemaAssumption DEF Init, SlotsAccounted
  <1>5. InflightCounted
    BY <1>2 DEF Init, InflightCounted
  <1> QED
    BY <1>3, <1>4, <1>5 DEF SemaInv

\* One step per operation: what it does to the number of holders (plus one at
\* admission, minus one at the post) it does the other way round to the free and
\* owed slots.
LEMMA SemaNext == SemaInv /\ [Next]_vars => SemaInv'
  <1> SUFFICES ASSUME SemaInv, [Next]_vars PROVE SemaInv'
    OBVIOUS
  <1>0. /\ WriterSemaTypeOK /\ SlotsAccounted /\ InflightCounted
        /\ Cardinality(Holders) \in Nat /\ Cardinality(Counted) \in Nat
    BY CountsAreNat DEF SemaInv
  <1> USE <1>0
  <1>1. ASSUME NEW w \in Writers, writer_enter(w) PROVE SemaInv'
    <2>1. /\ w \notin Holders /\ w \notin Counted /\ Goto(w, "waiting")
      BY <1>1 DEF writer_enter, Holders, Counted
    <2>2. Cardinality(Holders') = Cardinality(Holders)
      BY <2>1, HoldersMove
    <2>3. Cardinality(Counted') = Cardinality(Counted) + 1
      BY <2>1, CountedMove
    <2>4. WriterSemaTypeOK'
      BY <1>1 DEF writer_enter, Goto, WriterSemaTypeOK
    <2> QED
      BY <1>1, <2>2, <2>3, <2>4
      DEF writer_enter, SemaInv, SlotsAccounted, InflightCounted
  <1>2. ASSUME NEW w \in Writers, writer_admit(w) PROVE SemaInv'
    <2>1. w \notin Holders /\ w \in Counted /\ Goto(w, "inside")
      BY <1>2 DEF writer_admit, Holders, Counted
    <2>2. Cardinality(Holders') = Cardinality(Holders) + 1
      BY <2>1, HoldersMove
    <2>3. Cardinality(Counted') = Cardinality(Counted)
      BY <2>1, CountedMove
    <2>4. WriterSemaTypeOK'
      BY <1>2 DEF writer_admit, Goto, WriterSemaTypeOK
    <2>5. SlotsAccounted'
      BY <1>2, <2>2 DEF writer_admit, SlotsAccounted, WriterSemaTypeOK
    <2> QED
      BY <1>2, <2>3, <2>4, <2>5 DEF writer_admit, SemaInv, InflightCounted
  <1>3. ASSUME NEW w \in Writers, writer_again(w) PROVE SemaInv'
    <2>1. w \notin Holders /\ w \in Counted /\ Goto(w, "uncounting")
      BY <1>3 DEF writer_again, AgainExit, Holders, Counted
    <2>2. Cardinality(Holders') = Cardinality(Holders)
      BY <2>1, HoldersMove
    <2>3. Cardinality(Counted') = Cardinality(Counted)
      BY <2>1, CountedMove
    <2>4. WriterSemaTypeOK'
      BY <1>3 DEF writer_again, AgainExit, Goto, WriterSemaTypeOK
    <2> QED
      BY <1>3, <2>2, <2>3, <2>4
      DEF writer_again, SemaInv, SlotsAccounted, InflightCounted
  <1>4. ASSUME NEW w \in Writers, writer_leave(w) PROVE SemaInv'
    <2>1. w \in Holders /\ w \in Counted /\ Goto(w, "leaving")
      BY <1>4 DEF writer_leave, Holders, Counted
    <2>2. Cardinality(Holders') = Cardinality(Holders)
      BY <2>1, HoldersMove
    <2>3. Cardinality(Counted') = Cardinality(Counted)
      BY <2>1, CountedMove
    <2>4. WriterSemaTypeOK'
      BY <1>4 DEF writer_leave, Goto, WriterSemaTypeOK
    <2> QED
      BY <1>4, <2>2, <2>3, <2>4
      DEF writer_leave, SemaInv, SlotsAccounted, InflightCounted
  <1>5. ASSUME NEW w \in Writers, writer_post(w) PROVE SemaInv'
    <2>1. w \in Holders /\ w \in Counted /\ Goto(w, "uncounting")
      BY <1>5 DEF writer_post, Holders, Counted
    <2>2. Cardinality(Holders') = Cardinality(Holders) - 1
      BY <2>1, HoldersMove
    <2>3. Cardinality(Counted') = Cardinality(Counted)
      BY <2>1, CountedMove
    <2>4. WriterSemaTypeOK'
      BY <1>5 DEF writer_post, Goto, WriterSemaTypeOK
    <2>5. SlotsAccounted'
      BY <1>5, <2>2 DEF writer_post, SlotsAccounted, WriterSemaTypeOK
    <2> QED
      BY <1>5, <2>3, <2>4, <2>5 DEF writer_post, SemaInv, InflightCounted
  <1>6. ASSUME NEW w \in Writers, writer_uncount(w) PROVE SemaInv'
    <2>1. w \notin Holders /\ w \in Counted /\ Goto(w, "out")
      BY <1>6 DEF writer_uncount, Holders, Counted
    <2>2. Cardinality(Holders') = Cardinality(Holders)
      BY <2>1, HoldersMove
    <2>3. Cardinality(Counted') = Cardinality(Counted) - 1
      BY <2>1, CountedMove
    <2>4. InflightCounted'
      BY <1>6, <2>3 DEF writer_uncount, Uncount, InflightCounted
    <2>5. writers_inflight' \in Nat
      BY <2>1, <2>4, CountedFinite DEF InflightCounted
    <2>6. WriterSemaTypeOK'
      BY <1>6, <2>5 DEF writer_uncount, Goto, WriterSemaTypeOK
    <2> QED
      BY <1>6, <2>2, <2>4, <2>6 DEF writer_uncount, SemaInv, SlotsAccounted
  <1>7. ASSUME NEW new \in Limits, myfirst_sysctl_writers_limit(new) PROVE SemaInv'
    <2>1. new \in Nat \ {0} /\ MayLower \in BOOLEAN
      BY WriterSemaAssumption
    <2>2. Holders' = Holders /\ Counted' = Counted
      BY <1>7 DEF myfirst_sysctl_writers_limit, Holders, Counted
    <2>3. WriterSemaTypeOK'
      BY <1>7, <2>1 DEF myfirst_sysctl_writers_limit, Extra, WriterSemaTypeOK
    <2>4. SlotsAccounted'
      BY <1>7, <2>1, <2>2
      DEF myfirst_sysctl_writers_limit, Extra, SlotsAccounted, WriterSemaTypeOK
    <2> QED
      BY <1>7, <2>2, <2>3, <2>4
      DEF myfirst_sysctl_writers_limit, SemaInv, InflightCounted
  <1>8. CASE sysctl_post
    <2>1. Holders' = Holders /\ Counted' = Counted
      BY <1>8 DEF sysctl_post, Holders, Counted
    <2>2. WriterSemaTypeOK'
      BY <1>8 DEF sysctl_post, WriterSemaTypeOK
    <2>3. SlotsAccounted'
      BY <1>8, <2>1 DEF sysctl_post, SlotsAccounted, WriterSemaTypeOK
    <2> QED
      BY <1>8, <2>1, <2>2, <2>3 DEF sysctl_post, SemaInv, InflightCounted
  <1>9. CASE UNCHANGED vars
    BY <1>9 DEF vars, SemaInv, WriterSemaTypeOK, SlotsAccounted,
                InflightCounted, Holders, Counted
  <1> QED
    BY <1>1, <1>2, <1>3, <1>4, <1>5, <1>6, <1>7, <1>8, <1>9 DEF Next, writer

LEMMA SemaInvariant == Spec => []SemaInv
  BY SemaInit, SemaNext, PTL DEF Spec

\* The slots in the semaphore, those writers hold and those a raise still owes
\* add up to writers_limit (myfirst_sync_writer_enter, _leave and the sysctl).
THEOREM SemaSlotsAccounted == Spec => []SlotsAccounted
  <1>1. SemaInv => SlotsAccounted
    BY DEF SemaInv
  <1> QED
    BY <1>1, SemaInvariant, PTL

\* At most writers_limit writers are inside myfirst_write() at once, however
\* raises of the limit and writers overlap.
THEOREM SemaCapHolds == Spec => []CapHolds
  <1>1. SemaInv => CapHolds
    BY CountsAreNat DEF SemaInv, SlotsAccounted, CapHolds, WriterSemaTypeOK
  <1> QED
    BY <1>1, SemaInvariant, PTL

\* When myfirst_sync_writers_drain() sees zero, no writer is left between the
\* first line of myfirst_sync_writer_enter() and the last one of _leave(): the
\* semaphore can be destroyed as far as writers go, lowered limits included.
THEOREM SemaDrainedMeansOut == Spec => []DrainedMeansOut
  <1>1. SemaInv => DrainedMeansOut
    BY CountsAreNat, FS_EmptySet DEF SemaInv, InflightCounted, DrainedMeansOut
  <1> QED
    BY <1>1, SemaInvariant, PTL

------------------------------------------------------------------------------
(* The watchdog.                                                            *)

LEMMA WatchdogTypeInit == WatchdogInit => WatchdogTypeOK
  <1> SUFFICES ASSUME WatchdogInit PROVE WatchdogTypeOK
    OBVIOUS
  <1>1. /\ handler_pc \in [Handlers -> {"idle", "copyin"}]
        /\ old \in [Handlers -> BOOLEAN]
    BY DEF WatchdogInit
  <1> QED
    BY <1>1 DEF WatchdogInit, WatchdogTypeOK

LEMMA WatchdogTypeNext ==
    ASSUME WatchdogTypeOK, [WatchdogNext]_watchdogVars
    PROVE  WatchdogTypeOK'
  <1> USE DEF WatchdogTypeOK, sysctlVars, timerVars, recoveryVars
  <1>1. CASE transfer
    BY <1>1 DEF transfer
  <1>2. ASSUME NEW h \in Handlers, sysctl_read(h) PROVE WatchdogTypeOK'
    BY <1>2 DEF sysctl_read
  <1>3. ASSUME NEW h \in Handlers, sysctl_return(h) PROVE WatchdogTypeOK'
    BY <1>3 DEF sysctl_return
  <1>4. ASSUME NEW h \in Handlers, NEW new \in BOOLEAN, sysctl_set(h, new)
        PROVE  WatchdogTypeOK'
    <2>1. armed' \in BOOLEAN
      BY <1>4 DEF sysctl_set, Rescheduled
    <2>2. last_used' \in Nat
      BY <1>4 DEF sysctl_set
    <2> QED
      BY <1>4, <2>1, <2>2 DEF sysctl_set
  <1>5. CASE myfirst_watchdog
    BY <1>5 DEF myfirst_watchdog, Trigger
  <1>6. CASE recovery_start
    BY <1>6 DEF recovery_start
  <1>7. CASE myfirst_recovery_task
    BY <1>7 DEF myfirst_recovery_task
  <1>8. CASE recovery_end
    BY <1>8 DEF recovery_end
  <1>9. CASE UNCHANGED watchdogVars
    BY <1>9 DEF watchdogVars
  <1> QED
    BY <1>1, <1>2, <1>3, <1>4, <1>5, <1>6, <1>7, <1>8, <1>9
    DEF WatchdogNext, taskqueue_thread

\* Only the watchdog and the taskqueue thread touch the flag, the queue and the
\* task; the sysctls and the transfers leave them alone.
LEMMA FlagNext == WatchdogTypeOK /\ FlagMeansRecovery /\ [WatchdogNext]_watchdogVars
                    => FlagMeansRecovery'
  <1> SUFFICES ASSUME WatchdogTypeOK, FlagMeansRecovery, [WatchdogNext]_watchdogVars
               PROVE  FlagMeansRecovery'
    OBVIOUS
  <1>1. CASE UNCHANGED recoveryVars
    BY <1>1 DEF recoveryVars, FlagMeansRecovery
  <1>2. CASE myfirst_watchdog
    BY <1>2 DEF myfirst_watchdog, Trigger, FlagMeansRecovery, WatchdogTypeOK
  <1>3. CASE recovery_start
    BY <1>3 DEF recovery_start, FlagMeansRecovery, WatchdogTypeOK
  <1>4. CASE myfirst_recovery_task
    BY <1>4 DEF myfirst_recovery_task, FlagMeansRecovery, WatchdogTypeOK
  <1>5. CASE recovery_end
    BY <1>5 DEF recovery_end, FlagMeansRecovery, WatchdogTypeOK
  <1>6. CASE transfer
    BY <1>1, <1>6 DEF transfer
  <1>7. ASSUME NEW h \in Handlers, sysctl_read(h) PROVE FlagMeansRecovery'
    BY <1>1, <1>7 DEF sysctl_read
  <1>8. ASSUME NEW h \in Handlers, sysctl_return(h) PROVE FlagMeansRecovery'
    BY <1>1, <1>8 DEF sysctl_return
  <1>9. ASSUME NEW h \in Handlers, NEW new \in BOOLEAN, sysctl_set(h, new)
        PROVE  FlagMeansRecovery'
    BY <1>1, <1>9 DEF sysctl_set
  <1>10. CASE UNCHANGED watchdogVars
    BY <1>1, <1>10 DEF watchdogVars
  <1> QED
    BY <1>2, <1>3, <1>4, <1>5, <1>6, <1>7, <1>8, <1>9, <1>10
    DEF WatchdogNext, taskqueue_thread

\* Never two recoveries that wait or work, and never a flag without one: of
\* myfirst_watchdog() and myfirst_recovery_task(), with sysctls in between.
THEOREM WatchdogFlagMeansRecovery == WatchdogSpec => []FlagMeansRecovery
  <1>1. WatchdogInit => FlagMeansRecovery
    BY DEF WatchdogInit, FlagMeansRecovery
  <1>2. WatchdogTypeOK /\ [WatchdogNext]_watchdogVars => WatchdogTypeOK'
    BY WatchdogTypeNext
  <1> QED
    BY <1>1, <1>2, WatchdogTypeInit, FlagNext, PTL DEF WatchdogSpec

\* What a handler has read is the interval, unless another set it since.
OldIsCurrent ==
    \A h \in Handlers : handler_pc[h] = "copyin" /\ h \notin overtaken
                           => old[h] = interval

LEMMA OldIsCurrentNext ==
  ASSUME WatchdogTypeOK, OldIsCurrent, [WatchdogNext]_watchdogVars
  PROVE  OldIsCurrent'
  <1> USE DEF OldIsCurrent, WatchdogTypeOK
  <1>1. CASE UNCHANGED <<handler_pc, old, overtaken, interval>>
    BY <1>1
  <1>2. ASSUME NEW h \in Handlers, sysctl_read(h) PROVE OldIsCurrent'
    BY <1>2 DEF sysctl_read, timerVars
  <1>3. ASSUME NEW h \in Handlers, sysctl_return(h) PROVE OldIsCurrent'
    BY <1>3 DEF sysctl_return, timerVars
  <1>4. ASSUME NEW h \in Handlers, NEW new \in BOOLEAN, sysctl_set(h, new)
        PROVE  OldIsCurrent'
    <2>1. \A g \in Handlers : handler_pc'[g] = "copyin" => g \in overtaken'
      BY <1>4 DEF sysctl_set
    <2> QED
      BY <2>1
  <1>5. CASE transfer
    BY <1>1, <1>5 DEF transfer, sysctlVars, timerVars
  <1>6. CASE myfirst_watchdog
    BY <1>1, <1>6 DEF myfirst_watchdog, sysctlVars
  <1>7. CASE taskqueue_thread
    BY <1>1, <1>7 DEF taskqueue_thread, recovery_start, myfirst_recovery_task,
                      recovery_end, sysctlVars, timerVars
  <1>8. CASE UNCHANGED watchdogVars
    BY <1>1, <1>8 DEF watchdogVars, sysctlVars, timerVars
  <1> QED
    BY <1>2, <1>3, <1>4, <1>5, <1>6, <1>7, <1>8 DEF WatchdogNext

\* The step of OnlyOvertakenMisarm: besides the callout itself, which is scheduled
\* again exactly for a positive interval, only sysctl_set touches either, and with
\* a current old value it starts and stops the callout as the interval asks.
LEMMA OvertakenStep ==
  ASSUME WatchdogTypeOK, OldIsCurrent, [WatchdogNext]_watchdogVars,
         armed <=> interval, ~(armed' <=> interval')
  PROVE  \E h \in overtaken : handler_pc'[h] = "idle"
  <1>1. CASE UNCHANGED <<armed, interval>>
    BY <1>1
  <1>2. ASSUME NEW h \in Handlers, NEW new \in BOOLEAN, sysctl_set(h, new)
        PROVE  h \in overtaken /\ handler_pc'[h] = "idle"
    <2>1. handler_pc'[h] = "idle"
      BY <1>2 DEF sysctl_set, WatchdogTypeOK
    <2>2. ASSUME old[h] = interval PROVE armed' <=> interval'
      BY <1>2, <2>2 DEF sysctl_set, Rescheduled, WatchdogTypeOK
    <2>3. h \in overtaken
      BY <1>2, <2>2 DEF sysctl_set, OldIsCurrent
    <2> QED
      BY <2>1, <2>3
  <1>3. CASE myfirst_watchdog
    BY <1>3 DEF myfirst_watchdog
  <1>4. CASE \E h \in Handlers : sysctl_read(h) \/ sysctl_return(h)
    BY <1>1, <1>4 DEF sysctl_read, sysctl_return, timerVars
  <1>5. CASE transfer \/ taskqueue_thread \/ UNCHANGED watchdogVars
    BY <1>1, <1>5 DEF transfer, taskqueue_thread, recovery_start, recovery_end,
                      myfirst_recovery_task, watchdogVars, timerVars
  <1> QED
    BY <1>2, <1>3, <1>4, <1>5 DEF WatchdogNext

\* However many interval handlers overlap, the callout of myfirst_watchdog() and
\* its interval part only by the hand of one whose old interval another has
\* replaced: read without the lock, before a copyin, it is the only thing to blame.
THEOREM WatchdogOnlyOvertakenMisarm == WatchdogSpec => OnlyOvertakenMisarm
  <1>1. WatchdogInit => OldIsCurrent
    BY DEF WatchdogInit, OldIsCurrent
  <1>2. WatchdogTypeOK /\ OldIsCurrent /\ [WatchdogNext]_watchdogVars => OldIsCurrent'
    BY OldIsCurrentNext
  <1>3. WatchdogTypeOK /\ OldIsCurrent /\ [WatchdogNext]_watchdogVars
          => [(armed <=> interval) /\ ~(armed' <=> interval')
                => \E h \in overtaken : handler_pc'[h] = "idle"]_watchdogVars
    BY OvertakenStep
  <1>4. WatchdogTypeOK /\ [WatchdogNext]_watchdogVars => WatchdogTypeOK'
    BY WatchdogTypeNext
  <1> QED
    BY <1>1, <1>2, <1>3, <1>4, WatchdogTypeInit, PTL
    DEF WatchdogSpec, OnlyOvertakenMisarm

------------------------------------------------------------------------------
(* The statistics cache.                                                     *)

\* What % does to a number less than one modulus away from its range.
LEMMA WrapOnce ==
    ASSUME NEW m \in Nat \ {0}, NEW x \in Int
    PROVE  /\ x \in 0 .. m - 1 => x % m = x
           /\ x \in m .. 2 * m - 1 => x % m = x - m
           /\ x \in -m .. -1 => x % m = x + m
  OBVIOUS

\* The ints of two moments less than half their range apart, subtracted as ints,
\* give the distance of the moments, wrap or no wrap.
LEMMA IntDistance ==
    ASSUME Half \in Nat \ {0}, Start \in -Half .. Half - 1,
           NEW b \in Int, Start <= b, NEW a \in Int, b <= a, a - Start < Half
    PROVE  Signed(Signed(a) - Signed(b)) = a - b
  <1> DEFINE m == 2 * Half
  <1>1. m \in Nat \ {0}
    OBVIOUS
  <1>2. /\ a + Half < m => Signed(a) = a
        /\ a + Half >= m => Signed(a) = a - m
    <2>1. a + Half \in 0 .. 2 * m - 1
      OBVIOUS
    <2> QED
      BY <1>1, <2>1, WrapOnce DEF Signed
  <1>3. /\ b + Half < m => Signed(b) = b
        /\ b + Half >= m => Signed(b) = b - m
    <2>1. b + Half \in 0 .. 2 * m - 1
      OBVIOUS
    <2> QED
      BY <1>1, <2>1, WrapOnce DEF Signed
  <1>4. a - b \in 0 .. Half - 1
    OBVIOUS
  <1>5. Signed(a - b) = a - b
    <2>1. (a - b) + Half \in 0 .. m - 1
      BY <1>4
    <2> QED
      BY <1>1, <2>1, WrapOnce DEF Signed
  <1>6. Signed(a - m - b) = a - b
    <2>1. (a - m - b) + Half \in -m .. -1 /\ (a - m - b) + Half \in Int
      BY <1>4
    <2>2. ((a - m - b) + Half) % m = ((a - m - b) + Half) + m
      BY <1>1, <2>1, WrapOnce
    <2> QED
      BY <2>2 DEF Signed
  <1> HIDE DEF m
  <1>7. Signed(a) - Signed(b) \in {a - b, a - m - b}
    <2>1. CASE b + Half >= m
      <3>1. a + Half >= m
        BY <1>1, <2>1
      <3> QED
        BY <1>1, <1>2, <1>3, <2>1, <3>1
    <2>2. CASE ~(b + Half >= m)
      BY <1>1, <1>2, <1>3, <2>2
    <2> QED
      BY <2>1, <2>2
  <1> QED
    BY <1>5, <1>6, <1>7

\* Where a reader may be in myfirst_sysctl_bytes_written_10s().
Places == {"idle", "read_begin", "check", "try_promote", "read_end",
           "write_begin", "recheck", "refresh", "downgrade", "read"}

\* The clock is in the part of time that the model follows.
CacheTypes ==
    /\ now \in Start .. Start + Horizon
    /\ shared \subseteq Readers /\ owner \in Readers \cup {Nobody}
    /\ fetched_at \in Int /\ refreshes \in Nat
    /\ reader_pc \in [Readers -> Places]
    /\ since \in [Readers -> Start .. now]

\* Who is where holds the lock how: one thread exclusively, or sharers.
LockHeld ==
    /\ \A r \in Readers :
          /\ reader_pc[r] \in {"check", "try_promote", "read_end", "read"}
               <=> r \in shared
          /\ reader_pc[r] \in {"recheck", "refresh", "downgrade"} <=> owner = r
    /\ owner # Nobody => shared = {}

\* A filled cache was filled at a moment the clock has passed.
ClockKept ==
    refreshes > 0 => fetched_at \in Start .. now
                       /\ last_refresh = Signed(fetched_at)

\* What a reader knows of a filled cache at the places it may be at.
CacheKnown ==
    refreshes > 0 => \A r \in Readers :
       /\ reader_pc[r] \in {"read", "downgrade"} => since[r] - fetched_at <= Stale
       /\ reader_pc[r] \in {"try_promote", "refresh"} => now - fetched_at > Stale

CacheInv == CacheTypes /\ LockHeld /\ ClockKept /\ CacheKnown

\* What the comparison of the ints says of the moments.
LEMMA StaleMeans ==
    ASSUME Horizon < Half, CacheInv, refreshes > 0
    PROVE  IsStale <=> now - fetched_at > Stale
  <1>1. /\ fetched_at \in Start .. now /\ last_refresh = Signed(fetched_at)
        /\ now \in Start .. Start + Horizon
    BY DEF CacheInv, CacheTypes, ClockKept
  <1>2. /\ now \in Int /\ fetched_at \in Int /\ Start <= fetched_at
        /\ fetched_at <= now /\ now - Start < Half
    BY <1>1, StatsCacheAssumption
  <1>3. Signed(ticks - last_refresh) = now - fetched_at
    BY <1>1, <1>2, IntDistance, StatsCacheAssumption DEF ticks
  <1> QED
    BY <1>3 DEF IsStale

LEMMA CacheInvInit ==
    ASSUME CacheInit
    PROVE  CacheInv
  <1>1. now = Start /\ Start \in Int /\ Horizon \in Nat /\ Stale \in Nat
    BY StatsCacheAssumption DEF CacheInit
  <1>2. CacheTypes
    BY <1>1 DEF CacheInit, CacheTypes, Places, Never
  <1>3. LockHeld
    BY StatsCacheAssumption DEF CacheInit, LockHeld, Nobody
  <1>4. ClockKept /\ CacheKnown
    BY DEF CacheInit, ClockKept, CacheKnown
  <1> QED
    BY <1>2, <1>3, <1>4 DEF CacheInv

\* A reader moves on without touching the cache: what is known of it holds for
\* the others as before.
LEMMA CacheMove ==
    ASSUME CacheInv, NEW r \in Readers,
           NEW label \in Places \ {"idle"},
           ReaderGoto(r, label),
           UNCHANGED <<now, fetched_at, last_refresh, refreshes, since>>,
           shared' \subseteq Readers, owner' \in Readers \cup {Nobody},
           label \in {"read", "downgrade"} /\ refreshes > 0
             => since[r] - fetched_at <= Stale,
           label \in {"try_promote", "refresh"} /\ refreshes > 0
             => now - fetched_at > Stale
    PROVE  CacheTypes' /\ ClockKept' /\ CacheKnown'
  <1>1. /\ reader_pc'[r] = label
        /\ \A q \in Readers \ {r} : reader_pc'[q] = reader_pc[q]
        /\ reader_pc' \in [Readers -> Places]
    BY DEF CacheInv, CacheTypes, ReaderGoto
  <1>2. CacheTypes' /\ ClockKept'
    BY <1>1 DEF CacheInv, CacheTypes, ClockKept
  <1>3. CacheKnown'
    BY <1>1 DEF CacheInv, CacheKnown
  <1> QED
    BY <1>2, <1>3

\* The lock after a step of one reader, whatever the step.
LEMMA LockMove ==
    ASSUME CacheInv, NEW r \in Readers, NEW label, ReaderGoto(r, label),
           label \in {"check", "try_promote", "read_end", "read"} <=> r \in shared',
           label \in {"recheck", "refresh", "downgrade"} <=> owner' = r,
           \A q \in Readers \ {r} : q \in shared' <=> q \in shared,
           \A q \in Readers \ {r} : owner' = q <=> owner = q,
           owner' # Nobody => shared' = {}
    PROVE  LockHeld'
  <1>1. /\ reader_pc'[r] = label
        /\ \A q \in Readers \ {r} : reader_pc'[q] = reader_pc[q]
    BY DEF CacheInv, CacheTypes, ReaderGoto
  <1>2. ASSUME NEW q \in Readers
        PROVE  /\ reader_pc'[q] \in {"check", "try_promote", "read_end", "read"}
                    <=> q \in shared'
               /\ reader_pc'[q] \in {"recheck", "refresh", "downgrade"} <=> owner' = q
    BY <1>1 DEF CacheInv, LockHeld
  <1> QED
    BY <1>2 DEF LockHeld

LEMMA CacheReader ==
    ASSUME Horizon < Half, CacheInv, NEW r \in Readers,
           call(r) \/ reader(r)
    PROVE  CacheInv'
  <1>1. \A q \in Readers : q # Nobody
    BY StatsCacheAssumption DEF Nobody
  <1>2. /\ shared \subseteq Readers /\ owner \in Readers \cup {Nobody}
        /\ now \in Int /\ Start <= now /\ fetched_at \in Int /\ refreshes \in Nat
        /\ Stale \in Nat /\ Start \in Int
        /\ since \in [Readers -> Start .. now] /\ since[r] \in Start .. now
    BY StatsCacheAssumption DEF CacheInv, CacheTypes
  <1>3. /\ \A q \in Readers :
             /\ reader_pc[q] \in {"check", "try_promote", "read_end", "read"}
                  <=> q \in shared
             /\ reader_pc[q] \in {"recheck", "refresh", "downgrade"} <=> owner = q
        /\ owner # Nobody => shared = {}
    BY DEF CacheInv, LockHeld
  <1>4. refreshes > 0 => (IsStale <=> now - fetched_at > Stale)
    BY StaleMeans
  <1>5. refreshes > 0 => since[r] - fetched_at <= now - fetched_at
    BY <1>2
  <1>6. CASE call(r)
    <2>1. CacheTypes'
      BY <1>2, <1>6 DEF call, ReaderGoto, CacheInv, CacheTypes, Places
    <2>2. LockHeld'
      BY <1>1, <1>3, <1>6, LockMove DEF call
    <2>3. ClockKept' /\ CacheKnown'
      <3>1. reader_pc'[r] = "read_begin" /\ \A q \in Readers \ {r} :
              reader_pc'[q] = reader_pc[q] /\ since'[q] = since[q]
        BY <1>6 DEF call, ReaderGoto, CacheInv, CacheTypes, Places
      <3> QED
        BY <1>6, <3>1 DEF call, CacheInv, ClockKept, CacheKnown
    <2> QED
      BY <2>1, <2>2, <2>3 DEF CacheInv
  <1>7. CASE read_begin(r)
    <2>1. LockHeld'
      BY <1>1, <1>3, <1>7, LockMove DEF read_begin, MayShare
    <2> QED
      BY <1>2, <1>7, <2>1, CacheMove DEF Places, read_begin, MayShare, CacheInv
  <1>8. CASE check(r)
    <2>1. LockHeld'
      BY <1>1, <1>3, <1>8, LockMove DEF check
    <2>2. IsStale => ReaderGoto(r, "try_promote")
      BY <1>8 DEF check
    <2>3. ~IsStale => ReaderGoto(r, "read")
      BY <1>8 DEF check
    <2>4. refreshes > 0 /\ ~IsStale => since[r] - fetched_at <= Stale
      BY <1>2, <1>4
    <2> QED
      BY <1>2, <1>4, <1>8, <2>1, <2>2, <2>3, <2>4, CacheMove
      DEF Places, check, CacheInv
  <1>9. CASE try_promote(r)
    <2>1. reader_pc[r] = "try_promote"
      BY <1>9 DEF try_promote
    <2>2. refreshes > 0 => now - fetched_at > Stale
      BY <2>1 DEF CacheInv, CacheKnown
    <2>3. CASE shared = {r}
      <3>1. LockHeld'
        <4>1. owner = Nobody
          BY <1>3, <2>3
        <4> QED
          BY <1>1, <1>3, <1>9, <2>3, <4>1, LockMove DEF try_promote
      <3> QED
        BY <1>2, <1>9, <2>2, <2>3, <3>1, CacheMove DEF Places, try_promote, CacheInv
    <2>4. CASE shared # {r}
      <3>1. LockHeld'
        BY <1>1, <1>3, <1>9, <2>4, LockMove DEF try_promote
      <3> QED
        BY <1>2, <1>9, <2>4, <3>1, CacheMove DEF Places, try_promote, CacheInv
    <2> QED
      BY <2>3, <2>4
  <1>10. CASE read_end(r)
    <2>1. LockHeld'
      BY <1>1, <1>3, <1>10, LockMove DEF read_end, LetsGo
    <2> QED
      BY <1>2, <1>10, <2>1, CacheMove DEF Places, read_end, LetsGo, CacheInv
  <1>11. CASE write_begin(r)
    <2>1. LockHeld'
      BY <1>1, <1>3, <1>11, LockMove DEF write_begin, MayOwn
    <2> QED
      BY <1>2, <1>11, <2>1, CacheMove DEF Places, write_begin, MayOwn, CacheInv
  <1>12. CASE recheck(r)
    <2>1. LockHeld'
      BY <1>1, <1>3, <1>12, LockMove DEF recheck
    <2>2. IsStale => ReaderGoto(r, "refresh")
      BY <1>12 DEF recheck, Recheck
    <2>3. ~IsStale => ReaderGoto(r, "downgrade")
      BY <1>12 DEF recheck, Recheck
    <2>4. refreshes > 0 /\ ~IsStale => since[r] - fetched_at <= Stale
      BY <1>2, <1>4
    <2> QED
      BY <1>2, <1>4, <1>12, <2>1, <2>2, <2>3, <2>4, CacheMove
      DEF Places, recheck, CacheInv
  <1>13. CASE refresh(r)
    <2>1. owner = r /\ shared = {}
      BY <1>1, <1>3, <1>13 DEF refresh
    <2>2. LockHeld'
      BY <1>1, <1>3, <1>13, <2>1, LockMove DEF refresh
    <2>3. /\ reader_pc'[r] = "downgrade"
          /\ \A q \in Readers \ {r} : reader_pc'[q] = reader_pc[q]
          /\ now' = now /\ since' = since /\ fetched_at' = now
          /\ last_refresh' = Signed(now) /\ refreshes' = refreshes + 1
          /\ shared' = shared /\ owner' = owner
      BY <1>13 DEF refresh, ReaderGoto, CacheInv, CacheTypes, Places, ticks
    <2>4. \A q \in Readers \ {r} :
            reader_pc[q] \notin {"read", "downgrade", "try_promote", "refresh"}
      BY <1>3, <2>1
    <2>5. CacheKnown'
      <3>1. since[r] - now <= Stale
        BY <1>2
      <3> QED
        BY <2>3, <2>4, <3>1 DEF CacheKnown
    <2>6. CacheTypes'
      BY <1>2, <1>13, <2>3 DEF refresh, ReaderGoto, CacheInv, CacheTypes, Places
    <2>7. ClockKept'
      BY <1>2, <2>3 DEF ClockKept
    <2> QED
      BY <2>2, <2>5, <2>6, <2>7 DEF CacheInv
  <1>14. CASE downgrade(r)
    <2>1. owner = r /\ shared = {} /\ reader_pc[r] = "downgrade"
      BY <1>1, <1>3, <1>14 DEF downgrade
    <2>2. LockHeld'
      BY <1>1, <1>3, <1>14, <2>1, LockMove DEF downgrade
    <2>3. refreshes > 0 => since[r] - fetched_at <= Stale
      BY <2>1 DEF CacheInv, CacheKnown
    <2> QED
      BY <1>2, <1>14, <2>2, <2>3, CacheMove DEF Places, downgrade, CacheInv
  <1>15. CASE read(r)
    <2>1. CacheTypes'
      BY <1>2, <1>15 DEF read, ReaderGoto, CacheInv, CacheTypes, Places
    <2>2. LockHeld'
      BY <1>1, <1>3, <1>15, LockMove DEF read
    <2>3. ClockKept' /\ CacheKnown'
      <3>1. reader_pc'[r] = "idle" /\ \A q \in Readers \ {r} :
              reader_pc'[q] = reader_pc[q] /\ since'[q] = since[q]
        BY <1>15 DEF read, ReaderGoto, CacheInv, CacheTypes, Places
      <3> QED
        BY <1>15, <3>1 DEF read, CacheInv, ClockKept, CacheKnown
    <2> QED
      BY <2>1, <2>2, <2>3 DEF CacheInv
  <1> QED
    BY <1>6, <1>7, <1>8, <1>9, <1>10, <1>11, <1>12, <1>13, <1>14, <1>15
    DEF reader

LEMMA CacheInvNext ==
    ASSUME Horizon < Half, CacheInv, [CacheNext]_cacheVars
    PROVE  CacheInv'
  <1>1. CASE hardclock
    <2>1. /\ now' = now + 1 /\ now' <= Start + Horizon
          /\ UNCHANGED <<shared, owner, fetched_at, last_refresh, refreshes,
                         reader_pc,
                         since>>
      BY <1>1, StatsCacheAssumption DEF hardclock, CacheInv, CacheTypes
    <2>2. CacheTypes'
      BY <2>1, StatsCacheAssumption DEF CacheInv, CacheTypes
    <2>3. LockHeld'
      BY <2>1 DEF CacheInv, LockHeld
    <2>4. ClockKept' /\ CacheKnown'
      BY <2>1, StatsCacheAssumption DEF CacheInv, CacheTypes, ClockKept, CacheKnown
    <2> QED
      BY <2>2, <2>3, <2>4 DEF CacheInv
  <1>2. CASE UNCHANGED cacheVars
    BY <1>2 DEF cacheVars, CacheInv, CacheTypes, LockHeld, ClockKept, CacheKnown
  <1> QED
    BY <1>1, <1>2, CacheReader DEF CacheNext

\* While the clock is followed for less than half the range of an int, and that
\* is what a signed difference of ticks can tell: what
\* myfirst_sysctl_bytes_written_10s() returns from a filled cache was fetched at
\* most a second before the call, however many readers race to refresh it.
THEOREM CacheAnswersFresh ==
    ASSUME Horizon < Half
    PROVE  CacheSpec => []FilledAnswersFresh
  <1>1. CacheInv => FilledAnswersFresh
    BY DEF CacheInv, CacheKnown, FilledAnswersFresh, AnswersFresh
  <1>2. CacheInv /\ [CacheNext]_cacheVars => CacheInv'
    BY CacheInvNext
  <1> QED
    BY <1>1, <1>2, CacheInvInit, PTL DEF CacheSpec

\* And two refreshes of the cache are more than a second apart.
THEOREM CacheOncePerInterval ==
    ASSUME Horizon < Half
    PROVE  CacheSpec => OncePerInterval
  <1>1. CacheInv /\ [CacheNext]_cacheVars => CacheInv'
    BY CacheInvNext
  <1>2. CacheInv /\ [CacheNext]_cacheVars
          => (refreshes' # refreshes /\ refreshes > 0 => now - fetched_at > Stale)
    <2> SUFFICES ASSUME CacheInv, [CacheNext]_cacheVars, refreshes' # refreshes,
                        refreshes > 0
                 PROVE  now - fetched_at > Stale
      OBVIOUS
    <2>1. PICK r \in Readers : refresh(r)
      BY DEF CacheNext, hardclock, reader, call, read_begin, check,
             try_promote,
             read_end, write_begin, recheck, downgrade, read, cacheVars
    <2> QED
      BY <2>1 DEF refresh, CacheInv, CacheKnown
  <1> QED
    BY <1>1, <1>2, CacheInvInit, PTL DEF CacheSpec, OncePerInterval

\* No deadlock over stats_cache_sx, however many readers want to upgrade their
\* shared lock at once (myfirst_sync.h:144 to 196): an owner and a sharer are
\* past their waits, and a free lock can be had by whoever waits exclusively or,
\* if nobody does, by whoever waits to share it.
THEOREM CacheNeverAllWait ==
    ASSUME Horizon < Half
    PROVE  CacheSpec => []NeverAllWait
  <1>1. ASSUME CacheInv, \A r \in Readers : Waits(r)
        PROVE  \A r \in Readers : reader_pc[r] = "idle"
    <2>1. owner = Nobody /\ shared = {}
      BY <1>1 DEF CacheInv, CacheTypes, LockHeld, Waits, Nobody
    <2>2. \A r \in Readers : reader_pc[r] # "write_begin"
      BY <1>1, <2>1 DEF Waits, MayOwn
    <2> QED
      BY <1>1, <2>1, <2>2 DEF Waits, MayShare
  <1>2. CacheInv => NeverAllWait
    BY <1>1 DEF NeverAllWait
  <1>3. CacheInv /\ [CacheNext]_cacheVars => CacheInv'
    BY CacheInvNext
  <1> QED
    BY <1>2, <1>3, CacheInvInit, PTL DEF CacheSpec
==============================================================================
