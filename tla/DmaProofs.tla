------------------------------ MODULE DmaProofs -------------------------------
(***************************************************************************)
(* For any set of callers: the types of the DMA and power state, that a     *)
(* busy device has an owner, and, where user threads are stopped while the  *)
(* system is suspended, that a quiesced device is quiet.                    *)
(*                                                                         *)
(* BusyHasOwner is inductive on top of the types.  QuietWhenSuspended is    *)
(* not: it needs to know that the drain sleeps exactly while the thread of  *)
(* the quiesce waits for it (DrainWaits), that whoever wakes the drain has  *)
(* given the device back (WokenMeansFree), and what each later step of the  *)
(* quiesce can rely on (DrainedSoFar).                                      *)
(***************************************************************************)
EXTENDS Dma, SequenceTheorems, TLAPS

\* The drain is among the sleepers once, and only while it waits.
DrainOnce ==
    \A i, j \in 1 .. Len(dma_cv) : dma_cv[i] = "drain" /\ dma_cv[j] = "drain" => i = j

DrainWaits == (Sleeping("drain") => phase = "drain_wait") /\ DrainOnce

\* A drain that is no longer asleep was woken by the end of the transfer.
WokenMeansFree == phase = "drain_wait" /\ ~Sleeping("drain") => ~in_flight

\* What the steps of the quiesce leave behind, in their order.
DrainedSoFar ==
    /\ phase \in {"workers", "drain_callout", "drain_task"} \cup Quiesced => ~in_flight
    /\ phase \in {"drain_callout", "drain_task"} \cup Quiesced => ~callout
    /\ phase \in {"drain_task"} \cup Quiesced => done_co # "copying"

QuietInv == WokenMeansFree /\ DrainedSoFar

------------------------------------------------------------------------------
(* The queue of sleepers.                                                   *)

\* Who sleeps after somebody went to sleep.
LEMMA SleepersAppend ==
    ASSUME NEW S, NEW s \in Seq(S), NEW x \in S
    PROVE  ToSet(Append(s, x)) = ToSet(s) \cup {x}
  <1>1. /\ DOMAIN Append(s, x) = 1 .. Len(s) + 1 /\ DOMAIN s = 1 .. Len(s)
        /\ Len(s) \in Nat
        /\ \A i \in 1 .. Len(s) : Append(s, x)[i] = s[i]
        /\ Append(s, x)[Len(s) + 1] = x
    OBVIOUS
  <1> QED BY <1>1 DEF ToSet

\* Who sleeps after the oldest has left.
LEMMA SleepersTail ==
    ASSUME NEW S, NEW s \in Seq(S), s # <<>>
    PROVE  /\ Head(s) \in S /\ Head(s) = s[1] /\ Tail(s) \in Seq(S)
           /\ ToSet(Tail(s)) \subseteq ToSet(s)
           /\ ToSet(s) \subseteq ToSet(Tail(s)) \cup {Head(s)}
           /\ Len(Tail(s)) = Len(s) - 1 /\ Len(s) \in Nat \ {0}
           /\ \A i \in 1 .. Len(Tail(s)) : Tail(s)[i] = s[i + 1]
  <1>1. /\ Head(s) \in S /\ Head(s) = s[1] /\ Tail(s) \in Seq(S)
        /\ Len(Tail(s)) = Len(s) - 1 /\ Len(s) \in Nat \ {0}
        /\ \A i \in 1 .. Len(Tail(s)) : Tail(s)[i] = s[i + 1]
    OBVIOUS
  <1>2. DOMAIN s = 1 .. Len(s) /\ DOMAIN Tail(s) = 1 .. Len(s) - 1
    BY <1>1
  <1>3. ToSet(Tail(s)) \subseteq ToSet(s)
    BY <1>1, <1>2 DEF ToSet
  <1>4. ASSUME NEW i \in 1 .. Len(s)
        PROVE  s[i] \in ToSet(Tail(s)) \cup {Head(s)}
    <2>1. CASE i = 1
      BY <1>1, <2>1
    <2>2. CASE i # 1
      <3>1. i - 1 \in 1 .. Len(s) - 1 /\ (i - 1) + 1 = i
        BY <1>1, <2>2
      <3> QED BY <1>1, <1>2, <3>1 DEF ToSet
    <2> QED BY <2>1, <2>2
  <1> QED BY <1>1, <1>2, <1>3, <1>4 DEF ToSet

LEMMA SleepersNone == ToSet(<<>>) = {}
  BY DEF ToSet

------------------------------------------------------------------------------
(* Types.                                                                   *)

\* Once the interrupts are masked there is a mask to restore.
MaskSaved == phase \notin {"running", "mask"} => saved_mask # "zero"

TypeInv == DmaTypeOK /\ MaskSaved /\ DrainWaits

\* A register write starts the engine or stops it, and leaves it in its types.
LEMMA EngineStartTypes ==
    ASSUME EngineTypeOK, EngineStart
    PROVE  EngineTypeOK'
  BY DEF EngineTypeOK, EngineStart, Overlap, StatusBits

\* An abort schedules nothing and starts no copy.
LEMMA EngineAbortFacts ==
    ASSUME EngineTypeOK, EngineAbort
    PROVE  /\ EngineTypeOK'
           /\ callout' => callout
           /\ done_co' = "copying" => done_co = "copying"
  BY DEF EngineTypeOK, EngineAbort, Overlap, StatusBits

LEMMA TypeInit == Init => TypeInv
  <1> SUFFICES ASSUME Init PROVE TypeInv
    OBVIOUS
  <1>1. DriverTypeOK
    <2>1. dma_cv \in Seq(Callers \cup {"drain"})
      BY DEF Init
    <2> QED BY <2>1 DEF Init, DriverTypeOK
  <1>2. EngineTypeOK
    BY DEF Init, EngineTypeOK
  <1>3. IntrTypeOK
    BY DEF Init, IntrTypeOK, Masks
  <1>4. PowerTypeOK /\ MaskSaved
    BY DEF Init, PowerTypeOK, MaskSaved
  <1>5. DrainWaits
    BY SleepersNone DEF Init, DrainWaits, DrainOnce, Sleeping
  <1> QED BY <1>1, <1>2, <1>3, <1>4, <1>5 DEF Init, TypeInv, DmaTypeOK

LEMMA DriverStep ==
    ASSUME DriverTypeOK, EngineTypeOK, Next
    PROVE  DriverTypeOK'
  <1> USE DEF DriverTypeOK
  <1>1. ASSUME UNCHANGED driverVars PROVE DriverTypeOK'
    BY <1>1 DEF driverVars
  <1>2. ASSUME NEW x \in Callers \cup {"drain"}
        PROVE  Append(dma_cv, x) \in Seq(Callers \cup {"drain"})
    OBVIOUS
  <1>3. ASSUME rx_task PROVE DriverTypeOK'
    <2>1. <<>> \in Seq(Callers \cup {"drain"})
      OBVIOUS
    <2> QED BY <1>3, <2>1 DEF rx_task, ReadStatus, EngineTypeOK
  <1>4. ASSUME NEW c \in Callers, transfer_start(c) PROVE DriverTypeOK'
    BY <1>2, <1>4 DEF transfer_start, Goto
  <1>5. ASSUME NEW c \in Callers, caller(c) PROVE DriverTypeOK'
    BY <1>5 DEF caller, transfer_expired, transfer_woken, Expire, GiveUp, Goto
  <1>6. ASSUME wait_expires PROVE DriverTypeOK'
    <2>1. dma_cv' \in Seq(Callers \cup {"drain"})
      BY <1>6, SleepersTail DEF wait_expires
    <2>2. in_flight' \in BOOLEAN /\ last_status' = last_status
      BY <1>6 DEF wait_expires, Expire, GiveUp
    <2>3. pc' \in [Callers -> {"idle", "waiting", "expired"}]
      BY <1>6 DEF wait_expires, Expire, Goto
    <2> QED BY <2>1, <2>2, <2>3
  <1>7. ASSUME drain_dma PROVE DriverTypeOK'
    BY <1>2, <1>7 DEF drain_dma
  <1>8. ASSUME drain_expired PROVE DriverTypeOK'
    BY <1>8 DEF drain_expired
  <1> QED
    BY <1>1, <1>3, <1>4, <1>5, <1>6, <1>7, <1>8
    DEF Next, engine, done_co_fire, done_co_store, done_co_raise, interrupts, rx_filter,
        rx_filter_data, rx_task_start, quiesce_begin, quiesce, mask_interrupts,
        drain_woken, drain_callout, drain_callout_done, drain_task,
        shutdown_suspended, restore_mask, restore_flag

LEMMA EngineStep ==
    ASSUME EngineTypeOK, Next
    PROVE  EngineTypeOK'
  <1>1. ASSUME UNCHANGED engineVars PROVE EngineTypeOK'
    BY <1>1 DEF engineVars, EngineTypeOK
  <1>2. ASSUME EngineStart \/ EngineAbort PROVE EngineTypeOK'
    BY <1>2, EngineStartTypes, EngineAbortFacts
  <1>3. ASSUME engine PROVE EngineTypeOK'
    BY <1>3 DEF engine, done_co_fire, done_co_store, done_co_raise, EngineTypeOK, StatusBits
  <1>4. ASSUME drain_callout PROVE EngineTypeOK'
    BY <1>4 DEF drain_callout, Cancel, EngineTypeOK
  <1>5. ASSUME wait_expires PROVE EngineTypeOK'
    BY <1>1, <1>2, <1>5 DEF wait_expires, Expire, engineVars
  <1>6. ASSUME drain_dma PROVE EngineTypeOK'
    BY <1>1, <1>2, <1>6 DEF drain_dma
  <1>7. ASSUME NEW c \in Callers, transfer_start(c) \/ caller(c) PROVE EngineTypeOK'
    BY <1>1, <1>2, <1>7 DEF transfer_start, caller, transfer_expired, transfer_woken, Expire
  <1> QED
    BY <1>1, <1>3, <1>4, <1>5, <1>6, <1>7
    DEF Next, interrupts, rx_filter, rx_filter_data, rx_task_start, rx_task,
        quiesce_begin, quiesce, mask_interrupts, drain_woken, drain_expired,
        drain_callout_done, drain_task, shutdown_suspended, restore_mask, restore_flag

LEMMA DrainStep ==
    ASSUME DriverTypeOK, DrainWaits, Next
    PROVE  DrainWaits'
  <1>0. dma_cv \in Seq(Callers \cup {"drain"}) /\ Len(dma_cv) \in Nat
    BY DEF DriverTypeOK
  <1>1. ASSUME dma_cv' = dma_cv, phase' = phase \/ ~Sleeping("drain")
        PROVE  DrainWaits'
    BY <1>1 DEF DrainWaits, DrainOnce, Sleeping
  <1>2. ASSUME NEW x \in Callers \cup {"drain"}, dma_cv' = Append(dma_cv, x),
               IF x = "drain" THEN ~Sleeping("drain") /\ phase' = "drain_wait"
                              ELSE phase' = phase
        PROVE  DrainWaits'
    <2>1. ToSet(dma_cv') = ToSet(dma_cv) \cup {x}
      BY <1>0, <1>2, SleepersAppend
    <2>2. Sleeping("drain")' => phase' = "drain_wait"
      BY <1>2, <2>1 DEF Sleeping, DrainWaits
    <2>3. /\ Len(dma_cv') = Len(dma_cv) + 1 /\ dma_cv'[Len(dma_cv) + 1] = x
          /\ \A i \in 1 .. Len(dma_cv) : dma_cv'[i] = dma_cv[i]
      BY <1>0, <1>2
    <2>4. x = "drain" => \A i \in 1 .. Len(dma_cv) : dma_cv[i] # "drain"
      BY <1>0, <1>2 DEF Sleeping, ToSet
    <2>5. DrainOnce'
      <3> SUFFICES ASSUME NEW i \in 1 .. Len(dma_cv'), NEW j \in 1 .. Len(dma_cv'),
                          dma_cv'[i] = "drain", dma_cv'[j] = "drain"
                   PROVE  i = j
        BY DEF DrainOnce
      <3>1. /\ i \in 1 .. Len(dma_cv) \/ i = Len(dma_cv) + 1
            /\ j \in 1 .. Len(dma_cv) \/ j = Len(dma_cv) + 1
        BY <1>0, <2>3
      <3> QED BY <2>3, <2>4, <3>1 DEF DrainWaits, DrainOnce
    <2> QED BY <2>2, <2>5 DEF DrainWaits
  <1>3. ASSUME rx_task PROVE DrainWaits'
    <2>1. CASE in_flight
      <3>1. dma_cv' = <<>> /\ ToSet(<<>>) = {} /\ Len(<<>>) = 0
        BY <1>3, <2>1, SleepersNone DEF rx_task
      <3> QED BY <3>1 DEF DrainWaits, DrainOnce, Sleeping
    <2>2. CASE ~in_flight
      BY <1>1, <1>3, <2>2 DEF rx_task, powerVars
    <2> QED BY <2>1, <2>2
  <1>4. ASSUME wait_expires PROVE DrainWaits'
    <2>1. /\ dma_cv' = Tail(dma_cv) /\ dma_cv # <<>> /\ Head(dma_cv) = dma_cv[1]
          /\ ToSet(dma_cv') \subseteq ToSet(dma_cv)
          /\ Len(dma_cv') = Len(dma_cv) - 1 /\ Len(dma_cv) \in Nat \ {0}
          /\ \A i \in 1 .. Len(dma_cv') : dma_cv'[i] = dma_cv[i + 1]
          /\ dma_cv' \in Seq(Callers \cup {"drain"})
      BY <1>0, <1>4, SleepersTail DEF wait_expires
    <2>2. DrainOnce'
      <3> SUFFICES ASSUME NEW i \in 1 .. Len(dma_cv'), NEW j \in 1 .. Len(dma_cv'),
                          dma_cv'[i] = "drain", dma_cv'[j] = "drain"
                   PROVE  i = j
        BY DEF DrainOnce
      <3>1. i + 1 \in 1 .. Len(dma_cv) /\ j + 1 \in 1 .. Len(dma_cv)
        BY <2>1
      <3>2. i + 1 = j + 1
        BY <2>1, <3>1 DEF DrainWaits, DrainOnce
      <3> QED BY <2>1, <3>2
    <2>3. CASE Head(dma_cv) = "drain"
      <3>1. ASSUME NEW i \in 1 .. Len(dma_cv') PROVE dma_cv'[i] # "drain"
        <4>1. i + 1 \in 1 .. Len(dma_cv) /\ i + 1 # 1 /\ 1 \in 1 .. Len(dma_cv)
          BY <2>1
        <4> QED BY <2>1, <2>3, <4>1 DEF DrainWaits, DrainOnce
      <3>2. DOMAIN dma_cv' = 1 .. Len(dma_cv')
        BY <2>1
      <3>3. ~Sleeping("drain")'
        BY <3>1, <3>2 DEF Sleeping, ToSet
      <3> QED BY <2>2, <3>3 DEF DrainWaits
    <2>4. CASE Head(dma_cv) # "drain"
      BY <1>4, <2>1, <2>2, <2>4 DEF wait_expires, powerVars, DrainWaits, Sleeping
    <2> QED BY <2>3, <2>4
  <1>5. ASSUME NEW c \in Callers, transfer_start(c) PROVE DrainWaits'
    BY <1>2, <1>5, DmaAssumption DEF transfer_start, powerVars
  <1>6. ASSUME drain_dma PROVE DrainWaits'
    <2>1. ~Sleeping("drain")
      BY <1>6 DEF drain_dma, DrainWaits
    <2> QED BY <1>1, <1>2, <1>6, <2>1 DEF drain_dma
  <1>7. ASSUME NEW c \in Callers, caller(c) PROVE DrainWaits'
    BY <1>1, <1>7 DEF caller, transfer_expired, transfer_woken, powerVars
  <1>8. ASSUME engine \/ rx_filter \/ rx_task_start \/ rx_filter_data PROVE DrainWaits'
    BY <1>1, <1>8 DEF engine, done_co_fire, done_co_store, done_co_raise, rx_filter,
       rx_task_start, rx_filter_data, driverVars, powerVars
  <1>9. ASSUME \/ quiesce_begin \/ mask_interrupts \/ drain_expired \/ drain_callout
               \/ drain_callout_done \/ drain_task \/ drain_woken
        PROVE  DrainWaits'
    <2>1. dma_cv' = dma_cv /\ ~Sleeping("drain")
      BY <1>9 DEF quiesce_begin, mask_interrupts, drain_expired, drain_callout,
         drain_callout_done, drain_task, drain_woken, driverVars, DrainWaits
    <2> QED BY <1>1, <2>1
  <1>10. ASSUME shutdown_suspended \/ restore_mask \/ restore_flag PROVE DrainWaits'
    <2>1. dma_cv' = dma_cv /\ ~Sleeping("drain")
      BY <1>10 DEF shutdown_suspended, restore_mask, restore_flag, driverVars, DrainWaits
    <2> QED BY <1>1, <2>1
  <1> QED
    BY <1>3, <1>4, <1>5, <1>6, <1>7, <1>8, <1>9, <1>10 DEF Next, interrupts, quiesce

LEMMA IntrStep ==
    ASSUME IntrTypeOK, PowerTypeOK, MaskSaved, Next
    PROVE  IntrTypeOK'
  <1>1. ASSUME UNCHANGED intrVars PROVE IntrTypeOK'
    BY <1>1 DEF intrVars, IntrTypeOK
  <1>2. ASSUME done_co_raise PROVE IntrTypeOK'
    BY <1>2 DEF done_co_raise, IntrTypeOK
  <1>3. ASSUME interrupts \/ rx_filter_data PROVE IntrTypeOK'
    BY <1>3 DEF interrupts, rx_filter, rx_filter_data, rx_task_start, rx_task, Handle,
       IntrTypeOK
  <1>4. ASSUME mask_interrupts PROVE IntrTypeOK'
    BY <1>4 DEF mask_interrupts, IntrTypeOK, Masks
  <1>5. ASSUME restore_mask PROVE IntrTypeOK'
    BY <1>5 DEF restore_mask, IntrTypeOK, PowerTypeOK, MaskSaved, Masks
  <1> QED
    BY <1>1, <1>2, <1>3, <1>4, <1>5
    DEF Next, engine, done_co_fire, done_co_store, wait_expires, transfer_start, caller,
        transfer_expired, transfer_woken, quiesce_begin, quiesce, drain_dma,
        drain_woken, drain_expired, drain_callout, drain_callout_done, drain_task,
        shutdown_suspended, restore_flag

LEMMA PowerStep ==
    ASSUME DriverTypeOK, IntrTypeOK, PowerTypeOK, MaskSaved, DrainWaits, Next
    PROVE  PowerTypeOK' /\ MaskSaved'
  <1> USE DEF PowerTypeOK, MaskSaved
  <1>1. ASSUME UNCHANGED powerVars PROVE PowerTypeOK' /\ MaskSaved'
    BY <1>1 DEF powerVars
  <1>2. ASSUME wait_expires PROVE PowerTypeOK' /\ MaskSaved'
    <2>1. CASE Head(dma_cv) = "drain"
      <3>1. 1 \in DOMAIN dma_cv /\ Head(dma_cv) = dma_cv[1]
        BY <1>2 DEF wait_expires, DriverTypeOK
      <3>2. phase = "drain_wait"
        BY <2>1, <3>1 DEF DrainWaits, Sleeping, ToSet
      <3> QED BY <1>2, <2>1, <3>2 DEF wait_expires, Quiescing, Quiesced
    <2>2. CASE Head(dma_cv) # "drain"
      BY <1>1, <1>2, <2>2 DEF wait_expires
    <2> QED BY <2>1, <2>2
  <1>3. ASSUME mask_interrupts PROVE PowerTypeOK' /\ MaskSaved'
    BY <1>3 DEF mask_interrupts, SaveMask, IntrTypeOK, Masks, Quiescing
  <1>4. ASSUME restore_mask \/ restore_flag \/ shutdown_suspended
        PROVE  PowerTypeOK' /\ MaskSaved'
    BY <1>4 DEF restore_mask, restore_flag, shutdown_suspended, Masks, Quiesced
  <1>5. ASSUME drain_dma PROVE PowerTypeOK' /\ MaskSaved'
    BY <1>5 DEF drain_dma, Quiescing
  <1>6. ASSUME drain_woken \/ drain_expired \/ drain_callout
        PROVE  PowerTypeOK' /\ MaskSaved'
    BY <1>6 DEF drain_woken, drain_expired, drain_callout, Quiescing, powerVars
  <1>7. ASSUME drain_callout_done \/ drain_task PROVE PowerTypeOK' /\ MaskSaved'
    BY <1>7 DEF drain_callout_done, drain_task, Quiescing, Quiesced
  <1>8. ASSUME quiesce_begin PROVE PowerTypeOK' /\ MaskSaved'
    BY <1>8 DEF quiesce_begin, Quiescing
  <1> QED
    BY <1>1, <1>2, <1>3, <1>4, <1>5, <1>6, <1>7, <1>8
    DEF Next, engine, done_co_fire, done_co_store, done_co_raise, interrupts, rx_filter,
        rx_filter_data, rx_task_start, rx_task, transfer_start, caller,
        transfer_expired, transfer_woken, quiesce

LEMMA TypeStep == TypeInv /\ [Next]_vars => TypeInv'
  <1> SUFFICES ASSUME TypeInv, [Next]_vars PROVE TypeInv'
    OBVIOUS
  <1>1. CASE Next
    <2>1. calm' = calm
      BY <1>1 DEF Next, engine, done_co_fire, done_co_store, done_co_raise, interrupts,
         rx_filter, rx_filter_data, rx_task_start, rx_task, transfer_start, caller,
         transfer_expired, transfer_woken, wait_expires, quiesce_begin, quiesce,
         mask_interrupts, drain_dma, drain_woken, drain_expired, drain_callout,
         drain_callout_done, drain_task, shutdown_suspended, restore_mask, restore_flag
    <2> QED
      BY <1>1, <2>1, DriverStep, EngineStep, IntrStep, PowerStep, DrainStep
      DEF TypeInv, DmaTypeOK
  <1>2. CASE UNCHANGED vars
    <2>1. DriverTypeOK' /\ EngineTypeOK' /\ IntrTypeOK' /\ PowerTypeOK'
      BY <1>2 DEF vars, TypeInv, DmaTypeOK, driverVars, engineVars, intrVars, powerVars,
         DriverTypeOK, EngineTypeOK, IntrTypeOK, PowerTypeOK
    <2> QED
      BY <1>2, <2>1 DEF vars, driverVars, powerVars, TypeInv, DmaTypeOK, MaskSaved,
         DrainWaits, DrainOnce, Sleeping
  <1> QED BY <1>1, <1>2

\* Every variable keeps its type, and INTR_MASK holds what the driver wrote.
THEOREM DmaTypeCorrect == Spec => []DmaTypeOK
  <1>1. TypeInv => DmaTypeOK
    BY DEF TypeInv
  <1> QED BY <1>1, TypeInit, TypeStep, PTL DEF Spec

------------------------------------------------------------------------------
(* The busy flag.                                                           *)

LEMMA OwnerStep == TypeInv /\ BusyHasOwner /\ [Next]_vars => BusyHasOwner'
  <1> SUFFICES ASSUME TypeInv, BusyHasOwner, [Next]_vars PROVE BusyHasOwner'
    OBVIOUS
  <1> USE DEF BusyHasOwner
  <1>0. DriverTypeOK
    BY DEF TypeInv, DmaTypeOK
  <1>1. ASSUME in_flight' => in_flight, dma_cv' = dma_cv, pc' = pc PROVE BusyHasOwner'
    BY <1>1 DEF Sleeping
  <1>2. ASSUME rx_task PROVE BusyHasOwner'
    BY <1>1, <1>2 DEF rx_task
  <1>3. ASSUME NEW c \in Callers, transfer_start(c) PROVE BusyHasOwner'
    <2>1. ToSet(dma_cv') = ToSet(dma_cv) \cup {c}
      BY <1>0, <1>3, SleepersAppend DEF transfer_start, DriverTypeOK
    <2> QED BY <2>1 DEF Sleeping
  <1>4. ASSUME NEW c \in Callers, transfer_expired(c) PROVE BusyHasOwner'
    BY <1>4 DEF transfer_expired, Expire, GiveUp
  <1>5. ASSUME NEW c \in Callers, transfer_woken(c) PROVE BusyHasOwner'
    BY <1>0, <1>5 DEF transfer_woken, Goto, Sleeping, DriverTypeOK
  <1>6. ASSUME wait_expires PROVE BusyHasOwner'
    <2>1. /\ Head(dma_cv) \in Callers \cup {"drain"}
          /\ ToSet(dma_cv) \subseteq ToSet(dma_cv') \cup {Head(dma_cv)}
      BY <1>0, <1>6, SleepersTail DEF wait_expires, DriverTypeOK
    <2>2. CASE Head(dma_cv) = "drain"
      BY <1>6, <2>1, <2>2, DmaAssumption DEF wait_expires, Sleeping
    <2>3. CASE Head(dma_cv) # "drain" /\ calm
      BY <1>6, <2>3 DEF wait_expires, Expire, GiveUp
    <2>4. CASE Head(dma_cv) # "drain" /\ ~calm
      <3>1. Head(dma_cv) \in Callers /\ pc'[Head(dma_cv)] = "expired"
        BY <1>0, <1>6, <2>1, <2>4 DEF wait_expires, Goto, DriverTypeOK
      <3> QED BY <3>1
    <2> QED BY <2>2, <2>3, <2>4
  <1>7. ASSUME drain_dma PROVE BusyHasOwner'
    <2>1. CASE in_flight
      <3>0. dma_cv' = Append(dma_cv, "drain")
        BY <1>7, <2>1 DEF drain_dma
      <3>1. ToSet(dma_cv') = ToSet(dma_cv) \cup {"drain"}
        BY <1>0, <3>0, SleepersAppend DEF DriverTypeOK
      <3>2. in_flight' = in_flight /\ pc' = pc
        BY <1>7 DEF drain_dma
      <3> QED BY <3>1, <3>2 DEF Sleeping
    <2>2. CASE ~in_flight
      BY <1>7, <2>2 DEF drain_dma
    <2> QED BY <2>1, <2>2
  <1>8. ASSUME drain_expired PROVE BusyHasOwner'
    BY <1>8 DEF drain_expired
  <1> QED
    BY <1>1, <1>2, <1>3, <1>4, <1>5, <1>6, <1>7, <1>8
    DEF Next, vars, driverVars, engine, done_co_fire, done_co_store, done_co_raise,
        interrupts, rx_filter, rx_filter_data, rx_task_start, caller, quiesce_begin,
        quiesce, mask_interrupts, drain_woken, drain_callout, drain_callout_done,
        drain_task, shutdown_suspended, restore_mask, restore_flag

\* The device never stays busy without a caller that will end it, whatever
\* completions, expiries, aborts and drains do to each other.
THEOREM DmaBusyHasOwner == Spec => []BusyHasOwner
  <1>1. Init => BusyHasOwner
    BY DEF Init, BusyHasOwner
  <1> QED BY <1>1, TypeInit, TypeStep, OwnerStep, PTL DEF Spec

------------------------------------------------------------------------------
(* The quiesced device.                                                     *)

LEMMA QuietInit == Init => QuietInv
  BY DEF Init, QuietInv, WokenMeansFree, DrainedSoFar, Quiesced

\* The phases of a quiesce in which no new transfer can start.
LEMMA QuietStep ==
    ASSUME Frozen
    PROVE  TypeInv /\ QuietInv /\ [Next]_vars => QuietInv'
  <1> SUFFICES ASSUME TypeInv, QuietInv, [Next]_vars PROVE QuietInv'
    OBVIOUS
  <1>0. DriverTypeOK /\ EngineTypeOK /\ PowerTypeOK /\ DrainWaits
    BY DEF TypeInv, DmaTypeOK
  <1>1. ASSUME in_flight' => in_flight, callout' => callout,
               done_co' = "copying" => done_co = "copying",
               phase' = phase, in_flight' => Sleeping("drain")' = Sleeping("drain")
        PROVE  QuietInv'
    BY <1>1 DEF QuietInv, WokenMeansFree, DrainedSoFar
  <1>2. ASSUME phase' = phase, UNCHANGED driverVars, UNCHANGED engineVars
        PROVE  QuietInv'
    BY <1>1, <1>2 DEF driverVars, engineVars, Sleeping
  <1>3. ASSUME engine PROVE QuietInv'
    <2>1. ASSUME done_co_fire PROVE QuietInv'
      BY <2>1 DEF done_co_fire, driverVars, powerVars, QuietInv, WokenMeansFree,
         DrainedSoFar, Sleeping
    <2>2. ASSUME done_co_store \/ done_co_raise PROVE QuietInv'
      BY <1>1, <2>2 DEF done_co_store, done_co_raise, driverVars, powerVars, Sleeping
    <2> QED BY <1>3, <2>1, <2>2 DEF engine
  <1>4. ASSUME rx_filter \/ rx_filter_data \/ rx_task_start PROVE QuietInv'
    BY <1>2, <1>4 DEF rx_filter, rx_filter_data, rx_task_start, powerVars
  <1>5. ASSUME rx_task PROVE QuietInv'
    BY <1>1, <1>5 DEF rx_task, engineVars, powerVars, Sleeping
  <1>6. ASSUME NEW c \in Callers, transfer_start(c) PROVE QuietInv'
    BY <1>6 DEF transfer_start, MayCall, powerVars, QuietInv, WokenMeansFree,
       DrainedSoFar, Quiesced
  <1>7. ASSUME NEW c \in Callers, caller(c) PROVE QuietInv'
    <2>1. ASSUME transfer_expired(c) PROVE QuietInv'
      BY <1>0, <1>1, <2>1, EngineAbortFacts
      DEF transfer_expired, Expire, GiveUp, powerVars, Sleeping
    <2>2. ASSUME transfer_woken(c) PROVE QuietInv'
      BY <1>1, <2>2 DEF transfer_woken, engineVars, powerVars, Sleeping
    <2> QED BY <1>7, <2>1, <2>2 DEF caller
  <1>8. ASSUME wait_expires PROVE QuietInv'
    <2>1. /\ Head(dma_cv) = dma_cv[1] /\ 1 \in DOMAIN dma_cv
          /\ ToSet(dma_cv') \subseteq ToSet(dma_cv)
          /\ ToSet(dma_cv) \subseteq ToSet(dma_cv') \cup {Head(dma_cv)}
      BY <1>0, <1>8, SleepersTail DEF wait_expires, DriverTypeOK
    <2>2. CASE Head(dma_cv) = "drain"
      BY <1>8, <2>2 DEF wait_expires, QuietInv, WokenMeansFree, DrainedSoFar, Quiesced
    <2>3. CASE Head(dma_cv) # "drain"
      <3>1. Sleeping("drain")' = Sleeping("drain") /\ phase' = phase
        BY <1>8, <2>1, <2>3 DEF wait_expires, powerVars, Sleeping
      <3>2. CASE calm
        BY <1>0, <1>1, <1>8, <2>3, <3>1, <3>2, EngineAbortFacts
        DEF wait_expires, Expire, GiveUp
      <3>3. CASE ~calm
        BY <1>1, <1>8, <2>3, <3>1, <3>3 DEF wait_expires, engineVars
      <3> QED BY <3>2, <3>3
    <2> QED BY <2>2, <2>3
  <1>9. ASSUME drain_dma PROVE QuietInv'
    <2>1. CASE in_flight
      <3>0. dma_cv' = Append(dma_cv, "drain") /\ phase' = "drain_wait"
        BY <1>9, <2>1 DEF drain_dma
      <3>1. ToSet(dma_cv') = ToSet(dma_cv) \cup {"drain"}
        BY <1>0, <3>0, SleepersAppend DEF DriverTypeOK
      <3> QED BY <3>0, <3>1 DEF QuietInv, WokenMeansFree, DrainedSoFar, Quiesced, Sleeping
    <2>2. CASE ~in_flight
      BY <1>9, <2>2 DEF drain_dma, QuietInv, WokenMeansFree, DrainedSoFar, Quiesced
    <2> QED BY <2>1, <2>2
  <1>10. ASSUME quiesce_begin \/ mask_interrupts PROVE QuietInv'
    BY <1>10 DEF quiesce_begin, mask_interrupts, QuietInv, WokenMeansFree, DrainedSoFar,
       Quiesced
  <1>11. ASSUME drain_woken \/ drain_expired PROVE QuietInv'
    BY <1>11 DEF drain_woken, drain_expired, driverVars, QuietInv, WokenMeansFree,
       DrainedSoFar, Quiesced
  <1>12. ASSUME drain_callout \/ drain_callout_done PROVE QuietInv'
    BY <1>12 DEF drain_callout, Cancel, drain_callout_done, driverVars, engineVars,
       QuietInv, WokenMeansFree, DrainedSoFar, Quiesced
  <1>13. ASSUME drain_task \/ shutdown_suspended \/ restore_mask \/ restore_flag
         PROVE  QuietInv'
    BY <1>13 DEF drain_task, shutdown_suspended, restore_mask, restore_flag, driverVars,
       engineVars, QuietInv, WokenMeansFree, DrainedSoFar, Quiesced
  <1>14. ASSUME UNCHANGED vars PROVE QuietInv'
    BY <1>2, <1>14 DEF vars, powerVars
  <1> QED
    BY <1>3, <1>4, <1>5, <1>6, <1>7, <1>8, <1>9, <1>10, <1>11, <1>12, <1>13, <1>14
    DEF Next, interrupts, quiesce

\* With user threads stopped while the system is suspended, the assertion at
\* the end of myfirst_quiesce() holds and the engine is at rest until resume.
THEOREM DmaQuietWhenSuspended ==
    ASSUME Frozen
    PROVE  Spec => []QuietWhenSuspended
  <1>1. QuietInv => QuietWhenSuspended
    BY DEF QuietInv, DrainedSoFar, QuietWhenSuspended, Quiesced
  <1> QED BY <1>1, TypeInit, TypeStep, QuietInit, QuietStep, PTL DEF Spec

------------------------------------------------------------------------------
(* The calm machine.                                                        *)

\* What belongs to a transfer is in one place at a time: in the engine, then an
\* interrupt, then the task.
OnePlace ==
    /\ callout => done_co = "idle"
    /\ callout \/ done_co # "idle" => ~irq
    /\ callout \/ done_co # "idle" \/ irq => ~rx_pending
    /\ callout \/ done_co # "idle" \/ irq \/ rx_pending => ~rx_running

\* Nothing of a transfer is left when the device is given back, so that nothing
\* of it can be taken for the next.
NothingLeft ==
    /\ Underway => in_flight
    /\ phase = "drain_expired" => ~Underway
    /\ \A c \in Callers : pc[c] # "expired"

Ended(s) == {"DONE", "ERR"} \cap s # {}

\* The engine has said how the transfer ended before the driver hears of it.
EndKnown == done_co = "raising" \/ irq \/ rx_pending \/ rx_running => Ended(status)

CalmInv == calm => OnePlace /\ NothingLeft /\ EndKnown /\ SuccessMeansDone

LEMMA CalmInit == Init => CalmInv
  BY DEF Init, CalmInv, OnePlace, NothingLeft, Underway, EndKnown, SuccessMeansDone

\* An abort takes work away from the engine, and its status then has ERR.
LEMMA AbortEnds ==
    ASSUME EngineTypeOK, EngineAbort
    PROVE  /\ Ended(status') /\ (callout' => callout)
           /\ done_co' # "idle" => done_co # "idle"
  BY DEF EngineTypeOK, EngineAbort, Overlap, StatusBits, Ended

LEMMA CalmStep ==
    ASSUME Frozen
    PROVE  TypeInv /\ CalmInv /\ [Next]_vars => CalmInv'
  <1> SUFFICES ASSUME TypeInv, CalmInv, [Next]_vars, calm, calm' = calm
               PROVE  CalmInv'
    BY DEF CalmInv, Next, vars, engine, done_co_fire, done_co_store, done_co_raise,
       interrupts, rx_filter, rx_filter_data, rx_task_start, rx_task, transfer_start,
       caller, transfer_expired, transfer_woken, wait_expires, quiesce_begin, quiesce,
       mask_interrupts, drain_dma, drain_woken, drain_expired, drain_callout,
       drain_callout_done, drain_task, shutdown_suspended, restore_mask, restore_flag
  <1>0. /\ DriverTypeOK /\ EngineTypeOK /\ IntrTypeOK
        /\ OnePlace /\ NothingLeft /\ EndKnown /\ SuccessMeansDone
    BY DEF TypeInv, DmaTypeOK, CalmInv
  <1> USE DEF OnePlace, NothingLeft, EndKnown, Underway
  \* A step that touches neither sleepers nor callers.
  <1>1. ASSUME pc' = pc, dma_cv' = dma_cv, last_status' = last_status
        PROVE  /\ SuccessMeansDone'
               /\ \A c \in Callers : pc'[c] # "expired"
    BY <1>0, <1>1 DEF SuccessMeansDone, Sleeping
  \* A step that takes work away, or leaves it.
  <1>2. ASSUME in_flight' = in_flight, callout' => callout,
               done_co' # "idle" => done_co # "idle",
               done_co' = done_co \/ Ended(status'),
               UNCHANGED <<irq, rx_pending, rx_running>>,
               status' = status \/ Ended(status'),
               phase' = "drain_expired" => phase = "drain_expired" \/ ~Underway,
               SuccessMeansDone', \A c \in Callers : pc'[c] # "expired"
        PROVE  CalmInv'
    BY <1>0, <1>2 DEF CalmInv, Ended, EngineTypeOK
  <1>3. ASSUME engine PROVE CalmInv'
    <2>1. /\ SuccessMeansDone' /\ \A c \in Callers : pc'[c] # "expired"
          /\ in_flight' = in_flight /\ phase' = phase
          /\ rx_pending' = rx_pending /\ rx_running' = rx_running
      BY <1>1, <1>3 DEF engine, done_co_fire, done_co_store, done_co_raise, driverVars,
         intrVars, powerVars
    <2>2. ASSUME done_co_fire PROVE CalmInv'
      BY <1>0, <2>1, <2>2 DEF done_co_fire, intrVars, CalmInv
    <2>3. ASSUME done_co_store PROVE CalmInv'
      BY <1>0, <2>1, <2>3 DEF done_co_store, intrVars, CalmInv, Ended
    <2>4. ASSUME done_co_raise PROVE CalmInv'
      BY <1>0, <2>1, <2>4 DEF done_co_raise, CalmInv
    <2> QED BY <1>3, <2>2, <2>3, <2>4 DEF engine
  <1>4. ASSUME rx_filter \/ rx_task_start PROVE CalmInv'
    <2>1. /\ SuccessMeansDone' /\ \A c \in Callers : pc'[c] # "expired"
          /\ in_flight' = in_flight /\ phase' = phase /\ status' = status
          /\ callout' = callout /\ done_co' = done_co
      BY <1>1, <1>4 DEF rx_filter, rx_task_start, driverVars, engineVars, powerVars
    <2>2. ASSUME rx_filter PROVE CalmInv'
      BY <1>0, <2>1, <2>2 DEF rx_filter, Handle, CalmInv, IntrTypeOK
    <2>3. ASSUME rx_task_start PROVE CalmInv'
      BY <1>0, <2>1, <2>3 DEF rx_task_start, CalmInv
    <2> QED BY <1>4, <2>2, <2>3
  <1>5. ASSUME rx_task PROVE CalmInv'
    <2>1. /\ UNCHANGED <<callout, done_co, status, irq, rx_pending, phase, pc>>
          /\ rx_running /\ ~rx_running' /\ in_flight /\ last_status' = status
          /\ ~callout /\ done_co = "idle" /\ ~irq /\ ~rx_pending
      BY <1>0, <1>5 DEF rx_task, ReadStatus, engineVars, powerVars
    <2>2. SuccessMeansDone'
      BY <1>0, <1>5, <2>1 DEF SuccessMeansDone, Ended
    <2> QED BY <1>0, <2>1, <2>2 DEF CalmInv
  <1>6. ASSUME NEW c \in Callers, transfer_start(c) PROVE CalmInv'
    <2>1. /\ UNCHANGED <<irq, rx_pending, rx_running, phase, last_status>>
          /\ in_flight' /\ dma_cv' = Append(dma_cv, c) /\ phase = "running"
          /\ ~in_flight
      BY <1>6 DEF transfer_start, MayCall, intrVars, powerVars
    <2>2. done_co = "idle" /\ done_co' = done_co /\ ~irq /\ ~rx_pending /\ ~rx_running
      BY <1>0, <1>6, <2>1 DEF transfer_start, EngineStart, Overlap
    <2>3. ToSet(dma_cv') = ToSet(dma_cv) \cup {c}
      BY <1>0, <2>1, SleepersAppend DEF DriverTypeOK
    <2>4. pc' = [pc EXCEPT ![c] = "waiting"]
      BY <1>6 DEF transfer_start, Goto
    <2>5. SuccessMeansDone' /\ \A d \in Callers : pc'[d] # "expired"
      BY <1>0, <2>1, <2>3, <2>4 DEF SuccessMeansDone, Sleeping, DriverTypeOK
    <2> QED BY <2>1, <2>2, <2>5 DEF CalmInv
  <1>7. ASSUME NEW c \in Callers, caller(c) PROVE CalmInv'
    <2>1. transfer_woken(c)
      BY <1>0, <1>7 DEF caller, transfer_expired
    <2>2. pc' = [pc EXCEPT ![c] = "idle"] /\ UNCHANGED <<dma_cv, last_status>>
      BY <2>1 DEF transfer_woken, Goto
    <2>3. SuccessMeansDone' /\ \A d \in Callers : pc'[d] # "expired"
      BY <1>0, <2>2 DEF SuccessMeansDone, Sleeping, DriverTypeOK
    <2> QED
      BY <1>2, <2>1, <2>3 DEF transfer_woken, engineVars, intrVars, powerVars
  <1>8. ASSUME wait_expires PROVE CalmInv'
    <2>1. /\ ~Underway /\ UNCHANGED <<irq, rx_pending, rx_running, last_status>>
      BY <1>8 DEF wait_expires, MayExpire, intrVars
    <2>2. ToSet(dma_cv) \subseteq ToSet(dma_cv') \cup {Head(dma_cv)}
      BY <1>0, <1>8, SleepersTail DEF wait_expires, DriverTypeOK
    <2>3. CASE Head(dma_cv) = "drain"
      <3>1. pc' = pc /\ UNCHANGED <<in_flight, callout, done_co, status>>
        BY <1>8, <2>3 DEF wait_expires, engineVars
      <3>2. SuccessMeansDone' /\ \A d \in Callers : pc'[d] # "expired"
        BY <1>0, <2>1, <2>2, <2>3, <3>1, DmaAssumption DEF SuccessMeansDone, Sleeping
      <3> QED BY <1>2, <2>1, <3>1, <3>2
    <2>4. CASE Head(dma_cv) # "drain"
      <3>1. /\ pc' = [pc EXCEPT ![Head(dma_cv)] = "idle"] /\ phase' = phase
            /\ EngineAbort
        BY <1>8, <2>4 DEF wait_expires, Expire, Goto, powerVars
      <3>2. (callout' => callout) /\ (done_co' # "idle" => done_co # "idle")
        BY <1>0, <3>1, AbortEnds
      <3>3. SuccessMeansDone' /\ \A d \in Callers : pc'[d] # "expired"
        BY <1>0, <2>1, <2>2, <3>1 DEF SuccessMeansDone, Sleeping, DriverTypeOK
      <3> QED BY <2>1, <3>1, <3>2, <3>3 DEF CalmInv
    <2> QED BY <2>3, <2>4
  <1>9. ASSUME drain_dma PROVE CalmInv'
    <2>1. CASE in_flight
      <3>1. /\ UNCHANGED <<in_flight, irq, rx_pending, rx_running, pc, last_status>>
            /\ phase' = "drain_wait" /\ EngineAbort /\ dma_cv' = Append(dma_cv, "drain")
        BY <1>9, <2>1 DEF drain_dma, intrVars
      <3>2. ToSet(dma_cv') = ToSet(dma_cv) \cup {"drain"}
        BY <1>0, <3>1, SleepersAppend DEF DriverTypeOK
      <3>3. SuccessMeansDone' /\ \A d \in Callers : pc'[d] # "expired"
        BY <1>0, <3>1, <3>2 DEF SuccessMeansDone, Sleeping
      <3>4. /\ Ended(status') /\ (callout' => callout)
            /\ done_co' # "idle" => done_co # "idle"
        BY <1>0, <3>1, AbortEnds
      <3> QED BY <1>2, <3>1, <3>3, <3>4
    <2>2. CASE ~in_flight
      BY <1>1, <1>2, <1>9, <2>2 DEF drain_dma, engineVars, intrVars
    <2> QED BY <2>1, <2>2
  <1>10. ASSUME drain_expired PROVE CalmInv'
    <2>1. UNCHANGED <<pc, dma_cv, last_status, engineVars, intrVars>> /\ ~Underway
      BY <1>0, <1>10 DEF drain_expired
    <2> QED BY <1>0, <1>1, <2>1 DEF CalmInv, engineVars, intrVars
  <1>11. ASSUME drain_callout PROVE CalmInv'
    BY <1>1, <1>2, <1>11 DEF drain_callout, Cancel, driverVars, intrVars
  <1>12. ASSUME \/ quiesce_begin \/ mask_interrupts \/ drain_woken \/ drain_callout_done
                \/ drain_task \/ shutdown_suspended \/ restore_mask \/ restore_flag
                \/ UNCHANGED vars
         PROVE  CalmInv'
    <2>1. /\ UNCHANGED <<driverVars, engineVars, irq, rx_pending, rx_running>>
          /\ phase' = "drain_expired" => phase = "drain_expired"
      BY <1>12 DEF quiesce_begin, mask_interrupts, drain_woken, drain_callout_done,
         drain_task, shutdown_suspended, restore_mask, restore_flag, vars, intrVars,
         powerVars
    <2> QED BY <1>1, <1>2, <2>1 DEF driverVars, engineVars
  <1> QED
    BY <1>3, <1>4, <1>5, <1>6, <1>7, <1>8, <1>9, <1>10, <1>11, <1>12
    DEF Next, interrupts, quiesce, rx_filter_data

\* Without data interrupts and with waits that are never too short, the engine
\* works only for a driver that holds the buffer busy: no transfer, however it
\* was aborted, leaves anything to the next.
THEOREM DmaEngineOnlyWhenBusy ==
    ASSUME Frozen
    PROVE  Spec => []CalmEngineOnlyWhenBusy
  <1>1. CalmInv => CalmEngineOnlyWhenBusy
    BY DEF CalmInv, NothingLeft, Underway, CalmEngineOnlyWhenBusy, EngineOnlyWhenBusy
  <1> QED BY <1>1, TypeInit, TypeStep, CalmInit, CalmStep, PTL DEF Spec

\* Under the same conditions no caller is told of success while its transfer runs.
THEOREM DmaSuccessMeansDone ==
    ASSUME Frozen
    PROVE  Spec => []CalmSuccessMeansDone
  <1>1. CalmInv => CalmSuccessMeansDone
    BY DEF CalmInv, CalmSuccessMeansDone
  <1> QED BY <1>1, TypeInit, TypeStep, CalmInit, CalmStep, PTL DEF Spec
=============================================================================
