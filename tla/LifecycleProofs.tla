--------------------------- MODULE LifecycleProofs ----------------------------
(***************************************************************************)
(* For every set of users, handlers, sysctls and callouts:                  *)
(*  - whoever is past the entry check of read, write or poll keeps the      *)
(*    device attached, and the KASSERTs about it hold;                      *)
(*  - nobody uses a lock, queue, semaphore, counter or buffer that does not *)
(*    exist, taskqueue_free() finds an idle queue, and no callout is        *)
(*    scheduled behind its drain, each as long as the sysctls that break it *)
(*    are not called while a detach is under way;                           *)
(*  - what a detach waits for comes to an end without it.                   *)
(*                                                                         *)
(* The reason of the first is a count that is never wrong: active_fhs is    *)
(* the number of files that went through open_count(), also when an open    *)
(* races with a detach that has already refused nobody.  Such a file is     *)
(* counted after is_attached is gone, so its I/O stops at the entry check,  *)
(* and destroy_dev() takes it away before the device can be attached again. *)
(*                                                                         *)
(* The reason of the others is the order of DetachSeq: each agent (timers,  *)
(* tasks, files, handlers) has a place in it behind which it is quiet, and  *)
(* every resource an agent uses is destroyed at a later place.              *)
(***************************************************************************)
EXTENDS Lifecycle, FiniteSetTheorems, SequenceTheorems, TLAPS

CountedFiles == {u \in Users : fh[u] = "counted"}

\* destroy_dev() has returned, or there is no device.
AllClosed == stage = "absent" \/ dstep > 14

UserTypes ==
    /\ stage \in {"absent", "attaching", "attached", "detaching"}
    /\ dstep \in 0 .. 22
    /\ is_attached \in BOOLEAN
    /\ pc \in [Users -> Labels]
    /\ fh \in [Users -> {"none", "private", "counted"}]

FilesCounted == active_fhs = Cardinality(CountedFiles)

StageFlags ==
    /\ is_attached <=> stage \in {"attaching", "attached"}
    /\ dstep > 0 <=> stage = "detaching"

ClosedMeansIdle == AllClosed => \A u \in Users : pc[u] = "idle" /\ fh[u] = "none"

\* How far an open has got, and that I/O needs a counted file.
FileAtLabel == \A u \in Users :
    /\ pc[u] = "op_priv" => fh[u] = "none"
    /\ pc[u] = "op_count" => fh[u] = "private"
    /\ pc[u] \notin {"idle", "op_priv", "op_count"}
         => fh[u] = "counted" /\ is_attached

PinInv == /\ UserTypes /\ FilesCounted /\ StageFlags /\ ClosedMeansIdle
          /\ FileAtLabel

ioLabels == Labels \ {"idle", "op_priv", "op_count"}

\* Where "cdev_wait" is in the sequence, and how long that is.
LEMMA SeqFacts ==
    /\ Len(DetachSeq) = 22
    /\ \A i \in 1 .. 22 : DetachSeq[i] = "cdev_wait" <=> i = 14
  BY DEF DetachSeq

LEMMA FilesFinite ==
    IsFiniteSet(CountedFiles) /\ Cardinality(CountedFiles) \in Nat
  <1>1. CountedFiles \in SUBSET Users
    BY DEF CountedFiles
  <1> QED
    BY <1>1, LifecycleAssumption, FS_Subset, FS_CardinalityType

LEMMA PinInit == Init => PinInv
  <1> SUFFICES ASSUME Init PROVE PinInv
    OBVIOUS
  <1>1. CountedFiles = {}
    BY DEF Init, CountedFiles
  <1>2. FilesCounted
    BY <1>1, FS_EmptySet DEF Init, FilesCounted
  <1>3. UserTypes
    <2>1. /\ pc \in [Users -> Labels]
          /\ fh \in [Users -> {"none", "private", "counted"}]
      BY DEF Init, Labels
    <2>2. dstep = 0 /\ is_attached = FALSE /\ stage = "absent"
      BY DEF Init
    <2>3. dstep \in 0 .. 22
      BY <2>2
    <2> QED
      BY <2>1, <2>2, <2>3 DEF UserTypes
  <1> QED
    BY <1>2, <1>3 DEF Init, PinInv, StageFlags, ClosedMeansIdle, FileAtLabel

------------------------------------------------------------------------------
(* Steps that leave the files and the device's stage alone.                  *)

\* A thread that is doing I/O goes to another label of its call, or returns.
LEMMA PinGoto ==
    ASSUME PinInv, NEW u \in Users, NEW label \in ioLabels \cup {"idle"},
           fh[u] = "counted", is_attached, Goto(u, label),
           UNCHANGED <<deviceVars, fh, active_fhs>>
    PROVE  PinInv'
  <1>1. /\ pc' \in [Users -> Labels] /\ pc'[u] = label
        /\ \A v \in Users \ {u} : pc'[v] = pc[v]
    BY DEF PinInv, UserTypes, Goto, ioLabels, Labels
  <1>2. UserTypes' /\ FilesCounted' /\ StageFlags'
    BY <1>1 DEF PinInv, UserTypes, FilesCounted, CountedFiles, StageFlags,
                deviceVars
  <1>3. ClosedMeansIdle'
    BY DEF PinInv, ClosedMeansIdle, AllClosed, deviceVars
  <1>4. FileAtLabel'
    BY <1>1 DEF PinInv, FileAtLabel, deviceVars, ioLabels
  <1> QED
    BY <1>2, <1>3, <1>4 DEF PinInv

\* What I/O steps have in common.
LEMMA PinIO ==
    ASSUME PinInv, NEW u \in Users,
           pc[u] \notin {"idle", "op_priv", "op_count"},
           \E label \in ioLabels \cup {"idle"} : Goto(u, label),
           UNCHANGED <<deviceVars, fh, active_fhs>>
    PROVE  PinInv'
  <1>1. fh[u] = "counted" /\ is_attached
    BY DEF PinInv, FileAtLabel
  <1> QED
    BY <1>1, PinGoto

LEMMA PinReadWrite ==
    ASSUME PinInv, NEW u \in Users,
           \/ read_lock(u) \/ read_woken(u) \/ read_signal(u) \/ poll_lock(u)
           \/ writer_enter_count(u) \/ writer_enter_check(u)
           \/ writer_enter_sema(u) \/ writer_enter_again(u)
           \/ writer_enter_recheck(u) \/ writer_leave_post(u)
           \/ writer_uncount(u) \/ write_limit(u) \/ write_lock(u)
           \/ write_woken(u) \/ write_copy(u) \/ write_signal(u)
    PROVE  PinInv'
  <1> USE DEF ioLabels, Labels, deviceVars
  <1>1. CASE read_lock(u) \/ read_woken(u) \/ read_signal(u) \/ poll_lock(u)
    BY <1>1, PinIO DEF read_lock, read_woken, read_section, read_signal,
                       poll_lock
  <1>2. CASE \/ writer_enter_count(u) \/ writer_enter_check(u)
             \/ writer_enter_sema(u) \/ writer_enter_again(u)
             \/ writer_enter_recheck(u) \/ writer_leave_post(u)
             \/ writer_uncount(u)
    BY <1>2, PinIO
    DEF writer_enter_count, writer_enter_check, writer_enter_sema,
        writer_enter_again, writer_enter_recheck, writer_leave_post,
        writer_uncount
  <1>3. CASE \/ write_limit(u) \/ write_lock(u) \/ write_woken(u)
             \/ write_copy(u) \/ write_signal(u)
    BY <1>3, PinIO DEF write_limit, write_lock, write_woken, write_section,
                       write_copy, write_signal
  <1> QED
    BY <1>1, <1>2, <1>3

LEMMA PinUnchanged ==
    ASSUME PinInv, UNCHANGED <<stage, dstep, is_attached, userVars>>
    PROVE  PinInv'
  BY DEF PinInv, UserTypes, FilesCounted, CountedFiles, StageFlags,
         ClosedMeansIdle, AllClosed, FileAtLabel, userVars

------------------------------------------------------------------------------
(* Opening and closing.                                                      *)

\* Counting a file that was not, and forgetting one that was.
LEMMA FileCounted ==
    ASSUME PinInv, NEW u \in Users
    PROVE  /\ fh[u] # "counted" /\ fh' = [fh EXCEPT ![u] = "counted"]
                => Cardinality(CountedFiles') = Cardinality(CountedFiles) + 1
           /\ fh[u] = "counted" /\ fh' = [fh EXCEPT ![u] = "none"]
                => Cardinality(CountedFiles') = Cardinality(CountedFiles) - 1
  <1>1. ASSUME fh[u] # "counted", fh' = [fh EXCEPT ![u] = "counted"]
        PROVE  Cardinality(CountedFiles') = Cardinality(CountedFiles) + 1
    <2>1. CountedFiles' = CountedFiles \cup {u} /\ u \notin CountedFiles
      BY <1>1 DEF PinInv, UserTypes, CountedFiles
    <2> QED
      BY <2>1, FilesFinite, FS_AddElement
  <1>2. ASSUME fh[u] = "counted", fh' = [fh EXCEPT ![u] = "none"]
        PROVE  Cardinality(CountedFiles') = Cardinality(CountedFiles) - 1
    <2>1. CountedFiles' = CountedFiles \ {u} /\ u \in CountedFiles
      BY <1>2 DEF PinInv, UserTypes, CountedFiles
    <2> QED
      BY <2>1, FilesFinite, FS_RemoveElement
  <1> QED
    BY <1>1, <1>2

LEMMA PinOpen ==
    ASSUME PinInv, NEW u \in Users,
           open_check(u) \/ open_set_cdevpriv(u) \/ open_count(u) \/ io_enter(u)
             \/ close_dtor(u)
    PROVE  PinInv'
  <1>1. CASE open_check(u)
    <2>1. ~AllClosed /\ fh[u] = "none"
      BY <1>1 DEF open_check, PinInv, StageFlags, AllClosed, UserTypes
    <2> QED
      BY <1>1, <2>1
      DEF open_check, Goto, deviceVars, PinInv, UserTypes, Labels, FilesCounted,
          CountedFiles, StageFlags, ClosedMeansIdle, AllClosed, FileAtLabel
  <1>2. CASE open_set_cdevpriv(u)
    <2>1. ~AllClosed /\ fh[u] = "none"
      BY <1>2 DEF open_set_cdevpriv, PinInv, ClosedMeansIdle, FileAtLabel
    <2>2. CountedFiles' = CountedFiles
      BY <1>2, <2>1 DEF open_set_cdevpriv, CountedFiles, PinInv, UserTypes
    <2>3. UserTypes'
      BY <1>2 DEF open_set_cdevpriv, Goto, deviceVars, PinInv, UserTypes, Labels
    <2>4. FileAtLabel'
      BY <1>2, <2>1
      DEF open_set_cdevpriv, Goto, deviceVars, PinInv, UserTypes, FileAtLabel
    <2> QED
      BY <1>2, <2>1, <2>2, <2>3, <2>4
      DEF open_set_cdevpriv, deviceVars, PinInv, FilesCounted, StageFlags,
          ClosedMeansIdle, AllClosed
  <1>3. CASE open_count(u)
    <2>1. ~AllClosed /\ fh[u] = "private"
      BY <1>3 DEF open_count, PinInv, ClosedMeansIdle, FileAtLabel
    <2>2. FilesCounted'
      BY <1>3, <2>1, FileCounted DEF open_count, PinInv, FilesCounted
    <2>3. UserTypes'
      BY <1>3 DEF open_count, Goto, deviceVars, PinInv, UserTypes, Labels
    <2>4. FileAtLabel'
      BY <1>3, <2>1
      DEF open_count, Goto, deviceVars, PinInv, UserTypes, FileAtLabel
    <2> QED
      BY <1>3, <2>1, <2>2, <2>3, <2>4
      DEF open_count, deviceVars, PinInv, StageFlags, ClosedMeansIdle, AllClosed
  <1>4. CASE io_enter(u)
    BY <1>4, PinGoto DEF io_enter, ioLabels, Labels
  <1>5. CASE close_dtor(u)
    <2>1. fh[u] = "counted"
      BY <1>5 DEF close_dtor
    <2>2. FilesCounted'
      BY <1>5, <2>1, FileCounted DEF close_dtor, PinInv, FilesCounted
    <2>3. UserTypes'
      BY <1>5 DEF close_dtor, deviceVars, PinInv, UserTypes
    <2>4. FileAtLabel' /\ ClosedMeansIdle'
      BY <1>5
      DEF close_dtor, deviceVars, PinInv, UserTypes, FileAtLabel,
          ClosedMeansIdle, AllClosed
    <2> QED
      BY <1>5, <2>2, <2>3, <2>4 DEF close_dtor, deviceVars, PinInv, StageFlags
  <1> QED
    BY <1>1, <1>2, <1>3, <1>4, <1>5

------------------------------------------------------------------------------
(* Attaching and detaching.                                                  *)

LEMMA PinAttach == ASSUME PinInv, attach PROVE PinInv'
  <1>1. CASE attach_make_dev
    <2>1. \A u \in Users : pc[u] = "idle" /\ fh[u] = "none"
      BY <1>1 DEF attach_make_dev, PinInv, ClosedMeansIdle, AllClosed
    <2>2. CountedFiles' = {}
      BY <1>1, <2>1 DEF attach_make_dev, CountedFiles
    <2>3. FilesCounted'
      BY <1>1, <2>2, FS_EmptySet DEF attach_make_dev, FilesCounted
    <2> QED
      BY <1>1, <2>1, <2>3
      DEF attach_make_dev, PinInv, UserTypes, StageFlags, ClosedMeansIdle,
          AllClosed, FileAtLabel
  <1>2. CASE attach_sysctl
    BY <1>2
    DEF attach_sysctl, userVars, PinInv, UserTypes, FilesCounted, CountedFiles,
        StageFlags, ClosedMeansIdle, AllClosed, FileAtLabel
  <1>3. ASSUME NEW failed, attach_fail(failed) PROVE PinInv'
    BY <1>3, PinUnchanged DEF attach_fail
  <1> QED
    BY <1>1, <1>2, <1>3 DEF attach

\* A detach begins only when no file is counted, so nobody is doing I/O.
LEMMA PinDetachBegin == ASSUME PinInv, detach_begin PROVE PinInv'
  <1>1. CountedFiles = {}
    BY FilesFinite, FS_EmptySet DEF detach_begin, NotBusy, PinInv, FilesCounted
  <1>2. \A u \in Users : pc[u] \in {"idle", "op_priv", "op_count"}
    BY <1>1 DEF CountedFiles, PinInv, FileAtLabel
  <1>3. /\ stage' = "detaching" /\ dstep' = 1 /\ is_attached' = FALSE
        /\ UNCHANGED userVars
    BY DEF detach_begin
  <1>4. UserTypes'
    <2>1. dstep' \in 0 .. 22
      BY <1>3
    <2> QED
      BY <1>3, <2>1 DEF userVars, PinInv, UserTypes
  <1>5. FilesCounted' /\ FileAtLabel'
    BY <1>2, <1>3
    DEF userVars, PinInv, FilesCounted, CountedFiles, FileAtLabel
  <1>6. StageFlags' /\ ClosedMeansIdle'
    BY <1>3 DEF StageFlags, ClosedMeansIdle, AllClosed
  <1> QED
    BY <1>4, <1>5, <1>6 DEF PinInv

\* Every other step of a detach moves on in DetachSeq, and only the one at
\* "cdev_wait" passes the point behind which all files are closed.
LEMMA DetachMoves ==
    ASSUME PinInv, NEW step, At(step), Proceed
    PROVE  /\ stage' \in {"absent", "detaching"} /\ dstep' \in 0 .. 22
           /\ dstep' > 0 <=> stage' = "detaching"
           /\ AllClosed' => step = "cdev_wait" \/ AllClosed
           /\ stage = "detaching"
  <1>1. dstep \in 1 .. 22 /\ stage = "detaching" /\ DetachSeq[dstep] = step
    BY DEF At, PinInv, UserTypes, StageFlags
  <1>2. step = "cdev_wait" <=> dstep = 14
    BY <1>1, SeqFacts
  <1>3. CASE dstep < 22
    <2>1. dstep' = dstep + 1 /\ stage' = stage
      BY <1>3, SeqFacts DEF Proceed
    <2> QED
      BY <1>1, <1>2, <1>3, <2>1 DEF AllClosed
  <1>4. CASE dstep = 22
    BY <1>1, <1>4, SeqFacts DEF Proceed, AllClosed
  <1> QED
    BY <1>1, <1>3, <1>4

LEMMA PinProceed ==
    ASSUME PinInv, NEW step, At(step), step # "cdev_wait", Proceed,
           UNCHANGED <<is_attached, userVars>>
    PROVE  PinInv'
  <1> USE DetachMoves
  <1>1. UserTypes' /\ FilesCounted' /\ FileAtLabel'
    BY DEF PinInv, UserTypes, FilesCounted, CountedFiles, FileAtLabel, userVars
  <1>2. StageFlags' /\ ClosedMeansIdle'
    BY DEF PinInv, StageFlags, ClosedMeansIdle, userVars
  <1> QED
    BY <1>1, <1>2 DEF PinInv

LEMMA PinDetachStep == ASSUME PinInv, detach_step PROVE PinInv'
  <1>1. CASE detach_post \/ detach_writers_drain \/ detach_sysctl_wait
    BY <1>1, PinProceed DEF detach_post, detach_writers_drain,
                            detach_sysctl_wait
  <1>2. ASSUME NEW t \in AllTimers, detach_callout_drain(t) PROVE PinInv'
    BY <1>2, PinProceed DEF detach_callout_drain, AllTimers
  <1>3. ASSUME NEW t \in AllTasks, detach_task_drain(t) PROVE PinInv'
    BY <1>3, PinProceed DEF detach_task_drain, AllTasks
  <1>4. ASSUME NEW r \in Resources, detach_destroy(r) PROVE PinInv'
    BY <1>4, PinProceed DEF detach_destroy, Resources
  <1>5. CASE detach_cdev_wait
    <2>1. /\ At("cdev_wait") /\ Proceed /\ is_attached' = is_attached
          /\ \A u \in Users : pc'[u] = "idle" /\ fh'[u] = "none"
          /\ active_fhs' = active_fhs - Cardinality(CountedFiles)
          /\ pc' = pc /\ fh' = [u \in Users |-> "none"]
      BY <1>5 DEF detach_cdev_wait, CountedFiles
    <2>2. CountedFiles' = {}
      BY <2>1 DEF CountedFiles
    <2>3. FilesCounted'
      BY <2>1, <2>2, FilesFinite, FS_EmptySet DEF PinInv, FilesCounted
    <2>4. UserTypes' /\ StageFlags'
      BY <2>1, DetachMoves DEF PinInv, UserTypes, StageFlags
    <2> QED
      BY <2>1, <2>3, <2>4 DEF PinInv, ClosedMeansIdle, FileAtLabel
  <1> QED
    BY <1>1, <1>2, <1>3, <1>4, <1>5 DEF detach_step

------------------------------------------------------------------------------
LEMMA PinOthers ==
    ASSUME PinInv,
           \/ \E t \in AllTimers : callout_fire(t)
           \/ task_timeout
           \/ taskqueue_thread
           \/ \E h \in Handlers : handler_new(h) \/ handler_step(h)
    PROVE  PinInv'
  <1> USE PinUnchanged DEF deviceVars
  <1>1. ASSUME NEW t, callout_fire(t) PROVE PinInv'
    BY <1>1 DEF callout_fire
  <1>2. CASE task_timeout \/ task_step \/ \E t \in AllTasks : task_start(t)
    BY <1>2 DEF task_timeout, task_step, task_start
  <1>3. ASSUME NEW h \in Handlers, handler_new(h) PROVE PinInv'
    BY <1>3 DEF handler_new, handler_call
  <1>4. ASSUME NEW h \in Handlers, handler_step(h) PROVE PinInv'
    BY <1>4 DEF handler_step, handler_section, handler_interval, handler_flood,
                handler_reset_delayed, handler_writers_limit,
                handler_writers_post
  <1> QED
    BY <1>1, <1>2, <1>3, <1>4 DEF taskqueue_thread

LEMMA PinNext == PinInv /\ [Next]_vars => PinInv'
  <1> SUFFICES ASSUME PinInv, [Next]_vars PROVE PinInv'
    OBVIOUS
  <1>1. ASSUME NEW u \in Users, user(u) PROVE PinInv'
    BY <1>1, PinOpen, PinReadWrite DEF user, user_step
  <1>2. CASE UNCHANGED vars
    BY <1>2, PinUnchanged DEF vars, deviceVars
  <1> QED
    BY <1>1, <1>2, PinAttach, PinDetachBegin, PinDetachStep, PinOthers DEF Next

\* The open-file count is right at all times, and it is what keeps a detach out:
\* no read, write or poll that has passed its entry check of is_attached ever
\* runs on a detached device, however opens race with the detach.
THEOREM LifecycleIOPinsDevice == Spec => []IOPinsDevice
  <1>1. PinInv => IOPinsDevice
    <2> SUFFICES ASSUME PinInv, NEW u \in Users,
                        pc[u] \notin {"idle", "op_priv", "op_count"}
                 PROVE  fh[u] = "counted" /\ is_attached /\ active_fhs > 0
      BY DEF IOPinsDevice
    <2>1. fh[u] = "counted" /\ is_attached
      BY DEF PinInv, FileAtLabel
    <2>2. CountedFiles # {}
      BY <2>1 DEF CountedFiles
    <2> QED
      BY <2>1, <2>2, FilesFinite, FS_EmptySet DEF PinInv, FilesCounted
  <1> QED
    BY <1>1, PinInit, PinNext, PTL DEF Spec

------------------------------------------------------------------------------
(* Who can still use what.                                                   *)

\* Step i of a detach is over, or there is no device.
Passed(i) == stage = "absent" \/ dstep > i

\* What exists: all but the sysctl tree once the node is there, and during a
\* detach whatever the sequence has not come to yet.
LiveInv ==
    /\ live \subseteq Resources
    /\ stage \in {"attaching", "attached"} => Resources \ {"sysctl"} \subseteq live
    /\ stage = "attached" => "sysctl" \in live
    /\ stage = "detaching" =>
         \A i \in dstep .. 22 : DetachSeq[i] \in Resources => DetachSeq[i] \in live
    /\ Passed(15) => "sysctl" \notin live

TaskUses == {"mtx", "selinfo", "cbuf", "counters", "cvs", "cfg_sx"}

Runs == [task: AllTasks, left: Seq(SUBSET TaskUses) \ {<<>>}]

\* Nothing is queued, runs or is scheduled behind its drain (steps 6 to 9).
TaskInv ==
    /\ pending \subseteq AllTasks
    /\ running \in Runs \cup {NoTask}
    /\ Passed(8) => ~timeout
    /\ \A i \in 6 .. 9 : Passed(i) =>
          DetachSeq[i] \notin pending /\ running.task # DetachSeq[i]

\* No callout is scheduled behind its drain (steps 3 to 5).
TimerInv ==
    /\ armed \subseteq AllTimers
    /\ \A i \in 3 .. 5 : Passed(i) => DetachSeq[i] \notin armed

\* The sysctl handlers whose locks outlive the sysctl tree, and what they use.
HarmlessKinds == {"cb_used", "cfg", "reset", "bytes_written_10s"}
HarmlessUses  == {"mtx", "cfg_sx", "stats_sx", "cbuf", "counters", "cvs"}

\* All that exists while the device is attached, the sysctl tree aside.
Inside == Resources \ {"sysctl"}

Calls == [kind: AllKinds, timer: AllTimers \cup {"none"}, old: BOOLEAN,
          left: Seq(SUBSET Inside) \ {<<>>}]

\* A sysctl handler runs only while the tree is not drained, and during a detach
\* it is one that may race with it.
HandlerInv ==
    /\ writers_limit \in Nat
    /\ handler \in [Handlers -> Calls \cup {NoCall}]
    /\ \A h \in Handlers : handler[h] # NoCall =>
          /\ ~Passed(16)
          /\ stage = "detaching" => handler[h].kind \in Racing
          /\ handler[h].kind = "interval" => handler[h].timer \in AllTimers
          /\ handler[h].kind \in HarmlessKinds
               => handler[h].left \in Seq(SUBSET HarmlessUses)

\* Where each step is in the sequence.
LEMMA Positions ==
    /\ \A i \in 1 .. 22 :
          /\ DetachSeq[i] = "post" <=> i = 1
          /\ DetachSeq[i] = "writers" <=> i = 2
          /\ DetachSeq[i] \in AllTimers <=> i \in 3 .. 5
          /\ DetachSeq[i] \in AllTasks <=> i \in 6 .. 9
          /\ DetachSeq[i] = "reset_delayed" <=> i = 8
          /\ DetachSeq[i] = "sysctl_wait" <=> i = 16
          /\ DetachSeq[i] \in Resources <=> i \notin 1 .. 9 \cup {14, 16}
          /\ DetachSeq[i] = "tq" <=> i = 11
          /\ DetachSeq[i] = "sysctl" <=> i = 15
    /\ AllTimers = {DetachSeq[3], DetachSeq[4], DetachSeq[5]}
    /\ AllTasks = {DetachSeq[6], DetachSeq[7], DetachSeq[8], DetachSeq[9]}
  BY DEF DetachSeq, AllTimers, AllTasks, Resources

\* No step of the sequence comes twice.
LEMMA NoStepTwice ==
    ASSUME NEW i \in 1 .. 22, NEW j \in 1 .. 22, DetachSeq[i] = DetachSeq[j]
    PROVE  i = j
  BY DEF DetachSeq

\* A step of detach passes its own place in the sequence and no other.
LEMMA Advances ==
    ASSUME PinInv, NEW step, At(step), Proceed
    PROVE  /\ dstep \in 1 .. 22 /\ DetachSeq[dstep] = step /\ stage = "detaching"
           /\ stage' = "detaching" => dstep' = dstep + 1
           /\ stage' \in {"detaching", "absent"}
           /\ \A i \in 1 .. 22 : Passed(i)' => Passed(i) \/ i = dstep
  <1>1. dstep \in 1 .. 22 /\ stage = "detaching" /\ DetachSeq[dstep] = step
    BY DEF At, PinInv, UserTypes, StageFlags
  <1>2. CASE dstep < 22
    <2>1. dstep' = dstep + 1 /\ stage' = stage
      BY <1>2, SeqFacts DEF Proceed
    <2> QED
      BY <1>1, <2>1 DEF Passed
  <1>3. CASE dstep = 22
    <2>1. dstep' = 0 /\ stage' = "absent"
      BY <1>3, SeqFacts DEF Proceed
    <2> QED
      BY <1>1, <1>3, <2>1 DEF Passed
  <1> QED
    BY <1>1, <1>2, <1>3

\* Outside a detach no step of it is passed, unless there is no device.
LEMMA NothingPassed ==
    ASSUME PinInv
    PROVE  /\ stage \in {"attaching", "attached"} => \A i \in 1 .. 22 : ~Passed(i)
           /\ stage = "detaching" => \A i \in 1 .. 22 : ~Passed(i) => dstep <= i
           /\ stage = "absent" => \A i \in 1 .. 22 : Passed(i)
  BY DEF PinInv, UserTypes, StageFlags, Passed

\* What is destroyed at place k exists until that place is passed.
LEMMA StillLive ==
    ASSUME PinInv, LiveInv, NEW k \in 10 .. 22, ~Passed(k),
           DetachSeq[k] \in Resources \ {"sysctl"}
    PROVE  DetachSeq[k] \in live
  <1>1. CASE stage = "detaching"
    BY <1>1, NothingPassed DEF LiveInv, PinInv, UserTypes
  <1>2. CASE stage \in {"attaching", "attached"}
    BY <1>2 DEF LiveInv
  <1> QED
    BY <1>1, <1>2, NothingPassed DEF PinInv, UserTypes

------------------------------------------------------------------------------
(* What each group of steps leaves alone.                                    *)

LEMMA UserKeeps ==
    ASSUME NEW u \in Users, user(u)
    PROVE  /\ UNCHANGED <<deviceVars, timerVars, taskVars, handler, writers_limit>>
  <1> USE DEF semaVars
  <1>1. CASE open_check(u) \/ io_enter(u) \/ close_dtor(u)
               \/ open_set_cdevpriv(u) \/ open_count(u)
    BY <1>1 DEF open_check, io_enter, close_dtor, open_set_cdevpriv, open_count
  <1>2. CASE read_lock(u) \/ read_woken(u) \/ read_signal(u) \/ poll_lock(u)
    BY <1>2 DEF read_lock, read_woken, read_signal, poll_lock
  <1>3. CASE \/ writer_enter_count(u) \/ writer_enter_check(u)
             \/ writer_enter_sema(u) \/ writer_enter_again(u)
             \/ writer_enter_recheck(u) \/ writer_leave_post(u)
             \/ writer_uncount(u)
    BY <1>3
    DEF writer_enter_count, writer_enter_check, writer_enter_sema,
        writer_enter_again, writer_enter_recheck, writer_leave_post,
        writer_uncount
  <1>4. CASE write_limit(u) \/ write_lock(u) \/ write_woken(u)
               \/ write_copy(u) \/ write_signal(u)
    BY <1>4 DEF write_limit, write_lock, write_woken, write_copy, write_signal
  <1> QED
    BY <1>1, <1>2, <1>3, <1>4 DEF user, user_step

LEMMA HandlerKeeps ==
    ASSUME NEW h \in Handlers, handler_new(h) \/ handler_step(h)
    PROVE  UNCHANGED <<deviceVars, userVars, running>>
  <1>1. CASE handler_new(h)
    BY <1>1 DEF handler_new, handler_call, taskVars
  <1>2. CASE handler_step(h)
    BY <1>2 DEF handler_step, handler_section, handler_interval, handler_flood,
                handler_reset_delayed, handler_writers_limit,
                handler_writers_post, taskVars
  <1> QED
    BY <1>1, <1>2

\* Nobody but attach and detach creates or destroys anything.
LEMMA DeviceKept ==
    ASSUME \/ \E u \in Users : user(u)
           \/ \E t \in AllTimers : callout_fire(t)
           \/ task_timeout \/ taskqueue_thread
           \/ \E h \in Handlers : handler_new(h) \/ handler_step(h)
    PROVE  UNCHANGED deviceVars
  <1>1. ASSUME NEW t \in AllTimers, callout_fire(t) PROVE UNCHANGED deviceVars
    BY <1>1 DEF callout_fire
  <1>2. CASE task_timeout \/ taskqueue_thread
    BY <1>2 DEF task_timeout, taskqueue_thread, task_start, task_step
  <1> QED
    BY <1>1, <1>2, UserKeeps, HandlerKeeps

\* What a step of detach leaves alone.
LEMMA DetachKeeps ==
    ASSUME detach_step
    PROVE  UNCHANGED <<is_attached, writers_limit, interval, pending, running,
                       handler>>
  BY DEF detach_step, detach_post, detach_writers_drain, detach_callout_drain,
         detach_task_drain, detach_destroy, detach_cdev_wait,
         detach_sysctl_wait, semaVars, timerVars, taskVars

\* A step of detach is one step of the sequence, and what it does at its place.
LEMMA DetachAt ==
    ASSUME PinInv, detach_step
    PROVE  /\ dstep \in 1 .. 22 /\ stage = "detaching" /\ Proceed
           /\ At(DetachSeq[dstep])
           /\ dstep \in 3 .. 5 => detach_callout_drain(DetachSeq[dstep])
           /\ dstep \notin 3 .. 5 => UNCHANGED armed
           /\ dstep \in 6 .. 9 => detach_task_drain(DetachSeq[dstep])
           /\ dstep \notin 6 .. 9 => UNCHANGED timeout
           /\ dstep = 16 => detach_sysctl_wait
           /\ live' = IF DetachSeq[dstep] \in Resources
                        THEN live \ {DetachSeq[dstep]} ELSE live
  <1>1. PICK step : At(step) /\ Proceed
    BY DEF detach_step, detach_post, detach_writers_drain, detach_callout_drain,
           detach_task_drain, detach_destroy, detach_cdev_wait,
           detach_sysctl_wait
  <1>2. /\ dstep \in 1 .. 22 /\ stage = "detaching" /\ Proceed
        /\ At(DetachSeq[dstep])
    BY <1>1, Advances DEF At
  <1>3. \A s : At(s) <=> s = DetachSeq[dstep]
    BY <1>2 DEF At
  <1>4. CASE detach_post
    <2>1. dstep = 1 /\ UNCHANGED <<live, armed, timeout>>
      BY <1>2, <1>3, <1>4, Positions DEF detach_post, timerVars, taskVars
    <2> QED
      BY <1>2, <2>1, Positions
  <1>5. CASE detach_writers_drain
    <2>1. dstep = 2 /\ UNCHANGED <<live, armed, timeout>>
      BY <1>2, <1>3, <1>5, Positions DEF detach_writers_drain, timerVars, taskVars
    <2> QED
      BY <1>2, <2>1, Positions
  <1>6. ASSUME NEW t \in AllTimers, detach_callout_drain(t)
        PROVE  dstep \in 3 .. 5 /\ t = DetachSeq[dstep]
                 /\ UNCHANGED <<live, timeout>>
    BY <1>2, <1>3, <1>6, Positions DEF detach_callout_drain, taskVars
  <1>7. ASSUME NEW t \in AllTasks, detach_task_drain(t)
        PROVE  dstep \in 6 .. 9 /\ t = DetachSeq[dstep] /\ UNCHANGED <<live, armed>>
    BY <1>2, <1>3, <1>7, Positions DEF detach_task_drain, timerVars
  <1>8. ASSUME NEW r \in Resources, detach_destroy(r)
        PROVE  /\ dstep \notin 1 .. 9 \cup {14, 16} /\ r = DetachSeq[dstep]
               /\ live' = live \ {r} /\ UNCHANGED <<armed, timeout>>
    BY <1>2, <1>3, <1>8, Positions DEF detach_destroy, timerVars, taskVars
  <1>9. CASE detach_cdev_wait
    <2>1. dstep = 14 /\ UNCHANGED <<live, armed, timeout>>
      BY <1>2, <1>3, <1>9, SeqFacts DEF detach_cdev_wait, timerVars, taskVars
    <2> QED
      BY <1>2, <2>1, Positions
  <1>10. CASE detach_sysctl_wait
    <2>1. dstep = 16 /\ UNCHANGED <<live, armed, timeout>>
      BY <1>2, <1>3, <1>10, Positions DEF detach_sysctl_wait, timerVars, taskVars
    <2> QED
      BY <1>2, <1>10, <2>1, Positions
  <1>11. CASE \E t \in AllTimers : detach_callout_drain(t)
    BY <1>2, <1>6, <1>11, Positions
  <1>12. CASE \E t \in AllTasks : detach_task_drain(t)
    BY <1>2, <1>7, <1>12, Positions
  <1>13. CASE \E r \in Resources : detach_destroy(r)
    BY <1>2, <1>8, <1>13
  <1> QED
    BY <1>4, <1>5, <1>9, <1>10, <1>11, <1>12, <1>13 DEF detach_step

------------------------------------------------------------------------------
(* What exists.                                                              *)

LEMMA LiveNext == PinInv /\ LiveInv /\ [Next]_vars => LiveInv'
  <1> SUFFICES ASSUME PinInv, LiveInv, [Next]_vars PROVE LiveInv'
    OBVIOUS
  <1>1. CASE UNCHANGED deviceVars
    BY <1>1 DEF deviceVars, LiveInv, Passed
  <1>2. CASE attach
    <2>1. CASE attach_make_dev
      <3>1. stage' = "attaching" /\ live' = Resources \ {"sysctl"}
              /\ dstep' = dstep
        BY <2>1 DEF attach_make_dev
      <3>2. dstep = 0
        BY <2>1 DEF attach_make_dev, PinInv, UserTypes, StageFlags
      <3> QED
        BY <3>1, <3>2 DEF LiveInv, Passed
    <2>2. CASE attach_sysctl
      <3>1. /\ stage = "attaching" /\ stage' = "attached" /\ dstep' = dstep
            /\ live' = live \cup {"sysctl"}
        BY <2>2 DEF attach_sysctl
      <3>2. dstep = 0 /\ "sysctl" \in Resources
        BY <3>1 DEF PinInv, UserTypes, StageFlags, Resources
      <3> QED
        BY <3>1, <3>2 DEF LiveInv, Passed
    <2>3. ASSUME NEW failed \in {"tq", "threads", "make_dev"}, attach_fail(failed)
          PROVE  LiveInv'
      <3>1. live' \subseteq Resources \ {"sysctl"}
        BY <2>3 DEF attach_fail, Created, Unwound, Resources
      <3> QED
        BY <2>3, <3>1 DEF attach_fail, LiveInv, Passed
    <2> QED
      BY <1>2, <2>1, <2>2, <2>3 DEF attach
  <1>3. CASE detach_begin
    <2>1. /\ stage = "attached" /\ stage' = "detaching" /\ dstep' = 1
          /\ live' = live
      BY <1>3 DEF detach_begin
    <2>2. live = Resources
      BY <2>1 DEF LiveInv, Resources
    <2> QED
      BY <2>1, <2>2 DEF LiveInv, Passed
  <1>4. CASE detach_step
    <2>1. /\ dstep \in 1 .. 22 /\ stage = "detaching" /\ At(DetachSeq[dstep])
          /\ Proceed
          /\ live' = IF DetachSeq[dstep] \in Resources
                       THEN live \ {DetachSeq[dstep]} ELSE live
      BY <1>4, DetachAt
    <2>2. /\ stage' = "detaching" => dstep' = dstep + 1
          /\ stage' \in {"detaching", "absent"}
          /\ \A i \in 1 .. 22 : Passed(i)' => Passed(i) \/ i = dstep
      BY <2>1, Advances
    <2>3. stage' = "detaching" =>
            \A i \in dstep' .. 22 : DetachSeq[i] \in Resources => DetachSeq[i] \in live'
      <3> SUFFICES ASSUME stage' = "detaching", NEW i \in dstep' .. 22,
                          DetachSeq[i] \in Resources
                   PROVE  DetachSeq[i] \in live'
        OBVIOUS
      <3>1. i \in dstep .. 22 /\ i \in 1 .. 22 /\ i # dstep
        BY <2>1, <2>2
      <3>2. DetachSeq[i] \in live /\ DetachSeq[i] # DetachSeq[dstep]
        BY <2>1, <3>1, NoStepTwice DEF LiveInv
      <3> QED
        BY <2>1, <3>2
    <2>4. Passed(15)' => "sysctl" \notin live'
      <3>1. dstep = 15 => DetachSeq[dstep] = "sysctl" /\ "sysctl" \in Resources
        BY Positions DEF Resources
      <3>2. 15 \in 1 .. 22
        OBVIOUS
      <3> QED
        BY <2>1, <2>2, <3>1, <3>2 DEF LiveInv
    <2> QED
      BY <2>1, <2>2, <2>3, <2>4 DEF LiveInv
  <1> QED
    BY <1>1, <1>2, <1>3, <1>4, DeviceKept DEF Next, vars

------------------------------------------------------------------------------
(* The tasks.                                                                *)

\* The first lock section of a run that is left, and what is left after it.
LEMMA RunLeft ==
    ASSUME NEW S, NEW q \in Seq(S) \ {<<>>}
    PROVE  Head(q) \in S /\ (Len(q) # 1 => Tail(q) \in Seq(S) \ {<<>>})
  <1>1. q # <<>> /\ q \in Seq(S)
    OBVIOUS
  <1>2. Head(q) \in S /\ Tail(q) \in Seq(S) /\ Len(Tail(q)) = Len(q) - 1
    BY <1>1, HeadTailProperties
  <1>3. Tail(q) = <<>> => Len(q) = 1
    <2>1. Len(q) \in Nat /\ (Tail(q) = <<>> => Len(Tail(q)) = 0)
      BY <1>1, LenProperties, EmptySeq
    <2> QED
      BY <1>2, <2>1
  <1> QED
    BY <1>2, <1>3

LEMMA ShortRuns ==
    ASSUME NEW S, NEW a \in S, NEW b \in S, NEW c \in S
    PROVE  {<<a>>, <<a, b>>, <<a, b, c>>} \subseteq Seq(S) \ {<<>>}
  <1>1. <<a>> \in Seq(S) /\ <<a, b>> \in Seq(S) /\ <<a, b, c>> \in Seq(S)
    OBVIOUS
  <1>2. <<a>> # <<>> /\ <<a, b>> # <<>> /\ <<a, b, c>> # <<>>
    OBVIOUS
  <1> QED
    BY <1>1, <1>2

LEMMA TaskRunFacts ==
    ASSUME NEW t \in AllTasks, NEW left \in TaskRuns(t)
    PROVE  left \in Seq(SUBSET TaskUses) \ {<<>>}
  <1> DEFINE m == {"mtx"}  s == {"selinfo"}  v == {"cvs"}
             w == {"mtx", "cbuf", "counters", "cvs"}
             r == {"mtx", "cfg_sx", "cbuf", "counters"}
  <1>1. {m, s, v, w, r} \subseteq SUBSET TaskUses
    BY DEF TaskUses
  <1>2. left \in {<<m, s>>, <<s>>, <<m>>, <<m, w, s>>, <<r, v>>}
    BY DEF TaskRuns, AllTasks
  <1> HIDE DEF m, s, v, w, r
  <1> DEFINE X == Seq(SUBSET TaskUses) \ {<<>>}
  <1>3. /\ \A a \in SUBSET TaskUses : <<a>> \in X
        /\ \A a, b \in SUBSET TaskUses : <<a, b>> \in X
        /\ \A a, b, c \in SUBSET TaskUses : <<a, b, c>> \in X
    BY ShortRuns
  <1> HIDE DEF X
  <1>4. <<m, s>> \in X /\ <<s>> \in X /\ <<m>> \in X /\ <<m, w, s>> \in X
          /\ <<r, v>> \in X
    BY <1>1, <1>3
  <1>5. left \in X
    BY <1>2, <1>4, Zenon
  <1> QED
    BY <1>5 DEF X

\* A step that queues nothing, and passes a drain only when there is nothing.
LEMMA TaskKept ==
    ASSUME TaskInv, UNCHANGED <<pending, running>>, timeout' => timeout,
           \A i \in 6 .. 9 : Passed(i)' =>
              \/ Passed(i)
              \/ /\ DetachSeq[i] \notin pending /\ running.task # DetachSeq[i]
                 /\ i = 8 => ~timeout'
    PROVE  TaskInv'
  BY DEF TaskInv

\* A step that queues tasks whose drain is not passed.
LEMMA TaskQueued ==
    ASSUME TaskInv, UNCHANGED <<deviceVars, running>>,
           pending' \subseteq AllTasks,
           \A i \in 6 .. 9 : Passed(i) => DetachSeq[i] \notin pending' \ pending,
           timeout' => timeout \/ ~Passed(8)
    PROVE  TaskInv'
  <1>1. \A i : Passed(i)' <=> Passed(i)
    BY DEF deviceVars, Passed
  <1> QED
    BY <1>1 DEF TaskInv

\* The sysctls that queue tasks; the theorems about tasks assume that they are
\* not called while a detach is under way.
DeferringKinds == {"bulk_writer_flood", "reset_delayed"}

\* A handler that queues works on an attached device, or on one that is about to
\* be: no drain is passed.
LEMMA QueuesEarly ==
    ASSUME PinInv, HandlerInv, NEW h \in Handlers, NEW kind,
           handler[h].kind = kind, kind # "none", kind \notin Racing
    PROVE  \A i \in 1 .. 22 : ~Passed(i)
  <1>1. handler[h] # NoCall
    BY DEF NoCall
  <1>2. ~Passed(16) /\ stage # "detaching"
    BY <1>1 DEF HandlerInv
  <1> QED
    BY <1>2, NothingPassed DEF PinInv, UserTypes

LEMMA TaskDetach ==
    ASSUME PinInv, TaskInv, attach \/ detach_begin \/ detach_step
    PROVE  TaskInv'
  <1>1. CASE attach
    <2>1. UNCHANGED <<pending, running, timeout>>
      BY <1>1 DEF attach, attach_fail, attach_make_dev, attach_sysctl, taskVars
    <2>2. \A i \in 6 .. 9 : Passed(i)' => Passed(i)
      BY <1>1, NothingPassed
      DEF attach, attach_fail, attach_make_dev, attach_sysctl, Passed
    <2> QED
      BY <2>1, <2>2, TaskKept
  <1>2. CASE detach_begin
    <2>1. UNCHANGED <<pending, running, timeout>>
      BY <1>2 DEF detach_begin, taskVars
    <2>2. \A i \in 6 .. 9 : ~Passed(i)'
      BY <1>2 DEF detach_begin, Passed
    <2> QED
      BY <2>1, <2>2, TaskKept
  <1>3. CASE detach_step
    <2>1. UNCHANGED <<pending, running>>
      BY <1>3, DetachKeeps
    <2>2. \A i \in 1 .. 22 : Passed(i)' => Passed(i) \/ i = dstep
      BY <1>3, DetachAt, Advances
    <2>3. CASE dstep \in 6 .. 9
      <3>1. detach_task_drain(DetachSeq[dstep])
        BY <1>3, <2>3, DetachAt
      <3>2. /\ DetachSeq[dstep] \notin pending
            /\ running.task # DetachSeq[dstep]
            /\ timeout' => timeout /\ DetachSeq[dstep] # "reset_delayed"
        BY <3>1 DEF detach_task_drain
      <3>3. DetachSeq[8] = "reset_delayed"
        BY Positions
      <3>4. \A i \in 6 .. 9 : Passed(i)' =>
               \/ Passed(i)
               \/ /\ DetachSeq[i] \notin pending /\ running.task # DetachSeq[i]
                  /\ i = 8 => ~timeout'
        BY <2>2, <3>2, <3>3
      <3> QED
        BY <2>1, <3>2, <3>4, TaskKept
    <2>4. CASE dstep \notin 6 .. 9
      <3>1. UNCHANGED timeout /\ \A i \in 6 .. 9 : Passed(i)' => Passed(i)
        BY <1>3, <2>2, <2>4, DetachAt
      <3> QED
        BY <2>1, <3>1, TaskKept
    <2> QED
      BY <2>3, <2>4
  <1> QED
    BY <1>1, <1>2, <1>3

\* A callback queues its task on an attached device only.
LEMMA TaskCallout ==
    ASSUME PinInv, TaskInv, NEW t \in AllTimers, callout_fire(t)
    PROVE  TaskInv'
  <1>1. UNCHANGED <<deviceVars, running, timeout>>
    BY DEF callout_fire
  <1>2. CASE UNCHANGED pending
    BY <1>1, <1>2, TaskQueued DEF TaskInv
  <1>3. CASE ~UNCHANGED pending
    <2>1. is_attached /\ pending' = pending \cup CallbackTasks(t)
      BY <1>3 DEF callout_fire
    <2>2. CallbackTasks(t) \subseteq AllTasks
      BY DEF CallbackTasks, AllTimers, AllTasks
    <2>3. \A i \in 6 .. 9 : ~Passed(i)
      BY <2>1, NothingPassed DEF PinInv, UserTypes, StageFlags
    <2>4. pending' \subseteq AllTasks
      BY <2>1, <2>2 DEF TaskInv
    <2> QED
      BY <1>1, <2>3, <2>4, TaskQueued
  <1> QED
    BY <1>2, <1>3

LEMMA TaskThread ==
    ASSUME PinInv, TaskInv, task_timeout \/ taskqueue_thread
    PROVE  TaskInv'
  <1>1. UNCHANGED deviceVars
    BY DeviceKept
  <1>2. \A i : Passed(i)' <=> Passed(i)
    BY <1>1 DEF deviceVars, Passed
  <1>3. CASE task_timeout
    <2>1. timeout /\ timeout' = FALSE /\ UNCHANGED running
            /\ pending' = pending \cup {"reset_delayed"}
      BY <1>3 DEF task_timeout
    <2>2. \A i \in 6 .. 9 : Passed(i) => DetachSeq[i] # "reset_delayed"
      BY <2>1, Positions DEF TaskInv
    <2>3. pending' \subseteq AllTasks
      BY <2>1 DEF TaskInv, AllTasks
    <2> QED
      BY <1>1, <2>1, <2>2, <2>3, TaskQueued
  <1>4. ASSUME NEW t \in AllTasks, task_start(t) PROVE TaskInv'
    <2>1. PICK left \in TaskRuns(t) : running' = [task |-> t, left |-> left]
      BY <1>4 DEF task_start
    <2>2. t \in pending /\ pending' = pending \ {t} /\ timeout' = timeout
      BY <1>4 DEF task_start
    <2>3. running' \in Runs /\ running'.task = t
      BY <2>1, TaskRunFacts DEF Runs
    <2> QED
      BY <1>2, <2>2, <2>3 DEF TaskInv
  <1>5. CASE task_step
    <2>1. running # NoTask /\ UNCHANGED <<pending, timeout>>
            /\ running' = IF Len(running.left) = 1 THEN NoTask
                          ELSE [running EXCEPT !.left = Tail(@)]
      BY <1>5 DEF task_step
    <2>2. running \in Runs
      BY <2>1 DEF TaskInv
    <2>3. Len(running.left) # 1 =>
            Tail(running.left) \in Seq(SUBSET TaskUses) \ {<<>>}
      BY <2>2, RunLeft DEF Runs
    <2>4. CASE Len(running.left) = 1
      <3>1. \A i \in 6 .. 9 : DetachSeq[i] # "none"
        BY Positions DEF AllTasks
      <3>2. running' = NoTask /\ running'.task = "none"
        BY <2>1, <2>4 DEF NoTask
      <3> QED
        BY <1>2, <2>1, <3>1, <3>2 DEF TaskInv
    <2>5. CASE Len(running.left) # 1
      <3>1. running' \in Runs /\ running'.task = running.task
        BY <2>1, <2>2, <2>3, <2>5 DEF Runs
      <3> QED
        BY <1>2, <2>1, <3>1 DEF TaskInv
    <2> QED
      BY <2>4, <2>5
  <1> QED
    BY <1>3, <1>4, <1>5 DEF taskqueue_thread

LEMMA TaskHandler ==
    ASSUME DeferringKinds \cap Racing = {}, PinInv, TaskInv, HandlerInv,
           NEW h \in Handlers, handler_new(h) \/ handler_step(h)
    PROVE  TaskInv'
  <1>1. UNCHANGED <<deviceVars, running>>
    BY HandlerKeeps
  <1>2. CASE UNCHANGED <<pending, timeout>>
    BY <1>1, <1>2, TaskQueued DEF TaskInv
  <1>3. ASSUME handler_flood(h) \/ \E on \in BOOLEAN : handler_reset_delayed(h, on)
        PROVE  TaskInv'
    <2>1. /\ handler[h].kind \in DeferringKinds
          /\ pending' \subseteq pending \cup {"bulk_writer"}
      BY <1>3 DEF handler_flood, handler_reset_delayed, DeferringKinds
    <2>2. \A i \in 1 .. 22 : ~Passed(i)
      BY <2>1, QueuesEarly DEF DeferringKinds
    <2>3. pending' \subseteq AllTasks
      BY <2>1 DEF TaskInv, AllTasks
    <2> QED
      BY <1>1, <2>2, <2>3, TaskQueued
  <1>4. CASE \/ handler_new(h) \/ handler_section(h)
             \/ \E new \in BOOLEAN : handler_interval(h, new)
             \/ \E new \in 1 .. MaxSema : handler_writers_limit(h, new)
             \/ handler_writers_post(h)
    <2>1. UNCHANGED <<pending, timeout>>
      BY <1>4 DEF handler_new, handler_call, handler_section, handler_interval,
                  handler_writers_limit, handler_writers_post, taskVars
    <2> QED
      BY <1>2, <2>1
  <1> QED
    BY <1>3, <1>4 DEF handler_step

LEMMA TaskNext ==
    ASSUME DeferringKinds \cap Racing = {}
    PROVE  PinInv /\ HandlerInv /\ TaskInv /\ [Next]_vars => TaskInv'
  <1> SUFFICES ASSUME PinInv, HandlerInv, TaskInv, [Next]_vars PROVE TaskInv'
    OBVIOUS
  <1>1. ASSUME UNCHANGED <<deviceVars, taskVars>> PROVE TaskInv'
    BY <1>1, TaskQueued DEF taskVars, TaskInv
  <1>2. ASSUME NEW u \in Users, user(u) PROVE TaskInv'
    BY <1>1, <1>2, UserKeeps
  <1>3. CASE UNCHANGED vars
    BY <1>1, <1>3 DEF vars
  <1> QED
    BY <1>2, <1>3, TaskDetach, TaskCallout, TaskThread, TaskHandler DEF Next

------------------------------------------------------------------------------
(* The callouts.                                                             *)

LEMMA TimerKept ==
    ASSUME TimerInv, armed' \subseteq armed,
           \A i \in 3 .. 5 : Passed(i)' => Passed(i) \/ DetachSeq[i] \notin armed'
    PROVE  TimerInv'
  BY DEF TimerInv

LEMMA TimerDetach ==
    ASSUME PinInv, TimerInv, attach \/ detach_begin \/ detach_step
    PROVE  TimerInv'
  <1>1. CASE attach
    <2>1. UNCHANGED armed
      BY <1>1 DEF attach, attach_fail, attach_make_dev, attach_sysctl, timerVars
    <2>2. \A i \in 3 .. 5 : Passed(i)' => Passed(i)
      BY <1>1, NothingPassed
      DEF attach, attach_fail, attach_make_dev, attach_sysctl, Passed
    <2> QED
      BY <2>1, <2>2, TimerKept
  <1>2. CASE detach_begin
    <2>1. UNCHANGED armed /\ \A i \in 3 .. 5 : ~Passed(i)'
      BY <1>2 DEF detach_begin, timerVars, Passed
    <2> QED
      BY <2>1, TimerKept
  <1>3. CASE detach_step
    <2>1. \A i \in 1 .. 22 : Passed(i)' => Passed(i) \/ i = dstep
      BY <1>3, DetachAt, Advances
    <2>2. CASE dstep \in 3 .. 5
      <3>1. armed' = armed \ {DetachSeq[dstep]}
        BY <1>3, <2>2, DetachAt DEF detach_callout_drain
      <3> QED
        BY <2>1, <3>1, TimerKept
    <2>3. CASE dstep \notin 3 .. 5
      <3>1. UNCHANGED armed /\ \A i \in 3 .. 5 : Passed(i)' => Passed(i)
        BY <1>3, <2>1, <2>3, DetachAt
      <3> QED
        BY <3>1, TimerKept
    <2> QED
      BY <2>2, <2>3
  <1> QED
    BY <1>1, <1>2, <1>3

LEMMA TimerNext ==
    ASSUME "interval" \notin Racing
    PROVE  PinInv /\ HandlerInv /\ TimerInv /\ [Next]_vars => TimerInv'
  <1> SUFFICES ASSUME PinInv, HandlerInv, TimerInv, [Next]_vars PROVE TimerInv'
    OBVIOUS
  <1>1. ASSUME UNCHANGED deviceVars, armed' \subseteq armed PROVE TimerInv'
    BY <1>1, TimerKept DEF deviceVars, Passed
  <1>2. ASSUME NEW u \in Users, user(u) PROVE TimerInv'
    BY <1>1, <1>2, UserKeeps DEF timerVars
  <1>3. CASE UNCHANGED vars
    BY <1>1, <1>3 DEF vars, timerVars
  <1>4. ASSUME NEW t \in AllTimers, callout_fire(t) PROVE TimerInv'
    BY <1>1, <1>4 DEF callout_fire
  <1>5. CASE task_timeout \/ taskqueue_thread
    BY <1>1, <1>5
    DEF task_timeout, taskqueue_thread, task_start, task_step, timerVars
  <1>6. ASSUME NEW h \in Handlers, NEW new \in BOOLEAN, handler_interval(h, new)
        PROVE  TimerInv'
    <2>1. handler[h].kind = "interval" /\ UNCHANGED deviceVars
            /\ armed' \subseteq armed \cup {handler[h].timer}
      BY <1>6 DEF handler_interval
    <2>2. \A i \in 1 .. 22 : ~Passed(i)
      BY <2>1, QueuesEarly
    <2>3. handler[h].timer \in AllTimers
      BY <2>1 DEF HandlerInv, NoCall
    <2> QED
      BY <2>1, <2>2, <2>3 DEF TimerInv, deviceVars, Passed
  <1>7. ASSUME NEW h \in Handlers,
               \/ handler_new(h) \/ handler_section(h) \/ handler_flood(h)
               \/ \E on \in BOOLEAN : handler_reset_delayed(h, on)
               \/ \E new \in 1 .. MaxSema : handler_writers_limit(h, new)
               \/ handler_writers_post(h)
        PROVE  TimerInv'
    <2>1. UNCHANGED <<deviceVars, armed>>
      BY <1>7 DEF handler_new, handler_call, handler_section, handler_flood,
                  handler_reset_delayed, handler_writers_limit,
                  handler_writers_post, timerVars
    <2> QED
      BY <1>1, <2>1
  <1> QED
    BY <1>2, <1>3, <1>4, <1>5, <1>6, <1>7, TimerDetach DEF Next, handler_step

------------------------------------------------------------------------------
(* The sysctl handlers.                                                      *)

LEMMA CallFacts ==
    ASSUME NEW kind \in AllKinds, NEW t \in AllTimers \cup {"none"},
           NEW old \in BOOLEAN
    PROVE  /\ [kind |-> kind, timer |-> t, old |-> old,
               left |-> HandlerRun(kind)] \in Calls
           /\ kind \in HarmlessKinds
                => HandlerRun(kind) \in Seq(SUBSET HarmlessUses)
  <1> DEFINE m == {"mtx", "cbuf"}  x == {"cfg_sx"}  v == {"cvs"}
             r == {"mtx", "cfg_sx", "cbuf", "counters"}
             s == {"stats_sx"}  y == {"stats_sx", "counters"}
             q == {"tq"}  l == {"mtx"}  z == {"sema"}
             R == Seq(SUBSET Inside) \ {<<>>}
             H == Seq(SUBSET HarmlessUses) \ {<<>>}
  <1>1. {m, x, v, r, s, y} \subseteq SUBSET HarmlessUses
    BY DEF HarmlessUses
  <1>2. {m, x, v, r, s, y, q, l, z} \subseteq SUBSET Inside
    BY DEF Inside, Resources
  <1>3. /\ kind \in HarmlessKinds
             => HandlerRun(kind) \in {<<m>>, <<x, x>>, <<r, v>>, <<s, y>>}
        /\ HandlerRun(kind) \in {<<m>>, <<x, x>>, <<r, v>>, <<s, y>>,
                                 <<q, q>>, <<q>>, <<l>>, <<z>>}
    BY DEF HandlerRun, AllKinds, HarmlessKinds
  <1> HIDE DEF m, x, v, r, s, y, q, l, z
  <1>4. /\ \A a, b \in SUBSET Inside : <<a>> \in R /\ <<a, b>> \in R
        /\ \A a, b \in SUBSET HarmlessUses : <<a>> \in H /\ <<a, b>> \in H
    BY ShortRuns
  <1>5. H \subseteq Seq(SUBSET HarmlessUses)
    OBVIOUS
  <1> HIDE DEF H, R
  <1>6. /\ <<m>> \in R /\ <<x, x>> \in R /\ <<r, v>> \in R /\ <<s, y>> \in R
        /\ <<q, q>> \in R /\ <<q>> \in R /\ <<l>> \in R /\ <<z>> \in R
        /\ <<m>> \in H /\ <<x, x>> \in H /\ <<r, v>> \in H /\ <<s, y>> \in H
    BY <1>1, <1>2, <1>4
  <1>7. HandlerRun(kind) \in R
    BY <1>3, <1>6, Zenon
  <1>8. kind \in HarmlessKinds => HandlerRun(kind) \in H
    BY <1>3, <1>6, Zenon
  <1> QED
    BY <1>5, <1>7, <1>8 DEF Calls, R

\* One lock section of a call is over: the call goes on, or is gone.
LEMMA AdvanceFacts ==
    ASSUME HandlerInv, NEW h \in Handlers, handler[h] # NoCall,
           NEW rest, rest = [handler[h] EXCEPT !.left = Tail(handler[h].left)]
    PROVE  /\ handler[h] \in Calls
           /\ Head(handler[h].left) \in SUBSET Inside
           /\ handler[h].kind \in HarmlessKinds
                => Head(handler[h].left) \in SUBSET HarmlessUses
           /\ Len(handler[h].left) # 1 =>
                /\ rest \in Calls /\ rest.kind = handler[h].kind
                /\ rest.timer = handler[h].timer
                /\ rest.left = Tail(handler[h].left)
                /\ handler[h].kind \in HarmlessKinds
                     => Tail(handler[h].left) \in Seq(SUBSET HarmlessUses)
  <1>1. handler[h] \in Calls
    BY DEF HandlerInv
  <1>2. handler[h].left \in Seq(SUBSET Inside) \ {<<>>}
    BY <1>1 DEF Calls
  <1>3. /\ Head(handler[h].left) \in SUBSET Inside
        /\ Len(handler[h].left) # 1
             => Tail(handler[h].left) \in Seq(SUBSET Inside) \ {<<>>}
    BY <1>2, RunLeft
  <1>4. handler[h].kind \in HarmlessKinds =>
          handler[h].left \in Seq(SUBSET HarmlessUses) \ {<<>>}
    BY <1>2 DEF HandlerInv
  <1>5. handler[h].kind \in HarmlessKinds =>
          /\ Head(handler[h].left) \in SUBSET HarmlessUses
          /\ Len(handler[h].left) # 1
               => Tail(handler[h].left) \in Seq(SUBSET HarmlessUses)
    BY <1>4, RunLeft
  <1> QED
    BY <1>1, <1>3, <1>5 DEF Calls

\* The clause of HandlerInv about one handler.
CallOK(h) ==
    handler[h] # NoCall =>
       /\ ~Passed(16)
       /\ stage = "detaching" => handler[h].kind \in Racing
       /\ handler[h].kind = "interval" => handler[h].timer \in AllTimers
       /\ handler[h].kind \in HarmlessKinds
            => handler[h].left \in Seq(SUBSET HarmlessUses)

\* A step that changes one handler's call and not the device.
LEMMA CallReplaced ==
    ASSUME HandlerInv, NEW h \in Handlers, NEW call \in Calls \cup {NoCall},
           handler' = [handler EXCEPT ![h] = call],
           UNCHANGED deviceVars, writers_limit' \in Nat,
           call # NoCall =>
              /\ ~Passed(16)
              /\ stage = "detaching" => call.kind \in Racing
              /\ call.kind = "interval" => call.timer \in AllTimers
              /\ call.kind \in HarmlessKinds
                   => call.left \in Seq(SUBSET HarmlessUses)
    PROVE  HandlerInv'
  <1>1. Passed(16)' <=> Passed(16)
    BY DEF deviceVars, Passed
  <1>2. /\ handler' \in [Handlers -> Calls \cup {NoCall}]
        /\ handler'[h] = call
        /\ \A g \in Handlers \ {h} : handler'[g] = handler[g]
    BY DEF HandlerInv
  <1>3. CallOK(h)'
    BY <1>1, <1>2 DEF CallOK, deviceVars
  <1>4. ASSUME NEW g \in Handlers \ {h} PROVE CallOK(g)'
    BY <1>1, <1>2 DEF HandlerInv, CallOK, deviceVars
  <1> QED
    BY <1>2, <1>3, <1>4 DEF HandlerInv, CallOK

\* A step of one handler that leaves its call a section shorter.
LEMMA HandlerAdvances ==
    ASSUME HandlerInv, NEW h \in Handlers, handler[h] # NoCall, Advance(h),
           UNCHANGED deviceVars, writers_limit' \in Nat
    PROVE  HandlerInv'
  <1> DEFINE rest == [handler[h] EXCEPT !.left = Tail(handler[h].left)]
  <1>1. /\ Len(handler[h].left) = 1 => handler' = [handler EXCEPT ![h] = NoCall]
        /\ Len(handler[h].left) # 1 => handler' = [handler EXCEPT ![h] = rest]
    BY DEF Advance
  <1>2. CallOK(h)
    BY DEF HandlerInv, CallOK
  <1>3. Len(handler[h].left) # 1 =>
          /\ rest \in Calls
          /\ ~Passed(16)
          /\ stage = "detaching" => rest.kind \in Racing
          /\ rest.kind = "interval" => rest.timer \in AllTimers
          /\ rest.kind \in HarmlessKinds => rest.left \in Seq(SUBSET HarmlessUses)
    <2> HIDE DEF rest
    <2>1. Len(handler[h].left) # 1 =>
            /\ rest \in Calls /\ rest.kind = handler[h].kind
            /\ rest.timer = handler[h].timer /\ rest.left = Tail(handler[h].left)
            /\ handler[h].kind \in HarmlessKinds
                 => Tail(handler[h].left) \in Seq(SUBSET HarmlessUses)
      BY AdvanceFacts DEF rest
    <2> QED
      BY <1>2, <2>1 DEF CallOK
  <1>4. CASE Len(handler[h].left) = 1
    BY <1>1, <1>4, CallReplaced
  <1>5. CASE Len(handler[h].left) # 1
    <2> HIDE DEF rest
    <2> QED
      BY <1>1, <1>3, <1>5, CallReplaced
  <1> QED
    BY <1>4, <1>5

LEMMA HandlerCalls ==
    ASSUME PinInv, LiveInv, HandlerInv, NEW h \in Handlers, handler_new(h)
    PROVE  HandlerInv'
  <1>1. PICK kind \in AllKinds, t \in AllTimers \cup {"none"} :
           handler_call(h, kind, t) /\ (kind = "interval" => t \in AllTimers)
    <2>1. CASE \E kind \in Kinds \ {"interval"} : handler_call(h, kind, "none")
      BY <2>1, LifecycleAssumption
    <2>2. CASE \E t \in Timers : "interval" \in Kinds /\ handler_call(h, "interval", t)
      BY <2>2, LifecycleAssumption
    <2> QED
      BY <2>1, <2>2 DEF handler_new
  <1> DEFINE call == [kind |-> kind, timer |-> t, old |-> t \in interval,
                      left |-> HandlerRun(kind)]
  <1>2. /\ handler' = [handler EXCEPT ![h] = call]
        /\ "sysctl" \in live /\ (stage = "attached" \/ kind \in Racing)
        /\ UNCHANGED deviceVars /\ writers_limit' = writers_limit
    BY <1>1 DEF handler_call, semaVars
  <1>3. /\ call \in Calls
        /\ call.kind = kind /\ call.timer = t
        /\ kind \in HarmlessKinds => call.left \in Seq(SUBSET HarmlessUses)
    <2>1. (t \in interval) \in BOOLEAN
      OBVIOUS
    <2> QED
      BY <2>1, CallFacts
  <1>4. ~Passed(16)
    <2>1. ~Passed(15)
      BY <1>2 DEF LiveInv
    <2> QED
      BY <2>1 DEF Passed, PinInv, UserTypes
  <1> HIDE DEF call
  <1>5. writers_limit' \in Nat
    BY <1>2 DEF HandlerInv
  <1>6. call # NoCall =>
              /\ ~Passed(16)
              /\ stage = "detaching" => call.kind \in Racing
              /\ call.kind = "interval" => call.timer \in AllTimers
              /\ call.kind \in HarmlessKinds
                   => call.left \in Seq(SUBSET HarmlessUses)
    BY <1>1, <1>2, <1>3, <1>4
  <1> QED
    BY <1>2, <1>3, <1>5, <1>6, CallReplaced

\* The extra slots of a raise are posted one by one.
LEMMA HandlerLimits ==
    ASSUME HandlerInv, NEW h \in Handlers, NEW new \in 1 .. MaxSema,
           handler_writers_limit(h, new)
    PROVE  HandlerInv'
  <1> DEFINE extra == new - writers_limit
             posts == [i \in 1 .. extra |-> {"sema"}]
             raise == [handler[h] EXCEPT !.left = posts]
             call  == IF extra > 0 THEN raise ELSE NoCall
  <1>1. /\ handler[h].kind = "writers_limit" /\ writers_limit' = new
        /\ UNCHANGED deviceVars
        /\ handler' = [handler EXCEPT ![h] = call]
    BY DEF handler_writers_limit
  <1>2. handler[h] # NoCall /\ handler[h] \in Calls /\ writers_limit \in Nat
    BY <1>1 DEF HandlerInv, NoCall
  <1>3. new \in Nat /\ extra \in Int
    BY <1>2, LifecycleAssumption
  <1>4. extra > 0 => posts \in Seq(SUBSET Inside) \ {<<>>}
    <2>1. {"sema"} \in SUBSET Inside
      BY DEF Inside, Resources
    <2> HIDE DEF extra
    <2> SUFFICES ASSUME extra > 0 PROVE posts \in Seq(SUBSET Inside) \ {<<>>}
      OBVIOUS
    <2>2. posts \in Seq(SUBSET Inside) /\ Len(posts) = extra
      BY <1>3, <2>1, IsASeq
    <2>3. posts # <<>>
      BY <1>3, <2>2, EmptySeq
    <2> QED
      BY <2>2, <2>3
  <1> HIDE DEF posts, extra
  <1>5. extra > 0 => raise \in Calls /\ raise.kind = "writers_limit"
    BY <1>1, <1>2, <1>4 DEF Calls
  <1>6. ~Passed(16) /\ (stage = "detaching" => "writers_limit" \in Racing)
    BY <1>1, <1>2 DEF HandlerInv
  <1>7. CASE extra > 0
    <2>1. call = raise
      BY <1>7
    <2> HIDE DEF call, raise
    <2> QED
      BY <1>1, <1>3, <1>5, <1>6, <1>7, <2>1, CallReplaced DEF HarmlessKinds
  <1>8. CASE ~(extra > 0)
    <2>1. call = NoCall
      BY <1>8
    <2> HIDE DEF call
    <2> QED
      BY <1>1, <1>3, <2>1, CallReplaced
  <1> QED
    BY <1>7, <1>8

LEMMA HandlerDetach ==
    ASSUME PinInv, HandlerInv, attach \/ detach_begin \/ detach_step
    PROVE  HandlerInv'
  <1>1. handler' = handler /\ writers_limit' \in Nat
    <2>1. CASE attach
      BY <2>1, LifecycleAssumption
      DEF attach, attach_fail, attach_make_dev, attach_sysctl, semaVars, HandlerInv
    <2>2. CASE detach_begin
      BY <2>2 DEF detach_begin, semaVars, HandlerInv
    <2>3. CASE detach_step
      BY <2>3, DetachKeeps DEF HandlerInv
    <2> QED
      BY <2>1, <2>2, <2>3
  <1>2. ASSUME NEW h \in Handlers PROVE CallOK(h)'
    <2>1. CallOK(h)
      BY DEF HandlerInv, CallOK
    <2>2. CASE attach
      <3>1. /\ Passed(16)' => Passed(16)
            /\ stage' # "detaching" \/ stage' = stage
        BY <2>2, NothingPassed
        DEF attach, attach_fail, attach_make_dev, attach_sysctl, Passed
      <3> QED
        BY <1>1, <2>1, <3>1 DEF CallOK
    <2>3. CASE detach_begin
      <3>1. ~Passed(16)'
        BY <2>3 DEF detach_begin, Passed
      <3>2. handler[h] # NoCall => handler[h].kind \in Racing
        BY <2>3 DEF detach_begin, HandlerInv, Calls, AllKinds
      <3> QED
        BY <1>1, <2>1, <3>1, <3>2 DEF CallOK
    <2>4. CASE detach_step
      <3>1. /\ stage = "detaching"
            /\ Passed(16)' => Passed(16) \/ handler[h] = NoCall
        <4>1. /\ stage = "detaching" /\ (dstep = 16 => detach_sysctl_wait)
              /\ Passed(16)' => Passed(16) \/ 16 = dstep
          BY <2>4, DetachAt, Advances
        <4> QED
          BY <4>1 DEF detach_sysctl_wait
      <3> QED
        BY <1>1, <2>1, <3>1 DEF CallOK
    <2> QED
      BY <2>2, <2>3, <2>4
  <1> QED
    BY <1>1, <1>2 DEF HandlerInv, CallOK

LEMMA HandlerNext ==
    PinInv /\ LiveInv /\ HandlerInv /\ [Next]_vars => HandlerInv'
  <1> SUFFICES ASSUME PinInv, LiveInv, HandlerInv, [Next]_vars PROVE HandlerInv'
    OBVIOUS
  <1>1. ASSUME UNCHANGED <<deviceVars, handler, writers_limit>>
        PROVE  HandlerInv'
    BY <1>1 DEF deviceVars, Passed, HandlerInv
  <1>2. ASSUME NEW u \in Users, user(u) PROVE HandlerInv'
    BY <1>1, <1>2, UserKeeps
  <1>3. CASE UNCHANGED vars
    BY <1>1, <1>3 DEF vars, semaVars
  <1>4. ASSUME NEW t \in AllTimers, callout_fire(t) PROVE HandlerInv'
    BY <1>1, <1>4 DEF callout_fire, semaVars
  <1>5. CASE task_timeout \/ taskqueue_thread
    BY <1>1, <1>5
    DEF task_timeout, taskqueue_thread, task_start, task_step, semaVars
  <1>6. ASSUME NEW h \in Handlers, handler_step(h) PROVE HandlerInv'
    <2>1. handler[h] # NoCall /\ UNCHANGED deviceVars
      BY <1>6, HandlerKeeps
      DEF handler_step, handler_section, handler_interval, handler_flood,
          handler_reset_delayed, handler_writers_limit, handler_writers_post,
          NoCall
    <2>2. CASE \E new \in 1 .. MaxSema : handler_writers_limit(h, new)
      BY <2>2, HandlerLimits
    <2>3. CASE \/ handler_section(h) \/ handler_flood(h)
               \/ \E new \in BOOLEAN : handler_interval(h, new)
               \/ \E on \in BOOLEAN : handler_reset_delayed(h, on)
               \/ handler_writers_post(h)
      <3>1. Advance(h) /\ UNCHANGED writers_limit
        BY <2>3 DEF handler_section, handler_interval, handler_flood,
                    handler_reset_delayed, handler_writers_post, semaVars
      <3> QED
        BY <2>1, <3>1, HandlerAdvances DEF HandlerInv
    <2> QED
      BY <1>6, <2>2, <2>3 DEF handler_step
  <1> QED
    BY <1>2, <1>3, <1>4, <1>5, <1>6, HandlerCalls, HandlerDetach DEF Next

------------------------------------------------------------------------------
(* The inductive invariant of the theorems below.  Two of its parts depend    *)
(* on which sysctls may be called while a detach is under way.               *)

TasksDrained  == DeferringKinds \cap Racing = {} => TaskInv
TimersDrained == "interval" \notin Racing => TimerInv

LifeInv == /\ PinInv /\ LiveInv /\ HandlerInv
           /\ running \in Runs \cup {NoTask}
           /\ TasksDrained /\ TimersDrained

LEMMA LifeInit == Init => LifeInv
  <1> SUFFICES ASSUME Init PROVE LifeInv
    OBVIOUS
  <1>1. /\ live = {} /\ stage = "absent" /\ handler = [h \in Handlers |-> NoCall]
        /\ writers_limit = 0 /\ running = NoTask /\ pending = {} /\ ~timeout
        /\ armed = {}
    BY DEF Init
  <1>2. LiveInv
    BY <1>1 DEF LiveInv
  <1>3. HandlerInv
    BY <1>1 DEF HandlerInv
  <1>4. TaskInv
    <2>1. \A i \in 6 .. 9 : DetachSeq[i] # "none"
      BY Positions DEF AllTasks
    <2>2. running.task = "none"
      BY <1>1 DEF NoTask
    <2> QED
      BY <1>1, <2>1, <2>2 DEF TaskInv
  <1>5. TimerInv
    BY <1>1 DEF TimerInv
  <1> QED
    BY <1>1, <1>2, <1>3, <1>4, <1>5, PinInit
    DEF LifeInv, TasksDrained, TimersDrained

\* Only the taskqueue thread changes what runs, from one section to the next.
LEMMA RunsNext ==
    ASSUME running \in Runs \cup {NoTask}, [Next]_vars
    PROVE  running' \in Runs \cup {NoTask}
  <1>1. ASSUME NEW t \in AllTasks, task_start(t)
        PROVE  running' \in Runs
    <2>1. PICK left \in TaskRuns(t) : running' = [task |-> t, left |-> left]
      BY <1>1 DEF task_start
    <2> QED
      BY <2>1, TaskRunFacts DEF Runs
  <1>2. CASE task_step
    <2>1. running # NoTask
            /\ running' = IF Len(running.left) = 1 THEN NoTask
                          ELSE [running EXCEPT !.left = Tail(@)]
      BY <1>2 DEF task_step
    <2>2. Len(running.left) # 1 =>
            Tail(running.left) \in Seq(SUBSET TaskUses) \ {<<>>}
      BY <2>1, RunLeft DEF Runs
    <2> QED
      BY <2>1, <2>2 DEF Runs
  <1>3. ASSUME NEW t \in AllTimers, callout_fire(t) PROVE running' = running
    BY <1>3 DEF callout_fire
  <1>4. CASE task_timeout \/ attach \/ detach_begin
    BY <1>4 DEF task_timeout, attach, attach_fail, attach_make_dev,
                attach_sysctl, detach_begin, taskVars
  <1>5. CASE UNCHANGED vars
    BY <1>5 DEF vars, taskVars
  <1>6. ASSUME NEW u \in Users, user(u) PROVE running' = running
    BY <1>6, UserKeeps DEF taskVars
  <1> QED
    BY <1>1, <1>2, <1>3, <1>4, <1>5, <1>6, HandlerKeeps, DetachKeeps
    DEF Next, taskqueue_thread

LEMMA LifeNext == LifeInv /\ [Next]_vars => LifeInv'
  BY PinNext, LiveNext, HandlerNext, RunsNext, TaskNext, TimerNext
  DEF LifeInv, TasksDrained, TimersDrained

------------------------------------------------------------------------------
(* What a step uses, and that it exists.                                     *)

\* The sysctls that may race with a detach use what outlives their tree.
QuietRaces == Racing \subseteq HarmlessKinds

\* A step that uses resources, all of which exist if only harmless sysctls race
\* with a detach, and that asserts is_attached only while it is set.
Uses == \E rs \in SUBSET Resources :
           /\ Use(rs) \/ (is_attached /\ UseAttached(rs))
           /\ QuietRaces => rs \subseteq live

LEMMA NoUse == ASSUME UNCHANGED faults PROVE Uses
  <1>1. {} \in SUBSET Resources /\ Use({}) /\ {} \subseteq live
    BY DEF Use
  <1> QED
    BY <1>1 DEF Uses

\* Up to which step of detach each resource exists.
LEMMA LiveUntil ==
    ASSUME LifeInv
    PROVE  /\ is_attached => Inside \subseteq live
           /\ ~Passed(9) => TaskUses \subseteq live
           /\ ~Passed(11) => "tq" \in live
           /\ ~Passed(12) => "sema" \in live
           /\ ~Passed(16) => HarmlessUses \subseteq live
           /\ ~Passed(22) => "mtx" \in live
           /\ \A i, j \in 1 .. 22 : i <= j /\ ~Passed(i) => ~Passed(j)
           /\ \A k \in 1 .. 22 : stage = "detaching" /\ dstep = k => ~Passed(k)
  <1> USE DEF LifeInv
  <1>1. is_attached => Inside \subseteq live
    BY DEF Inside, LiveInv, PinInv, StageFlags
  <1>2. \A i, j \in 1 .. 22 : i <= j /\ ~Passed(i) => ~Passed(j)
    BY DEF Passed, PinInv, UserTypes
  <1>3. \A k \in 1 .. 22 : stage = "detaching" /\ dstep = k => ~Passed(k)
    BY DEF Passed
  <1>4. \A k \in 10 .. 22 : ~Passed(k) /\ DetachSeq[k] \in Resources \ {"sysctl"}
                              => DetachSeq[k] \in live
    BY StillLive
  <1>5. /\ DetachSeq[10] = "selinfo" /\ DetachSeq[11] = "tq"
        /\ DetachSeq[12] = "sema" /\ DetachSeq[17] = "cbuf"
        /\ DetachSeq[18] = "counters" /\ DetachSeq[19] = "stats_sx"
        /\ DetachSeq[20] = "cvs" /\ DetachSeq[21] = "cfg_sx"
        /\ DetachSeq[22] = "mtx"
    BY DEF DetachSeq
  <1>6. {"selinfo", "tq", "sema", "cbuf", "counters", "stats_sx", "cvs",
         "cfg_sx", "mtx"} \subseteq Resources \ {"sysctl"}
    BY DEF Resources
  <1>7. /\ ~Passed(10) => "selinfo" \in live
        /\ ~Passed(11) => "tq" \in live
        /\ ~Passed(12) => "sema" \in live
        /\ ~Passed(17) => "cbuf" \in live
        /\ ~Passed(18) => "counters" \in live
        /\ ~Passed(19) => "stats_sx" \in live
        /\ ~Passed(20) => "cvs" \in live
        /\ ~Passed(21) => "cfg_sx" \in live
        /\ ~Passed(22) => "mtx" \in live
    BY <1>4, <1>5, <1>6
  <1>8. ~Passed(16) =>
          ~Passed(17) /\ ~Passed(18) /\ ~Passed(19) /\ ~Passed(20)
            /\ ~Passed(21) /\ ~Passed(22)
    BY <1>2
  <1>9. ~Passed(9) => ~Passed(10) /\ ~Passed(16)
    BY <1>2
  <1>10. ~Passed(16) => HarmlessUses \subseteq live
    BY <1>7, <1>8 DEF HarmlessUses
  <1>11. ~Passed(9) => TaskUses \subseteq live
    BY <1>7, <1>8, <1>9 DEF TaskUses
  <1> QED
    BY <1>1, <1>2, <1>3, <1>7, <1>10, <1>11

\* On an attached device everything inside exists.
LEMMA UsesInside ==
    ASSUME LifeInv, is_attached, NEW rs \in SUBSET Inside,
           Use(rs) \/ UseAttached(rs)
    PROVE  Uses
  <1>1. rs \in SUBSET Resources /\ rs \subseteq live
    BY LiveUntil DEF Inside
  <1> QED
    BY <1>1 DEF Uses

\* I/O runs on an attached device; open and close need only sc->mtx, which
\* outlives destroy_dev().
LEMMA UserUses == ASSUME LifeInv, NEW u \in Users, user(u) PROVE Uses
  <1>1. ASSUME pc[u] \notin {"idle", "op_priv", "op_count"} PROVE is_attached
    BY <1>1 DEF LifeInv, PinInv, FileAtLabel
  <1>2. CASE \/ open_check(u) \/ io_enter(u) \/ open_set_cdevpriv(u)
             \/ writer_enter_count(u) \/ writer_enter_check(u)
             \/ writer_enter_recheck(u) \/ writer_uncount(u)
    <2>1. UNCHANGED faults
      BY <1>2 DEF open_check, io_enter, open_set_cdevpriv, writer_enter_count,
                  writer_enter_check, writer_enter_recheck, writer_uncount
    <2> QED
      BY <2>1, NoUse
  <1>3. CASE open_count(u) \/ close_dtor(u)
    <2>1. Use({"mtx"}) /\ (pc[u] = "op_count" \/ fh[u] = "counted")
      BY <1>3 DEF open_count, close_dtor
    <2>2. ~Passed(14)
      BY <2>1 DEF LifeInv, PinInv, ClosedMeansIdle, AllClosed, Passed
    <2>3. {"mtx"} \in SUBSET Resources /\ {"mtx"} \subseteq live
      BY <2>2, LiveUntil DEF Resources
    <2> QED
      BY <2>1, <2>3 DEF Uses
  <1>4. CASE \/ read_lock(u) \/ read_woken(u) \/ read_signal(u) \/ poll_lock(u)
             \/ writer_enter_sema(u) \/ writer_enter_again(u)
             \/ writer_leave_post(u) \/ write_limit(u) \/ write_lock(u)
             \/ write_woken(u) \/ write_copy(u) \/ write_signal(u)
    <2>1. is_attached
      BY <1>1, <1>4
      DEF read_lock, read_woken, read_signal, poll_lock, writer_enter_sema,
          writer_enter_again, writer_leave_post, write_limit, write_lock,
          write_woken, write_copy, write_signal
    <2>2. {"mtx", "cbuf", "counters", "cvs", "selinfo", "sema", "cfg_sx"}
            \subseteq Inside
      BY DEF Inside, Resources
    <2>3. \/ UNCHANGED faults
          \/ \E rs \in SUBSET Inside : Use(rs) \/ UseAttached(rs)
      <3>1. CASE read_lock(u) \/ read_woken(u) \/ read_signal(u) \/ poll_lock(u)
        BY <2>2, <3>1
        DEF read_lock, read_woken, read_section, read_signal, poll_lock
      <3>2. CASE \/ writer_enter_sema(u) \/ writer_enter_again(u)
                 \/ writer_leave_post(u) \/ write_limit(u)
        BY <2>2, <3>2 DEF writer_enter_sema, writer_enter_again,
                          writer_leave_post, write_limit
      <3>3. CASE \/ write_lock(u) \/ write_woken(u) \/ write_copy(u)
                 \/ write_signal(u)
        BY <2>2, <3>3
        DEF write_lock, write_woken, write_section, write_copy, write_signal
      <3> QED
        BY <1>4, <3>1, <3>2, <3>3
    <2> QED
      BY <2>1, <2>3, NoUse, UsesInside
  <1> QED
    BY <1>2, <1>3, <1>4 DEF user, user_step

\* A callout fires on an attached device, or before its drain and then it takes
\* no more than sc->mtx.
LEMMA CalloutUses ==
    ASSUME LifeInv, NEW t \in AllTimers, callout_fire(t) PROVE Uses
  <1>1. {"mtx"} \cup CallbackUses(t) \in SUBSET Inside
    BY DEF CallbackUses, AllTimers, Inside, Resources
  <1>2. CASE is_attached
    <2>1. Use({"mtx"} \cup CallbackUses(t))
      BY <1>2 DEF callout_fire
    <2> QED
      BY <1>1, <1>2, <2>1, UsesInside
  <1>3. CASE ~is_attached
    <2>1. t \in armed /\ Use({"mtx"})
      BY <1>3 DEF callout_fire
    <2>2. ASSUME QuietRaces PROVE "mtx" \in live
      <3>1. TimerInv
        BY <2>2 DEF QuietRaces, HarmlessKinds, LifeInv, TimersDrained
      <3>2. PICK i \in 3 .. 5 : t = DetachSeq[i]
        BY Positions
      <3>3. ~Passed(i)
        BY <2>1, <3>1, <3>2 DEF TimerInv
      <3> QED
        BY <3>3, LiveUntil
    <2>3. {"mtx"} \in SUBSET Resources
      BY DEF Resources
    <2> QED
      BY <2>1, <2>2, <2>3 DEF Uses
  <1> QED
    BY <1>2, <1>3

\* A task runs, and a timeout expires, before its drain.
LEMMA TaskUsesLive ==
    ASSUME LifeInv, task_timeout \/ taskqueue_thread PROVE Uses
  <1>1. QuietRaces => TaskInv
    BY DEF QuietRaces, HarmlessKinds, DeferringKinds, LifeInv, TasksDrained
  <1>2. CASE task_timeout
    <2>1. timeout /\ Use({"tq"})
      BY <1>2 DEF task_timeout
    <2>2. QuietRaces => ~Passed(8)
      BY <1>1, <2>1 DEF TaskInv
    <2>3. {"tq"} \in SUBSET Resources
      BY DEF Resources
    <2> QED
      BY <2>1, <2>2, <2>3, LiveUntil DEF Uses
  <1>3. CASE task_step
    <2>1. running \in Runs /\ Use(Head(running.left))
      BY <1>3 DEF task_step, LifeInv
    <2>2. Head(running.left) \in SUBSET TaskUses /\ running.task \in AllTasks
      BY <2>1, RunLeft DEF Runs
    <2>3. QuietRaces => ~Passed(9)
      <3>1. PICK i \in 6 .. 9 : running.task = DetachSeq[i]
        BY <2>2, Positions
      <3>2. QuietRaces => ~Passed(i)
        BY <1>1, <3>1 DEF TaskInv
      <3> QED
        BY <3>2, LiveUntil
    <2>4. TaskUses \subseteq Resources
      BY DEF TaskUses, Resources
    <2> QED
      BY <2>1, <2>2, <2>3, <2>4, LiveUntil DEF Uses
  <1>4. CASE \E t \in AllTasks : task_start(t)
    BY <1>4, NoUse DEF task_start
  <1> QED
    BY <1>2, <1>3, <1>4 DEF taskqueue_thread

\* A sysctl handler that may race with a detach uses what outlives its tree, any
\* other one runs on an attached device.
LEMMA HandlerUses ==
    ASSUME LifeInv, NEW h \in Handlers, handler_new(h) \/ handler_step(h)
    PROVE  Uses
  <1>1. CASE handler_new(h)
    BY <1>1, NoUse DEF handler_new, handler_call
  <1>2. CASE handler_step(h)
    <2>1. handler[h] # NoCall
      BY <1>2 DEF handler_step, handler_section, handler_interval,
                  handler_flood, handler_reset_delayed, handler_writers_limit,
                  handler_writers_post, NoCall
    <2>2. /\ handler[h] \in Calls /\ ~Passed(16)
          /\ stage = "detaching" => handler[h].kind \in Racing
      BY <2>1 DEF LifeInv, HandlerInv
    <2>3. /\ Head(handler[h].left) \in SUBSET Inside
          /\ handler[h].kind \in HarmlessKinds
               => Head(handler[h].left) \in SUBSET HarmlessUses
      BY <2>1, AdvanceFacts DEF LifeInv
    <2>4. QuietRaces /\ handler[h].kind \notin HarmlessKinds => is_attached
      <3>1. stage # "absent"
        BY <2>2 DEF Passed
      <3> QED
        BY <2>2, <3>1 DEF QuietRaces, LifeInv, PinInv, UserTypes, StageFlags
    <2>5. /\ {"mtx"} \in SUBSET Inside /\ {"mtx", "cbuf"} \in SUBSET Inside
          /\ {"tq"} \in SUBSET Inside /\ {"sema"} \in SUBSET Inside
      BY DEF Inside, Resources
    <2>6. \E rs \in SUBSET Inside :
             /\ Use(rs)
             /\ handler[h].kind \in HarmlessKinds => rs \subseteq HarmlessUses
      <3>1. CASE handler_section(h)
        BY <2>3, <3>1 DEF handler_section
      <3>2. ASSUME NEW new \in BOOLEAN, handler_interval(h, new)
            PROVE  /\ handler[h].kind \notin HarmlessKinds
                   /\ Use({"mtx"}) \/ Use({"mtx", "cbuf"})
        <4>1. handler[h].kind = "interval"
                /\ Use({"mtx"} \cup IF handler[h].timer = "watchdog" THEN {"cbuf"}
                                    ELSE {})
          BY <3>2 DEF handler_interval
        <4>2. {"mtx"} \cup {} = {"mtx"} /\ {"mtx"} \cup {"cbuf"} = {"mtx", "cbuf"}
          OBVIOUS
        <4> QED
          BY <4>1, <4>2 DEF HarmlessKinds
      <3>3. CASE handler_flood(h) \/ \E on \in BOOLEAN : handler_reset_delayed(h, on)
        BY <2>5, <3>3 DEF handler_flood, handler_reset_delayed, HarmlessKinds
      <3>4. CASE \/ \E new \in 1 .. MaxSema : handler_writers_limit(h, new)
                 \/ handler_writers_post(h)
        BY <2>5, <3>4
        DEF handler_writers_limit, handler_writers_post, HarmlessKinds
      <3> QED
        BY <1>2, <2>5, <3>1, <3>2, <3>3, <3>4 DEF handler_step
    <2> QED
      BY <2>2, <2>4, <2>6, LiveUntil DEF Uses, Inside
  <1> QED
    BY <1>1, <1>2

\* What detach itself uses exists; its destructions are another matter.
LEMMA DetachUses ==
    ASSUME LifeInv, attach \/ detach_begin \/ detach_step,
           \A r \in Resources : ~detach_destroy(r)
    PROVE  Uses
  <1>1. CASE attach
    BY <1>1, NoUse DEF attach, attach_fail, attach_make_dev, attach_sysctl
  <1>2. CASE detach_begin
    <2>1. is_attached /\ Use({"mtx", "cvs"})
      BY <1>2 DEF detach_begin, LifeInv, PinInv, StageFlags
    <2>2. {"mtx", "cvs"} \in SUBSET Inside
      BY DEF Inside, Resources
    <2> QED
      BY <2>1, <2>2, UsesInside
  <1>3. CASE detach_step
    <2>1. dstep \in 1 .. 22 /\ stage = "detaching"
      BY <1>3, DetachAt DEF LifeInv
    <2>2. \A s : At(s) => DetachSeq[dstep] = s
      BY DEF At
    <2>3. {"sema"} \in SUBSET Resources /\ {"tq"} \in SUBSET Resources
            /\ {"mtx"} \in SUBSET Resources
      BY DEF Resources
    <2>4. CASE detach_post
      <3>1. dstep = 1 /\ Use({"sema"})
        BY <2>1, <2>2, <2>4, Positions DEF detach_post
      <3> QED
        BY <2>1, <2>3, <3>1, LiveUntil DEF Uses
    <2>5. ASSUME NEW t \in AllTasks, detach_task_drain(t) PROVE Uses
      <3>1. dstep \in 6 .. 9 /\ Use({"tq"})
        BY <2>1, <2>2, <2>5, Positions DEF detach_task_drain
      <3>2. ~Passed(dstep) /\ 11 \in 1 .. 22 /\ dstep <= 11
        BY <2>1, <3>1 DEF Passed
      <3>3. "tq" \in live
        BY <2>1, <3>2, LiveUntil
      <3> QED
        BY <2>3, <3>1, <3>3 DEF Uses
    <2>6. CASE detach_cdev_wait
      <3>1. dstep = 14 /\ (Use({}) \/ Use({"mtx"}))
        BY <2>1, <2>2, <2>6, SeqFacts DEF detach_cdev_wait
      <3>2. "mtx" \in live
        BY <2>1, <3>1, LiveUntil
      <3> QED
        BY <2>3, <3>1, <3>2 DEF Uses
    <2>7. CASE \/ detach_writers_drain \/ detach_sysctl_wait
               \/ \E t \in AllTimers : detach_callout_drain(t)
      BY <2>7, NoUse
      DEF detach_writers_drain, detach_sysctl_wait, detach_callout_drain
    <2> QED
      BY <1>3, <2>4, <2>5, <2>6, <2>7 DEF detach_step
  <1> QED
    BY <1>1, <1>2, <1>3

LEMMA NextUses ==
    ASSUME LifeInv, [Next]_vars, \A r \in Resources : ~detach_destroy(r)
    PROVE  Uses
  <1>1. CASE UNCHANGED vars
    BY <1>1, NoUse DEF vars
  <1> QED
    BY <1>1, UserUses, CalloutUses, TaskUsesLive, HandlerUses, DetachUses DEF Next

\* At taskqueue_free() every task is drained, so nothing is left on the queue.
LEMMA TaskqueueQuiet ==
    ASSUME LifeInv, DeferringKinds \cap Racing = {},
           NEW r \in Resources, detach_destroy(r)
    PROVE  UNCHANGED faults
  <1>1. dstep \in 1 .. 22 /\ stage = "detaching" /\ DetachSeq[dstep] = r
    BY DEF detach_destroy, At, LifeInv, PinInv, UserTypes, StageFlags
  <1>2. CASE r = "tq"
    <2>1. dstep = 11
      BY <1>1, <1>2, Positions
    <2>2. Passed(6) /\ Passed(7) /\ Passed(8) /\ Passed(9)
      BY <2>1 DEF Passed
    <2>3. TaskInv
      BY DEF LifeInv, TasksDrained
    <2>4. \A i \in 6 .. 9 : DetachSeq[i] \notin pending /\ running.task # DetachSeq[i]
      BY <2>2, <2>3 DEF TaskInv
    <2>5. \A t \in AllTasks : t \notin pending /\ running.task # t
      BY <2>4, Positions
    <2>6. pending = {} /\ running = NoTask /\ ~timeout
      BY <2>2, <2>3, <2>5 DEF TaskInv, Runs
    <2> QED
      BY <2>6 DEF detach_destroy
  <1>3. CASE r # "tq"
    BY <1>3 DEF detach_destroy
  <1> QED
    BY <1>2, <1>3

------------------------------------------------------------------------------
(* The theorems about faults.                                                *)

\* What each step may add to faults.
LEMMA FaultsNext ==
    ASSUME LifeInv, [Next]_vars
    PROVE  /\ "KASSERT" \in faults' => "KASSERT" \in faults
           /\ DeferringKinds \cap Racing = {} =>
                ("busy_taskqueue" \in faults' => "busy_taskqueue" \in faults)
           /\ QuietRaces => faults' \cap Resources = faults \cap Resources
  <1>1. "KASSERT" \notin Resources /\ "busy_taskqueue" \notin Resources
    BY DEF Resources
  <1>2. ASSUME NEW r \in Resources, detach_destroy(r)
        PROVE  /\ faults' = faults \/ faults' = faults \cup {"busy_taskqueue"}
               /\ DeferringKinds \cap Racing = {} => faults' = faults
    BY <1>2, TaskqueueQuiet DEF detach_destroy
  <1>3. CASE \E r \in Resources : detach_destroy(r)
    BY <1>1, <1>2, <1>3
  <1>4. CASE \A r \in Resources : ~detach_destroy(r)
    <2>1. Uses
      BY <1>4, NextUses
    <2>2. PICK rs \in SUBSET Resources :
             /\ faults' = faults \cup (rs \ live)
             /\ QuietRaces => rs \subseteq live
      BY <2>1 DEF Uses, Use, UseAttached
    <2> QED
      BY <1>1, <2>2
  <1> QED
    BY <1>3, <1>4

\* If the sysctls that may be called during a detach are among those whose locks
\* outlive the sysctl tree, no thread, callout, task, handler or step of detach
\* ever uses a lock, semaphore, queue, counter or buffer that does not exist.
THEOREM LifecycleNoUseAfterDestroy ==
    ASSUME QuietRaces
    PROVE  Spec => []NoUseAfterDestroy
  <1>1. Init => NoUseAfterDestroy
    BY DEF Init, NoUseAfterDestroy
  <1>2. LifeInv /\ NoUseAfterDestroy /\ [Next]_vars => NoUseAfterDestroy'
    BY FaultsNext DEF NoUseAfterDestroy
  <1> QED
    BY <1>1, <1>2, LifeInit, LifeNext, PTL DEF Spec

\* If neither bulk_writer_flood nor reset_delayed is called during a detach,
\* taskqueue_free() finds nothing queued, running or scheduled.
THEOREM LifecycleTaskqueueFreedQuiet ==
    ASSUME DeferringKinds \cap Racing = {}
    PROVE  Spec => []TaskqueueFreedQuiet
  <1>1. Init => TaskqueueFreedQuiet
    BY DEF Init, TaskqueueFreedQuiet
  <1>2. LifeInv /\ TaskqueueFreedQuiet /\ [Next]_vars => TaskqueueFreedQuiet'
    BY FaultsNext DEF TaskqueueFreedQuiet
  <1> QED
    BY <1>1, <1>2, LifeInit, LifeNext, PTL DEF Spec

\* The KASSERTs of myfirst_buf_read() and myfirst_buf_write() hold whichever
\* sysctls are called, also for a call that slept while somebody tried to detach.
THEOREM LifecycleNoTransferAfterDetach == Spec => []NoTransferAfterDetach
  <1>1. Init => NoTransferAfterDetach
    BY DEF Init, NoTransferAfterDetach
  <1>2. LifeInv /\ NoTransferAfterDetach /\ [Next]_vars => NoTransferAfterDetach'
    BY FaultsNext DEF NoTransferAfterDetach
  <1> QED
    BY <1>1, <1>2, LifeInit, LifeNext, PTL DEF Spec

\* If no interval sysctl is called during a detach, no callout is scheduled
\* behind its callout_drain().
THEOREM LifecycleCalloutsStayDrained ==
    ASSUME "interval" \notin Racing
    PROVE  Spec => []CalloutsStayDrained
  <1>1. LifeInv => CalloutsStayDrained
    <2> SUFFICES ASSUME LifeInv, stage = "detaching",
                        \A t \in AllTimers :
                           dstep > CHOOSE i \in DOMAIN DetachSeq : DetachSeq[i] = t
                 PROVE  armed = {}
      BY DEF CalloutsStayDrained
    <2>1. TimerInv
      BY DEF LifeInv, TimersDrained
    <2>2. DOMAIN DetachSeq = 1 .. 22
      BY DEF DetachSeq
    <2>3. ASSUME NEW k \in 3 .. 5 PROVE Passed(k)
      <3>1. k \in DOMAIN DetachSeq /\ DetachSeq[k] \in AllTimers
        BY <2>2, Positions
      <3>2. \A i \in DOMAIN DetachSeq : DetachSeq[i] = DetachSeq[k] => i = k
        BY <2>2, NoStepTwice
      <3>3. (CHOOSE i \in DOMAIN DetachSeq : DetachSeq[i] = DetachSeq[k]) = k
        BY <3>1, <3>2
      <3> QED
        BY <3>1, <3>3 DEF Passed
    <2> QED
      BY <2>1, <2>3, Positions DEF TimerInv
  <1> QED
    BY <1>1, LifeInit, LifeNext, PTL DEF Spec

------------------------------------------------------------------------------
(* What a detach waits for.                                                  *)

\* Between myfirst_sync_writer_enter()'s increment and the decrement.
WriterLabels == {"wr_check", "wr_sema", "wr_try", "wr_recheck", "wr_limit", "wr_lock",
                 "wr_sleep", "wr_copy", "wr_signal", "wr_post", "wr_uncount"}

InWrite == {u \in Users : pc[u] \in WriterLabels}

WritersCounted == writers_inflight = Cardinality(InWrite)

\* What moving one user to another position does to the number of writers.
LEMMA InWriteMove ==
    ASSUME UserTypes, NEW u \in Users, NEW label, Goto(u, label)
    PROVE  /\ Cardinality(InWrite) \in Nat
           /\ (u \in InWrite) = (label \in WriterLabels)
                => Cardinality(InWrite') = Cardinality(InWrite)
           /\ u \notin InWrite /\ label \in WriterLabels
                => Cardinality(InWrite') = Cardinality(InWrite) + 1
           /\ u \in InWrite /\ label \notin WriterLabels
                => Cardinality(InWrite') = Cardinality(InWrite) - 1
  <1> DEFINE after == label \in WriterLabels
  <1>1. InWrite' = IF after THEN InWrite \cup {u} ELSE InWrite \ {u}
    <2>1. /\ pc'[u] = label
          /\ \A v \in Users \ {u} : pc'[v] = pc[v]
      BY DEF UserTypes, Goto
    <2> HIDE DEF after
    <2>2. \A v \in Users : v \in InWrite' <=> pc'[v] \in WriterLabels
      BY DEF InWrite
    <2>3. \A v \in Users : v \in InWrite <=> pc[v] \in WriterLabels
      BY DEF InWrite
    <2>4. InWrite \subseteq Users /\ InWrite' \subseteq Users
      BY DEF InWrite
    <2>5. after <=> label \in WriterLabels
      BY DEF after
    <2> QED
      BY <2>1, <2>2, <2>3, <2>4, <2>5
  <1>2. InWrite \in SUBSET Users
    BY DEF InWrite
  <1>3. IsFiniteSet(InWrite) /\ Cardinality(InWrite) \in Nat
    BY <1>2, LifecycleAssumption, FS_Subset, FS_CardinalityType
  <1>4. /\ u \notin InWrite
             => Cardinality(InWrite \cup {u}) = Cardinality(InWrite) + 1
        /\ u \in InWrite => InWrite \cup {u} = InWrite
        /\ u \in InWrite => Cardinality(InWrite \ {u}) = Cardinality(InWrite) - 1
        /\ u \notin InWrite => InWrite \ {u} = InWrite
    <2>1. u \notin InWrite
             => Cardinality(InWrite \cup {u}) = Cardinality(InWrite) + 1
      BY <1>3, FS_AddElement
    <2>2. u \in InWrite => Cardinality(InWrite \ {u}) = Cardinality(InWrite) - 1
      BY <1>3, FS_RemoveElement
    <2> QED
      BY <2>1, <2>2
  <1> HIDE DEF after
  <1>5. /\ (u \in InWrite) = after => Cardinality(InWrite') = Cardinality(InWrite)
        /\ u \notin InWrite /\ after
             => Cardinality(InWrite') = Cardinality(InWrite) + 1
        /\ u \in InWrite /\ ~after
             => Cardinality(InWrite') = Cardinality(InWrite) - 1
    BY <1>1, <1>4
  <1> QED
    BY <1>3, <1>5 DEF after

\* A user that stays inside or outside of a write leaves the count alone.
LEMMA WritersStay ==
    ASSUME UserTypes, WritersCounted, NEW u \in Users, NEW label, Goto(u, label),
           pc[u] \in WriterLabels <=> label \in WriterLabels,
           UNCHANGED writers_inflight
    PROVE  WritersCounted'
  <1>1. (u \in InWrite) = (label \in WriterLabels)
    BY DEF InWrite
  <1> QED
    BY <1>1, InWriteMove DEF WritersCounted

LEMMA WritersUser ==
    ASSUME PinInv, WritersCounted, NEW u \in Users, user(u) PROVE WritersCounted'
  <1> USE DEF WriterLabels, PinInv, semaVars
  <1>1. CASE \/ open_check(u) \/ io_enter(u) \/ open_set_cdevpriv(u)
             \/ open_count(u)
    BY <1>1, WritersStay DEF open_check, io_enter, open_set_cdevpriv, open_count
  <1>2. CASE close_dtor(u)
    BY <1>2 DEF close_dtor, WritersCounted, InWrite
  <1>3. CASE read_lock(u) \/ read_woken(u) \/ read_signal(u) \/ poll_lock(u)
    BY <1>3, WritersStay
    DEF read_lock, read_woken, read_section, read_signal, poll_lock
  <1>4. CASE writer_enter_count(u)
    <2>1. /\ u \notin InWrite /\ Goto(u, "wr_check")
          /\ writers_inflight' = writers_inflight + 1
      BY <1>4 DEF writer_enter_count, InWrite
    <2> QED
      BY <2>1, InWriteMove DEF WritersCounted
  <1>5. CASE \/ writer_enter_check(u) \/ writer_enter_sema(u)
             \/ writer_enter_again(u) \/ writer_enter_recheck(u)
             \/ writer_leave_post(u)
    BY <1>5, WritersStay
    DEF writer_enter_check, writer_enter_sema, writer_enter_again,
        writer_enter_recheck, writer_leave_post
  <1>6. CASE writer_uncount(u)
    <2>1. /\ u \in InWrite /\ Goto(u, "idle")
          /\ writers_inflight' = writers_inflight - 1
      BY <1>6 DEF writer_uncount, InWrite
    <2> QED
      BY <2>1, InWriteMove DEF WritersCounted
  <1>7. CASE \/ write_limit(u) \/ write_lock(u) \/ write_woken(u)
             \/ write_copy(u) \/ write_signal(u)
    BY <1>7, WritersStay DEF write_limit, write_lock, write_woken, write_section,
                             write_copy, write_signal
  <1> QED
    BY <1>1, <1>2, <1>3, <1>4, <1>5, <1>6, <1>7 DEF user, user_step

\* Nobody is in a write while the device is absent.
LEMMA NobodyWrites ==
    ASSUME \A u \in Users : pc[u] \in {"idle", "op_priv", "op_count"}
    PROVE  Cardinality(InWrite) = 0
  <1>1. InWrite = {}
    BY DEF InWrite, WriterLabels
  <1> QED
    BY <1>1, FS_EmptySet

LEMMA WritersNext ==
    PinInv /\ WritersCounted /\ [Next]_vars => WritersCounted'
  <1> SUFFICES ASSUME PinInv, WritersCounted, [Next]_vars PROVE WritersCounted'
    OBVIOUS
  <1>1. ASSUME UNCHANGED <<pc, writers_inflight>> PROVE WritersCounted'
    BY <1>1 DEF WritersCounted, InWrite
  <1> USE DEF userVars, semaVars
  <1>2. CASE attach
    <2>1. CASE attach_make_dev
      <3>1. /\ \A u \in Users : pc[u] = "idle"
            /\ writers_inflight' = 0 /\ pc' = pc
        BY <2>1 DEF attach_make_dev, PinInv, ClosedMeansIdle, AllClosed
      <3>2. Cardinality(InWrite) = 0 /\ InWrite' = InWrite
        BY <3>1, NobodyWrites DEF InWrite
      <3> QED
        BY <3>1, <3>2 DEF WritersCounted
    <2> QED
      BY <1>1, <1>2, <2>1 DEF attach, attach_fail, attach_sysctl
  <1>3. ASSUME NEW h \in Handlers, handler_new(h) \/ handler_step(h)
        PROVE  WritersCounted'
    BY <1>1, <1>3
    DEF handler_new, handler_call, handler_step, handler_section,
        handler_interval, handler_flood, handler_reset_delayed,
        handler_writers_limit, handler_writers_post
  <1>4. CASE \/ \E t \in AllTimers : callout_fire(t)
             \/ task_timeout \/ taskqueue_thread
    BY <1>1, <1>4 DEF callout_fire, task_timeout, taskqueue_thread, task_step,
                      task_start
  <1>5. CASE detach_begin \/ detach_step
    BY <1>1, <1>5
    DEF detach_begin, detach_step, detach_post, detach_writers_drain,
        detach_callout_drain, detach_task_drain, detach_destroy,
        detach_cdev_wait, detach_sysctl_wait
  <1>6. CASE UNCHANGED vars
    BY <1>1, <1>6 DEF vars
  <1> QED
    BY <1>2, <1>3, <1>4, <1>5, <1>6, WritersUser DEF Next

\* For any number of users and handlers, whatever a detach waits for comes to its
\* end without it: no writer is counted, so the wait for writers_inflight is over
\* before it begins, and the task drains come before taskqueue_free().
THEOREM LifecycleDetachWaitsForRunners == Spec => []DetachWaitsForRunners
  <1>1. Init => WritersCounted
    <2> SUFFICES ASSUME Init PROVE WritersCounted
      OBVIOUS
    <2>1. \A u \in Users : pc[u] = "idle"
      BY DEF Init
    <2> QED
      BY <2>1, NobodyWrites DEF Init, WritersCounted
  <1>2. LifeInv /\ WritersCounted => DetachWaitsForRunners
    <2> SUFFICES ASSUME LifeInv, WritersCounted, stage = "detaching"
                 PROVE  /\ writers_inflight = 0
                        /\ \A u \in Users : pc[u] \in {"idle", "op_priv", "op_count"}
                        /\ DetachSeq[dstep] \in AllTasks => "tq" \in live
                        /\ \A h \in Handlers :
                              handler[h] = NoCall \/ handler[h].left # <<>>
      BY DEF DetachWaitsForRunners
    <2>1. ~is_attached /\ dstep \in 1 .. 22
      BY DEF LifeInv, PinInv, StageFlags, UserTypes
    <2>2. \A u \in Users : pc[u] \in {"idle", "op_priv", "op_count"}
      BY <2>1 DEF LifeInv, PinInv, FileAtLabel
    <2>3. writers_inflight = 0
      BY <2>2, NobodyWrites DEF WritersCounted
    <2>4. DetachSeq[dstep] \in AllTasks => "tq" \in live
      <3>1. DetachSeq[dstep] \in AllTasks => ~Passed(11)
        BY <2>1, Positions DEF Passed
      <3> QED
        BY <3>1, LiveUntil
    <2>5. \A h \in Handlers : handler[h] = NoCall \/ handler[h].left # <<>>
      BY DEF LifeInv, HandlerInv, Calls
    <2> QED
      BY <2>2, <2>3, <2>4, <2>5
  <1>3. LifeInv => PinInv
    BY DEF LifeInv
  <1> QED
    BY <1>1, <1>2, <1>3, LifeInit, LifeNext, WritersNext, PTL DEF Spec
==============================================================================
