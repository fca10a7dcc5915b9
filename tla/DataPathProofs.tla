---------------------------- MODULE DataPathProofs ----------------------------
(***************************************************************************)
(* For any number of readers, writers and pollers, and every buffer, bounce *)
(* and request size: the data path's types, its byte accounting, its rule   *)
(* for short transfers, and the absence of a lost wakeup.                   *)
(*                                                                         *)
(* The types need to know that a round never holds more than the caller     *)
(* still wants (HeldFits).  The wakeups need to know where a sleeper sleeps *)
(* (SleepersWait), so that a thread that owes a signal is not among them.   *)
(* The rule for short transfers needs that as well, and that a call in      *)
(* progress has no error yet (ErrorAtReturn).  That a round of a write      *)
(* loses only to other producers needs the room it saw (RoomLeft).          *)
(* Last come the pollers: for input a selwakeup() is always on its way, for *)
(* output as long as nobody resets the device.                              *)
(***************************************************************************)
EXTENDS DataPath, SequenceTheorems, TLAPS

\* What a round is about to move fits in what is left of the request.
HeldFits == \A t \in Threads :
    pc[t] \in {"rd_signal", "rd_selwakeup", "wr_copy"} => held[t] <= resid[t]

\* Who is asleep on a condition variable is inside the wait function.
SleepersWait ==
    /\ \A r \in data_cv : pc[r] = "rd_sleep"
    /\ \A w \in room_cv : pc[w] = "wr_sleep"

\* A call that has not returned has no error yet.
ErrorAtReturn == \A t \in Threads : pc[t] # "idle" => error[t] = "0"

TypeInv == DataPathTypeOK /\ HeldFits
ShortInv == SleepersWait /\ ErrorAtReturn /\ ProgressEndsCall

------------------------------------------------------------------------------
(* What the operators of DataPath do.                                       *)

\* A step of arithmetic, free of primed variables.
LEMMA RoomBefore ==
    ASSUME NEW u \in Int, NEW u1 \in Int, NEW size \in Int,
           u1 >= u, size - u1 > 0
    PROVE  size - u > 0
  OBVIOUS

\* Storing n bytes puts as many in the buffer as it adds to bytes_written.
LEMMA StoreFacts ==
    ASSUME DataPathTypeOK, NEW n \in Nat, Store(n)
    PROVE  /\ used' \in 0 .. BufSize /\ used' >= used
           /\ bytes_written' \in Nat /\ bytes_read' = bytes_read
           /\ used' # used <=> Least(n, Free) > 0
  BY DataPathAssumption DEF DataPathTypeOK, Store, Least, Free

\* A signal takes one sleeper away, if there is one.
LEMMA SignalledFacts ==
    ASSUME NEW cv, NEW rest \in Signalled(cv)
    PROVE  /\ rest \subseteq cv
           /\ cv = {} \/ \E t \in cv : t \notin rest
  BY DEF Signalled

\* What other producers have stored is counted in natural numbers.
LEMMA OutrunFacts ==
    ASSUME DataPathTypeOK, NEW ws, NEW n \in Nat, Outrun(ws, n)
    PROVE  /\ outrun' \in [Writers -> Nat]
           /\ \A w \in Writers : w \in ws => outrun'[w] = outrun[w] + n
  BY DEF DataPathTypeOK, Outrun

\* A call ends.
LEMMA ReturnFacts ==
    ASSUME DataPathTypeOK, NEW t \in Threads,
           NEW e \in {"0", "EAGAIN", "EINTR", "EFAULT"}, Return(t, e)
    PROVE  /\ pc' \in [Threads -> Labels] /\ held' \in [Threads -> Nat]
           /\ error' \in [Threads -> {"0", "EAGAIN", "EINTR", "EFAULT"}]
           /\ pc'[t] = "idle" /\ error'[t] = e
           /\ \A s \in Threads \ {t} :
                 pc'[s] = pc[s] /\ held'[s] = held[s] /\ error'[s] = error[s]
  BY DEF DataPathTypeOK, Return, Goto, Labels

\* The queue holds tasks, whatever is put on it.
LEMMA EnqueueFacts ==
    ASSUME DataPathTypeOK,
           NEW t \in {"selwake", "bulk_writer", "reset_delayed"}, Enqueue(t)
    PROVE  queue' \in Seq({"selwake", "bulk_writer", "reset_delayed"})
  BY DEF DataPathTypeOK, Enqueue

------------------------------------------------------------------------------
(* Types.                                                                   *)

LEMMA TypeInit == Init => TypeInv
  <1> SUFFICES ASSUME Init PROVE TypeInv
    OBVIOUS
  <1>1. /\ pc \in [Threads -> Labels] /\ nbefore \in [Threads -> Nat]
        /\ resid \in [Threads -> Nat] /\ held \in [Threads -> Nat]
        /\ stored \in [Threads -> Nat]
        /\ error \in [Threads -> {"0", "EAGAIN", "EINTR", "EFAULT"}]
        /\ events \in [Pollers -> {"none", "POLLIN", "POLLOUT"}]
    BY DEF Init, Labels
  <1>2. HeldFits
    BY DEF Init, HeldFits
  <1> QED
    BY <1>1, <1>2, DataPathAssumption DEF Init, TypeInv, DataPathTypeOK

LEMMA TypeRead ==
    ASSUME TypeInv, NEW r \in Readers,
           read_call(r) \/ read_interrupt(r) \/ reader(r)
    PROVE  TypeInv'
  <1> r \in Threads
    BY DEF Threads
  <1> USE DEF TypeInv, DataPathTypeOK, HeldFits, Labels,
              bufferVars, waitVars, pollVars, callVars, taskVars
  <1>1. CASE read_call(r)
    BY <1>1, DataPathAssumption DEF read_call, Goto
  <1>2. CASE read_interrupt(r)
    BY <1>2, ReturnFacts DEF read_interrupt, MayWait
  <1>3. CASE read_lock(r)
    <2>1. CASE used > 0 /\ pc'[r] = "rd_signal"
      <3> DEFINE got == Least(used, Least(resid[r], Bounce))
      <3>1. got \in Nat /\ got <= used /\ got <= resid[r]
        BY DataPathAssumption DEF Least
      <3> HIDE DEF got
      <3>2. /\ used' = used - got /\ bytes_read' = bytes_read + got
            /\ Hold(r, got) /\ stored' = [stored EXCEPT ![r] = @ + got]
            /\ Goto(r, "rd_signal") /\ UNCHANGED <<bytes_written, outrun, data_cv, error>>
        BY <1>3, <2>1 DEF read_lock, read_section, got
      <3>3. /\ held' \in [Threads -> Nat] /\ stored' \in [Threads -> Nat]
            /\ pc' \in [Threads -> Labels] /\ held'[r] = got
            /\ \A s \in Threads \ {r} : held'[s] = held[s] /\ pc'[s] = pc[s]
        BY <3>1, <3>2 DEF Hold, Goto
      <3>4. HeldFits'
        BY <1>3, <3>1, <3>3 DEF read_lock
      <3>5. used' \in 0 .. BufSize /\ bytes_read' \in Nat
        BY <3>1, <3>2, DataPathAssumption
      <3> QED
        BY <1>3, <3>2, <3>3, <3>4, <3>5 DEF read_lock
    <2>2. CASE ~(used > 0 /\ pc'[r] = "rd_signal")
      <3>1. /\ UNCHANGED <<bufferVars, stored>>
            /\ \/ Return(r, "0") /\ UNCHANGED data_cv
               \/ Return(r, "EAGAIN") /\ UNCHANGED data_cv
               \/ data_cv' = data_cv \cup {r} /\ Continue(r, "rd_sleep")
        BY <1>3, <2>2 DEF read_lock, read_section, Goto
      <3>2. CASE data_cv' = data_cv \cup {r} /\ Continue(r, "rd_sleep")
        BY <1>3, <3>1, <3>2 DEF read_lock, Continue, Goto
      <3>3. CASE (Return(r, "0") \/ Return(r, "EAGAIN")) /\ UNCHANGED data_cv
        BY <1>3, <3>1, <3>3, ReturnFacts DEF read_lock
      <3> QED
        BY <3>1, <3>2, <3>3
    <2> QED
      BY <2>1, <2>2
  <1>4. CASE read_signal(r)
    BY <1>4, SignalledFacts DEF read_signal, Continue, Goto
  <1>5. CASE read_copy(r)
    <2>1. pc[r] = "rd_selwakeup" /\ held[r] <= resid[r]
      BY <1>5 DEF read_copy
    <2>2. resid' \in [Threads -> Nat]
      <3>1. resid[r] - held[r] \in Nat
        BY <2>1
      <3> QED
        BY <1>5, <3>1 DEF read_copy
    <2>3. CASE Goto(r, "rd_lock") /\ Hold(r, 0) /\ UNCHANGED error
      <3>1. pc' = [pc EXCEPT ![r] = "rd_lock"] /\ held' = [held EXCEPT ![r] = 0]
        BY <2>3 DEF Goto, Hold
      <3>2. \A s \in Threads \ {r} : resid'[s] = resid[s]
        BY <1>5 DEF read_copy
      <3> QED
        BY <1>5, <2>2, <2>3, <3>1, <3>2 DEF read_copy
    <2>4. CASE Return(r, "0") \/ Return(r, "EFAULT")
      <3>1. \A s \in Threads \ {r} : resid'[s] = resid[s]
        BY <1>5 DEF read_copy
      <3> QED
        BY <1>5, <2>2, <2>4, <3>1, ReturnFacts DEF read_copy
    <2> QED
      BY <1>5, <2>3, <2>4 DEF read_copy
  <1> QED
    BY <1>1, <1>2, <1>3, <1>4, <1>5 DEF reader

LEMMA TypeWrite ==
    ASSUME TypeInv, NEW w \in Writers,
           write_call(w) \/ write_interrupt(w) \/ writer(w)
    PROVE  TypeInv'
  <1> w \in Threads
    BY DEF Threads
  <1> USE DEF TypeInv, DataPathTypeOK, HeldFits, Labels,
              bufferVars, waitVars, pollVars, callVars, taskVars
  <1>1. CASE write_call(w)
    BY <1>1, DataPathAssumption DEF write_call, Goto
  <1>2. CASE write_interrupt(w)
    BY <1>2, ReturnFacts DEF write_interrupt, MayWait
  <1>3. CASE write_limit(w)
    BY <1>3, DataPathAssumption DEF write_limit, Hold, Goto
  <1>4. CASE write_lock(w)
    <2>1. CASE Free > 0 /\ Hold(w, Want(w)) /\ Goto(w, "wr_copy")
                 /\ UNCHANGED <<room_cv, error>>
      <3>1. Want(w) \in Nat /\ Want(w) <= resid[w]
        BY <2>1, DataPathAssumption DEF Want, Least, Free
      <3>2. /\ held' \in [Threads -> Nat] /\ held'[w] = Want(w)
            /\ pc' \in [Threads -> Labels]
            /\ \A s \in Threads \ {w} : held'[s] = held[s] /\ pc'[s] = pc[s]
        BY <2>1, <3>1 DEF Hold, Goto
      <3>3. HeldFits'
        BY <1>4, <3>1, <3>2 DEF write_lock
      <3> QED
        BY <1>4, <2>1, <3>2, <3>3 DEF write_lock
    <2>2. CASE (Return(w, "0") \/ Return(w, "EAGAIN")) /\ UNCHANGED room_cv
      BY <1>4, <2>2, ReturnFacts DEF write_lock
    <2>3. CASE room_cv' = room_cv \cup {w} /\ Hold(w, 0) /\ Goto(w, "wr_sleep")
                 /\ UNCHANGED error
      BY <1>4, <2>3 DEF write_lock, Hold, Goto
    <2> QED
      BY <1>4, <2>1, <2>2, <2>3 DEF write_lock, write_section
  <1>5. CASE write_over_limit(w)
    BY <1>5, ReturnFacts DEF write_over_limit
  <1>6. CASE write_fault(w)
    BY <1>6, ReturnFacts DEF write_fault
  <1>7. CASE write_put(w)
    <2> DEFINE put == Least(held[w], Free)
    <2>1. held[w] \in Nat /\ held[w] <= resid[w]
      BY <1>7 DEF write_put
    <2>2. /\ used' \in 0 .. BufSize /\ bytes_written' \in Nat
          /\ bytes_read' = bytes_read
      BY <1>7, <2>1, StoreFacts DEF write_put
    <2>3. put \in Nat
      BY <2>1, DataPathAssumption DEF Least, Free
    <2> HIDE DEF put
    <2>4. stored' \in [Threads -> Nat] /\ resid' \in [Threads -> Nat]
      <3>1. /\ stored' = [stored EXCEPT ![w] = @ + put]
            /\ resid' = [resid EXCEPT ![w] = @ - held[w]]
            /\ resid[w] - held[w] \in Nat
        BY <1>7, <2>1 DEF write_put, put
      <3> QED
        BY <2>3, <3>1
    <2>5. /\ pc'[w] \in {"wr_signal", "idle", "wr_limit"}
          /\ pc' \in [Threads -> Labels] /\ held' \in [Threads -> Nat]
          /\ error' \in [Threads -> {"0", "EAGAIN", "EINTR", "EFAULT"}]
          /\ \A s \in Threads \ {w} : held'[s] = held[s] /\ pc'[s] = pc[s]
      <3>1. \/ Continue(w, "wr_signal") \/ Return(w, "0")
            \/ Goto(w, "wr_limit") /\ Hold(w, 0) /\ UNCHANGED error
        BY <1>7 DEF write_put, AfterPut, NextRound
      <3>2. CASE Return(w, "0")
        BY <3>2, ReturnFacts
      <3>3. CASE Continue(w, "wr_signal")
        BY <3>3 DEF Continue, Goto
      <3>4. CASE Goto(w, "wr_limit") /\ Hold(w, 0) /\ UNCHANGED error
        BY <3>4 DEF Goto, Hold
      <3> QED
        BY <3>1, <3>2, <3>3, <3>4
    <2>6. \A s \in Threads \ {w} : resid'[s] = resid[s]
      BY <1>7 DEF write_put
    <2>7. outrun' \in [Writers -> Nat]
      <3>1. Outrun(Copying \ {w}, put)
        BY <1>7 DEF write_put, put
      <3> QED
        BY <2>3, <3>1, OutrunFacts
    <2> QED
      BY <1>7, <2>2, <2>4, <2>5, <2>6, <2>7 DEF write_put
  <1>8. CASE write_signal(w)
    BY <1>8, SignalledFacts DEF write_signal, Continue, Goto
  <1>9. CASE write_selwakeup(w)
    <2>1. CASE Return(w, "0")
      BY <1>9, <2>1, ReturnFacts DEF write_selwakeup
    <2>2. CASE Goto(w, "wr_limit") /\ Hold(w, 0) /\ UNCHANGED error
      BY <1>9, <2>2 DEF write_selwakeup, Goto, Hold
    <2> QED
      BY <1>9, <2>1, <2>2 DEF write_selwakeup, NextRound
  <1> QED
    BY <1>1, <1>2, <1>3, <1>4, <1>5, <1>6, <1>7, <1>8, <1>9 DEF writer

LEMMA TypeOther ==
    ASSUME TypeInv,
           \/ \E p \in Pollers : poll_call(p) \/ poll_lock(p) \/ poll_timeout(p)
           \/ myfirst_tick_source \/ bulk_writer_flood \/ reset_delayed
           \/ taskqueue_thread
           \/ myfirst_sysctl_reset \/ sysctl_reset_broadcast
    PROVE  TypeInv'
  <1> USE DEF TypeInv, DataPathTypeOK, HeldFits,
              bufferVars, waitVars, pollVars, callVars, taskVars
  <1>1. ASSUME NEW p \in Pollers, poll_call(p) PROVE TypeInv'
    BY <1>1 DEF poll_call
  <1>2. ASSUME NEW p \in Pollers, poll_lock(p) PROVE TypeInv'
    BY <1>2 DEF poll_lock
  <1>3. ASSUME NEW p \in Pollers, poll_timeout(p) PROVE TypeInv'
    BY <1>3 DEF poll_timeout
  <1>4. CASE myfirst_tick_source
    <2>1. queue' \in Seq({"selwake", "bulk_writer", "reset_delayed"})
      BY <1>4, EnqueueFacts DEF myfirst_tick_source
    <2>2. /\ used' \in 0 .. BufSize /\ bytes_written' \in Nat
          /\ bytes_read' = bytes_read /\ data_cv' \subseteq data_cv
      BY <1>4, StoreFacts, SignalledFacts DEF myfirst_tick_source
    <2>3. outrun' \in [Writers -> Nat]
      BY <1>4, OutrunFacts DEF myfirst_tick_source
    <2> QED
      BY <1>4, <2>1, <2>2, <2>3 DEF myfirst_tick_source
  <1>5. CASE bulk_writer_flood
    BY <1>5, EnqueueFacts DEF bulk_writer_flood
  <1>6. CASE reset_delayed
    BY <1>6, EnqueueFacts DEF reset_delayed
  <1>7. CASE task_start
    <2>1. /\ Head(queue) \in {"selwake", "bulk_writer", "reset_delayed"}
          /\ Tail(queue) \in Seq({"selwake", "bulk_writer", "reset_delayed"})
      BY <1>7, HeadTailProperties DEF task_start
    <2> QED
      BY <1>7, <2>1 DEF task_start
  <1>8. CASE task_selwakeup
    BY <1>8 DEF task_selwakeup
  <1>9. CASE myfirst_bulk_writer_task
    <2>1. PICK n \in Nat :
             /\ Store(n) /\ Outrun(Copying, n)
             /\ \/ data_cv' \in Signalled(data_cv) /\ task' = "bulk_selwakeup"
                \/ UNCHANGED data_cv /\ task' = "idle"
      <3>1. PICK batch \in Batches :
              LET written == IF bytes_written < MaxCount
                               THEN Least(batch, Free) ELSE 0
              IN  /\ Store(written) /\ Outrun(Copying, written)
                  /\ IF written > 0
                       THEN data_cv' \in Signalled(data_cv)
                              /\ task' = "bulk_selwakeup"
                       ELSE UNCHANGED data_cv /\ task' = "idle"
        BY <1>9 DEF myfirst_bulk_writer_task
      <3>2. Least(batch, Free) \in Nat
        BY DataPathAssumption DEF Least, Free
      <3> QED
        BY <3>1, <3>2
    <2>2. /\ used' \in 0 .. BufSize /\ bytes_written' \in Nat
          /\ bytes_read' = bytes_read
      BY <2>1, StoreFacts
    <2>3. data_cv' \subseteq data_cv /\ outrun' \in [Writers -> Nat]
      BY <2>1, SignalledFacts, OutrunFacts
    <2> QED
      BY <1>9, <2>1, <2>2, <2>3 DEF myfirst_bulk_writer_task
  <1>10. CASE myfirst_reset_delayed_task
    BY <1>10, DataPathAssumption DEF myfirst_reset_delayed_task, ResetBuffer
  <1>11. CASE task_reset_broadcast
    BY <1>11 DEF task_reset_broadcast, Broadcast
  <1>12. CASE myfirst_sysctl_reset
    BY <1>12, DataPathAssumption DEF myfirst_sysctl_reset, ResetBuffer
  <1>13. CASE sysctl_reset_broadcast
    BY <1>13 DEF sysctl_reset_broadcast, Broadcast
  <1> QED
    BY <1>1, <1>2, <1>3, <1>4, <1>5, <1>6, <1>7, <1>8, <1>9, <1>10, <1>11,
       <1>12, <1>13
    DEF taskqueue_thread

LEMMA TypeNext == TypeInv /\ [Next]_vars => TypeInv'
  <1> SUFFICES ASSUME TypeInv, [Next]_vars PROVE TypeInv'
    OBVIOUS
  <1>1. CASE UNCHANGED vars
    BY <1>1 DEF vars, TypeInv, DataPathTypeOK, HeldFits,
                bufferVars, waitVars, pollVars, callVars, taskVars
  <1> QED
    BY <1>1, TypeRead, TypeWrite, TypeOther DEF Next

------------------------------------------------------------------------------
(* The counters.                                                            *)

\* The buffer and its counters.
Bytes == <<used, bytes_read, bytes_written>>

\* A step leaves the buffer alone, takes bytes out of it, appends some, or
\* empties it.
LEMMA BufferSteps ==
    ASSUME TypeInv, Next
    PROVE  \/ UNCHANGED Bytes
           \/ \E got \in Nat : /\ got > 0 /\ got <= used /\ used' = used - got
                               /\ bytes_read' = bytes_read + got
                               /\ bytes_written' = bytes_written
                               /\ \E r \in Readers : pc'[r] = "rd_signal"
           \/ \E n \in Nat : Store(n)
           \/ ResetBuffer
  <1> USE DEF Bytes, bufferVars
  <1>1. ASSUME NEW r \in Readers, read_lock(r)
        PROVE  \/ UNCHANGED Bytes
               \/ \E got \in Nat : /\ got > 0 /\ got <= used /\ used' = used - got
                                   /\ bytes_read' = bytes_read + got
                                   /\ bytes_written' = bytes_written
                                   /\ pc'[r] = "rd_signal"
    <2> DEFINE got == Least(used, Least(resid[r], Bounce))
    <2>1. r \in Threads /\ used \in Nat /\ resid[r] \in Nat
      BY DEF Threads, TypeInv, DataPathTypeOK
    <2>2. got \in Nat /\ got <= used
      BY <2>1, DataPathAssumption DEF Least
    <2>3. \/ UNCHANGED Bytes
          \/ /\ used > 0 /\ used' = used - got /\ bytes_read' = bytes_read + got
             /\ Goto(r, "rd_signal") /\ UNCHANGED bytes_written
      BY <1>1 DEF read_lock, read_section
    <2>4. CASE got = 0 /\ used' = used - got /\ bytes_read' = bytes_read + got
                 /\ UNCHANGED bytes_written
      BY <2>1, <2>4 DEF Bytes, TypeInv, DataPathTypeOK
    <2>5. CASE got > 0 /\ Goto(r, "rd_signal")
      BY <2>1, <2>2, <2>3, <2>5 DEF Goto, TypeInv, DataPathTypeOK
    <2> QED
      BY <2>2, <2>3, <2>4, <2>5
  <1>2. ASSUME NEW w \in Writers, write_put(w) PROVE \E n \in Nat : Store(n)
    <2>1. held[w] \in Nat
      BY DEF Threads, TypeInv, DataPathTypeOK
    <2> QED
      BY <1>2, <2>1 DEF write_put
  <1>3. CASE myfirst_tick_source
    BY <1>3 DEF myfirst_tick_source
  <1>4. CASE myfirst_bulk_writer_task
    <2>1. PICK batch \in Batches :
            Store(IF bytes_written < MaxCount THEN Least(batch, Free) ELSE 0)
      BY <1>4 DEF myfirst_bulk_writer_task
    <2>2. Least(batch, Free) \in Nat
      BY DataPathAssumption DEF Least, Free, TypeInv, DataPathTypeOK
    <2> QED
      BY <2>1, <2>2
  <1>5. CASE myfirst_reset_delayed_task \/ myfirst_sysctl_reset
    BY <1>5 DEF myfirst_reset_delayed_task, myfirst_sysctl_reset
  <1>6. ASSUME NEW r \in Readers,
               read_call(r) \/ read_interrupt(r) \/ read_signal(r) \/ read_copy(r)
        PROVE  UNCHANGED Bytes
    BY <1>6 DEF read_call, read_interrupt, read_signal, read_copy
  <1>7. ASSUME NEW w \in Writers,
               \/ write_call(w) \/ write_interrupt(w) \/ write_limit(w)
               \/ write_lock(w) \/ write_over_limit(w) \/ write_fault(w)
               \/ write_signal(w) \/ write_selwakeup(w)
        PROVE  UNCHANGED Bytes
    BY <1>7 DEF write_call, write_interrupt, write_limit, write_lock,
                write_over_limit, write_fault, write_signal, write_selwakeup
  <1>8. ASSUME NEW p \in Pollers, poll_call(p) \/ poll_lock(p) \/ poll_timeout(p)
        PROVE  UNCHANGED Bytes
    BY <1>8 DEF poll_call, poll_lock, poll_timeout
  <1>9. CASE \/ bulk_writer_flood \/ reset_delayed \/ task_start \/ task_selwakeup
             \/ task_reset_broadcast \/ sysctl_reset_broadcast
    BY <1>9 DEF bulk_writer_flood, reset_delayed, task_start, task_selwakeup,
                task_reset_broadcast, sysctl_reset_broadcast
  <1> QED
    BY <1>1, <1>2, <1>3, <1>4, <1>5, <1>6, <1>7, <1>8, <1>9
    DEF Next, reader, writer, taskqueue_thread

LEMMA CountersNext == TypeInv /\ CountersAgree /\ [Next]_vars => CountersAgree'
  <1> SUFFICES ASSUME TypeInv, CountersAgree, [Next]_vars PROVE CountersAgree'
    OBVIOUS
  <1>1. CASE UNCHANGED Bytes
    BY <1>1 DEF Bytes, CountersAgree
  <1>2. ASSUME NEW n \in Nat, Store(n) PROVE CountersAgree'
    <2>1. Least(n, Free) \in Int
      BY DataPathAssumption DEF Least, Free, TypeInv, DataPathTypeOK
    <2>2. PICK put \in Int : /\ used' = used + put /\ bytes_read' = bytes_read
                             /\ bytes_written' = bytes_written + put
      BY <1>2, <2>1 DEF Store
    <2> QED
      BY <2>2 DEF TypeInv, DataPathTypeOK, CountersAgree
  <1>3. CASE ResetBuffer
    BY <1>3 DEF ResetBuffer, CountersAgree
  <1>4. ASSUME NEW got \in Nat, used' = used - got,
               bytes_read' = bytes_read + got, bytes_written' = bytes_written
        PROVE  CountersAgree'
    BY <1>4 DEF TypeInv, DataPathTypeOK, CountersAgree
  <1>5. CASE UNCHANGED vars
    BY <1>1, <1>5 DEF vars, bufferVars, Bytes
  <1> QED
    BY <1>1, <1>2, <1>3, <1>4, <1>5, BufferSteps

------------------------------------------------------------------------------
(* Short transfers.                                                         *)

\* Of a step that moves one thread only that thread has to be looked at.
LEMMA ShortStep ==
    ASSUME TypeInv, ShortInv, NEW t \in Threads,
           \A s \in Threads \ {t} :
              /\ pc'[s] = pc[s] /\ error'[s] = error[s]
              /\ resid'[s] = resid[s] /\ nbefore'[s] = nbefore[s],
           data_cv' \subseteq data_cv \cup {t}, room_cv' \subseteq room_cv \cup {t},
           t \in data_cv' => pc'[t] = "rd_sleep",
           t \in room_cv' => pc'[t] = "wr_sleep",
           pc'[t] # "idle" => error'[t] = "0",
           t \in data_cv' \cup room_cv' \/ error'[t] \in {"EAGAIN", "EINTR"}
              => resid'[t] = nbefore'[t]
    PROVE  ShortInv'
  <1>1. data_cv \subseteq Threads /\ room_cv \subseteq Threads
    BY DEF TypeInv, DataPathTypeOK, Threads
  <1>2. SleepersWait'
    BY <1>1 DEF ShortInv, SleepersWait
  <1>3. ErrorAtReturn'
    BY DEF ShortInv, ErrorAtReturn
  <1>4. ProgressEndsCall'
    BY DEF ShortInv, ProgressEndsCall
  <1> QED
    BY <1>2, <1>3, <1>4 DEF ShortInv

\* What is known of a thread before its step.
LEMMA ShortBefore ==
    ASSUME TypeInv, ShortInv, NEW t \in Threads
    PROVE  /\ pc[t] # "idle" => error[t] = "0"
           /\ t \in data_cv => pc[t] = "rd_sleep"
           /\ t \in room_cv => pc[t] = "wr_sleep"
           /\ t \in data_cv \cup room_cv => resid[t] = nbefore[t]
           /\ pc \in [Threads -> Labels] /\ nbefore \in [Threads -> Nat]
           /\ resid \in [Threads -> Nat]
           /\ error \in [Threads -> {"0", "EAGAIN", "EINTR", "EFAULT"}]
  BY DEF TypeInv, DataPathTypeOK, ShortInv, SleepersWait, ErrorAtReturn,
         ProgressEndsCall

\* A call that goes on, and a call that ends.
LEMMA ShortContinue ==
    ASSUME TypeInv, ShortInv, NEW t \in Threads, NEW label,
           pc[t] # "idle", t \notin data_cv \cup room_cv, Goto(t, label),
           UNCHANGED <<error, nbefore>>,
           \A s \in Threads \ {t} : resid'[s] = resid[s],
           data_cv' \subseteq data_cv, room_cv' \subseteq room_cv
    PROVE  ShortInv'
  <1>1. error'[t] = "0" /\ \A s \in Threads \ {t} : pc'[s] = pc[s]
    BY ShortBefore DEF Goto
  <1> QED
    BY <1>1, ShortStep

LEMMA ShortReturn ==
    ASSUME TypeInv, ShortInv, NEW t \in Threads,
           NEW e \in {"0", "EAGAIN", "EINTR", "EFAULT"}, Return(t, e),
           e \in {"EAGAIN", "EINTR"} => resid'[t] = nbefore'[t],
           \A s \in Threads \ {t} : resid'[s] = resid[s], UNCHANGED nbefore,
           data_cv' \subseteq data_cv \ {t}, room_cv' \subseteq room_cv \ {t}
    PROVE  ShortInv'
  <1>1. /\ pc'[t] = "idle" /\ error'[t] = e
        /\ \A s \in Threads \ {t} : pc'[s] = pc[s] /\ error'[s] = error[s]
    BY ReturnFacts DEF TypeInv
  <1> QED
    BY <1>1, ShortStep

LEMMA ShortRead ==
    ASSUME TypeInv, ShortInv, NEW r \in Readers,
           read_call(r) \/ read_interrupt(r) \/ reader(r)
    PROVE  ShortInv'
  <1> r \in Threads
    BY DEF Threads
  <1>0. r \notin room_cv
    BY DataPathAssumption DEF TypeInv, DataPathTypeOK
  <1>1. CASE read_call(r)
    <2>1. /\ \A s \in Threads \ {r} :
                /\ pc'[s] = pc[s] /\ error'[s] = error[s]
                /\ resid'[s] = resid[s] /\ nbefore'[s] = nbefore[s]
          /\ error'[r] = "0" /\ UNCHANGED <<data_cv, room_cv>>
          /\ r \notin data_cv
      BY <1>1, ShortBefore DEF read_call, Goto, waitVars
    <2> QED
      BY <1>0, <2>1, ShortStep
  <1>2. CASE read_interrupt(r)
    <2>1. resid[r] = nbefore[r] /\ UNCHANGED <<resid, nbefore, room_cv>>
      BY <1>2, ShortBefore DEF read_interrupt
    <2>2. PICK e \in {"0", "EAGAIN", "EINTR"} : Return(r, e)
      BY <1>2 DEF read_interrupt
    <2>3. data_cv' = data_cv \ {r}
      BY <1>2 DEF read_interrupt
    <2> QED
      BY <1>0, <2>1, <2>2, <2>3, ShortReturn
  <1>3. CASE read_lock(r)
    <2>0. /\ r \notin data_cv /\ pc[r] # "idle" /\ error[r] = "0"
          /\ UNCHANGED <<room_cv, resid, nbefore>>
      BY <1>3, ShortBefore DEF read_lock
    <2>1. CASE Goto(r, "rd_signal") /\ UNCHANGED <<data_cv, error>>
      BY <1>0, <2>0, <2>1, ShortContinue
    <2>2. CASE UNCHANGED data_cv /\ Return(r, "0")
      BY <1>0, <2>0, <2>2, ShortReturn
    <2>3. CASE UNCHANGED data_cv /\ MayWait(r) /\ Return(r, "EAGAIN")
      BY <1>0, <2>0, <2>3, ShortReturn DEF MayWait
    <2>4. CASE MayWait(r) /\ data_cv' = data_cv \cup {r} /\ Continue(r, "rd_sleep")
      <3>1. pc'[r] = "rd_sleep" /\ \A s \in Threads \ {r} : pc'[s] = pc[s]
        BY <2>4, ShortBefore DEF Continue, Goto
      <3> QED
        BY <1>0, <2>0, <2>4, <3>1, ShortStep DEF Continue, MayWait
    <2> QED
      BY <1>3, <2>1, <2>2, <2>3, <2>4 DEF read_lock, read_section
  <1>4. CASE read_signal(r)
    <2>1. pc[r] = "rd_signal" /\ r \notin data_cv
      BY <1>4, ShortBefore DEF read_signal
    <2>2. room_cv' \subseteq room_cv
      BY <1>4, SignalledFacts DEF read_signal
    <2> QED
      BY <1>0, <1>4, <2>1, <2>2, ShortContinue DEF read_signal, Continue
  <1>5. CASE read_copy(r)
    <2>0. /\ r \notin data_cv /\ pc[r] # "idle"
          /\ UNCHANGED <<data_cv, room_cv, nbefore>>
      BY <1>5, ShortBefore DEF read_copy, waitVars
    <2>1. \A s \in Threads \ {r} : resid'[s] = resid[s]
      BY <1>5, ShortBefore DEF read_copy
    <2>2. CASE Goto(r, "rd_lock") /\ UNCHANGED error
      BY <1>0, <2>0, <2>1, <2>2, ShortContinue
    <2>3. CASE Return(r, "0")
      BY <1>0, <2>0, <2>1, <2>3, ShortReturn
    <2>4. CASE Return(r, "EFAULT")
      BY <1>0, <2>0, <2>1, <2>4, ShortReturn
    <2> QED
      BY <1>5, <2>2, <2>3, <2>4 DEF read_copy
  <1> QED
    BY <1>1, <1>2, <1>3, <1>4, <1>5 DEF reader

LEMMA ShortWrite ==
    ASSUME TypeInv, ShortInv, NEW w \in Writers,
           write_call(w) \/ write_interrupt(w) \/ writer(w)
    PROVE  ShortInv'
  <1> w \in Threads
    BY DEF Threads
  <1>0. w \notin data_cv
    BY DataPathAssumption DEF TypeInv, DataPathTypeOK
  <1>1. CASE write_call(w)
    <2>1. /\ \A s \in Threads \ {w} :
                /\ pc'[s] = pc[s] /\ error'[s] = error[s]
                /\ resid'[s] = resid[s] /\ nbefore'[s] = nbefore[s]
          /\ error'[w] = "0" /\ UNCHANGED <<data_cv, room_cv>>
          /\ w \notin room_cv
      BY <1>1, ShortBefore DEF write_call, Goto, waitVars
    <2> QED
      BY <1>0, <2>1, ShortStep
  <1>2. CASE write_interrupt(w)
    <2>1. resid[w] = nbefore[w] /\ UNCHANGED <<resid, nbefore, data_cv>>
      BY <1>2, ShortBefore DEF write_interrupt
    <2>2. PICK e \in {"0", "EAGAIN", "EINTR"} : Return(w, e)
      BY <1>2 DEF write_interrupt
    <2>3. room_cv' = room_cv \ {w}
      BY <1>2 DEF write_interrupt
    <2> QED
      BY <1>0, <2>1, <2>2, <2>3, ShortReturn
  <1>3. CASE write_limit(w)
    <2>1. pc[w] = "wr_limit" /\ w \notin room_cv
      BY <1>3, ShortBefore DEF write_limit
    <2> QED
      BY <1>0, <1>3, <2>1, ShortContinue DEF write_limit, waitVars
  <1>4. CASE write_lock(w)
    <2>0. /\ w \notin room_cv /\ pc[w] # "idle" /\ error[w] = "0"
          /\ UNCHANGED <<data_cv, resid, nbefore>>
      BY <1>4, ShortBefore DEF write_lock
    <2>1. CASE Goto(w, "wr_copy") /\ UNCHANGED <<room_cv, error>>
      BY <1>0, <2>0, <2>1, ShortContinue
    <2>2. CASE UNCHANGED room_cv /\ Return(w, "0")
      BY <1>0, <2>0, <2>2, ShortReturn
    <2>3. CASE UNCHANGED room_cv /\ MayWait(w) /\ Return(w, "EAGAIN")
      BY <1>0, <2>0, <2>3, ShortReturn DEF MayWait
    <2>4. CASE MayWait(w) /\ room_cv' = room_cv \cup {w} /\ Goto(w, "wr_sleep")
                 /\ UNCHANGED error
      <3>1. pc'[w] = "wr_sleep" /\ \A s \in Threads \ {w} : pc'[s] = pc[s]
        BY <2>4, ShortBefore DEF Goto
      <3> QED
        BY <1>0, <2>0, <2>4, <3>1, ShortStep DEF MayWait
    <2> QED
      BY <1>4, <2>1, <2>2, <2>3, <2>4 DEF write_lock, write_section
  <1>5. CASE write_over_limit(w)
    <2>1. /\ w \notin room_cv /\ UNCHANGED <<data_cv, room_cv, resid, nbefore>>
          /\ Return(w, IF resid[w] # nbefore[w] THEN "0" ELSE "EAGAIN")
      BY <1>5, ShortBefore DEF write_over_limit, waitVars
    <2>2. CASE resid[w] # nbefore[w]
      BY <1>0, <2>1, <2>2, ShortReturn
    <2>3. CASE resid[w] = nbefore[w]
      BY <1>0, <2>1, <2>3, ShortReturn
    <2> QED
      BY <2>2, <2>3
  <1>6. CASE write_fault(w)
    <2>1. w \notin room_cv /\ UNCHANGED <<data_cv, room_cv, resid, nbefore>>
      BY <1>6, ShortBefore DEF write_fault, waitVars
    <2> QED
      BY <1>0, <1>6, <2>1, ShortReturn DEF write_fault
  <1>7. CASE write_put(w)
    <2>0. /\ w \notin room_cv /\ pc[w] # "idle"
          /\ UNCHANGED <<data_cv, room_cv, nbefore>>
      BY <1>7, ShortBefore DEF write_put, waitVars
    <2>1. \A s \in Threads \ {w} : resid'[s] = resid[s]
      BY <1>7, ShortBefore DEF write_put
    <2>2. CASE Goto(w, "wr_signal") /\ UNCHANGED error
      BY <1>0, <2>0, <2>1, <2>2, ShortContinue
    <2>3. CASE Goto(w, "wr_limit") /\ UNCHANGED error
      BY <1>0, <2>0, <2>1, <2>3, ShortContinue
    <2>4. CASE Return(w, "0")
      BY <1>0, <2>0, <2>1, <2>4, ShortReturn
    <2> QED
      BY <1>7, <2>2, <2>3, <2>4 DEF write_put, AfterPut, NextRound, Continue
  <1>8. CASE write_signal(w)
    <2>1. pc[w] = "wr_signal" /\ w \notin room_cv
      BY <1>8, ShortBefore DEF write_signal
    <2>2. data_cv' \subseteq data_cv
      BY <1>8, SignalledFacts DEF write_signal
    <2> QED
      BY <1>0, <1>8, <2>1, <2>2, ShortContinue DEF write_signal, Continue
  <1>9. CASE write_selwakeup(w)
    <2>0. /\ w \notin room_cv /\ pc[w] # "idle"
          /\ UNCHANGED <<data_cv, room_cv, nbefore, resid>>
      BY <1>9, ShortBefore DEF write_selwakeup, waitVars
    <2>1. CASE Goto(w, "wr_limit") /\ UNCHANGED error
      BY <1>0, <2>0, <2>1, ShortContinue
    <2>2. CASE Return(w, "0")
      BY <1>0, <2>0, <2>2, ShortReturn
    <2> QED
      BY <1>9, <2>1, <2>2 DEF write_selwakeup, NextRound
  <1> QED
    BY <1>1, <1>2, <1>3, <1>4, <1>5, <1>6, <1>7, <1>8, <1>9 DEF writer

\* Whoever else steps only wakes sleepers.
LEMMA OtherSteps ==
    ASSUME \/ \E p \in Pollers : poll_call(p) \/ poll_lock(p) \/ poll_timeout(p)
           \/ myfirst_tick_source \/ bulk_writer_flood \/ reset_delayed
           \/ taskqueue_thread
           \/ myfirst_sysctl_reset \/ sysctl_reset_broadcast
    PROVE  UNCHANGED callVars /\ data_cv' \subseteq data_cv /\ room_cv' \subseteq room_cv
  <1> USE DEF waitVars, taskVars
  <1>1. ASSUME NEW p \in Pollers, poll_call(p) \/ poll_lock(p) \/ poll_timeout(p)
        PROVE  UNCHANGED callVars /\ UNCHANGED waitVars
    BY <1>1 DEF poll_call, poll_lock, poll_timeout
  <1>2. CASE bulk_writer_flood \/ reset_delayed \/ task_start \/ task_selwakeup
    BY <1>2 DEF bulk_writer_flood, reset_delayed, task_start, task_selwakeup
  <1>3. CASE myfirst_tick_source
    BY <1>3, SignalledFacts DEF myfirst_tick_source
  <1>4. CASE myfirst_bulk_writer_task
    BY <1>4, SignalledFacts DEF myfirst_bulk_writer_task
  <1>5. CASE myfirst_reset_delayed_task \/ myfirst_sysctl_reset
    BY <1>5 DEF myfirst_reset_delayed_task, myfirst_sysctl_reset
  <1>6. CASE task_reset_broadcast \/ sysctl_reset_broadcast
    BY <1>6 DEF task_reset_broadcast, sysctl_reset_broadcast, Broadcast
  <1> QED
    BY <1>1, <1>2, <1>3, <1>4, <1>5, <1>6 DEF taskqueue_thread

LEMMA ShortNext == TypeInv /\ ShortInv /\ [Next]_vars => ShortInv'
  <1> SUFFICES ASSUME TypeInv, ShortInv, [Next]_vars PROVE ShortInv'
    OBVIOUS
  <1>1. CASE UNCHANGED callVars /\ data_cv' \subseteq data_cv
               /\ room_cv' \subseteq room_cv
    BY <1>1 DEF callVars, ShortInv, SleepersWait, ErrorAtReturn, ProgressEndsCall
  <1>2. CASE UNCHANGED vars
    BY <1>1, <1>2 DEF vars, waitVars
  <1> QED
    BY <1>1, <1>2, ShortRead, ShortWrite, OtherSteps DEF Next
------------------------------------------------------------------------------
(* Wakeups.                                                                 *)

\* The two halves of NobodyStranded.
DataWakeup ==
    (used > 0 /\ Readers # {} /\ Readers \subseteq data_cv) => DataSignalComing
RoomWakeup ==
    (Free > 0 /\ Writers # {} /\ Writers \subseteq room_cv) => RoomSignalComing

\* The readers are safe after a step that brings no bytes, puts no reader to
\* sleep and loses no pending signal; with a signal pending; with an empty
\* buffer; and with a reader awake.
LEMMA DataStep ==
    ASSUME TypeInv, TypeInv', DataWakeup,
           \/ /\ used' <= used /\ data_cv' \subseteq data_cv
              /\ DataSignalComing => DataSignalComing'
           \/ DataSignalComing'
           \/ used' = 0
           \/ \E r \in Readers : r \notin data_cv'
    PROVE  DataWakeup'
  <1>1. used \in Nat /\ used' \in Nat
    BY DEF TypeInv, DataPathTypeOK
  <1> QED
    BY <1>1 DEF DataWakeup

LEMMA RoomStep ==
    ASSUME TypeInv, TypeInv', RoomWakeup,
           \/ /\ used' >= used /\ room_cv' \subseteq room_cv
              /\ RoomSignalComing => RoomSignalComing'
           \/ RoomSignalComing'
           \/ Free' = 0
           \/ \E w \in Writers : w \notin room_cv'
    PROVE  RoomWakeup'
  <1>1. used \in Nat /\ used' \in Nat /\ BufSize \in Nat
    BY DataPathAssumption DEF TypeInv, DataPathTypeOK
  <1>2. used \in Int /\ used' \in Int /\ BufSize \in Int
    BY <1>1
  <1>3. used' >= used /\ Free' > 0 => Free > 0
    BY <1>2, RoomBefore, Zenon DEF Free
  <1>4. ~(Free' = 0 /\ Free' > 0)
    OBVIOUS
  <1> QED
    BY <1>3, <1>4 DEF RoomWakeup

\* One signal is enough: it leaves somebody awake.
LEMMA DataSignalled ==
    ASSUME TypeInv, TypeInv', DataWakeup, data_cv' \in Signalled(data_cv)
    PROVE  DataWakeup'
  <1> DEFINE rest == data_cv'
  <1>1. rest \subseteq data_cv /\ (data_cv = {} \/ \E t \in data_cv : t \notin rest)
    <2> rest \in Signalled(data_cv)
      OBVIOUS
    <2> HIDE DEF rest
    <2> QED
      BY SignalledFacts
  <1>2. Readers = {} \/ \E r \in Readers : r \notin data_cv'
    BY <1>1 DEF TypeInv, DataPathTypeOK
  <1> QED
    BY <1>2, DataStep DEF DataWakeup

LEMMA RoomSignalled ==
    ASSUME TypeInv, TypeInv', RoomWakeup, room_cv' \in Signalled(room_cv)
    PROVE  RoomWakeup'
  <1> DEFINE rest == room_cv'
  <1>1. rest \subseteq room_cv /\ (room_cv = {} \/ \E t \in room_cv : t \notin rest)
    <2> rest \in Signalled(room_cv)
      OBVIOUS
    <2> HIDE DEF rest
    <2> QED
      BY SignalledFacts
  <1>2. Writers = {} \/ \E w \in Writers : w \notin room_cv'
    BY <1>1 DEF TypeInv, DataPathTypeOK
  <1> QED
    BY <1>2, RoomStep DEF RoomWakeup

\* A reader owes the readers nothing, and the writers only at "rd_signal"; and
\* the other way round.
LEMMA SignalsKept ==
    ASSUME TypeInv, NEW t \in Threads, \A s \in Threads \ {t} : pc'[s] = pc[s]
    PROVE  /\ t \in Readers \/ pc[t] # "wr_signal"
                => (DataSignalComing => DataSignalComing')
           /\ UNCHANGED <<resetter, task>> /\ (t \in Writers \/ pc[t] # "rd_signal")
                => (RoomSignalComing => RoomSignalComing')
  <1>1. Readers \subseteq Threads /\ Writers \subseteq Threads
    BY DEF Threads
  <1> QED
    BY <1>1, DataPathAssumption DEF DataSignalComing, RoomSignalComing

\* The steps of a thread move nobody else.
LEMMA OthersStay ==
    ASSUME TypeInv, NEW t \in Threads, NEW label, Goto(t, label)
    PROVE  pc'[t] = label /\ \A s \in Threads \ {t} : pc'[s] = pc[s]
  BY DEF TypeInv, DataPathTypeOK, Goto

LEMMA WakeRead ==
    ASSUME TypeInv, TypeInv', SleepersWait, DataWakeup, RoomWakeup,
           NEW r \in Readers, read_call(r) \/ read_interrupt(r) \/ reader(r)
    PROVE  DataWakeup' /\ RoomWakeup'
  <1> r \in Threads
    BY DEF Threads
  <1>0. used \in Nat
    BY DEF TypeInv, DataPathTypeOK
  <1>1. PICK label : Goto(r, label)
    BY DEF read_call, read_interrupt, reader, read_lock, read_section,
           read_signal, read_copy, Return, Continue
  <1>2. /\ DataSignalComing => DataSignalComing'
        /\ UNCHANGED <<resetter, task>> /\ pc[r] # "rd_signal"
             => (RoomSignalComing => RoomSignalComing')
    BY <1>1, OthersStay, SignalsKept
  <1>3. UNCHANGED <<resetter, task>>
    BY DEF read_call, read_interrupt, reader, read_lock, read_signal, read_copy,
           taskVars
  <1>4. CASE read_call(r) \/ read_copy(r)
    <2>1. UNCHANGED <<used, data_cv, room_cv>> /\ pc[r] # "rd_signal"
      BY <1>4 DEF read_call, read_copy, bufferVars, waitVars
    <2> QED
      BY <1>0, <1>2, <1>3, <2>1, DataStep, RoomStep
  <1>5. CASE read_interrupt(r)
    <2>1. /\ UNCHANGED <<used, room_cv>> /\ data_cv' \subseteq data_cv
          /\ pc[r] # "rd_signal"
      BY <1>5 DEF read_interrupt, bufferVars, SleepersWait
    <2> QED
      BY <1>0, <1>2, <1>3, <2>1, DataStep, RoomStep
  <1>6. CASE read_lock(r)
    <2>1. room_cv' = room_cv /\ pc[r] # "rd_signal"
      BY <1>6 DEF read_lock
    <2>2. CASE used > 0 /\ Goto(r, "rd_signal") /\ UNCHANGED data_cv
                 /\ used' = used - Least(used, Least(resid[r], Bounce))
      <3>1. RoomSignalComing'
        BY <2>2, OthersStay DEF RoomSignalComing
      <3>2. resid[r] \in Nat
        BY DEF TypeInv, DataPathTypeOK
      <3>3. used' <= used
        BY <1>0, <2>2, <3>2, DataPathAssumption DEF Least
      <3> QED
        BY <1>2, <2>2, <3>1, <3>3, DataStep, RoomStep
    <2>3. CASE used = 0 /\ used' = used
      BY <1>2, <1>3, <2>1, <2>3, DataStep, RoomStep
    <2> QED
      BY <1>6, <2>2, <2>3 DEF read_lock, read_section, bufferVars
  <1>7. CASE read_signal(r)
    <2>1. UNCHANGED <<used, data_cv>> /\ room_cv' \in Signalled(room_cv)
      BY <1>7 DEF read_signal, bufferVars
    <2> QED
      BY <1>0, <1>2, <2>1, DataStep, RoomSignalled
  <1> QED
    BY <1>4, <1>5, <1>6, <1>7 DEF reader

LEMMA WakeWrite ==
    ASSUME TypeInv, TypeInv', SleepersWait, DataWakeup, RoomWakeup,
           NEW w \in Writers, write_call(w) \/ write_interrupt(w) \/ writer(w)
    PROVE  DataWakeup' /\ RoomWakeup'
  <1> w \in Threads
    BY DEF Threads
  <1>0. used \in Nat
    BY DEF TypeInv, DataPathTypeOK
  <1>1. PICK label : Goto(w, label)
    BY DEF write_call, write_interrupt, writer, write_limit, write_lock,
           write_section, write_over_limit, write_fault, write_put, AfterPut,
           write_signal, write_selwakeup, NextRound, Return, Continue
  <1>2. /\ pc[w] # "wr_signal" => (DataSignalComing => DataSignalComing')
        /\ UNCHANGED <<resetter, task>> => (RoomSignalComing => RoomSignalComing')
    BY <1>1, OthersStay, SignalsKept
  <1>3. UNCHANGED <<resetter, task>>
    BY DEF write_call, write_interrupt, writer, write_limit, write_lock,
           write_over_limit, write_fault, write_put, write_signal,
           write_selwakeup, taskVars
  <1>4. CASE \/ write_call(w) \/ write_limit(w) \/ write_over_limit(w)
             \/ write_fault(w) \/ write_selwakeup(w)
    <2>1. UNCHANGED <<used, data_cv, room_cv>> /\ pc[w] # "wr_signal"
      BY <1>4 DEF write_call, write_limit, write_over_limit, write_fault,
                  write_selwakeup, bufferVars, waitVars
    <2> QED
      BY <1>0, <1>2, <1>3, <2>1, DataStep, RoomStep
  <1>5. CASE write_interrupt(w)
    <2>1. /\ UNCHANGED <<used, data_cv>> /\ room_cv' \subseteq room_cv
          /\ pc[w] # "wr_signal"
      BY <1>5 DEF write_interrupt, bufferVars, SleepersWait
    <2> QED
      BY <1>0, <1>2, <1>3, <2>1, DataStep, RoomStep
  <1>6. CASE write_lock(w)
    <2>1. UNCHANGED <<used, data_cv>> /\ pc[w] # "wr_signal"
      BY <1>6 DEF write_lock, bufferVars
    <2>2. room_cv' = room_cv \/ Free = 0
      BY <1>6 DEF write_lock, write_section
    <2>3. Free' = Free
      BY <2>1 DEF Free
    <2> QED
      BY <1>0, <1>2, <1>3, <2>1, <2>2, <2>3, DataStep, RoomStep
  <1>7. CASE write_put(w)
    <2>1. UNCHANGED <<data_cv, room_cv>> /\ pc[w] # "wr_signal" /\ Store(held[w])
      BY <1>7 DEF write_put, waitVars
    <2>2. used' >= used /\ (used' # used <=> Least(held[w], Free) > 0)
      <3>1. held[w] \in Nat
        BY DEF TypeInv, DataPathTypeOK
      <3> QED
        BY <2>1, <3>1, StoreFacts DEF TypeInv
    <2>3. used' # used => DataSignalComing'
      <3>1. used' # used => Goto(w, "wr_signal")
        BY <1>7, <2>2 DEF write_put, AfterPut, Continue
      <3> QED
        BY <3>1, OthersStay DEF DataSignalComing
    <2> QED
      BY <1>0, <1>2, <1>3, <2>1, <2>2, <2>3, DataStep, RoomStep
  <1>8. CASE write_signal(w)
    <2>1. UNCHANGED <<used, room_cv>> /\ data_cv' \in Signalled(data_cv)
      BY <1>8 DEF write_signal, bufferVars
    <2> QED
      BY <1>0, <1>2, <1>3, <2>1, RoomStep, DataSignalled
  <1> QED
    BY <1>4, <1>5, <1>6, <1>7, <1>8 DEF writer

LEMMA WakeOther ==
    ASSUME TypeInv, TypeInv', DataWakeup, RoomWakeup,
           \/ \E p \in Pollers : poll_call(p) \/ poll_lock(p) \/ poll_timeout(p)
           \/ myfirst_tick_source \/ bulk_writer_flood \/ reset_delayed
           \/ taskqueue_thread
           \/ myfirst_sysctl_reset \/ sysctl_reset_broadcast
    PROVE  DataWakeup' /\ RoomWakeup'
  <1>0. used \in Nat /\ Least(1, Free) \in Nat
    BY DataPathAssumption DEF Least, Free, TypeInv, DataPathTypeOK
  <1>1. pc' = pc /\ data_cv' \subseteq data_cv /\ room_cv' \subseteq room_cv
    BY OtherSteps DEF callVars
  <1>2. /\ DataSignalComing => DataSignalComing'
        /\ (resetter = "broadcast" => resetter' = "broadcast")
             /\ (task = "reset_broadcast" => task' = "reset_broadcast")
             => (RoomSignalComing => RoomSignalComing')
    BY <1>1 DEF DataSignalComing, RoomSignalComing
  <1> USE DEF bufferVars, waitVars, taskVars
  <1>3. ASSUME NEW p \in Pollers, poll_call(p) \/ poll_lock(p) \/ poll_timeout(p)
        PROVE  DataWakeup' /\ RoomWakeup'
    <2>1. UNCHANGED <<used, resetter, task>>
      BY <1>3 DEF poll_call, poll_lock, poll_timeout
    <2> QED
      BY <1>0, <1>1, <1>2, <2>1, DataStep, RoomStep
  <1>4. CASE bulk_writer_flood \/ reset_delayed \/ task_start \/ task_selwakeup
    <2>1. /\ UNCHANGED <<used, resetter>>
          /\ task = "reset_broadcast" => task' = "reset_broadcast"
      BY <1>4 DEF bulk_writer_flood, reset_delayed, task_start, task_selwakeup
    <2> QED
      BY <1>0, <1>1, <1>2, <2>1, DataStep, RoomStep
  <1>5. CASE myfirst_tick_source
    <2>1. /\ Store(1) /\ data_cv' \in Signalled(data_cv)
          /\ UNCHANGED <<resetter, task>>
      BY <1>5 DEF myfirst_tick_source
    <2>2. used' >= used
      BY <2>1, StoreFacts DEF TypeInv
    <2> QED
      BY <1>0, <1>1, <1>2, <2>1, <2>2, RoomStep, DataSignalled
  <1>6. CASE myfirst_bulk_writer_task
    <2>1. task = "bulk_writer" /\ UNCHANGED resetter
      BY <1>6 DEF myfirst_bulk_writer_task
    <2>2. PICK n \in Nat :
             Store(n) /\ (n = 0 \/ data_cv' \in Signalled(data_cv))
      <3>1. PICK batch \in Batches :
              LET written == IF bytes_written < MaxCount
                               THEN Least(batch, Free) ELSE 0
              IN  /\ Store(written)
                  /\ written > 0 => data_cv' \in Signalled(data_cv)
        BY <1>6 DEF myfirst_bulk_writer_task
      <3>2. Least(batch, Free) \in Nat
        BY DataPathAssumption DEF Least, Free, TypeInv, DataPathTypeOK
      <3> QED
        BY <3>1, <3>2
    <2>3. used' >= used /\ (used' # used <=> Least(n, Free) > 0)
      BY <2>2, StoreFacts DEF TypeInv
    <2>4. RoomWakeup'
      BY <1>0, <1>1, <1>2, <2>1, <2>3, RoomStep
    <2>5. n = 0 => used' <= used
      BY <1>0, <2>3, DataPathAssumption
      DEF Least, Free, TypeInv, DataPathTypeOK
    <2> QED
      BY <1>1, <1>2, <2>2, <2>4, <2>5, DataStep, DataSignalled
  <1>7. CASE myfirst_reset_delayed_task \/ myfirst_sysctl_reset
    <2>1. used' = 0 /\ RoomSignalComing'
      BY <1>7 DEF myfirst_reset_delayed_task, myfirst_sysctl_reset, ResetBuffer,
                  RoomSignalComing
    <2> QED
      BY <2>1, DataStep, RoomStep
  <1>8. CASE task_reset_broadcast \/ sysctl_reset_broadcast
    <2>1. UNCHANGED used /\ room_cv' = {}
      BY <1>8 DEF task_reset_broadcast, sysctl_reset_broadcast, Broadcast
    <2>2. RoomWakeup'
      BY <2>1 DEF RoomWakeup
    <2> QED
      BY <1>0, <1>1, <1>2, <2>1, <2>2, DataStep
  <1> QED
    BY <1>3, <1>4, <1>5, <1>6, <1>7, <1>8 DEF taskqueue_thread

LEMMA WakeNext ==
    TypeInv /\ TypeInv' /\ ShortInv /\ NobodyStranded /\ [Next]_vars
      => NobodyStranded'
  <1> SUFFICES ASSUME TypeInv, TypeInv', ShortInv, NobodyStranded, [Next]_vars
               PROVE  NobodyStranded'
    OBVIOUS
  <1>1. DataWakeup /\ RoomWakeup /\ SleepersWait
    BY DEF NobodyStranded, DataWakeup, RoomWakeup, ShortInv
  <1>2. CASE Next
    <2>1. DataWakeup' /\ RoomWakeup'
      BY <1>1, <1>2, WakeRead, WakeWrite, WakeOther DEF Next
    <2> QED
      BY <2>1 DEF NobodyStranded, DataWakeup, RoomWakeup
  <1>3. CASE UNCHANGED vars
    BY <1>3 DEF vars, bufferVars, waitVars, callVars, taskVars, NobodyStranded,
                DataSignalComing, RoomSignalComing, Free
  <1> QED
    BY <1>2, <1>3

------------------------------------------------------------------------------
DataPathInv == TypeInv /\ CountersAgree /\ ShortInv /\ NobodyStranded

LEMMA DataPathInvariant == Spec => []DataPathInv
  <1>1. Init => DataPathInv
    <2> SUFFICES ASSUME Init PROVE DataPathInv
      OBVIOUS
    <2>1. CountersAgree /\ NobodyStranded
      BY DEF Init, CountersAgree, NobodyStranded
    <2>2. ShortInv
      BY DEF Init, ShortInv, SleepersWait, ErrorAtReturn, ProgressEndsCall
    <2> QED
      BY <2>1, <2>2, TypeInit DEF DataPathInv
  <1>2. DataPathInv /\ [Next]_vars => DataPathInv'
    BY TypeNext, CountersNext, ShortNext, WakeNext DEF DataPathInv
  <1> QED
    BY <1>1, <1>2, PTL DEF Spec

\* The buffer never holds more than its size, and the types of everything else.
THEOREM DataPathTypeCorrect == Spec => []DataPathTypeOK
  <1>1. DataPathInv => DataPathTypeOK
    BY DEF DataPathInv, TypeInv
  <1> QED
    BY <1>1, DataPathInvariant, PTL

\* bytes_written - bytes_read is the number of bytes in the buffer, through all
\* five producers and both resets.
THEOREM DataPathCountersAgree == Spec => []CountersAgree
  <1>1. DataPathInv => CountersAgree
    BY DEF DataPathInv
  <1> QED
    BY <1>1, DataPathInvariant, PTL

\* myfirst_wait_data() and myfirst_wait_room() never put a call to sleep, and
\* never fail it with EAGAIN or EINTR, once it has moved a byte.
THEOREM DataPathProgressEndsCall == Spec => []ProgressEndsCall
  <1>1. DataPathInv => ProgressEndsCall
    BY DEF DataPathInv, ShortInv
  <1> QED
    BY <1>1, DataPathInvariant, PTL

\* A single cv_signal() after each transfer, although it comes after the unlock,
\* never leaves all readers asleep over bytes, or all writers over room.
THEOREM DataPathNobodyStranded == Spec => []NobodyStranded
  <1>1. DataPathInv => NobodyStranded
    BY DEF DataPathInv
  <1> QED
    BY <1>1, DataPathInvariant, PTL

------------------------------------------------------------------------------
(* Who takes the room a writer has seen.                                     *)

\* What a writer is about to store fits, but for what others have stored.
RoomLeft == \A w \in Writers : pc[w] = "wr_copy" => held[w] <= Free + outrun[w]

\* Steps of arithmetic, free of primed variables.
LEMMA FitsStill ==
    ASSUME NEW h \in Nat, NEW u \in Nat, NEW u1 \in Nat, NEW size \in Nat,
           NEW o \in Nat, NEW o1 \in Nat, NEW n \in Nat,
           h <= (size - u) + o, u1 <= u + n, o1 = o + n
    PROVE  h <= (size - u1) + o1
  OBVIOUS

LEMMA LostToOthers ==
    ASSUME NEW left \in Nat, NEW sum \in Nat, NEW h \in Nat, NEW room \in Nat,
           NEW o \in Nat, h <= left, h <= room + o
    PROVE  (left - (left - h)) - ((sum + Least(h, room)) - sum) \in 0 .. o
  <1>1. CASE h <= room
    BY <1>1 DEF Least
  <1>2. CASE ~(h <= room)
    BY <1>2 DEF Least
  <1> QED
    BY <1>1, <1>2

\* A step that adds at most n bytes to the buffer, and counts them against every
\* writer that goes on copying.
LEMMA RoomKept ==
    ASSUME TypeInv, TypeInv', RoomLeft, NEW n \in Nat, used' <= used + n,
           \A w \in Writers : pc'[w] = "wr_copy"
              => pc[w] = "wr_copy" /\ held'[w] = held[w] /\ outrun'[w] = outrun[w] + n
    PROVE  RoomLeft'
  <1> SUFFICES ASSUME NEW w \in Writers, pc'[w] = "wr_copy"
               PROVE  held'[w] <= (BufSize - used') + outrun'[w]
    BY DEF RoomLeft, Free
  <1>1. /\ pc[w] = "wr_copy" /\ held'[w] = held[w]
        /\ outrun'[w] = outrun[w] + n
    OBVIOUS
  <1>2. held[w] <= (BufSize - used) + outrun[w]
    BY <1>1 DEF RoomLeft, Free
  <1>3. /\ held[w] \in Nat /\ used \in Nat /\ used' \in Nat /\ BufSize \in Nat
        /\ outrun[w] \in Nat /\ outrun'[w] \in Nat
    BY DataPathAssumption DEF TypeInv, DataPathTypeOK, Threads
  <1> HIDE DEF RoomLeft
  <1>4. held[w] <= (BufSize - used') + outrun'[w]
    BY <1>1, <1>2, <1>3, FitsStill
  <1> QED
    BY <1>1, <1>4

\* A step that adds nothing and leaves the copying writers alone, or ends them.
LEMMA RoomUntouched ==
    ASSUME TypeInv, TypeInv', RoomLeft, used' <= used,
           \A w \in Writers : pc'[w] = "wr_copy"
              => pc[w] = "wr_copy" /\ held'[w] = held[w] /\ outrun'[w] = outrun[w]
    PROVE  RoomLeft'
  <1>1. used \in Nat /\ used' \in Nat /\ \A w \in Writers : outrun[w] \in Nat
    BY DEF TypeInv, DataPathTypeOK
  <1>2. used' <= used + 0 /\ \A w \in Writers : outrun[w] + 0 = outrun[w]
    BY <1>1
  <1>3. \A w \in Writers : pc'[w] = "wr_copy"
           => pc[w] = "wr_copy" /\ held'[w] = held[w] /\ outrun'[w] = outrun[w] + 0
    BY <1>2
  <1> QED
    BY <1>2, <1>3, RoomKept

\* A step that stores n bytes beside the writers that go on copying.
LEMMA RoomShared ==
    ASSUME TypeInv, TypeInv', RoomLeft, NEW want \in Nat, NEW n \in Nat,
           n = Least(want, Free), Store(want), NEW ws, Outrun(ws, n),
           \A w \in Writers : pc'[w] = "wr_copy"
              => pc[w] = "wr_copy" /\ held'[w] = held[w] /\ w \in ws
    PROVE  RoomLeft'
  <1>1. used' = used + n /\ used' \in Nat
    BY DEF Store, TypeInv, DataPathTypeOK
  <1>2. used' <= used + n
    BY <1>1
  <1>3. \A w \in Writers : w \in ws => outrun'[w] = outrun[w] + n
    BY OutrunFacts DEF TypeInv
  <1> QED
    BY <1>2, <1>3, RoomKept

LEMMA RoomRead ==
    ASSUME TypeInv, TypeInv', RoomLeft, NEW r \in Readers,
           read_call(r) \/ read_interrupt(r) \/ reader(r)
    PROVE  RoomLeft'
  <1>1. \A w \in Writers : w \in Threads /\ w # r
    BY DataPathAssumption DEF Threads
  <1>2. used \in Nat
    BY DEF TypeInv, DataPathTypeOK
  <1> USE DEF TypeInv, DataPathTypeOK, bufferVars
  <1>3. used' <= used
    <2>1. CASE read_lock(r)
      <3>1. CASE used' = used
        BY <1>2, <3>1
      <3>2. CASE used' # used
        <4> DEFINE got == Least(used, Least(resid[r], Bounce))
        <4>1. used' = used - got
          BY <2>1, <3>2 DEF read_lock, read_section
        <4>2. got \in Nat
          BY <1>2, DataPathAssumption DEF Least, Threads
        <4> HIDE DEF got
        <4> QED
          BY <1>2, <4>1, <4>2
      <3> QED
        BY <3>1, <3>2
    <2>2. CASE read_call(r) \/ read_interrupt(r) \/ read_signal(r) \/ read_copy(r)
      BY <1>2, <2>2 DEF read_call, read_interrupt, read_signal, read_copy
    <2> QED
      BY <2>1, <2>2 DEF reader
  <1>4. outrun' = outrun /\ \A w \in Writers : pc'[w] = pc[w] /\ held'[w] = held[w]
    <2>1. CASE read_lock(r)
      BY <1>1, <2>1 DEF read_lock, read_section, Return, Continue, Goto, Hold
    <2>2. CASE read_call(r) \/ read_interrupt(r)
      BY <1>1, <2>2 DEF read_call, read_interrupt, Return, Goto
    <2>3. CASE read_signal(r)
      BY <1>1, <2>3 DEF read_signal, Continue, Goto
    <2>4. CASE read_copy(r)
      BY <1>1, <2>4 DEF read_copy, Return, Goto, Hold
    <2> QED
      BY <2>1, <2>2, <2>3, <2>4 DEF reader
  <1> QED
    BY <1>3, <1>4, RoomUntouched

LEMMA RoomOther ==
    ASSUME TypeInv, TypeInv', RoomLeft,
           \/ \E p \in Pollers : poll_call(p) \/ poll_lock(p) \/ poll_timeout(p)
           \/ myfirst_tick_source \/ bulk_writer_flood \/ reset_delayed
           \/ taskqueue_thread
           \/ myfirst_sysctl_reset \/ sysctl_reset_broadcast
    PROVE  RoomLeft'
  <1>1. pc' = pc /\ held' = held
    BY OtherSteps DEF callVars
  <1>2. used \in Nat /\ Free \in Nat /\ Least(1, Free) \in Nat
    BY DataPathAssumption DEF TypeInv, DataPathTypeOK, Free, Least
  <1>3. CASE myfirst_tick_source
    <2>1. Store(1) /\ Outrun(Copying, 1) /\ Least(1, Free) = 1
      BY <1>2, <1>3 DEF myfirst_tick_source, Least
    <2> QED
      BY <1>1, <2>1, RoomShared DEF Copying
  <1>4. CASE myfirst_bulk_writer_task
    <2>1. PICK batch \in Batches :
            LET written == IF bytes_written < MaxCount THEN Least(batch, Free) ELSE 0
            IN  Store(written) /\ Outrun(Copying, written)
      BY <1>4 DEF myfirst_bulk_writer_task
    <2> DEFINE written == IF bytes_written < MaxCount THEN Least(batch, Free) ELSE 0
    <2>2. written \in Nat /\ written = Least(written, Free)
      BY <1>2, DataPathAssumption DEF Least
    <2>3. Store(written) /\ Outrun(Copying, written)
      BY <2>1
    <2> HIDE DEF written
    <2> QED
      BY <1>1, <2>2, <2>3, RoomShared DEF Copying
  <1>5. CASE myfirst_reset_delayed_task \/ myfirst_sysctl_reset
    <2>1. used' = 0 /\ outrun' = outrun
      BY <1>5 DEF myfirst_reset_delayed_task, myfirst_sysctl_reset, ResetBuffer
    <2> QED
      BY <1>1, <1>2, <2>1, RoomUntouched
  <1>6. ASSUME UNCHANGED bufferVars PROVE RoomLeft'
    BY <1>1, <1>2, <1>6, RoomUntouched DEF bufferVars
  <1>7. CASE \/ \E p \in Pollers : poll_call(p) \/ poll_lock(p) \/ poll_timeout(p)
             \/ bulk_writer_flood \/ reset_delayed \/ task_start \/ task_selwakeup
             \/ task_reset_broadcast \/ sysctl_reset_broadcast
    BY <1>6, <1>7
    DEF poll_call, poll_lock, poll_timeout, bulk_writer_flood, reset_delayed,
        task_start, task_selwakeup, task_reset_broadcast, sysctl_reset_broadcast
  <1> QED
    BY <1>3, <1>4, <1>5, <1>7 DEF taskqueue_thread

\* A step of a writer is one of its thread: its own label changes, no other.
LEMMA WriterMoves ==
    ASSUME TypeInv, NEW w \in Writers,
           write_call(w) \/ write_interrupt(w) \/ writer(w)
    PROVE  \A v \in Writers \ {w} : pc'[v] = pc[v] /\ held'[v] = held[v]
  <1>1. w \in Threads /\ \A v \in Writers : v \in Threads
    BY DEF Threads
  <1>2. PICK label : Goto(w, label)
    BY DEF write_call, write_interrupt, writer, write_limit, write_lock,
           write_section, write_over_limit, write_fault, write_put, AfterPut,
           write_signal, write_selwakeup, NextRound, Return, Continue
  <1>3. held' = held \/ \E n : held' = [held EXCEPT ![w] = n]
    <2>1. CASE write_call(w) \/ write_signal(w)
      BY <2>1 DEF write_call, write_signal, Continue
    <2>2. CASE write_limit(w)
      BY <2>2 DEF write_limit, Hold
    <2>3. CASE write_lock(w)
      BY <2>3 DEF write_lock, write_section, Hold, Return
    <2>4. CASE write_interrupt(w) \/ write_over_limit(w) \/ write_fault(w)
      BY <2>4 DEF write_interrupt, write_over_limit, write_fault, Return
    <2>5. CASE write_put(w) \/ write_selwakeup(w)
      BY <2>5 DEF write_put, write_selwakeup, AfterPut, NextRound, Return, Continue, Hold
    <2> QED
      BY <2>1, <2>2, <2>3, <2>4, <2>5 DEF writer
  <1> QED
    BY <1>1, <1>2, <1>3, OthersStay DEF TypeInv, DataPathTypeOK

LEMMA RoomWrite ==
    ASSUME TypeInv, TypeInv', RoomLeft, NEW w \in Writers,
           write_call(w) \/ write_interrupt(w) \/ writer(w)
    PROVE  RoomLeft'
  <1>1. w \in Threads
    BY DEF Threads
  <1>2. /\ used \in Nat /\ BufSize \in Nat /\ Free \in Nat /\ held[w] \in Nat
        /\ outrun[w] \in Nat
    BY <1>1, DataPathAssumption DEF TypeInv, DataPathTypeOK, Free
  <1>3. \A v \in Writers \ {w} : pc'[v] = pc[v] /\ held'[v] = held[v]
    BY WriterMoves
  <1>4. CASE \/ write_call(w) \/ write_limit(w) \/ write_over_limit(w)
             \/ write_signal(w) \/ write_selwakeup(w) \/ write_interrupt(w)
    <2>1. UNCHANGED <<used, outrun>>
      BY <1>4 DEF write_call, write_limit, write_over_limit, write_signal,
                  write_selwakeup, write_interrupt, bufferVars
    <2>2. pc'[w] # "wr_copy"
      BY <1>1, <1>4 DEF write_call, write_limit, write_over_limit, write_signal,
          write_selwakeup, write_interrupt, NextRound, Return, Continue, Goto,
          TypeInv, DataPathTypeOK
    <2> QED
      BY <1>2, <1>3, <2>1, <2>2, RoomUntouched
  <1>5. CASE write_fault(w)
    <2>1. used' = used /\ \A v \in Writers \ {w} : outrun'[v] = outrun[v]
      BY <1>5 DEF write_fault, TypeInv, DataPathTypeOK
    <2>2. pc'[w] # "wr_copy"
      BY <1>1, <1>5, OthersStay DEF write_fault, Return
    <2> QED
      BY <1>2, <1>3, <2>1, <2>2, RoomUntouched
  <1>6. CASE write_lock(w)
    <2>1. UNCHANGED <<used, outrun>>
      BY <1>6 DEF write_lock, bufferVars
    <2>2. pc'[w] = "wr_copy" => held'[w] <= Free + outrun[w]
      <3>1. CASE Hold(w, Want(w))
        <4>1. held'[w] = Want(w) /\ Want(w) \in Nat
          BY <1>1, <1>2, <3>1, DataPathAssumption
          DEF Hold, Want, Least, TypeInv, DataPathTypeOK
        <4>2. Want(w) <= Free
          BY <1>1, <1>2, DataPathAssumption DEF Want, Least, TypeInv, DataPathTypeOK
        <4> QED
          BY <1>2, <4>1, <4>2
      <3>2. CASE ~Hold(w, Want(w))
        BY <1>1, <1>6, <3>2
        DEF write_lock, write_section, Return, Goto, TypeInv, DataPathTypeOK
      <3> QED
        BY <3>1, <3>2
    <2>3. \A v \in Writers : pc'[v] = "wr_copy" => held'[v] <= Free + outrun[v]
      BY <1>3, <2>2 DEF RoomLeft
    <2> QED
      BY <2>1, <2>3 DEF RoomLeft, Free
  <1>7. CASE write_put(w)
    <2> DEFINE put == Least(held[w], Free)
    <2>1. Store(held[w]) /\ Outrun(Copying \ {w}, put)
      BY <1>7 DEF write_put
    <2>2. put \in Nat /\ put = Least(held[w], Free)
      BY <1>2 DEF Least
    <2>3. pc'[w] # "wr_copy"
      BY <1>1, <1>7
      DEF write_put, AfterPut, NextRound, Return, Continue, Goto, TypeInv, DataPathTypeOK
    <2> HIDE DEF put
    <2> QED
      BY <1>2, <1>3, <2>1, <2>2, <2>3, RoomShared DEF Copying
  <1> QED
    BY <1>4, <1>5, <1>6, <1>7 DEF writer

LEMMA RoomNext == TypeInv /\ RoomLeft /\ [Next]_vars => RoomLeft'
  <1> SUFFICES ASSUME TypeInv, RoomLeft, [Next]_vars PROVE RoomLeft'
    OBVIOUS
  <1>1. TypeInv'
    BY TypeNext
  <1>2. CASE UNCHANGED vars
    BY <1>2 DEF vars, bufferVars, callVars, RoomLeft, Free
  <1> QED
    BY <1>1, <1>2, RoomRead, RoomWrite, RoomOther DEF Next

\* What a round takes from its caller and does not store.
RoundLoss(w) == (resid[w] - resid'[w]) - (stored'[w] - stored[w])

\* The step that ends a copy loses what no longer fits.
LEMMA RoundEnds ==
    ASSUME TypeInv, SleepersWait, RoomLeft, NEW w \in Writers, NEW v \in Writers,
           write_call(v) \/ write_interrupt(v) \/ writer(v),
           pc[w] = "wr_copy", pc'[w] # "wr_copy"
    PROVE  RoundLoss(w) \in 0 .. outrun[w]
  <1>1. v = w
    BY WriterMoves
  <1>2. /\ w \in Threads /\ held[w] \in Nat /\ resid[w] \in Nat
        /\ stored[w] \in Nat /\ outrun[w] \in Nat /\ Free \in Nat
    BY DataPathAssumption DEF Threads, TypeInv, DataPathTypeOK, Free
  <1>3. CASE write_fault(w)
    <2>1. resid'[w] = resid[w] /\ stored'[w] = stored[w]
      BY <1>3 DEF write_fault
    <2>2. (resid[w] - resid[w]) - (stored[w] - stored[w]) \in 0 .. outrun[w]
      BY <1>2
    <2> QED
      BY <2>1, <2>2 DEF RoundLoss
  <1>4. CASE write_put(w)
    <2>1. /\ resid'[w] = resid[w] - held[w]
          /\ stored'[w] = stored[w] + Least(held[w], Free)
      BY <1>2, <1>4 DEF write_put, TypeInv, DataPathTypeOK
    <2>2. held[w] <= resid[w] /\ held[w] <= Free + outrun[w]
      BY <1>2 DEF TypeInv, HeldFits, RoomLeft
    <2>3. (resid[w] - (resid[w] - held[w])) - ((stored[w] + Least(held[w], Free)) - stored[w])
            \in 0 .. outrun[w]
      BY <1>2, <2>2, LostToOthers
    <2> QED
      BY <2>1, <2>3 DEF RoundLoss
  <1>5. write_fault(w) \/ write_put(w)
    <2>1. pc[w] \notin {"idle", "wr_limit", "wr_lock", "wr_sleep", "wr_signal", "wr_selwakeup"}
      OBVIOUS
    <2>2. ~write_interrupt(w)
      BY <2>1 DEF write_interrupt, SleepersWait
    <2> QED
      BY <1>1, <2>1, <2>2
      DEF write_call, writer, write_limit, write_lock, write_over_limit, write_signal,
          write_selwakeup
  <1> QED
    BY <1>3, <1>4, <1>5

\* What the other writers, the tick source, the bulk writer and the resets do
\* between the two critical sections of a write costs it at most the bytes they
\* have stored there, for any number of them: a round takes no more than that
\* from its caller without storing it, and never less than it stores.
THEOREM DataPathRoundLosesToOthers == Spec => RoundLosesToOthers
  <1>1. Init => RoomLeft
    BY DEF Init, RoomLeft, Threads
  <1>2. TypeInv /\ RoomLeft /\ [Next]_vars => RoomLeft'
    BY RoomNext
  <1>3. DataPathInv /\ RoomLeft /\ [Next]_vars
          => [\A w \in Writers : pc[w] = "wr_copy" /\ pc'[w] # "wr_copy"
                => (resid[w] - resid'[w]) - (stored'[w] - stored[w])
                     \in 0 .. outrun[w]]_vars
    <2> SUFFICES ASSUME DataPathInv, RoomLeft, Next,
                        NEW w \in Writers, pc[w] = "wr_copy", pc'[w] # "wr_copy"
                 PROVE  RoundLoss(w) \in 0 .. outrun[w]
      BY DEF RoundLoss
    <2>1. TypeInv /\ SleepersWait
      BY DEF DataPathInv, ShortInv
    <2>2. w \in Threads
      BY DEF Threads
    <2>3. ASSUME NEW r \in Readers, read_call(r) \/ read_interrupt(r) \/ reader(r)
          PROVE  pc'[w] = pc[w]
      <3>1. r \in Threads /\ w # r
        BY DataPathAssumption DEF Threads
      <3>2. PICK label : Goto(r, label)
        BY <2>3 DEF read_call, read_interrupt, reader, read_lock, read_section,
                    read_signal, read_copy, Return, Continue
      <3> QED
        BY <2>1, <2>2, <3>1, <3>2, OthersStay
    <2>4. ASSUME \/ \E p \in Pollers : poll_call(p) \/ poll_lock(p) \/ poll_timeout(p)
                 \/ myfirst_tick_source \/ bulk_writer_flood \/ reset_delayed
                 \/ taskqueue_thread
                 \/ myfirst_sysctl_reset \/ sysctl_reset_broadcast
          PROVE  pc'[w] = pc[w]
      BY <2>4, OtherSteps DEF callVars
    <2>5. PICK v \in Writers : write_call(v) \/ write_interrupt(v) \/ writer(v)
      BY <2>3, <2>4 DEF Next
    <2> QED
      BY <2>1, <2>5, RoundEnds
  <1> QED
    BY <1>1, <1>2, <1>3, TypeInit, TypeNext, DataPathInvariant, PTL
       DEF Spec, RoundLosesToOthers

------------------------------------------------------------------------------
(* The pollers.                                                              *)

TaskNames == {"selwake", "bulk_writer", "reset_delayed"}

LEMMA Enqueued ==
    ASSUME queue \in Seq(TaskNames), NEW t \in TaskNames, Enqueue(t)
    PROVE  Queued' = Queued \cup {t}
  <1>1. CASE t \in Queued
    BY <1>1 DEF Enqueue, Queued
  <1>2. CASE t \notin Queued
    <2>1. queue' = Append(queue, t)
      BY <1>2 DEF Enqueue
    <2>2. /\ DOMAIN queue = 1 .. Len(queue) /\ Len(queue) \in Nat
          /\ DOMAIN queue' = 1 .. Len(queue) + 1
          /\ queue'[Len(queue) + 1] = t
          /\ \A i \in 1 .. Len(queue) : queue'[i] = queue[i]
      BY <2>1
    <2>3. \A i \in DOMAIN queue' : i \in DOMAIN queue \/ i = Len(queue) + 1
      BY <2>2
    <2>4. \A i \in DOMAIN queue : i \in DOMAIN queue'
      BY <2>2
    <2>5. Len(queue) + 1 \in DOMAIN queue'
      BY <2>2
    <2> QED
      BY <2>2, <2>3, <2>4, <2>5 DEF Queued
  <1> QED
    BY <1>1, <1>2

LEMMA Dequeued ==
    ASSUME queue \in Seq(TaskNames), queue # <<>>, queue' = Tail(queue)
    PROVE  Queued' \subseteq Queued /\ Queued \subseteq Queued' \cup {Head(queue)}
  <1>1. ASSUME NEW i \in DOMAIN queue, i # 1
        PROVE  i - 1 \in DOMAIN queue' /\ queue'[i - 1] = queue[i]
    BY <1>1
  <1>2. ASSUME NEW i \in DOMAIN queue'
        PROVE  i + 1 \in DOMAIN queue /\ queue'[i] = queue[i + 1]
    BY <1>2
  <1>3. queue[1] = Head(queue)
    OBVIOUS
  <1>4. Queued' \subseteq Queued
    BY <1>2 DEF Queued
  <1>5. Queued \subseteq Queued' \cup {Head(queue)}
    <2> SUFFICES ASSUME NEW i \in DOMAIN queue
                 PROVE  queue[i] \in Queued' \cup {Head(queue)}
      BY DEF Queued
    <2>1. CASE i = 1
      BY <1>3, <2>1
    <2>2. CASE i # 1
      BY <1>1, <2>2 DEF Queued
    <2> QED
      BY <2>1, <2>2
  <1> QED
    BY <1>4, <1>5

\* Neither more pollers nor more bytes, and whoever owed a selwakeup() still does.
LEMMA PollInStep ==
    ASSUME used \in Nat, used' \in Nat, PollInCovered,
           rsel' = {} \/ rsel' \subseteq rsel \/ used' = 0,
           used' <= used \/ SelwakeupComing',
           SelwakeupComing => SelwakeupComing' \/ rsel' = {}
    PROVE  PollInCovered'
  BY DEF PollInCovered

\* One thread moves and was not about to call selwakeup(rsel).
LEMMA SelwakeupKept ==
    ASSUME UNCHANGED <<queue, task>>, NEW t \in Threads,
           \A s \in Threads \ {t} : pc'[s] = pc[s],
           t \notin Writers \/ pc[t] \notin {"wr_signal", "wr_selwakeup"}
    PROVE  SelwakeupComing => SelwakeupComing'
  <1>1. Writers \subseteq Threads /\ Queued' = Queued
    BY DEF Threads, Queued
  <1> QED
    BY <1>1 DEF SelwakeupComing

LEMMA PollInRead ==
    ASSUME TypeInv, TypeInv', PollInCovered, NEW r \in Readers,
           read_call(r) \/ read_interrupt(r) \/ reader(r)
    PROVE  PollInCovered'
  <1> r \in Threads /\ r \notin Writers
    BY DataPathAssumption DEF Threads
  <1>1. PICK label : Goto(r, label)
    BY DEF read_call, read_interrupt, reader, read_lock, read_section,
           read_signal, read_copy, Return, Continue
  <1>2. UNCHANGED <<rsel, queue, task>>
    BY DEF read_call, read_interrupt, reader, read_lock, read_signal, read_copy,
           taskVars, pollVars
  <1>3. SelwakeupComing => SelwakeupComing'
    BY <1>1, <1>2, OthersStay, SelwakeupKept
  <1>4. used \in Nat /\ used' \in Nat /\ resid[r] \in Nat
    BY DEF TypeInv, DataPathTypeOK
  <1>5. used' <= used
    <2>1. CASE UNCHANGED used
      BY <1>4, <2>1
    <2>2. CASE used' = used - Least(used, Least(resid[r], Bounce))
      BY <1>4, <2>2, DataPathAssumption DEF Least
    <2> QED
      BY <2>1, <2>2 DEF read_call, read_interrupt, reader, read_lock, read_section,
                        read_signal, read_copy, bufferVars
  <1> QED
    BY <1>2, <1>3, <1>4, <1>5, PollInStep

LEMMA PollInWrite ==
    ASSUME TypeInv, TypeInv', SleepersWait, PollInCovered, NEW w \in Writers,
           write_call(w) \/ write_interrupt(w) \/ writer(w)
    PROVE  PollInCovered'
  <1> w \in Threads
    BY DEF Threads
  <1>1. PICK label : Goto(w, label)
    BY DEF write_call, write_interrupt, writer, write_limit, write_lock,
           write_section, write_over_limit, write_fault, write_put, AfterPut,
           write_signal, write_selwakeup, NextRound, Return, Continue
  <1>2. UNCHANGED <<queue, task>>
    BY DEF write_call, write_interrupt, writer, write_limit, write_lock,
           write_over_limit, write_fault, write_put, write_signal,
           write_selwakeup, taskVars
  <1>3. pc[w] \notin {"wr_signal", "wr_selwakeup"}
          => (SelwakeupComing => SelwakeupComing')
    BY <1>1, <1>2, OthersStay, SelwakeupKept
  <1>4. used \in Nat /\ used' \in Nat
    BY DEF TypeInv, DataPathTypeOK
  <1>5. CASE \/ write_call(w) \/ write_limit(w) \/ write_over_limit(w)
             \/ write_fault(w) \/ write_interrupt(w) \/ write_lock(w)
    <2>1. CASE write_interrupt(w)
      <3>1. UNCHANGED <<used, rsel>>
        BY <2>1 DEF write_interrupt, bufferVars, pollVars
      <3>2. pc[w] = "wr_sleep"
        BY <2>1 DEF write_interrupt, SleepersWait
      <3> QED
        BY <1>3, <1>4, <3>1, <3>2, PollInStep
    <2>2. CASE ~write_interrupt(w)
      <3>1. UNCHANGED <<used, rsel>> /\ pc[w] \notin {"wr_signal", "wr_selwakeup"}
        BY <1>5, <2>2 DEF write_call, write_limit, write_over_limit, write_fault,
                          write_lock, bufferVars, pollVars
      <3> QED
        BY <1>3, <1>4, <3>1, PollInStep
    <2> QED
      BY <2>1, <2>2
  <1>6. CASE write_put(w)
    <2>1. UNCHANGED rsel /\ pc[w] = "wr_copy" /\ Store(held[w]) /\ held[w] \in Nat
      BY <1>6 DEF write_put, pollVars, TypeInv, DataPathTypeOK
    <2>2. used' # used => Goto(w, "wr_signal")
      BY <1>6, <2>1, StoreFacts DEF write_put, AfterPut, Continue, TypeInv
    <2>3. used' # used => SelwakeupComing'
      BY <2>2, OthersStay DEF SelwakeupComing
    <2> QED
      BY <1>3, <1>4, <2>1, <2>3, PollInStep
  <1>7. CASE write_signal(w)
    <2>1. UNCHANGED <<used, rsel>> /\ Goto(w, "wr_selwakeup")
      BY <1>7 DEF write_signal, Continue, bufferVars, pollVars
    <2>2. SelwakeupComing'
      BY <2>1, OthersStay DEF SelwakeupComing
    <2> QED
      BY <1>4, <2>1, <2>2, PollInStep
  <1>8. CASE write_selwakeup(w)
    BY <1>8 DEF write_selwakeup, PollInCovered
  <1> QED
    BY <1>5, <1>6, <1>7, <1>8 DEF writer

LEMMA PollInOther ==
    ASSUME TypeInv, TypeInv', PollInCovered,
           \/ \E p \in Pollers : poll_call(p) \/ poll_lock(p) \/ poll_timeout(p)
           \/ myfirst_tick_source \/ bulk_writer_flood \/ reset_delayed
           \/ taskqueue_thread
           \/ myfirst_sysctl_reset \/ sysctl_reset_broadcast
    PROVE  PollInCovered'
  <1>1. pc' = pc
    BY OtherSteps DEF callVars
  <1>2. used \in Nat /\ used' \in Nat /\ queue \in Seq(TaskNames)
    BY DEF TypeInv, DataPathTypeOK, TaskNames
  <1> USE DEF bufferVars, pollVars, taskVars
  <1>3. ASSUME NEW p \in Pollers, poll_call(p) \/ poll_lock(p) \/ poll_timeout(p)
        PROVE  PollInCovered'
    <2>1. UNCHANGED <<used, queue, task>>
      BY <1>3 DEF poll_call, poll_lock, poll_timeout
    <2>2. SelwakeupComing => SelwakeupComing'
      BY <1>1, <2>1 DEF SelwakeupComing, Queued
    <2>3. CASE poll_lock(p)
      <3>1. rsel' = rsel \/ used = 0
        BY <1>2, <2>3 DEF poll_lock
      <3> QED
        BY <1>2, <2>1, <2>2, <3>1, PollInStep
    <2>4. CASE poll_call(p) \/ poll_timeout(p)
      <3>1. rsel' \subseteq rsel
        BY <2>4 DEF poll_call, poll_timeout
      <3> QED
        BY <1>2, <2>1, <2>2, <3>1, PollInStep
    <2> QED
      BY <1>3, <2>3, <2>4
  <1>4. CASE bulk_writer_flood \/ reset_delayed
    <2>1. /\ UNCHANGED <<used, rsel, task>>
          /\ Enqueue("bulk_writer") \/ Enqueue("reset_delayed")
      BY <1>4 DEF bulk_writer_flood, reset_delayed
    <2>2. Queued \subseteq Queued'
      BY <1>2, <2>1, Enqueued DEF TaskNames
    <2> QED
      BY <1>1, <1>2, <2>1, <2>2, PollInStep DEF SelwakeupComing
  <1>5. CASE myfirst_tick_source
    <2>1. Enqueue("selwake") /\ UNCHANGED rsel
      BY <1>5 DEF myfirst_tick_source
    <2>2. SelwakeupComing'
      BY <1>2, <2>1, Enqueued DEF TaskNames, SelwakeupComing
    <2> QED
      BY <1>2, <2>1, <2>2, PollInStep
  <1>6. CASE task_start
    <2>1. /\ task = "idle" /\ queue # <<>> /\ UNCHANGED <<used, rsel>>
          /\ task' = Head(queue) /\ queue' = Tail(queue)
      BY <1>6 DEF task_start
    <2>2. Queued \subseteq Queued' \cup {task'}
      BY <1>2, <2>1, Dequeued
    <2> QED
      BY <1>1, <1>2, <2>1, <2>2, PollInStep DEF SelwakeupComing
  <1>7. CASE task_selwakeup
    BY <1>7 DEF task_selwakeup, PollInCovered
  <1>8. CASE myfirst_bulk_writer_task
    <2>1. task = "bulk_writer" /\ UNCHANGED <<rsel, queue>>
      BY <1>8 DEF myfirst_bulk_writer_task
    <2>2. SelwakeupComing => SelwakeupComing'
      BY <1>1, <2>1 DEF SelwakeupComing, Queued
    <2>3. PICK batch \in Batches :
             LET written == IF bytes_written < MaxCount
                              THEN Least(batch, Free) ELSE 0
             IN  Store(written) /\ (written > 0 => task' = "bulk_selwakeup")
      BY <1>8 DEF myfirst_bulk_writer_task
    <2>4. Least(batch, Free) \in Nat
      BY DataPathAssumption DEF Least, Free, TypeInv, DataPathTypeOK
    <2>5. used' <= used \/ task' = "bulk_selwakeup"
      <3>1. PICK n \in Nat : Store(n) /\ (n > 0 => task' = "bulk_selwakeup")
        BY <2>3, <2>4
      <3>2. n = 0 => used' <= used
        BY <1>2, <3>1, DataPathAssumption
        DEF Store, Least, Free, TypeInv, DataPathTypeOK
      <3> QED
        BY <3>1, <3>2
    <2>6. used' <= used \/ SelwakeupComing'
      BY <2>5 DEF SelwakeupComing
    <2> QED
      BY <1>2, <2>1, <2>2, <2>6, PollInStep
  <1>9. CASE myfirst_reset_delayed_task \/ myfirst_sysctl_reset
    <2>1. used' = 0
      BY <1>9 DEF myfirst_reset_delayed_task, myfirst_sysctl_reset, ResetBuffer
    <2> QED
      BY <2>1 DEF PollInCovered
  <1>10. CASE task_reset_broadcast \/ sysctl_reset_broadcast
    <2>1. /\ UNCHANGED <<used, rsel, queue>>
          /\ task' = task \/ task = "reset_broadcast"
      BY <1>10 DEF task_reset_broadcast, sysctl_reset_broadcast
    <2>2. SelwakeupComing => SelwakeupComing'
      BY <1>1, <2>1 DEF SelwakeupComing, Queued
    <2> QED
      BY <1>2, <2>1, <2>2, PollInStep
  <1> QED
    BY <1>3, <1>4, <1>5, <1>6, <1>7, <1>8, <1>9, <1>10 DEF taskqueue_thread

LEMMA PollInNext ==
    TypeInv /\ TypeInv' /\ SleepersWait /\ PollInCovered /\ [Next]_vars
      => PollInCovered'
  <1> SUFFICES ASSUME TypeInv, TypeInv', SleepersWait, PollInCovered, [Next]_vars
               PROVE  PollInCovered'
    OBVIOUS
  <1>1. CASE Next
    BY <1>1, PollInRead, PollInWrite, PollInOther DEF Next
  <1>2. CASE UNCHANGED vars
    BY <1>2 DEF vars, bufferVars, pollVars, callVars, taskVars, PollInCovered,
                SelwakeupComing, Queued
  <1> QED
    BY <1>1, <1>2

\* A poller is never asleep for POLLIN beside bytes without a selwakeup(rsel) on
\* its way: the tick source (537) and the bulk writer defer theirs to the
\* taskqueue, where they are coalesced, and a write owes its own until after
\* the unlock (1022).
THEOREM DataPathPollInCovered == Spec => []PollInCovered
  <1>1. Init => PollInCovered
    BY DEF Init, PollInCovered
  <1>2. DataPathInv => TypeInv /\ SleepersWait
    BY DEF DataPathInv, ShortInv
  <1> QED
    BY <1>1, <1>2, DataPathInvariant, PollInNext, PTL DEF Spec

\* Without resets only a read makes room, and it is still to call
\* selwakeup(wsel); what NoPollOutStranded also allows does not happen.
PollOutCovered ==
    Free > 0 /\ wsel # {}
      => \E r \in Readers : pc[r] \in {"rd_signal", "rd_selwakeup"}

NoReset ==
    /\ resetter = "idle" /\ task \notin {"reset_delayed", "reset_broadcast"}
    /\ "reset_delayed" \notin Queued

LEMMA NoResetNext ==
    Resetting = FALSE /\ TypeInv /\ NoReset /\ [Next]_vars => NoReset'
  <1> SUFFICES ASSUME Resetting = FALSE, TypeInv, NoReset, [Next]_vars
               PROVE  NoReset'
    OBVIOUS
  <1>1. queue \in Seq(TaskNames)
    BY DEF TypeInv, DataPathTypeOK, TaskNames
  <1>2. CASE UNCHANGED <<resetter, task, queue>>
    BY <1>2 DEF NoReset, Queued
  <1>3. CASE myfirst_tick_source \/ bulk_writer_flood
    <2>1. /\ UNCHANGED <<resetter, task>>
          /\ Enqueue("selwake") \/ Enqueue("bulk_writer")
      BY <1>3 DEF myfirst_tick_source, bulk_writer_flood
    <2>2. "reset_delayed" \notin Queued'
      BY <1>1, <2>1, Enqueued DEF TaskNames, NoReset
    <2> QED
      BY <2>1, <2>2 DEF NoReset
  <1>4. CASE task_start
    <2>1. /\ UNCHANGED resetter /\ queue # <<>>
          /\ task' = Head(queue) /\ queue' = Tail(queue)
      BY <1>4 DEF task_start
    <2>2. Head(queue) \in Queued /\ Head(queue) \in TaskNames
      BY <1>1, <2>1 DEF Queued
    <2>3. Queued' \subseteq Queued
      BY <1>1, <2>1, Dequeued
    <2> QED
      BY <2>1, <2>2, <2>3 DEF NoReset, TaskNames
  <1>5. CASE task_selwakeup \/ myfirst_bulk_writer_task
    BY <1>5 DEF task_selwakeup, myfirst_bulk_writer_task, NoReset, Queued
  <1>6. CASE \/ reset_delayed \/ myfirst_sysctl_reset \/ sysctl_reset_broadcast
             \/ myfirst_reset_delayed_task \/ task_reset_broadcast
    BY <1>6 DEF reset_delayed, myfirst_sysctl_reset, sysctl_reset_broadcast,
                myfirst_reset_delayed_task, task_reset_broadcast, NoReset
  <1>7. ASSUME NEW r \in Readers, read_call(r) \/ read_interrupt(r) \/ reader(r)
        PROVE  UNCHANGED <<resetter, task, queue>>
    BY <1>7 DEF read_call, read_interrupt, reader, read_lock, read_signal,
                read_copy, taskVars
  <1>8. ASSUME NEW w \in Writers, write_call(w) \/ write_interrupt(w) \/ writer(w)
        PROVE  UNCHANGED <<resetter, task, queue>>
    BY <1>8 DEF write_call, write_interrupt, writer, write_limit, write_lock,
                write_over_limit, write_fault, write_put, write_signal,
                write_selwakeup, taskVars
  <1>9. ASSUME NEW p \in Pollers, poll_call(p) \/ poll_lock(p) \/ poll_timeout(p)
        PROVE  UNCHANGED <<resetter, task, queue>>
    BY <1>9 DEF poll_call, poll_lock, poll_timeout, taskVars
  <1>10. CASE UNCHANGED vars
    BY <1>2, <1>10 DEF vars, taskVars
  <1> QED
    BY <1>2, <1>3, <1>4, <1>5, <1>6, <1>7, <1>8, <1>9, <1>10
    DEF Next, taskqueue_thread

\* No more room, no more pollers, and no reader that was about to wake them.
LEMMA PollOutStep ==
    ASSUME used \in Nat, used' \in Nat, PollOutCovered,
           wsel' \subseteq wsel \/ Free = 0, used' >= used,
           \A r \in Readers : pc[r] \in {"rd_signal", "rd_selwakeup"}
                                => pc'[r] = pc[r]
    PROVE  PollOutCovered'
  <1>1. BufSize \in Int /\ used \in Int /\ used' \in Int
    BY DataPathAssumption
  <1>2. ASSUME BufSize - used' > 0 PROVE BufSize - used > 0
    BY <1>1, <1>2, RoomBefore
  <1>3. ASSUME Free > 0, wsel # {}
        PROVE  \E r \in Readers : pc'[r] \in {"rd_signal", "rd_selwakeup"}
    BY <1>3 DEF PollOutCovered
  <1>4. Free' > 0 => Free > 0
    BY <1>2 DEF Free
  <1>5. wsel' # {} /\ Free > 0 => wsel # {}
    BY DataPathAssumption, <1>1 DEF Free
  <1> QED
    BY <1>3, <1>4, <1>5 DEF PollOutCovered

LEMMA PollOutNext ==
    ASSUME Resetting = FALSE, TypeInv, TypeInv', SleepersWait, NoReset,
           PollOutCovered, [Next]_vars
    PROVE  PollOutCovered'
  <1> USE DEF bufferVars, pollVars
  <1>1. used \in Nat /\ used' \in Nat
    BY DEF TypeInv, DataPathTypeOK
  <1>2. Readers \subseteq Threads /\ Writers \subseteq Threads
    BY DEF Threads
  <1>3. ASSUME NEW r \in Readers, read_call(r) \/ read_interrupt(r) \/ reader(r)
        PROVE  PollOutCovered'
    <2>1. PICK label : Goto(r, label)
      BY <1>3 DEF read_call, read_interrupt, reader, read_lock, read_section,
             read_signal, read_copy, Return, Continue
    <2>2. pc'[r] = label /\ \A s \in Threads \ {r} : pc'[s] = pc[s]
      BY <1>2, <2>1, OthersStay
    <2>3. CASE read_call(r) \/ read_interrupt(r)
      <3>1. UNCHANGED <<used, wsel>> /\ pc[r] \notin {"rd_signal", "rd_selwakeup"}
        BY <2>3 DEF read_call, read_interrupt, SleepersWait
      <3> QED
        BY <1>1, <1>2, <2>2, <3>1, PollOutStep
    <2>4. CASE read_lock(r)
      <3>1. UNCHANGED wsel /\ pc[r] \notin {"rd_signal", "rd_selwakeup"}
        BY <2>4 DEF read_lock
      <3>2. UNCHANGED used \/ Goto(r, "rd_signal")
        BY <2>4 DEF read_lock, read_section
      <3>3. CASE UNCHANGED used
        BY <1>1, <1>2, <2>2, <3>1, <3>3, PollOutStep
      <3>4. CASE Goto(r, "rd_signal")
        BY <1>2, <3>4, OthersStay DEF PollOutCovered
      <3> QED
        BY <3>2, <3>3, <3>4
    <2>5. CASE read_signal(r)
      <3>1. Goto(r, "rd_selwakeup")
        BY <2>5 DEF read_signal, Continue
      <3> QED
        BY <1>2, <3>1, OthersStay DEF PollOutCovered
    <2>6. CASE read_copy(r)
      BY <2>6 DEF read_copy, PollOutCovered
    <2> QED
      BY <1>3, <2>3, <2>4, <2>5, <2>6 DEF reader
  <1>4. ASSUME NEW w \in Writers, write_call(w) \/ write_interrupt(w) \/ writer(w)
        PROVE  PollOutCovered'
    <2>1. PICK label : Goto(w, label)
      BY <1>4 DEF write_call, write_interrupt, writer, write_limit, write_lock,
           write_section, write_over_limit, write_fault, write_put, AfterPut,
           write_signal, write_selwakeup, NextRound, Return, Continue
    <2>2. \A r \in Readers : pc'[r] = pc[r]
      BY <1>2, <2>1, OthersStay, DataPathAssumption
    <2>3. UNCHANGED wsel
      BY <1>4 DEF write_call, write_interrupt, writer, write_limit, write_lock,
           write_over_limit, write_fault, write_put, write_signal, write_selwakeup
    <2>4. used' >= used
      <3>1. CASE write_put(w)
        <4>1. held[w] \in Nat /\ Store(held[w])
          BY <1>2, <3>1 DEF write_put, TypeInv, DataPathTypeOK
        <4> QED
          BY <4>1, StoreFacts DEF TypeInv
      <3>2. CASE ~write_put(w)
        BY <1>1, <1>4, <3>2
        DEF write_call, write_interrupt, writer, write_limit, write_lock,
            write_over_limit, write_fault, write_signal, write_selwakeup
      <3> QED
        BY <3>1, <3>2
    <2> QED
      BY <1>1, <2>2, <2>3, <2>4, PollOutStep
  <1>5. ASSUME NEW p \in Pollers, poll_call(p) \/ poll_lock(p) \/ poll_timeout(p)
        PROVE  PollOutCovered'
    <2>1. UNCHANGED <<used, pc>>
      BY <1>5 DEF poll_call, poll_lock, poll_timeout, callVars
    <2>2. CASE poll_call(p) \/ poll_timeout(p)
      <3>1. wsel' \subseteq wsel
        BY <2>2 DEF poll_call, poll_timeout
      <3> QED
        BY <1>1, <2>1, <3>1, PollOutStep
    <2>3. CASE poll_lock(p)
      <3>1. wsel' = wsel \/ ~(Free > 0)
        BY <2>3 DEF poll_lock
      <3>2. Free \in Nat
        BY DataPathAssumption DEF Free, TypeInv, DataPathTypeOK
      <3> QED
        BY <1>1, <2>1, <3>1, <3>2, PollOutStep
    <2> QED
      BY <1>5, <2>2, <2>3
  <1>6. CASE myfirst_tick_source \/ myfirst_bulk_writer_task
    <2>1. UNCHANGED <<pc, wsel>>
      BY <1>6 DEF myfirst_tick_source, myfirst_bulk_writer_task, callVars
    <2>2. PICK n \in Nat : Store(n)
      <3>1. Least(1, Free) \in Nat
        BY DataPathAssumption DEF Least, Free, TypeInv, DataPathTypeOK
      <3>2. CASE myfirst_tick_source
        BY <3>2 DEF myfirst_tick_source
      <3>3. CASE myfirst_bulk_writer_task
        <4>1. PICK batch \in Batches :
                Store(IF bytes_written < MaxCount THEN Least(batch, Free) ELSE 0)
          BY <3>3 DEF myfirst_bulk_writer_task
        <4>2. Least(batch, Free) \in Nat
          BY DataPathAssumption DEF Least, Free, TypeInv, DataPathTypeOK
        <4> QED
          BY <4>1, <4>2
      <3> QED
        BY <1>6, <3>2, <3>3
    <2>3. used' >= used
      BY <2>2, StoreFacts DEF TypeInv
    <2> QED
      BY <1>1, <2>1, <2>3, PollOutStep
  <1>7. CASE \/ bulk_writer_flood \/ reset_delayed \/ task_start
             \/ task_selwakeup \/ UNCHANGED vars
    <2>1. UNCHANGED <<used, pc, wsel>>
      BY <1>7 DEF bulk_writer_flood, reset_delayed, task_start, task_selwakeup,
                  callVars, vars
    <2> QED
      BY <1>1, <2>1, PollOutStep
  <1>8. CASE \/ sysctl_reset_broadcast
             \/ myfirst_reset_delayed_task \/ task_reset_broadcast
    BY <1>8 DEF sysctl_reset_broadcast, myfirst_reset_delayed_task,
                task_reset_broadcast, NoReset
  <1>9. CASE myfirst_sysctl_reset
    BY <1>9 DEF myfirst_sysctl_reset
  <1> QED
    BY <1>3, <1>4, <1>5, <1>6, <1>7, <1>8, <1>9 DEF Next, taskqueue_thread

\* The resets are the only reason why a poller may sleep for POLLOUT beside room
\* with no selwakeup(wsel) on its way: a read always calls it after it has taken
\* bytes (953), whoever else runs.
THEOREM DataPathPollOutWithoutResets ==
    ASSUME Resetting = FALSE
    PROVE  Spec => []NoPollOutStranded
  <1>1. Init => PollOutCovered /\ NoReset
    BY DEF Init, PollOutCovered, NoReset, Queued
  <1>2. DataPathInv => TypeInv /\ SleepersWait
    BY DEF DataPathInv, ShortInv
  <1>3. PollOutCovered => NoPollOutStranded
    BY DEF PollOutCovered, NoPollOutStranded
  <1>4. TypeInv /\ NoReset /\ [Next]_vars => NoReset'
    BY NoResetNext
  <1>5. TypeInv /\ TypeInv' /\ SleepersWait /\ NoReset /\ PollOutCovered
          /\ [Next]_vars => PollOutCovered'
    BY PollOutNext
  <1> QED
    BY <1>1, <1>2, <1>3, <1>4, <1>5, DataPathInvariant, PTL DEF Spec
==============================================================================
