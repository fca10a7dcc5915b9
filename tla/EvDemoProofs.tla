----------------------------- MODULE EvDemoProofs ------------------------------
(***************************************************************************)
(* Proofs about the evdemo driver, for any number of readers, pollers,      *)
(* knotes and posters and any size of the ring: type correctness, that      *)
(* nobody sleeps past an event or the unload, that the unload leaves no     *)
(* callout and no sleeper on the softc it frees, and that the ring          *)
(* implements the bounded queue that drops its oldest event.                *)
(***************************************************************************)
EXTENDS EvDemo, SequenceTheorems, TLAPS

\* The ring: its indices, and where the next event goes.
Ring ==
    /\ queue \in [0 .. QueueSize - 1 -> Kinds \cup {NoEvent}]
    /\ qhead \in 0 .. QueueSize - 1 /\ qtail \in 0 .. QueueSize - 1
    /\ nevents \in 0 .. QueueSize
    /\ qtail = (qhead + nevents) % QueueSize

\* The other types, and that detaching says that the unload has begun.
Typed ==
    /\ detaching \in BOOLEAN /\ armed \in BOOLEAN
    /\ rpc \in [Readers -> {"user", "loop", "asleep", "copy"}]
    /\ ev \in [Readers -> Kinds \cup {NoEvent}]
    /\ selecting \subseteq Pollers /\ active \subseteq knotes /\ knotes \subseteq Knotes
    /\ ppc \in [Posters -> {"idle", "post", "selwakeup", "sigio"}]
    /\ phase \in {"loaded", "selwakeup", "callout", "destroy_dev", "hung",
                  "clear", "free", "cleared", "unloaded"}
    /\ detaching <=> phase # "loaded"

\* What each step of the unload has already sent away, and does not come back:
\* a poller goes to sleep only while the device is not detaching.
SentAway ==
    /\ phase \notin {"loaded", "selwakeup"} => selecting = {}
    /\ phase \notin {"loaded", "selwakeup", "callout"} => ~armed

------------------------------------------------------------------------------
(* The ring.                                                                *)

\* The slot of the ring an index stands for.
Slot(x) == x % QueueSize

\* What it is, for an index less than two sizes from the start.
LEMMA Wrap ==
    ASSUME NEW x \in Nat, x < 2 * QueueSize
    PROVE  /\ x < QueueSize => Slot(x) = x
           /\ x >= QueueSize => Slot(x) = x - QueueSize
           /\ Slot(x) \in 0 .. QueueSize - 1
  <1>1. QueueSize \in Nat /\ QueueSize > 0
    BY EvDemoAssumption
  <1>2. ASSUME NEW s \in Nat, s > 0, NEW y \in Nat, y < s
        PROVE  y % s = y
    BY <1>2
  <1>3. ASSUME NEW s \in Nat, s > 0, NEW y \in Nat, y < 2 * s, y >= s
        PROVE  y % s = y - s
    BY <1>3
  <1>4. CASE x < QueueSize
    <2>1. Slot(x) = x
      BY <1>1, <1>2, <1>4 DEF Slot
    <2> QED
      BY <1>1, <1>4, <2>1
  <1>5. CASE x >= QueueSize
    <2>1. Slot(x) = x - QueueSize
      BY <1>1, <1>3, <1>5 DEF Slot
    <2> QED
      BY <1>1, <1>5, <2>1
  <1> QED
    BY <1>1, <1>4, <1>5

\* The n events that start at slot h of the ring q.
Slots(q, h, n) == [i \in 1 .. n |-> q[Slot(h + i - 1)]]

\* They are a sequence of n events.
LEMMA SlotsSeq ==
    ASSUME NEW q \in [0 .. QueueSize - 1 -> Kinds \cup {NoEvent}],
           NEW h \in 0 .. QueueSize - 1, NEW n \in 0 .. QueueSize
    PROVE  /\ Slots(q, h, n) \in Seq(Kinds \cup {NoEvent}) /\ Len(Slots(q, h, n)) = n
           /\ \A i \in 1 .. n : Slots(q, h, n)[i] = q[Slot(h + i - 1)]
  <1>1. QueueSize \in Nat /\ QueueSize > 0
    BY EvDemoAssumption
  <1>2. ASSUME NEW i \in 1 .. n
        PROVE  q[Slot(h + i - 1)] \in Kinds \cup {NoEvent}
    <2>1. h + i - 1 \in Nat /\ h + i - 1 < 2 * QueueSize
      BY <1>1
    <2>2. Slot(h + i - 1) \in 0 .. QueueSize - 1
      BY <1>1, <2>1, Wrap
    <2> QED
      BY <2>2
  <1>3. Slots(q, h, n) \in [1 .. n -> Kinds \cup {NoEvent}] /\ n \in Nat
    <2>1. n \in Nat
      BY <1>1
    <2>2. Slots(q, h, n) \in [1 .. n -> Kinds \cup {NoEvent}]
      BY <1>2 DEF Slots
    <2> QED
      BY <2>1, <2>2
  <1>4. Slots(q, h, n) \in Seq(Kinds \cup {NoEvent}) /\ Len(Slots(q, h, n)) = n
    BY <1>3
  <1> QED
    BY <1>4 DEF Slots

\* A ring with n events from slot h on, and the next one to go to slot t.
Shape(q, h, t, n) ==
    /\ q \in [0 .. QueueSize - 1 -> Kinds \cup {NoEvent}]
    /\ h \in 0 .. QueueSize - 1 /\ t \in 0 .. QueueSize - 1 /\ n \in 0 .. QueueSize
    /\ t = Slot(h + n)

\* Where the next slot is, without the %.
LEMMA ShapeTail ==
    ASSUME NEW q, NEW h, NEW t, NEW n, Shape(q, h, t, n)
    PROVE  /\ QueueSize \in Nat /\ QueueSize > 0
           /\ h \in Nat /\ h < QueueSize /\ t \in Nat /\ t < QueueSize
           /\ n \in Nat /\ n <= QueueSize
           /\ h + n < QueueSize => t = h + n
           /\ h + n >= QueueSize => t = h + n - QueueSize
  <1>1. /\ QueueSize \in Nat /\ QueueSize > 0
        /\ h \in Nat /\ h < QueueSize /\ t \in Nat /\ t < QueueSize
        /\ n \in Nat /\ n <= QueueSize
    BY EvDemoAssumption DEF Shape
  <1>2. h + n \in Nat /\ h + n < 2 * QueueSize
    BY <1>1
  <1>3. t = Slot(h + n)
    BY DEF Shape
  <1> QED
    BY <1>1, <1>2, <1>3, Wrap

\* The successor of a slot, without the %.
LEMMA NextSlot ==
    ASSUME NEW h \in 0 .. QueueSize - 1
    PROVE  /\ Slot(h + 1) \in 0 .. QueueSize - 1
           /\ h + 1 < QueueSize => Slot(h + 1) = h + 1
           /\ h + 1 >= QueueSize => Slot(h + 1) = 0
  <1>1. QueueSize \in Nat /\ QueueSize > 0
    BY EvDemoAssumption
  <1>2. h + 1 \in Nat /\ h + 1 < 2 * QueueSize
    BY <1>1
  <1> QED
    BY <1>1, <1>2, Wrap

\* The ring with an event in slot t.
Stored(q, t, e) == [q EXCEPT ![t] = e]

\* An event stored in a ring with room is appended.
LEMMA StoreWithRoom ==
    ASSUME NEW q, NEW h, NEW t, NEW n \in Nat, Shape(q, h, t, n), n # QueueSize,
           NEW e \in Kinds
    PROVE  /\ Shape(Stored(q, t, e), h, Slot(t + 1), n + 1)
           /\ Slots(Stored(q, t, e), h, n + 1) = Append(Slots(q, h, n), e)
  <1> DEFINE q2 == Stored(q, t, e)
             t2 == Slot(t + 1)
  <1>1. /\ QueueSize \in Nat /\ QueueSize > 0
        /\ h \in Nat /\ h < QueueSize /\ t \in Nat /\ t < QueueSize
        /\ n \in Nat /\ n < QueueSize
        /\ h + n < QueueSize => t = h + n
        /\ h + n >= QueueSize => t = h + n - QueueSize
    <2>1. n \in Nat /\ n <= QueueSize /\ QueueSize \in Nat
      BY ShapeTail
    <2>2. n < QueueSize
      BY <2>1
    <2> QED
      BY <2>2, ShapeTail
  <1>2. /\ q \in [0 .. QueueSize - 1 -> Kinds \cup {NoEvent}]
        /\ h \in 0 .. QueueSize - 1 /\ t \in 0 .. QueueSize - 1 /\ n \in 0 .. QueueSize
        /\ n + 1 \in 0 .. QueueSize
    BY <1>1 DEF Shape
  <1>3. /\ q2 \in [0 .. QueueSize - 1 -> Kinds \cup {NoEvent}]
        /\ \A j \in 0 .. QueueSize - 1 : q2[j] = IF j = t THEN e ELSE q[j]
    BY <1>2 DEF Stored
  <1>4. /\ t2 \in 0 .. QueueSize - 1
        /\ t + 1 < QueueSize => t2 = t + 1
        /\ t + 1 >= QueueSize => t2 = 0
    BY <1>2, NextSlot
  <1> HIDE DEF q2, t2
  <1>5. Shape(q2, h, t2, n + 1)
    <2>1. h + (n + 1) \in Nat /\ h + (n + 1) < 2 * QueueSize
      BY <1>1
    <2>2. /\ h + (n + 1) < QueueSize => Slot(h + (n + 1)) = h + (n + 1)
          /\ h + (n + 1) >= QueueSize => Slot(h + (n + 1)) = h + (n + 1) - QueueSize
      BY <1>1, <2>1, Wrap
    <2>3. t2 = Slot(h + (n + 1))
      BY <1>1, <1>4, <2>2
    <2> QED
      BY <1>2, <1>3, <1>4, <2>3 DEF Shape
  <1>6. /\ Slots(q, h, n) \in Seq(Kinds \cup {NoEvent}) /\ Len(Slots(q, h, n)) = n
        /\ \A i \in 1 .. n : Slots(q, h, n)[i] = q[Slot(h + i - 1)]
    BY <1>2, SlotsSeq
  <1>7. /\ Slots(q2, h, n + 1) \in Seq(Kinds \cup {NoEvent})
        /\ Len(Slots(q2, h, n + 1)) = n + 1
        /\ \A i \in 1 .. n + 1 : Slots(q2, h, n + 1)[i] = q2[Slot(h + i - 1)]
    BY <1>2, <1>3, SlotsSeq
  <1>8. /\ Append(Slots(q, h, n), e) \in Seq(Kinds \cup {NoEvent})
        /\ Len(Append(Slots(q, h, n), e)) = n + 1
        /\ \A i \in 1 .. n : Append(Slots(q, h, n), e)[i] = Slots(q, h, n)[i]
        /\ Append(Slots(q, h, n), e)[n + 1] = e
    BY <1>1, <1>6, AppendProperties
  <1>9. ASSUME NEW i \in 1 .. n + 1
        PROVE  Slots(q2, h, n + 1)[i] = Append(Slots(q, h, n), e)[i]
    <2> DEFINE j == Slot(h + i - 1)
    <2>1. /\ j \in 0 .. QueueSize - 1
          /\ h + i - 1 < QueueSize => j = h + i - 1
          /\ h + i - 1 >= QueueSize => j = h + i - 1 - QueueSize
      <3>1. h + i - 1 \in Nat /\ h + i - 1 < 2 * QueueSize
        BY <1>1
      <3> QED
        BY <1>1, <3>1, Wrap
    <2>2. Slots(q2, h, n + 1)[i] = IF j = t THEN e ELSE q[j]
      BY <1>3, <1>7, <2>1
    <2>3. i <= n => Slots(q, h, n)[i] = q[j]
      BY <1>1, <1>6
    <2> HIDE DEF j
    <2>4. j = t <=> i = n + 1
      BY <1>1, <2>1
    <2> QED
      BY <1>1, <1>8, <2>2, <2>3, <2>4
  <1>10. Slots(q2, h, n + 1) = Append(Slots(q, h, n), e)
    BY <1>7, <1>8, <1>9, SeqEqual
  <1> QED
    BY <1>5, <1>10 DEF q2, t2

\* Without the event at its head, a ring holds the tail.
LEMMA DropHead ==
    ASSUME NEW q, NEW h, NEW t, NEW n, Shape(q, h, t, n), n > 0
    PROVE  /\ Shape(q, Slot(h + 1), t, n - 1)
           /\ Slots(q, h, n) # <<>> /\ Head(Slots(q, h, n)) = q[h]
           /\ Slots(q, Slot(h + 1), n - 1) = Tail(Slots(q, h, n))
  <1> DEFINE h2 == Slot(h + 1)
  <1>1. /\ QueueSize \in Nat /\ QueueSize > 0
        /\ h \in Nat /\ h < QueueSize /\ t \in Nat /\ t < QueueSize
        /\ n \in Nat /\ n <= QueueSize /\ n > 0
        /\ h + n < QueueSize => t = h + n
        /\ h + n >= QueueSize => t = h + n - QueueSize
    BY ShapeTail
  <1>2. /\ q \in [0 .. QueueSize - 1 -> Kinds \cup {NoEvent}]
        /\ h \in 0 .. QueueSize - 1 /\ t \in 0 .. QueueSize - 1 /\ n \in 0 .. QueueSize
        /\ n - 1 \in 0 .. QueueSize
    BY <1>1 DEF Shape
  <1>3. /\ h2 \in 0 .. QueueSize - 1
        /\ h + 1 < QueueSize => h2 = h + 1
        /\ h + 1 >= QueueSize => h2 = 0
    BY <1>2, NextSlot
  <1> HIDE DEF h2
  <1>4. Shape(q, h2, t, n - 1)
    <2>1. h2 + (n - 1) \in Nat /\ h2 + (n - 1) < 2 * QueueSize
      BY <1>1, <1>3
    <2>2. /\ h2 + (n - 1) < QueueSize => Slot(h2 + (n - 1)) = h2 + (n - 1)
          /\ h2 + (n - 1) >= QueueSize => Slot(h2 + (n - 1)) = h2 + (n - 1) - QueueSize
      BY <1>1, <1>3, <2>1, Wrap
    <2>3. t = Slot(h2 + (n - 1))
      BY <1>1, <1>3, <2>2
    <2> QED
      BY <1>2, <1>3, <2>3 DEF Shape
  <1>5. /\ Slots(q, h, n) \in Seq(Kinds \cup {NoEvent}) /\ Len(Slots(q, h, n)) = n
        /\ \A i \in 1 .. n : Slots(q, h, n)[i] = q[Slot(h + i - 1)]
    BY <1>2, SlotsSeq
  <1>6. /\ Slots(q, h2, n - 1) \in Seq(Kinds \cup {NoEvent})
        /\ Len(Slots(q, h2, n - 1)) = n - 1
        /\ \A i \in 1 .. n - 1 : Slots(q, h2, n - 1)[i] = q[Slot(h2 + i - 1)]
    BY <1>2, <1>3, SlotsSeq
  <1>7. Slots(q, h, n) # <<>> /\ Head(Slots(q, h, n)) = q[h]
    <2>1. Slots(q, h, n) # <<>>
      BY <1>1, <1>5
    <2>2. Head(Slots(q, h, n)) = Slots(q, h, n)[1]
      BY <1>5, <2>1, HeadTailProperties
    <2>3. Slot(h + 1 - 1) = h
      <3>1. h + 1 - 1 = h /\ h < 2 * QueueSize
        BY <1>1
      <3>2. Slot(h) = h
        BY <1>1, <3>1, Wrap
      <3> QED
        BY <3>1, <3>2
    <2>4. Slots(q, h, n)[1] = q[Slot(h + 1 - 1)]
      BY <1>1, <1>5
    <2> QED
      BY <2>1, <2>2, <2>3, <2>4
  <1>8. /\ Tail(Slots(q, h, n)) \in Seq(Kinds \cup {NoEvent})
        /\ Len(Tail(Slots(q, h, n))) = n - 1
        /\ \A i \in 1 .. n - 1 : Tail(Slots(q, h, n))[i] = Slots(q, h, n)[i + 1]
    BY <1>5, <1>7, HeadTailProperties
  <1>9. ASSUME NEW i \in 1 .. n - 1
        PROVE  Slots(q, h2, n - 1)[i] = Tail(Slots(q, h, n))[i]
    <2>1. /\ h2 + i - 1 \in Nat /\ h2 + i - 1 < 2 * QueueSize
          /\ h + (i + 1) - 1 \in Nat /\ h + (i + 1) - 1 < 2 * QueueSize
      BY <1>1, <1>3
    <2>2. /\ h2 + i - 1 < QueueSize => Slot(h2 + i - 1) = h2 + i - 1
          /\ h2 + i - 1 >= QueueSize => Slot(h2 + i - 1) = h2 + i - 1 - QueueSize
      BY <1>1, <1>3, <2>1, Wrap
    <2>3. /\ h + (i + 1) - 1 < QueueSize => Slot(h + (i + 1) - 1) = h + (i + 1) - 1
          /\ h + (i + 1) - 1 >= QueueSize =>
               Slot(h + (i + 1) - 1) = h + (i + 1) - 1 - QueueSize
      BY <1>1, <2>1, Wrap
    <2>4. Slot(h2 + i - 1) = Slot(h + (i + 1) - 1)
      BY <1>1, <1>3, <2>2, <2>3
    <2>5. i + 1 \in 1 .. n
      BY <1>1
    <2> QED
      BY <1>5, <1>6, <1>8, <2>4, <2>5
  <1>10. Slots(q, h2, n - 1) = Tail(Slots(q, h, n))
    BY <1>6, <1>8, <1>9, SeqEqual
  <1> QED
    BY <1>4, <1>7, <1>10 DEF h2

\* The ring of the driver has that shape, and its events are those slots.
LEMMA RingShape ==
    /\ Ring <=> Shape(queue, qhead, qtail, nevents)
    /\ Ring' <=> Shape(queue', qhead', qtail', nevents')
    /\ Queued = Slots(queue, qhead, nevents)
    /\ Queued' = Slots(queue', qhead', nevents')
  BY DEF Ring, Shape, Queued, Slots, Slot

\* enqueue() keeps the shape of the ring, and appends to what it keeps.
LEMMA Enqueued ==
    ASSUME Ring, NEW e \in Kinds, enqueue(e)
    PROVE  Ring' /\ Queued' = Append(Events!Kept, e)
  <1>1. Shape(queue, qhead, qtail, nevents)
    BY RingShape
  <1>2. /\ QueueSize \in Nat /\ QueueSize > 0 /\ nevents \in Nat
        /\ Queued \in Seq(Kinds \cup {NoEvent}) /\ Len(Queued) = nevents
    <2>1. QueueSize \in Nat /\ QueueSize > 0 /\ nevents \in Nat
      BY <1>1, ShapeTail
    <2>2. /\ queue \in [0 .. QueueSize - 1 -> Kinds \cup {NoEvent}]
          /\ qhead \in 0 .. QueueSize - 1 /\ nevents \in 0 .. QueueSize
      BY DEF Ring
    <2> QED
      BY <2>1, <2>2, RingShape, SlotsSeq
  <1>3. queue' = Stored(queue, qtail, e) /\ qtail' = Slot(qtail + 1)
    BY DEF enqueue, Slot, Stored
  <1>4. CASE nevents # QueueSize
    <2>1. nevents' = nevents + 1 /\ qhead' = qhead
      BY <1>4 DEF enqueue
    <2>2. /\ Shape(Stored(queue, qtail, e), qhead, Slot(qtail + 1), nevents + 1)
          /\ Slots(Stored(queue, qtail, e), qhead, nevents + 1) = Append(Slots(queue, qhead, nevents), e)
      BY <1>1, <1>2, <1>4, StoreWithRoom
    <2>3. Events!Kept = Queued
      BY <1>2, <1>4 DEF Events!Kept
    <2> QED
      BY <1>3, <2>1, <2>2, <2>3, RingShape
  <1>5. CASE nevents = QueueSize
    <2>1. nevents' = nevents /\ qhead' = Slot(qhead + 1)
      BY <1>5 DEF enqueue, Slot
    <2>2. nevents > 0 /\ nevents - 1 # QueueSize /\ (nevents - 1) + 1 = nevents
      BY <1>2, <1>5
    <2>3. /\ Shape(queue, Slot(qhead + 1), qtail, nevents - 1)
          /\ Slots(queue, Slot(qhead + 1), nevents - 1) = Tail(Slots(queue, qhead, nevents))
      BY <1>1, <2>2, DropHead
    <2>4. /\ Shape(Stored(queue, qtail, e), Slot(qhead + 1), Slot(qtail + 1), nevents)
          /\ Slots(Stored(queue, qtail, e), Slot(qhead + 1), nevents)
               = Append(Slots(queue, Slot(qhead + 1), nevents - 1), e)
      <3> DEFINE h == Slot(qhead + 1)
                 n == nevents - 1
      <3> HIDE DEF h, n
      <3>1. /\ Shape(Stored(queue, qtail, e), h, Slot(qtail + 1), n + 1)
            /\ Slots(Stored(queue, qtail, e), h, n + 1) = Append(Slots(queue, h, n), e)
        <4>1. Shape(queue, h, qtail, n) /\ n # QueueSize /\ n \in Nat
          BY <1>2, <2>2, <2>3 DEF h, n
        <4> QED
          BY <4>1, StoreWithRoom
      <3>2. n + 1 = nevents
        BY <2>2 DEF n
      <3> QED
        BY <3>1, <3>2 DEF h, n
    <2>5. Events!Kept = Tail(Queued)
      BY <1>2, <1>5 DEF Events!Kept
    <2> QED
      BY <1>3, <2>1, <2>3, <2>4, <2>5, RingShape
  <1> QED
    BY <1>4, <1>5

\* dequeue() takes the head of the queued events.
LEMMA Dequeued ==
    ASSUME Ring, ~Empty, NEW r, dequeue(r)
    PROVE  /\ Ring' /\ Queued # <<>> /\ Queued' = Tail(Queued)
           /\ ev' = [ev EXCEPT ![r] = Head(Queued)]
  <1>1. Shape(queue, qhead, qtail, nevents)
    BY RingShape
  <1>2. nevents > 0
    BY <1>1, ShapeTail DEF Empty
  <1>3. /\ queue' = queue /\ qtail' = qtail /\ nevents' = nevents - 1
        /\ qhead' = Slot(qhead + 1)
    BY DEF dequeue, Slot
  <1>4. /\ Shape(queue, Slot(qhead + 1), qtail, nevents - 1)
        /\ Slots(queue, qhead, nevents) # <<>>
        /\ Head(Slots(queue, qhead, nevents)) = queue[qhead]
        /\ Slots(queue, Slot(qhead + 1), nevents - 1) = Tail(Slots(queue, qhead, nevents))
    BY <1>1, <1>2, DropHead
  <1>5. Queued # <<>> /\ Head(Queued) = queue[qhead]
    BY <1>4, RingShape
  <1>6. Ring' /\ Queued' = Tail(Queued)
    BY <1>3, <1>4, RingShape
  <1> QED
    BY <1>5, <1>6 DEF dequeue

------------------------------------------------------------------------------
(* The steps.                                                               *)

\* A step that leaves the ring alone, posts an event or dequeues one: there is
\* no other.
RingAlone == UNCHANGED ringVars

LEMMA StepKinds ==
    ASSUME Next
    PROVE  \/ \E e \in Kinds : PostLocked(e)
           \/ \E r \in Readers : ~Empty /\ dequeue(r)
           \/ \E r \in Readers : read_copy(r)
           \/ RingAlone /\ UNCHANGED ev
  <1>1. ASSUME NEW p \in Posters, sysctl_enter(p) \/ selwakeup(p) \/ sigio(p)
        PROVE  RingAlone /\ UNCHANGED ev
    BY <1>1 DEF sysctl_enter, selwakeup, sigio, RingAlone, readVars
  <1>2. ASSUME NEW p \in Posters, post_event(p)
        PROVE  \E e \in Kinds : PostLocked(e)
    BY <1>2 DEF post_event
  <1>3. ASSUME evdemo_callout
        PROVE  \E e \in Kinds : PostLocked(e)
    BY <1>3 DEF evdemo_callout
  <1>4. ASSUME NEW r \in Readers, read_enter(r) \/ read_signal(r)
        PROVE  RingAlone /\ UNCHANGED ev
    BY <1>4 DEF read_enter, read_signal, RingAlone
  <1>5. ASSUME NEW r \in Readers, read_loop(r)
        PROVE  (~Empty /\ dequeue(r)) \/ (RingAlone /\ UNCHANGED ev)
    BY <1>5 DEF read_loop, RingAlone
  <1>6. ASSUME NEW t \in Pollers, poll_sleep(t) \/ poll_expires(t)
        PROVE  RingAlone /\ UNCHANGED ev
    BY <1>6 DEF poll_sleep, poll_expires, RingAlone, readVars
  <1>7. ASSUME NEW k \in Knotes, knote_attach(k) \/ knote_scan(k) \/ knote_detach(k)
        PROVE  RingAlone /\ UNCHANGED ev
    BY <1>7 DEF knote_attach, knote_scan, knote_detach, RingAlone, readVars
  <1>8. ASSUME unload_begin \/ unload
        PROVE  RingAlone /\ UNCHANGED ev
    BY <1>8 DEF unload_begin, unload, unload_selwakeup, unload_callout,
                unload_destroy_dev, unload_clear, unload_free, unload_end, RingAlone, readVars
  <1> QED
    BY <1>1, <1>2, <1>3, <1>4, <1>5, <1>6, <1>7, <1>8 DEF Next, Reader

\* The ring keeps its shape.
LEMMA RingStep ==
    ASSUME Ring, [Next]_vars
    PROVE  Ring'
  <1>1. ASSUME RingAlone PROVE Ring'
    BY <1>1 DEF RingAlone, ringVars, Ring
  <1>2. ASSUME NEW e \in Kinds, PostLocked(e) PROVE Ring'
    BY <1>2, Enqueued DEF PostLocked
  <1>3. ASSUME NEW r \in Readers, ~Empty, dequeue(r) PROVE Ring'
    BY <1>3, Dequeued
  <1>4. ASSUME NEW r \in Readers, read_copy(r) PROVE Ring'
    BY <1>1, <1>4 DEF read_copy, RingAlone
  <1>5. CASE UNCHANGED vars
    BY <1>1, <1>5 DEF vars, RingAlone
  <1> QED
    BY <1>1, <1>2, <1>3, <1>4, <1>5, StepKinds

\* The other types hold after a step.
LEMMA TypedStep ==
    ASSUME Ring, Typed, [Next]_vars
    PROVE  Typed'
  <1> USE DEF Typed, AtRead, AtPost, ActivateKnotes, Selwakeup
  <1>0. ASSUME WakeReaders PROVE rpc' \in [Readers -> {"user", "loop", "asleep", "copy"}]
    BY <1>0 DEF WakeReaders
  <1>1. ASSUME NEW p \in Posters, sysctl_enter(p) PROVE Typed'
    BY <1>1 DEF sysctl_enter, readVars, noteVars
  <1>2. ASSUME NEW p \in Posters, post_event(p) PROVE Typed'
    BY <1>0, <1>2 DEF post_event, PostLocked
  <1>3. ASSUME NEW p \in Posters, selwakeup(p) PROVE Typed'
    BY <1>3 DEF selwakeup, readVars, noteVars
  <1>4. ASSUME NEW p \in Posters, sigio(p) PROVE Typed'
    BY <1>4 DEF sigio, readVars, noteVars
  <1>5. ASSUME evdemo_callout PROVE Typed'
    BY <1>0, <1>5 DEF evdemo_callout, PostLocked
  <1>6. ASSUME NEW r \in Readers, read_enter(r) PROVE Typed'
    BY <1>6 DEF read_enter, noteVars
  <1>7. ASSUME NEW r \in Readers, read_signal(r) PROVE Typed'
    BY <1>7 DEF read_signal, noteVars
  <1>8. ASSUME NEW r \in Readers, read_loop(r) PROVE Typed'
    <2>1. queue[qhead] \in Kinds \cup {NoEvent}
      BY DEF Ring
    <2>2. ASSUME dequeue(r) PROVE ev' \in [Readers -> Kinds \cup {NoEvent}]
      BY <2>1, <2>2 DEF dequeue
    <2>3. ev' \in [Readers -> Kinds \cup {NoEvent}]
      BY <1>8, <2>2 DEF read_loop
    <2>4. rpc' \in [Readers -> {"user", "loop", "asleep", "copy"}]
      BY <1>8 DEF read_loop
    <2> QED
      BY <1>8, <2>3, <2>4 DEF read_loop, noteVars
  <1>9. ASSUME NEW r \in Readers, read_copy(r) PROVE Typed'
    BY <1>9 DEF read_copy, noteVars
  <1>10. ASSUME NEW t \in Pollers, poll_sleep(t) \/ poll_expires(t) PROVE Typed'
    BY <1>10 DEF poll_sleep, poll_expires, readVars, noteVars
  <1>11. ASSUME NEW k \in Knotes, knote_attach(k) PROVE Typed'
    BY <1>11 DEF knote_attach, readVars
  <1>12. ASSUME NEW k \in Knotes, knote_scan(k) \/ knote_detach(k) PROVE Typed'
    BY <1>12 DEF knote_scan, knote_detach, readVars
  <1>13. ASSUME unload_begin PROVE Typed'
    BY <1>0, <1>13 DEF unload_begin, WakeForDetach
  <1>14. ASSUME unload PROVE Typed'
    BY <1>14 DEF unload, unload_selwakeup, unload_callout, unload_destroy_dev,
                 unload_clear, unload_free, unload_end, readVars, noteVars
  <1>15. CASE UNCHANGED vars
    BY <1>15 DEF vars, readVars, noteVars
  <1> QED
    BY <1>1, <1>2, <1>3, <1>4, <1>5, <1>6, <1>7, <1>8, <1>9, <1>10, <1>11, <1>12,
       <1>13, <1>14, <1>15 DEF Next, Reader

\* After the broadcast and the KNOTE_LOCKED() of a critical section nobody
\* sleeps on the condition variable and every knote reports.
LEMMA AllTold ==
    ASSUME Typed, WakeReaders, ActivateKnotes
    PROVE  Asleep' = {} /\ knotes' = active'
  BY DEF Typed, WakeReaders, ActivateKnotes, Asleep

\* A wakeup that is due stays due until it is made.
LEMMA StillDue ==
    ASSUME Typed, phase' = phase, WakeupDue, NEW p \in Posters, ppc[p] # "selwakeup",
           NEW label, AtPost(p, label)
    PROVE  WakeupDue'
  BY DEF Typed, WakeupDue, AtPost

\* Nobody sleeps past an event or the unload.
LEMMA MissesStep ==
    ASSUME Typed, NobodyMissesAnEvent, [Next]_vars
    PROVE  NobodyMissesAnEvent'
  <1> USE DEF NobodyMissesAnEvent
  <1>1. ASSUME NEW p \in Posters, sysctl_enter(p) \/ sigio(p)
        PROVE  NobodyMissesAnEvent'
    <2>1. Asleep' = Asleep /\ UNCHANGED <<nevents, detaching, knotes, active, selecting>>
      BY <1>1 DEF sysctl_enter, sigio, ringVars, readVars, noteVars, Asleep
    <2>2. WakeupDue => WakeupDue'
      BY <1>1, StillDue DEF sysctl_enter, sigio
    <2> QED
      BY <2>1, <2>2 DEF Empty
  <1>2. ASSUME NEW p \in Posters, post_event(p) PROVE NobodyMissesAnEvent'
    <2>1. Asleep' = {} /\ knotes' = active'
      BY <1>2, AllTold DEF post_event, PostLocked
    <2>2. WakeupDue'
      BY <1>2 DEF post_event, WakeupDue, AtPost, Typed
    <2> QED
      BY <2>1, <2>2
  <1>3. ASSUME NEW p \in Posters, selwakeup(p) PROVE NobodyMissesAnEvent'
    <2>1. Asleep' = Asleep /\ UNCHANGED <<nevents, detaching, knotes, active>>
      BY <1>3 DEF selwakeup, ringVars, readVars, noteVars, Asleep
    <2>2. selecting' = {}
      BY <1>3 DEF selwakeup, Selwakeup
    <2> QED
      BY <2>1, <2>2 DEF Empty
  <1>4. ASSUME evdemo_callout PROVE NobodyMissesAnEvent'
    <2>1. Asleep' = {} /\ knotes' = active'
      BY <1>4, AllTold DEF evdemo_callout, PostLocked
    <2>2. selecting' = {}
      BY <1>4 DEF evdemo_callout, Selwakeup
    <2> QED
      BY <2>1, <2>2
  <1>5. ASSUME NEW r \in Readers, read_enter(r) \/ read_signal(r) \/ read_copy(r)
        PROVE  NobodyMissesAnEvent'
    <2>1. Asleep' \subseteq Asleep
      BY <1>5 DEF read_enter, read_signal, read_copy, AtRead, Asleep, Typed
    <2>2. UNCHANGED <<nevents, detaching, knotes, active, selecting, ppc, phase>>
      BY <1>5 DEF read_enter, read_signal, read_copy, ringVars, noteVars
    <2> QED
      BY <2>1, <2>2 DEF Empty, WakeupDue
  <1>6. ASSUME NEW r \in Readers, read_loop(r) PROVE NobodyMissesAnEvent'
    <2>1. UNCHANGED <<detaching, knotes, active, selecting, ppc, phase>>
      BY <1>6 DEF read_loop, noteVars
    <2>2. CASE detaching
      <3>1. Asleep' \subseteq Asleep /\ nevents' = nevents
        BY <1>6, <2>2 DEF read_loop, AtRead, Asleep, Typed, ringVars
      <3> QED
        BY <2>1, <3>1 DEF Empty, WakeupDue
    <2>3. CASE ~detaching /\ ~Empty
      <3>1. Asleep' \subseteq Asleep
        BY <1>6, <2>3 DEF read_loop, AtRead, Asleep, Typed
      <3> QED
        BY <2>1, <2>3, <3>1 DEF WakeupDue
    <2>4. CASE ~detaching /\ Empty
      <3>1. nevents' = nevents
        BY <1>6, <2>4 DEF read_loop, ringVars
      <3> QED
        BY <2>1, <2>4, <3>1 DEF Empty
    <2> QED
      BY <2>2, <2>3, <2>4
  <1>7. ASSUME NEW t \in Pollers, poll_sleep(t) \/ poll_expires(t)
        PROVE  NobodyMissesAnEvent'
    <2>1. Asleep' = Asleep /\ UNCHANGED <<nevents, detaching, knotes, active, ppc, phase>>
      BY <1>7 DEF poll_sleep, poll_expires, ringVars, readVars, noteVars, Asleep
    <2>2. selecting' \subseteq selecting \/ (Empty /\ ~detaching)
      BY <1>7 DEF poll_sleep, poll_expires
    <2> QED
      BY <2>1, <2>2 DEF Empty, WakeupDue
  <1>8. ASSUME NEW k \in Knotes, knote_attach(k) \/ knote_scan(k) \/ knote_detach(k)
        PROVE  NobodyMissesAnEvent'
    <2>1. Asleep' = Asleep
          /\ UNCHANGED <<nevents, detaching, selecting, ppc, phase>>
      BY <1>8 DEF knote_attach, knote_scan, knote_detach, ringVars, readVars, Asleep
    <2>2. knotes' # active' => knotes # active \/ (Empty /\ ~detaching)
      BY <1>8 DEF knote_attach, knote_scan, knote_detach
    <2> QED
      BY <2>1, <2>2 DEF Empty, WakeupDue
  <1>9. ASSUME unload_begin PROVE NobodyMissesAnEvent'
    <2>1. Asleep' = {} /\ knotes' = active'
      BY <1>9, AllTold DEF unload_begin, WakeForDetach
    <2>2. WakeupDue'
      BY <1>9 DEF unload_begin, WakeupDue
    <2> QED
      BY <2>1, <2>2
  <1>10. ASSUME unload_selwakeup \/ unload_clear PROVE NobodyMissesAnEvent'
    <2>1. Asleep' = Asleep /\ UNCHANGED <<nevents, detaching>> /\ selecting' = {}
      BY <1>10 DEF unload_selwakeup, unload_clear, Selwakeup, ringVars, readVars, Asleep
    <2>2. knotes' # active' => knotes # active
      BY <1>10 DEF unload_selwakeup, unload_clear, noteVars
    <2> QED
      BY <2>1, <2>2 DEF Empty
  <1>11. ASSUME unload_callout \/ unload_destroy_dev \/ unload_free \/ unload_end
         PROVE  NobodyMissesAnEvent'
    <2>1. Asleep' = Asleep
          /\ UNCHANGED <<nevents, detaching, selecting, knotes, active, ppc>>
      BY <1>11 DEF unload_callout, unload_destroy_dev, unload_free, unload_end, ringVars,
                   readVars, noteVars, Asleep
    <2>2. phase # "selwakeup"
      BY <1>11 DEF unload_callout, unload_destroy_dev, unload_free, unload_end
    <2> QED
      BY <2>1, <2>2 DEF Empty, WakeupDue
  <1>12. CASE UNCHANGED vars
    BY <1>12 DEF vars, ringVars, readVars, noteVars, Empty, WakeupDue, Asleep
  <1> QED
    BY <1>1, <1>2, <1>3, <1>4, <1>5, <1>6, <1>7, <1>8, <1>9, <1>10, <1>11, <1>12
       DEF Next, Reader, unload

\* What the unload has sent away does not come back.
LEMMA SentAwayStep ==
    ASSUME Typed, SentAway, [Next]_vars
    PROVE  SentAway'
  <1> USE DEF SentAway
  <1>1. ASSUME NEW p \in Posters,
               sysctl_enter(p) \/ post_event(p) \/ selwakeup(p) \/ sigio(p)
        PROVE  SentAway'
    <2>1. selecting' \in {selecting, {}} /\ UNCHANGED <<armed, phase>>
      BY <1>1 DEF sysctl_enter, post_event, selwakeup, sigio, Selwakeup
    <2> QED
      BY <2>1
  <1>2. ASSUME evdemo_callout PROVE SentAway'
    <2>1. selecting' = {} /\ UNCHANGED <<armed, phase>>
      BY <1>2 DEF evdemo_callout, Selwakeup
    <2> QED
      BY <2>1
  <1>3. ASSUME NEW r \in Readers,
               read_enter(r) \/ read_signal(r) \/ read_loop(r) \/ read_copy(r)
        PROVE  SentAway'
    <2>1. UNCHANGED <<phase, armed, selecting>>
      BY <1>3 DEF read_enter, read_signal, read_loop, read_copy
    <2> QED
      BY <2>1
  <1>4. ASSUME NEW t \in Pollers, poll_sleep(t) PROVE SentAway'
    <2>1. phase = "loaded" /\ UNCHANGED <<phase, armed>>
      BY <1>4 DEF poll_sleep, Typed
    <2> QED
      BY <2>1
  <1>5. ASSUME NEW t \in Pollers, poll_expires(t) PROVE SentAway'
    BY <1>5 DEF poll_expires
  <1>6. ASSUME NEW k \in Knotes, knote_attach(k) \/ knote_scan(k) \/ knote_detach(k)
        PROVE  SentAway'
    <2>1. UNCHANGED <<phase, armed, selecting>>
      BY <1>6 DEF knote_attach, knote_scan, knote_detach
    <2> QED
      BY <2>1
  <1>7. ASSUME unload_begin PROVE SentAway'
    BY <1>7 DEF unload_begin
  <1>8. ASSUME unload_selwakeup \/ unload_callout PROVE SentAway'
    BY <1>8 DEF unload_selwakeup, unload_callout, Selwakeup
  <1>9. ASSUME unload_destroy_dev \/ unload_clear \/ unload_free \/ unload_end
        PROVE  SentAway'
    <2>1. phase \in {"destroy_dev", "clear", "free", "cleared"}
      BY <1>9 DEF unload_destroy_dev, unload_clear, unload_free, unload_end
    <2>2. selecting' \in {selecting, {}} /\ armed' = armed
      BY <1>9 DEF unload_destroy_dev, unload_clear, unload_free, unload_end, Selwakeup
    <2> QED
      BY <2>1, <2>2
  <1>10. CASE UNCHANGED vars
    BY <1>10 DEF vars
  <1> QED
    BY <1>1, <1>2, <1>3, <1>4, <1>5, <1>6, <1>7, <1>8, <1>9, <1>10
       DEF Next, Reader, unload

------------------------------------------------------------------------------
(* The theorems.                                                            *)

LEMMA Initially ==
    ASSUME Init
    PROVE  Ring /\ Typed /\ NobodyMissesAnEvent /\ SentAway
  <1>1. QueueSize \in Nat /\ QueueSize > 0
    BY EvDemoAssumption
  <1>2. (0 + 0) % QueueSize = 0
    BY <1>1
  <1>3. Ring
    BY <1>1, <1>2 DEF Init, Ring
  <1>4. Typed
    BY DEF Init, Typed
  <1>5. Asleep = {}
    BY DEF Init, Asleep
  <1> QED
    BY <1>3, <1>4, <1>5 DEF Init, NobodyMissesAnEvent, SentAway

\* The inductive invariant: the shape of the ring, the types, and that nobody
\* has missed anything.
THEOREM Invariant == Spec => [](Ring /\ Typed /\ NobodyMissesAnEvent)
  <1>1. Init => Ring /\ Typed /\ NobodyMissesAnEvent
    BY Initially
  <1>2. Ring /\ Typed /\ NobodyMissesAnEvent /\ [Next]_vars
          => (Ring /\ Typed /\ NobodyMissesAnEvent)'
    BY RingStep, TypedStep, MissesStep
  <1> QED
    BY <1>1, <1>2, PTL DEF Spec

\* The ring's indices stay inside the array and the other variables keep their
\* types, whoever reads, waits, posts or unloads.
THEOREM TypeCorrect == Spec => []EvDemoTypeOK
  <1>1. Ring /\ Typed => EvDemoTypeOK
    BY DEF Ring, Typed, EvDemoTypeOK
  <1> QED
    BY <1>1, Invariant, PTL

\* evdemo_post_event() and MOD_UNLOAD wake every kind of waiter: whatever the
\* number of readers, pollers, knotes and posters, none of them waits beside an
\* event or through the unload.
THEOREM NobodyMisses == Spec => []NobodyMissesAnEvent
  BY Invariant, PTL

\* The order of MOD_UNLOAD is enough for the callout and the sleepers, with the
\* node still there and sysctls beside it: once the softc is freed the callout is
\* not scheduled and nobody sleeps on it.
THEOREM UnloadLeavesNoWaiters == Spec => []FreedSoftcHasNoWaiters
  <1>1. Init => SentAway
    BY Initially
  <1>2. Typed /\ SentAway /\ [Next]_vars => SentAway'
    BY SentAwayStep
  <1>3. Typed /\ NobodyMissesAnEvent /\ SentAway => FreedSoftcHasNoWaiters
    BY DEF Typed, NobodyMissesAnEvent, SentAway, FreedSoftcHasNoWaiters, Gone
  <1>4. Spec => []SentAway
    BY <1>1, <1>2, Invariant, PTL DEF Spec
  <1> QED
    BY <1>3, <1>4, Invariant, PTL

\* A step of the driver is a step of the bounded queue, or leaves it alone.
LEMMA QueueStep ==
    ASSUME Ring, [Next]_vars
    PROVE  [Events!QueueNext]_<<Queued, ev>>
  <1>1. ASSUME RingAlone /\ UNCHANGED ev PROVE UNCHANGED <<Queued, ev>>
    BY <1>1 DEF RingAlone, ringVars, Queued
  <1>2. ASSUME NEW e \in Kinds, PostLocked(e) PROVE Events!Post(e)
    BY <1>2, Enqueued DEF PostLocked, Events!Post
  <1>3. ASSUME NEW r \in Readers, ~Empty, dequeue(r) PROVE Events!Take(r)
    BY <1>3, Dequeued DEF Events!Take
  <1>4. ASSUME NEW r \in Readers, read_copy(r) PROVE Events!Forget(r)
    BY <1>4 DEF read_copy, ringVars, Queued, Events!Forget
  <1>5. CASE UNCHANGED vars
    BY <1>1, <1>5 DEF vars, readVars, RingAlone
  <1> QED
    BY <1>1, <1>2, <1>3, <1>4, <1>5, StepKinds DEF Events!QueueNext

\* The ring of any size implements the bounded queue that drops its oldest
\* event to make room and hands each event it keeps to one reader.
THEOREM RingImplementsQueue == Spec => ImplementsEventQueue
  <1>1. Init => Events!QueueInit
    <2>1. ASSUME Init PROVE Queued = <<>>
      <3>1. Ring
        BY <2>1, Initially
      <3>2. /\ queue \in [0 .. QueueSize - 1 -> Kinds \cup {NoEvent}]
            /\ qhead \in 0 .. QueueSize - 1 /\ nevents \in 0 .. QueueSize
        BY <3>1 DEF Ring
      <3>3. Queued \in Seq(Kinds \cup {NoEvent}) /\ Len(Queued) = 0
        <4>1. Len(Slots(queue, qhead, nevents)) = nevents
          BY <3>2, SlotsSeq
        <4> QED
          BY <2>1, <3>2, <4>1, RingShape, SlotsSeq DEF Init
      <3> QED
        BY <3>3, EmptySeq
    <2> QED
      BY <2>1 DEF Init, Events!QueueInit
  <1>2. Ring /\ [Next]_vars => [Events!QueueNext]_<<Queued, ev>>
    BY QueueStep
  <1> QED
    BY <1>1, <1>2, Invariant, PTL
       DEF Spec, ImplementsEventQueue, Events!QueueSpec, Events!queueVars
==============================================================================
