------------------------------ MODULE ByteQueue ------------------------------
(***************************************************************************)
(* What cbuf.c promises its callers: a queue of bytes that never holds     *)
(* more than its capacity, to which a prefix of the offered bytes is       *)
(* appended and from which a prefix is taken.  Operators only: the state   *)
(* machine is ByteFifo, the circular buffer that implements it is Cbuf.    *)
(***************************************************************************)
EXTENDS Integers, Sequences

\* MIN() of <sys/param.h>, as cbuf.c and myfirst.c use it.
Least(a, b) == IF a <= b THEN a ELSE b

\* The free space cbuf_free() reports for a queue q of capacity cap.
Room(q, cap) == cap - Len(q)

\* The bytes of src that fit: cbuf_write() clamps its request to the room.
Accepted(q, cap, src) == SubSeq(src, 1, Least(Len(src), Room(q, cap)))

\* The queue after cbuf_write(src).
Put(q, cap, src) == q \o Accepted(q, cap, src)

\* The bytes cbuf_read(n) hands out, and the queue it leaves.
Taken(q, n) == SubSeq(q, 1, Least(n, Len(q)))
Rest(q, n)  == SubSeq(q, Least(n, Len(q)) + 1, Len(q))
==============================================================================
