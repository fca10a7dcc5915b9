------------------------------- MODULE ByteFifo -------------------------------
(***************************************************************************)
(* The abstract specification of one circular buffer: a bounded first-in   *)
(* first-out queue of bytes with the life cycle of struct cbuf (created    *)
(* with a capacity, written, read, reset, destroyed).  reply is what the   *)
(* last call returned, so that an implementation must agree on every       *)
(* result and not only on the stored bytes.                                *)
(***************************************************************************)
EXTENDS ByteQueue

CONSTANTS Byte,     \* the values a byte can take
          Sizes,    \* the capacities a buffer is created with
          Requests  \* the byte counts a caller asks cbuf_read for

VARIABLES fifo,     \* the live bytes, oldest first
          cap,      \* the capacity, 0 when there is no storage
          reply     \* what the last call returned

fifoVars == <<fifo, cap, reply>>

\* The strings a caller hands to cbuf_write.
Strings == UNION {[1..n -> Byte] : n \in Requests}

FifoInit == fifo = <<>> /\ cap = 0 /\ reply = <<"none">>

Create(size) ==
    /\ cap = 0
    /\ IF size = 0
         THEN reply' = <<"EINVAL">> /\ UNCHANGED <<fifo, cap>>
         ELSE reply' = <<"ok">> /\ fifo' = <<>> /\ cap' = size

Destroy == fifo' = <<>> /\ cap' = 0 /\ reply' = <<"none">>

Clear == fifo' = <<>> /\ reply' = <<"none">> /\ UNCHANGED cap

Write(src) ==
    /\ fifo' = Put(fifo, cap, src)
    /\ reply' = <<"wrote", Len(Accepted(fifo, cap, src))>>
    /\ UNCHANGED cap

Read(n) ==
    /\ fifo' = Rest(fifo, n)
    /\ reply' = <<"read", Taken(fifo, n)>>
    /\ UNCHANGED cap

FifoNext ==
    \/ \E size \in Sizes : Create(size)
    \/ Destroy
    \/ Clear
    \/ \E src \in Strings : Write(src)
    \/ \E n \in Requests : Read(n)

FifoSpec == FifoInit /\ [][FifoNext]_fifoVars
==============================================================================
