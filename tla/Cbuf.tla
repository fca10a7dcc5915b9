-------------------------------- MODULE Cbuf ---------------------------------
(***************************************************************************)
(* The circular buffer of the myfirst driver (cbuf.c): backing storage, a  *)
(* head index and a live byte count, written and read with at most two     *)
(* memcpy() pieces around the physical end.  The driver calls it with      *)
(* sc->mtx held, so every call is one step.  cb_data is NULL exactly when  *)
(* it is the empty function.                                               *)
(***************************************************************************)
EXTENDS ByteQueue

CONSTANTS Byte,     \* the values a byte can take
          Zero,     \* the byte M_ZERO fills the storage with
          Sizes,    \* the sizes cbuf_init() is called with
          Requests  \* the byte counts of cbuf_read() and cbuf_write()

ASSUME CbufAssumption ==
    /\ Zero \in Byte
    /\ Sizes \subseteq Nat
    /\ Requests \subseteq Nat

VARIABLES cb_data, cb_size, cb_head, cb_used,
          reply     \* what the last call returned to its caller

cbVars == <<cb_data, cb_size, cb_head, cb_used, reply>>

Offsets == 0 .. cb_size - 1

Strings == UNION {[1..n -> Byte] : n \in Requests}

Storage(size) == [i \in 0 .. size - 1 |-> Zero]
NULL == Storage(0)

CbufInit ==
    /\ cb_data = NULL /\ cb_size = 0 /\ cb_head = 0 /\ cb_used = 0
    /\ reply = <<"none">>

\* cbuf_init(): myfirst_attach() calls it on a softc that has no storage yet.
cbuf_init(size) ==
    /\ cb_data = NULL
    /\ IF size = 0
         THEN /\ reply' = <<"EINVAL">>
              /\ UNCHANGED <<cb_data, cb_size, cb_head, cb_used>>
         ELSE /\ cb_data' = Storage(size) /\ cb_size' = size
              /\ cb_head' = 0 /\ cb_used' = 0
              /\ reply' = <<"ok">>

\* cbuf_destroy(): a second call finds cb_data NULL and returns at once.
cbuf_destroy ==
    /\ reply' = <<"none">>
    /\ IF cb_data = NULL
         THEN UNCHANGED <<cb_data, cb_size, cb_head, cb_used>>
         ELSE cb_data' = NULL /\ cb_size' = 0 /\ cb_head' = 0 /\ cb_used' = 0

\* cbuf_reset(): the storage and its old bytes stay.
cbuf_reset ==
    /\ cb_head' = 0 /\ cb_used' = 0
    /\ reply' = <<"none">>
    /\ UNCHANGED <<cb_data, cb_size>>

\* Slip: one byte more than there is room for.
cbuf_free_off_by_one == cb_size - cb_used + 1

cbuf_free == cb_size - cb_used

\* Slip: the free bytes begin at the count, as if the head never moved.
TailIgnoresHead == cb_used % cb_size

\* The first free offset.
TailIndex == (cb_head + cb_used) % cb_size

\* The storage after the two memcpy() calls that lay n bytes of src down at
\* tail, the second of them at offset 0.
Stored(tail, src, n) ==
    LET first  == Least(n, cb_size - tail)
        second == n - first
    IN  [i \in Offsets |->
           IF i \in tail .. tail + first - 1 THEN src[i - tail + 1]
           ELSE IF i < second THEN src[first + i + 1]
           ELSE cb_data[i]]

cbuf_write(src) ==
    LET n == Least(Len(src), cbuf_free)
    IN  /\ reply' = <<"wrote", n>>
        /\ IF n = 0
             THEN UNCHANGED <<cb_data, cb_used>>
             ELSE cb_data' = Stored(TailIndex, src, n) /\ cb_used' = cb_used + n
        /\ UNCHANGED <<cb_size, cb_head>>

\* The n bytes the two memcpy() calls collect, from the head to the physical
\* end and then from offset 0.
Loaded(n) ==
    LET first == Least(n, cb_size - cb_head)
    IN  [k \in 1..n |-> IF k <= first THEN cb_data[cb_head + k - 1]
                                      ELSE cb_data[k - first - 1]]

cbuf_read(req) ==
    LET n == Least(req, cb_used)
    IN  /\ reply' = <<"read", Loaded(n)>>
        /\ IF n = 0
             THEN UNCHANGED <<cb_head, cb_used>>
             ELSE /\ cb_head' = (cb_head + n) % cb_size
                  /\ cb_used' = cb_used - n
        /\ UNCHANGED <<cb_data, cb_size>>

CbufNext ==
    \/ \E size \in Sizes : cbuf_init(size)
    \/ cbuf_destroy
    \/ cbuf_reset
    \/ \E src \in Strings : cbuf_write(src)
    \/ \E req \in Requests : cbuf_read(req)

CbufSpec == CbufInit /\ [][CbufNext]_cbVars

------------------------------------------------------------------------------
\* The geometry every call relies on and must leave behind (chapter-11.md:746:
\* "cb_used <= cb_size, cb_head < cb_size"): an index outside the storage, or a
\* count above it, is what a memcpy() would turn into memory corruption.  A
\* buffer without storage has no head and no bytes, which is what keeps the
\* % cb_size of cbuf_read and cbuf_write from ever being evaluated on it.
CbufTypeOK ==
    /\ cb_size \in Nat
    /\ cb_data \in [Offsets -> Byte]
    /\ cb_used \in 0 .. cb_size
    /\ cb_head \in 0 .. (IF cb_size = 0 THEN 0 ELSE cb_size - 1)

\* The live bytes in the order a reader gets them.
Live == [k \in 1..cb_used |-> cb_data[(cb_head + k - 1) % cb_size]]

Fifo == INSTANCE ByteFifo WITH fifo <- Live, cap <- cb_size

\* The circular buffer is a bounded first-in first-out queue: whatever the
\* head, the wrap and the stale bytes behind it, each call returns and leaves
\* what the abstract queue does.
ImplementsFifo == Fifo!FifoSpec
==============================================================================
