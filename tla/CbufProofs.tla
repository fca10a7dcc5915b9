----------------------------- MODULE CbufProofs ------------------------------
(***************************************************************************)
(* For every size and every byte alphabet: the indices of the circular     *)
(* buffer stay inside its storage, and the buffer implements the bounded   *)
(* first-in first-out queue ByteFifo.                                      *)
(***************************************************************************)
EXTENDS Cbuf, SequenceTheorems, TLAPS

\* The wrap of an index that is less than two sizes away from the start: what
\* the % of cbuf.c amounts to.
LEMMA Wrap ==
    ASSUME NEW s \in Nat, s > 0, NEW x \in Nat, x < 2 * s
    PROVE  /\ x < s => x % s = x
           /\ x >= s => x % s = x - s
           /\ x % s \in 0 .. s - 1
  <1>1. x < s => x % s = x
    OBVIOUS
  <1>2. x >= s => x % s = x - s
    OBVIOUS
  <1> QED
    BY <1>1, <1>2

LEMMA StringLength ==
    ASSUME NEW src \in Strings
    PROVE  /\ src \in Seq(Byte) /\ Len(src) \in Nat
           /\ src \in [1 .. Len(src) -> Byte]
  <1>1. PICK n \in Requests : src \in [1..n -> Byte]
    BY DEF Strings
  <1>2. n \in Nat
    BY CbufAssumption
  <1> QED
    BY <1>1, <1>2

------------------------------------------------------------------------------
\* Every offset of the storage holds a byte after cbuf_write().
LEMMA StoredType ==
    ASSUME CbufTypeOK, NEW src \in Strings,
           NEW n \in 1 .. cbuf_free, n <= Len(src)
    PROVE  Stored(TailIndex, src, n) \in [Offsets -> Byte]
  <1>1. /\ cb_size \in Nat /\ cb_size > 0
        /\ cb_head \in 0 .. cb_size - 1 /\ cb_used \in 0 .. cb_size
        /\ cb_data \in [Offsets -> Byte] /\ n \in Nat /\ n > 0
    BY DEF CbufTypeOK, cbuf_free
  <1>2. TailIndex \in 0 .. cb_size - 1
    BY <1>1, Wrap DEF TailIndex
  <1> DEFINE first == Least(n, cb_size - TailIndex)
  <1>3. first \in Int /\ first >= 0 /\ first <= n /\ first <= cb_size - TailIndex
    BY <1>1, <1>2 DEF Least
  <1> HIDE DEF first
  <1>4. \A m \in 1 .. n : src[m] \in Byte
    BY StringLength
  <1>5. ASSUME NEW i \in Offsets
        PROVE  (IF i \in TailIndex .. TailIndex + first - 1
                  THEN src[i - TailIndex + 1]
                  ELSE IF i < n - first THEN src[first + i + 1] ELSE cb_data[i])
               \in Byte
    <2>1. i \in Int /\ i >= 0
      BY <1>1 DEF Offsets
    <2>2. i \in TailIndex .. TailIndex + first - 1
            => i - TailIndex + 1 \in 1 .. n
      BY <2>1, <1>1, <1>2, <1>3
    <2>3. i < n - first => first + i + 1 \in 1 .. n
      BY <2>1, <1>1, <1>2, <1>3
    <2> QED
      BY <2>2, <2>3, <1>4, <1>1
  <1> QED
    BY <1>5 DEF Stored, first

\* Where cbuf_write() puts each byte: the old live bytes keep their place and
\* the new ones follow them, through the wrap.
LEMMA StoredAt ==
    ASSUME CbufTypeOK, NEW src \in Strings,
           NEW n \in 1 .. cbuf_free, n <= Len(src),
           NEW k \in 1 .. cb_used + n
    PROVE  Stored(TailIndex, src, n)[(cb_head + k - 1) % cb_size] =
             IF k <= cb_used THEN cb_data[(cb_head + k - 1) % cb_size]
                             ELSE src[k - cb_used]
  <1>1. /\ cb_size \in Nat /\ cb_size > 0
        /\ cb_head \in 0 .. cb_size - 1 /\ cb_used \in 0 .. cb_size
        /\ n \in Nat /\ n > 0 /\ n <= cb_size - cb_used
        /\ k \in Nat /\ k > 0 /\ k <= cb_size
    BY DEF CbufTypeOK, cbuf_free
  <1> DEFINE at == (cb_head + k - 1) % cb_size
             t == TailIndex
             first == Least(n, cb_size - t)
  <1>2. /\ at \in 0 .. cb_size - 1
        /\ cb_head + k - 1 < cb_size => at = cb_head + k - 1
        /\ cb_head + k - 1 >= cb_size => at = cb_head + k - 1 - cb_size
    <2>1. cb_head + k - 1 \in Nat /\ cb_head + k - 1 < 2 * cb_size
      BY <1>1
    <2> QED
      BY <2>1, <1>1, Wrap
  <1>3. /\ t \in 0 .. cb_size - 1
        /\ cb_head + cb_used < cb_size => t = cb_head + cb_used
        /\ cb_head + cb_used >= cb_size => t = cb_head + cb_used - cb_size
    BY <1>1, Wrap DEF TailIndex
  <1>4. /\ first \in Int
        /\ n <= cb_size - t => first = n
        /\ n > cb_size - t => first = cb_size - t
    BY <1>1, <1>3 DEF Least
  <1>5. Stored(TailIndex, src, n)[at] =
          IF at \in t .. t + first - 1 THEN src[at - t + 1]
          ELSE IF at < n - first THEN src[first + at + 1] ELSE cb_data[at]
    BY <1>1, <1>2 DEF Stored, Offsets
  <1> HIDE DEF at, t, first
  <1>6. k <= cb_used => ~(at \in t .. t + first - 1) /\ ~(at < n - first)
    BY <1>1, <1>2, <1>3, <1>4
  <1>7. k > cb_used => \/ at \in t .. t + first - 1 /\ at - t + 1 = k - cb_used
                       \/ /\ ~(at \in t .. t + first - 1) /\ at < n - first
                          /\ first + at + 1 = k - cb_used
    BY <1>1, <1>2, <1>3, <1>4
  <1>8. CASE k <= cb_used
    BY <1>5, <1>6, <1>8 DEF at
  <1>9. CASE ~(k <= cb_used)
    BY <1>1, <1>5, <1>7, <1>9 DEF at
  <1> QED
    BY <1>8, <1>9

\* What cbuf_read() collects is the front of the live bytes, and what it
\* leaves is the rest of them.
LEMMA LoadedAt ==
    ASSUME CbufTypeOK, NEW n \in 1 .. cb_used
    PROVE  /\ \A k \in 1 .. n : Loaded(n)[k] = cb_data[(cb_head + k - 1) % cb_size]
           /\ (cb_head + n) % cb_size \in 0 .. cb_size - 1
           /\ \A k \in 1 .. cb_used - n :
                 ((((cb_head + n) % cb_size) + k) - 1) % cb_size
                   = (cb_head + n + k - 1) % cb_size
  <1>1. /\ cb_size \in Nat /\ cb_size > 0
        /\ cb_head \in 0 .. cb_size - 1 /\ cb_used \in 0 .. cb_size
        /\ n \in Nat /\ n > 0 /\ n <= cb_used
    BY DEF CbufTypeOK
  <1> DEFINE h == (cb_head + n) % cb_size
  <1>2. /\ h \in 0 .. cb_size - 1
        /\ cb_head + n < cb_size => h = cb_head + n
        /\ cb_head + n >= cb_size => h = cb_head + n - cb_size
    BY <1>1, Wrap
  <1> HIDE DEF h
  <1>3. ASSUME NEW k \in 1 .. n
        PROVE  Loaded(n)[k] = cb_data[(cb_head + k - 1) % cb_size]
    <2>1. /\ cb_head + k - 1 \in Nat /\ cb_head + k - 1 < 2 * cb_size
      BY <1>1
    <2>2. /\ cb_head + k - 1 < cb_size => (cb_head + k - 1) % cb_size = cb_head + k - 1
          /\ cb_head + k - 1 >= cb_size
               => (cb_head + k - 1) % cb_size = k - (cb_size - cb_head) - 1
      BY <1>1, <2>1, Wrap
    <2> DEFINE first == Least(n, cb_size - cb_head)
    <2>3. /\ n <= cb_size - cb_head => first = n
          /\ n > cb_size - cb_head => first = cb_size - cb_head
      BY <1>1 DEF Least
    <2>4. Loaded(n)[k] = IF k <= first THEN cb_data[cb_head + k - 1]
                                       ELSE cb_data[k - first - 1]
      BY DEF Loaded
    <2> HIDE DEF first
    <2>5. CASE k <= cb_size - cb_head
      BY <1>1, <2>2, <2>3, <2>4, <2>5
    <2>6. CASE k > cb_size - cb_head
      BY <1>1, <2>2, <2>3, <2>4, <2>6
    <2> QED
      BY <1>1, <2>5, <2>6
  <1>4. ASSUME NEW k \in 1 .. cb_used - n
        PROVE  (h + k - 1) % cb_size = (cb_head + n + k - 1) % cb_size
    <2>1. h + k - 1 \in Nat /\ h + k - 1 < 2 * cb_size
      BY <1>1, <1>2
    <2>2. cb_head + n + k - 1 \in Nat /\ cb_head + n + k - 1 < 2 * cb_size
      BY <1>1
    <2>3. CASE cb_head + n < cb_size
      BY <1>2, <2>3
    <2>4. CASE cb_head + n >= cb_size
      <3>1. (cb_head + n + k - 1) % cb_size = cb_head + n + k - 1 - cb_size
        BY <1>1, <2>2, <2>4, Wrap
      <3>2. (h + k - 1) % cb_size = h + k - 1
        BY <1>1, <1>2, <2>1, <2>4, Wrap
      <3> QED
        BY <1>1, <1>2, <2>4, <3>1, <3>2
    <2> QED
      BY <1>1, <2>3, <2>4
  <1> QED
    BY <1>2, <1>3, <1>4 DEF h

------------------------------------------------------------------------------
\* Whatever calls the driver makes in whatever order, head and count stay
\* inside the storage and the storage holds bytes.
THEOREM CbufTypeCorrect == CbufSpec => []CbufTypeOK
  <1>1. CbufInit => CbufTypeOK
    BY DEF CbufInit, CbufTypeOK, NULL, Storage, Offsets
  <1>2. CbufTypeOK /\ [CbufNext]_cbVars => CbufTypeOK'
    <2> SUFFICES ASSUME CbufTypeOK, [CbufNext]_cbVars PROVE CbufTypeOK'
      OBVIOUS
    <2>1. ASSUME NEW size \in Sizes, cbuf_init(size) PROVE CbufTypeOK'
      <3>1. size \in Nat
        BY CbufAssumption
      <3>2. CASE size = 0
        BY <2>1, <3>2 DEF cbuf_init, CbufTypeOK, Offsets
      <3>3. CASE size # 0
        BY <2>1, <3>1, <3>3, CbufAssumption
           DEF cbuf_init, CbufTypeOK, Offsets, Storage
      <3> QED
        BY <3>2, <3>3
    <2>2. ASSUME cbuf_destroy PROVE CbufTypeOK'
      BY <2>2 DEF cbuf_destroy, CbufTypeOK, NULL, Storage, Offsets
    <2>3. ASSUME cbuf_reset PROVE CbufTypeOK'
      BY <2>3 DEF cbuf_reset, CbufTypeOK, Offsets
    <2>4. ASSUME NEW src \in Strings, cbuf_write(src) PROVE CbufTypeOK'
      <3> DEFINE n == Least(Len(src), cbuf_free)
      <3>1. n \in Nat /\ n <= cbuf_free /\ n <= Len(src)
        BY StringLength DEF Least, cbuf_free, CbufTypeOK
      <3>2. CASE n = 0
        BY <2>4, <3>2 DEF cbuf_write, CbufTypeOK, Offsets
      <3>3. CASE n # 0
        <4> HIDE DEF n
        <4>1. n \in 1 .. cbuf_free
          BY <3>1, <3>3 DEF cbuf_free, CbufTypeOK
        <4>2. cb_data' = Stored(TailIndex, src, n) /\ cb_used' = cb_used + n
              /\ UNCHANGED <<cb_size, cb_head>>
          BY <2>4, <3>3 DEF cbuf_write, n
        <4>3. Stored(TailIndex, src, n) \in [Offsets -> Byte]
          BY <4>1, <3>1, StoredType
        <4> QED
          BY <4>1, <4>2, <4>3 DEF CbufTypeOK, Offsets, cbuf_free
      <3> QED
        BY <3>2, <3>3
    <2>5. ASSUME NEW req \in Requests, cbuf_read(req) PROVE CbufTypeOK'
      <3> DEFINE n == Least(req, cb_used)
      <3>1. n \in Nat /\ n <= cb_used
        BY CbufAssumption DEF Least, CbufTypeOK
      <3>2. CASE n = 0
        BY <2>5, <3>2 DEF cbuf_read, CbufTypeOK, Offsets
      <3>3. CASE n # 0
        <4> HIDE DEF n
        <4>1. n \in 1 .. cb_used /\ cb_size \in Nat /\ cb_size > 0
          BY <3>1, <3>3 DEF CbufTypeOK
        <4>2. cb_head' = (cb_head + n) % cb_size /\ cb_used' = cb_used - n
              /\ UNCHANGED <<cb_data, cb_size>>
          BY <2>5, <3>3 DEF cbuf_read, n
        <4>3. cb_head' \in 0 .. cb_size - 1
          BY <4>1, <4>2, LoadedAt
        <4> QED
          BY <4>1, <4>2, <4>3 DEF CbufTypeOK, Offsets
      <3> QED
        BY <3>2, <3>3
    <2>6. CASE UNCHANGED cbVars
      BY <2>6 DEF cbVars, CbufTypeOK, Offsets
    <2> QED
      BY <2>1, <2>2, <2>3, <2>4, <2>5, <2>6 DEF CbufNext
  <1> QED
    BY <1>1, <1>2, PTL DEF CbufSpec

------------------------------------------------------------------------------
\* The live bytes as a sequence.
LEMMA LiveSeq ==
    CbufTypeOK => /\ Live \in Seq(Byte) /\ Len(Live) = cb_used
                  /\ \A k \in 1 .. cb_used :
                        Live[k] = cb_data[(cb_head + k - 1) % cb_size]
  <1> SUFFICES ASSUME CbufTypeOK
               PROVE  /\ Live \in Seq(Byte) /\ Len(Live) = cb_used
                      /\ \A k \in 1 .. cb_used :
                            Live[k] = cb_data[(cb_head + k - 1) % cb_size]
    OBVIOUS
  <1>1. ASSUME NEW k \in 1 .. cb_used
        PROVE  cb_data[(cb_head + k - 1) % cb_size] \in Byte
    <2>1. /\ cb_size \in Nat /\ cb_size > 0 /\ cb_head + k - 1 \in Nat
          /\ cb_head + k - 1 < 2 * cb_size
      BY DEF CbufTypeOK
    <2>2. (cb_head + k - 1) % cb_size \in Offsets
      BY <2>1, Wrap DEF Offsets
    <2> QED
      BY <2>2 DEF CbufTypeOK
  <1>2. Live \in [1 .. cb_used -> Byte] /\ cb_used \in Nat
    BY <1>1 DEF Live, CbufTypeOK
  <1>3. Live \in Seq(Byte) /\ Len(Live) = cb_used
    BY <1>2
  <1> QED
    BY <1>3 DEF Live

\* The circular buffer implements the bounded first-in first-out queue: every
\* call returns what the queue would, and leaves the bytes it would leave.
THEOREM CbufImplementsFifo == CbufSpec => ImplementsFifo
  <1>1. CbufInit => Fifo!FifoInit
    BY DEF CbufInit, Fifo!FifoInit, Live
  <1>2. CbufTypeOK /\ CbufTypeOK' /\ [CbufNext]_cbVars => [Fifo!FifoNext]_Fifo!fifoVars
    <2> SUFFICES ASSUME CbufTypeOK, CbufTypeOK', [CbufNext]_cbVars
                 PROVE  Fifo!FifoNext \/ UNCHANGED Fifo!fifoVars
      OBVIOUS
    <2>0. /\ Live \in Seq(Byte) /\ Len(Live) = cb_used
          /\ \A k \in 1 .. cb_used : Live[k] = cb_data[(cb_head + k - 1) % cb_size]
      BY LiveSeq
    <2>1. ASSUME NEW size \in Sizes, cbuf_init(size) PROVE Fifo!Create(size)
      <3>1. cb_size = 0 /\ Live = <<>>
        BY <2>1 DEF cbuf_init, NULL, Storage, CbufTypeOK, Offsets, Live
      <3>2. size # 0 => Live' = <<>>
        BY <2>1 DEF cbuf_init, Live
      <3>3. size = 0 => Live' = Live
        BY <2>1 DEF cbuf_init, Live
      <3> QED
        BY <2>1, <3>1, <3>2, <3>3 DEF cbuf_init, Fifo!Create
    <2>2. ASSUME cbuf_destroy PROVE Fifo!Destroy
      <3>1. cb_data = NULL => cb_size = 0 /\ cb_used = 0
        BY DEF NULL, Storage, CbufTypeOK, Offsets
      <3> QED
        BY <2>2, <3>1 DEF cbuf_destroy, Fifo!Destroy, Live
    <2>3. ASSUME cbuf_reset PROVE Fifo!Clear
      BY <2>3 DEF cbuf_reset, Fifo!Clear, Live
    <2>4. ASSUME NEW src \in Strings, cbuf_write(src) PROVE Fifo!Write(src)
      <3> DEFINE n == Least(Len(src), cbuf_free)
                 new == SubSeq(src, 1, n)
      <3>1. n \in Nat /\ n <= cbuf_free /\ n <= Len(src)
        BY StringLength DEF Least, cbuf_free, CbufTypeOK
      <3>2. new = Fifo!Accepted(Live, cb_size, src)
        BY <2>0 DEF Fifo!Accepted, Fifo!Least, Fifo!Room, Least, cbuf_free
      <3> HIDE DEF n
      <3>3. /\ new \in Seq(Byte) /\ Len(new) = n
            /\ \A k \in 1 .. n : new[k] = src[k]
        BY <3>1, StringLength
      <3>4. cb_used' = cb_used + n /\ UNCHANGED <<cb_size, cb_head>>
            /\ reply' = <<"wrote", n>>
        BY <2>4, <3>1 DEF cbuf_write, n, CbufTypeOK
      <3> HIDE DEF new
      <3>5. ASSUME NEW k \in 1 .. cb_used + n
            PROVE  cb_data'[(cb_head + k - 1) % cb_size] = (Live \o new)[k]
        <4>1. (Live \o new)[k] = IF k <= cb_used THEN Live[k] ELSE new[k - cb_used]
          BY <2>0, <3>3, ConcatProperties
        <4>2. CASE n = 0
          BY <2>0, <2>4, <4>1, <4>2 DEF cbuf_write, n, CbufTypeOK
        <4>3. CASE n # 0
          <5>1. n \in 1 .. cbuf_free
            BY <3>1, <4>3 DEF cbuf_free, CbufTypeOK
          <5>2. cb_data' = Stored(TailIndex, src, n)
            BY <2>4, <4>3 DEF cbuf_write, n
          <5>3. cb_data'[(cb_head + k - 1) % cb_size] =
                  IF k <= cb_used THEN cb_data[(cb_head + k - 1) % cb_size]
                                  ELSE src[k - cb_used]
            BY <3>1, <5>1, <5>2, StoredAt
          <5>4. k > cb_used => k - cb_used \in 1 .. n
            BY <3>1 DEF CbufTypeOK
          <5> QED
            BY <2>0, <3>3, <4>1, <5>3, <5>4 DEF CbufTypeOK
        <4> QED
          BY <4>2, <4>3
      <3>6. Live' = Live \o new
        <4>1. Live' = [k \in 1 .. cb_used + n |-> cb_data'[(cb_head + k - 1) % cb_size]]
          BY <3>4 DEF Live
        <4>2. Live \o new \in Seq(Byte) /\ Len(Live \o new) = cb_used + n
          BY <2>0, <3>3, ConcatProperties
        <4>3. Live \o new \in [1 .. cb_used + n -> Byte]
          BY <4>2, LenProperties
        <4>4. Live \o new = [k \in 1 .. cb_used + n |-> (Live \o new)[k]]
          BY <4>3
        <4> QED
          BY <4>1, <4>4, <3>5
      <3> QED
        BY <3>2, <3>3, <3>4, <3>6 DEF Fifo!Write, Fifo!Put
    <2>5. ASSUME NEW req \in Requests, cbuf_read(req) PROVE Fifo!Read(req)
      <3> DEFINE n == Least(req, cb_used)
      <3>1. n \in Nat /\ n <= cb_used
        BY CbufAssumption DEF Least, CbufTypeOK
      <3>2. /\ Fifo!Taken(Live, req) = SubSeq(Live, 1, n)
            /\ Fifo!Rest(Live, req) = SubSeq(Live, n + 1, cb_used)
        BY <2>0 DEF Fifo!Taken, Fifo!Rest, Fifo!Least, Least
      <3> HIDE DEF n
      <3>3. reply' = <<"read", Loaded(n)>> /\ UNCHANGED <<cb_data, cb_size>>
            /\ cb_used' = cb_used - n
        BY <2>5 DEF cbuf_read, n, CbufTypeOK
      <3>4. Loaded(n) = SubSeq(Live, 1, n)
        <4>1. ASSUME NEW k \in 1 .. n PROVE Loaded(n)[k] = Live[k]
          <5>1. n \in 1 .. cb_used
            BY <3>1 DEF CbufTypeOK
          <5>2. Loaded(n)[k] = cb_data[(cb_head + k - 1) % cb_size]
            BY <5>1, LoadedAt
          <5>3. k \in 1 .. cb_used
            BY <3>1, <5>1 DEF CbufTypeOK
          <5> QED
            BY <2>0, <5>2, <5>3
        <4>2. Loaded(n) = [k \in 1 .. n |-> Loaded(n)[k]]
          BY DEF Loaded
        <4>3. SubSeq(Live, 1, n) = [k \in 1 .. n |-> Live[k]]
          BY <2>0, <3>1
        <4> QED
          BY <4>1, <4>2, <4>3
      <3>5. Live' = SubSeq(Live, n + 1, cb_used)
        <4>1. SubSeq(Live, n + 1, cb_used) = [k \in 1 .. cb_used - n |-> Live[n + k]]
          BY <2>0, <3>1 DEF CbufTypeOK
        <4>2. Live' = [k \in 1 .. cb_used - n |->
                          cb_data[(cb_head' + k - 1) % cb_size]]
          BY <3>3 DEF Live
        <4>3. ASSUME NEW k \in 1 .. cb_used - n
              PROVE  cb_data[(cb_head' + k - 1) % cb_size] = Live[n + k]
          <5>1. n + k \in 1 .. cb_used
            BY <3>1 DEF CbufTypeOK
          <5>2. Live[n + k] = cb_data[(cb_head + (n + k) - 1) % cb_size]
            BY <2>0, <5>1
          <5>3. CASE n = 0
            BY <2>5, <5>2, <5>3 DEF cbuf_read, n, CbufTypeOK
          <5>4. CASE n # 0
            <6>1. n \in 1 .. cb_used /\ cb_head' = (cb_head + n) % cb_size
              BY <2>5, <3>1, <5>4 DEF cbuf_read, n, CbufTypeOK
            <6>2. (cb_head' + k - 1) % cb_size = (cb_head + n + k - 1) % cb_size
              BY <6>1, LoadedAt
            <6> QED
              BY <5>2, <6>2, <3>1 DEF CbufTypeOK
          <5> QED
            BY <5>3, <5>4
        <4> QED
          BY <4>1, <4>2, <4>3
      <3> QED
        BY <3>2, <3>3, <3>4, <3>5 DEF Fifo!Read
    <2>6. CASE UNCHANGED cbVars
      BY <2>6 DEF cbVars, Fifo!fifoVars, Live
    <2> QED
      BY <2>1, <2>2, <2>3, <2>4, <2>5, <2>6
         DEF CbufNext, Fifo!FifoNext, Strings, Fifo!Strings
  <1> QED
    BY <1>1, <1>2, CbufTypeCorrect, PTL DEF CbufSpec, ImplementsFifo, Fifo!FifoSpec
==============================================================================
