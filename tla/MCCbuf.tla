------------------------------- MODULE MCCbuf --------------------------------
(* Two byte values, buffers of up to three bytes, requests of up to four:   *)
(* every head position, every wrap, and requests larger than the buffer.    *)
EXTENDS Cbuf

MCByte == {0, 1}
MCSizes == {0, 1, 3}
MCRequests == 0 .. 4
==============================================================================
