---------------------------- MODULE MCWriterSema ------------------------------
(* Instances of WriterSema: more writers than slots, and limits on both      *)
(* sides of the default.                                                    *)
EXTENDS WriterSema

MCLimits == 1 .. 4
MCLowLimits == {1, 2}
==============================================================================
