---------------------------- MODULE MCXAllocator ----------------------------
(* A small instance of XAllocator: requests of 120, 388 and 500 bytes need   *)
(* blocks of 128, 396 and 512, two of them without a byte to spare, and the *)
(* table has two places.                                                    *)
EXTENDS XAllocator

MCSizes == {120, 388, 500}
MCPoolSizes == <<128, 396>>
=============================================================================
