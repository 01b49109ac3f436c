------------------------------ MODULE Updates ------------------------------
(* Short forms of EXCEPT. *)
LOCAL INSTANCE Naturals

Put(f, x, v) == [f EXCEPT ![x] = v]

Incr(f, x) == [f EXCEPT ![x] = @ + 1]

Decr(f, x) == [f EXCEPT ![x] = @ - 1]
=============================================================================
