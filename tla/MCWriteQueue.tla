---------------------------- MODULE MCWriteQueue ----------------------------
(* Small instances of WriteQueue. *)
EXTENDS WriteQueue
CONSTANTS w1, w2, c1
MCClassOf == [w \in Write |-> IF w = w1 THEN c1 ELSE None]
=============================================================================
