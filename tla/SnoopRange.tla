---------------------------- MODULE SnoopRange ----------------------------
(* Address ranges of refused snoop records: [lo, hi], both ends included.  *)
EXTENDS Integers

CONSTANT None       \* absence of a value

\* the smallest range that holds both r (None: nothing yet) and a
Widen(r, a) ==
    IF r = None THEN [lo |-> a, hi |-> a]
    ELSE [lo |-> IF a < r.lo THEN a ELSE r.lo, hi |-> IF a > r.hi THEN a ELSE r.hi]
=============================================================================
