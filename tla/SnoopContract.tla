--------------------------- MODULE SnoopContract ---------------------------
(***************************************************************************)
(* What the snoop stream promises the emulator: each DMA write is handed   *)
(* over once, in order and at its own address, or lies in a range that is  *)
(* handed over instead.  WriteBack.PopRecord relies on it.                 *)
(***************************************************************************)
EXTENDS SnoopRange, Sequences

CONSTANTS Addr, Data, Depth

VARIABLES
    queue,      \* writes the host has not been handed: [a, d]
    ranges,     \* ranges of refused writes, oldest first: [lo, hi]
    told        \* what the host has been handed and is applying

contractVars == <<queue, ranges, told>>

ContractInit == queue = <<>> /\ ranges = <<>> /\ told = None

Accept(w) ==
    /\ Len(queue) < Depth
    /\ queue' = Append(queue, w)
    /\ UNCHANGED <<ranges, told>>

\* the youngest range grows, or a new one starts
Refuse(w) ==
    /\ Len(queue) = Depth
    /\ \/ ranges' = Append(ranges, Widen(None, w.a))
       \/ /\ ranges # <<>>
          /\ ranges' = [ranges EXCEPT ![Len(ranges)] = Widen(@, w.a)]
    /\ UNCHANGED <<queue, told>>

Taken ==
    /\ told # None /\ told' = None
    /\ UNCHANGED <<queue, ranges>>

Deliver ==
    /\ queue # <<>> /\ told = None
    /\ told' = Head(queue) /\ queue' = Tail(queue)
    /\ UNCHANGED ranges

Report ==
    /\ ranges # <<>> /\ told = None
    /\ told' = Head(ranges) /\ ranges' = Tail(ranges)
    /\ UNCHANGED queue

ContractNext ==
    \/ \E w \in [a : Addr, d : Data] : Accept(w) \/ Refuse(w)
    \/ Deliver \/ Report \/ Taken

ContractSpec == ContractInit /\ [][ContractNext]_contractVars
=============================================================================
