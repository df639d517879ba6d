---------------------------- MODULE MCWriteBack ----------------------------
(***************************************************************************)
(* The instances of WriteBack that TLC checks.                             *)
(***************************************************************************)
EXTENDS WriteBack, TLC

CONSTANTS v1, v2

\* Values are only copied and compared.
MCValues == Permutations(Val)

\* Word 0 is the console's ring, on one page with word 1, a source of
\* transfers; word 2 is on another page.
MCWord     == 0..2
MCPageOf   == [w \in 0..5 |-> w \div 2]
MCScattered  == 1..5
MCNoWord   == {}
MCOnePage  == [w \in 0..5 |-> 0]
MCCpuWord  == 0..2
MCRing     == {0}
MCMiddle   == {3}

FromRam   == [from |-> 1, to |-> Device, n |-> 1]       \* feeds a device
ToRam     == [from |-> Device, to |-> 1, n |-> 2]         \* a disk read longer than the FIFO
Copy      == [from |-> 1, to |-> 2, n |-> 1]            \* memory to memory

MCOneChannel == {FromRam, ToRam, Copy}
\* two buffers with a word of the CPU's between them: a lost range may span it
MCAround     == {[from |-> Device, to |-> 1, n |-> 2], [from |-> Device, to |-> 4, n |-> 2]}
=============================================================================
