---------------------------- MODULE OrderedBus ----------------------------
(***************************************************************************)
(* What the bus access layer promises core 1 about the order of its bus    *)
(* operations: a store buffer.  Writes go out in the order they were made; *)
(* a read passes only writes to devices of another class; a synchronous    *)
(* write passes none; an operation of the bypass list, and an interrupt    *)
(* acknowledge, passes them all.                                           *)
(***************************************************************************)
EXTENDS Sequences, Naturals

CONSTANTS Write, Class, ClassOf

VARIABLES
    q,      \* writes core 1 has made that are not on the bus yet
    bus     \* the last operation of the program on the bus

BusInit == q = <<>> /\ bus = <<"bypass">>

Make(w)   == q' = Append(q, w) /\ UNCHANGED bus
Send      == q # <<>> /\ bus' = <<"write", Head(q)>> /\ q' = Tail(q)
Direct(w) == q = <<>> /\ bus' = <<"write", w>> /\ UNCHANGED q

Read(c)   == /\ \A i \in 1..Len(q) : ClassOf[q[i]] # c
             /\ bus' = <<"read", c>> /\ UNCHANGED q

Sync      == q = <<>> /\ bus' = <<"sync">> /\ UNCHANGED q
Bypass    == bus' = <<"bypass">> /\ UNCHANGED q

BusNext == \/ \E w \in Write : Make(w) \/ Direct(w)
           \/ \E c \in Class : Read(c)
           \/ Send \/ Sync \/ Bypass

BusSpec == BusInit /\ [][BusNext]_<<q, bus>>
=============================================================================
