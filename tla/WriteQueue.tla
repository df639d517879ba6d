----------------------------- MODULE WriteQueue -----------------------------
(***************************************************************************)
(* The posted-write queue of the bus access layer: a ring between core 1,  *)
(* the emulator, which makes the writes, and core 2, which drives them to  *)
(* the FPGA, whose command FIFO holds them until the bus has taken them.   *)
(* Core 0 (console, web) reads and writes the bus at any time and switches *)
(* the queue on and off.                                                   *)
(*                                                                         *)
(* Indices count modulo IdxMod and are compared as signed distances, like  *)
(* the uint32_t of the code.  Each core keeps its own index and a copy of  *)
(* the other's, which it renews only when it runs out.  What an operation  *)
(* does under the port lock is one step, except for the worker's batch.    *)
(* Not modelled: a bus that is frozen (every wait then gives up in time)   *)
(* and a change of the limit while the queue runs.                         *)
(***************************************************************************)
EXTENDS Integers, Sequences

CONSTANTS
    Write,      \* writes of the program
    Class,      \* device classes
    ClassOf,    \* the class of a write, None for memory
    None,
    IdxMod,     \* indices count modulo this (2^32)
    RingSize,   \* WQ_N
    Limit,      \* wq_limit
    Batch,      \* writes the worker drives per hold of the lock
    PostedMax,  \* posted_max
    CmdDepth,   \* commands that the FPGA's FIFO holds
    Overtake,   \* bound: core 0 takes the lock so often while core 2 waits for it
    Slack,      \* bound: writes core 1 publishes during one call of core 0
    HalfRange   \* may a class be read half the index range after its last write?

Half == IdxMod \div 2

ASSUME ClassAssumption == ClassOf \in [Write -> Class \cup {None}] /\ None \notin Class
ASSUME IndexAssumption == /\ RingSize \in Nat \ {0} /\ Limit \in 1..RingSize
                          /\ IdxMod \in Nat /\ IdxMod % RingSize = 0
                          /\ IdxMod % 2 = 0 /\ 2 * RingSize < IdxMod
ASSUME FifoAssumption  == /\ Batch \in Nat \ {0} /\ PostedMax \in Nat \ {0}
                          /\ Overtake \in Nat /\ CmdDepth \in Nat
                          /\ PostedMax + Overtake <= CmdDepth
ASSUME SlackAssumption == Slack \in 1..(Half - 1) /\ HalfRange \in BOOLEAN

VARIABLES
    ring, on,
    wp, rpSeen,         \* core 1: its index, and the copy of the worker's
    wpPub, classWp,     \* published: wq_wp_pub, wq_dev_wp
    rp, wpSeen, count,  \* core 2: its index, its copy of the producer's, the batch
    rpPub,              \* published: wq_rp_pub
    pc1, op, target,    \* core 1: its step, the operation, and what that waits for
    pc2,                \* core 2
    pc0, op0, seen0, target0, overtaken,    \* core 0
    posted,             \* posted: commands since the FIFO was last seen empty
    out, cmdOvf,        \* the FPGA: commands in the FIFO, a command was refused
    bus                 \* the last operation of the program on the bus

core1Vars == <<wp, rpSeen, wpPub, classWp, pc1, op, target>>
core2Vars == <<rp, wpSeen, count, rpPub, pc2>>
core0Vars == <<pc0, op0, seen0, target0, overtaken>>
cmdVars   == <<posted, out, cmdOvf>>
vars == <<ring, on, core1Vars, core2Vars, core0Vars, cmdVars, bus>>

Idx   == 0..(IdxMod - 1)
Key   == Class \cup {None}
\* core 1's read of memory (ROM) waits like a synchronous write, and counts as one
Op    == {<<"read", c>> : c \in Class} \cup {<<"sync">>}

TypeOK ==
    /\ ring \in [0..(RingSize - 1) -> Write \cup {None}] /\ on \in BOOLEAN
    /\ {wp, rpSeen, wpPub, rp, wpSeen, rpPub, target, seen0, target0} \subseteq Idx
    /\ classWp \in [Class -> Idx] /\ count \in 0..Batch
    /\ pc1 \in {"run", "publish", "wait", "access"} /\ op \in Op
    /\ pc2 \in {"look", "post", "drain", "relock", "publish"}
    /\ pc0 \in {"run", "class", "wait", "access", "quiesce"} /\ op0 \in Key
    /\ overtaken \in 0..Overtake
    /\ posted \in 0..PostedMax /\ out \in 0..CmdDepth /\ cmdOvf \in BOOLEAN
    /\ bus \in {<<"write", w>> : w \in Write} \cup Op \cup {<<"bypass">>}

Init ==
    /\ ring = [i \in 0..(RingSize - 1) |-> None] /\ on = FALSE
    /\ wp = 0 /\ rpSeen = 0 /\ wpPub = 0 /\ classWp = [c \in Class |-> 0]
    /\ rp = 0 /\ wpSeen = 0 /\ count = 0 /\ rpPub = 0
    /\ pc1 = "run" /\ op = <<"sync">> /\ target = 0 /\ pc2 = "look"
    /\ pc0 = "run" /\ op0 = None /\ seen0 = 0 /\ target0 = 0 /\ overtaken = 0
    /\ posted = 0 /\ out = 0 /\ cmdOvf = FALSE /\ bus = <<"bypass">>

Distance(a, b) == (b - a) % IdxMod          \* uint32_t b - a

Plus1(i)       == (i + 1) % IdxMod
Slot(i)        == i % RingSize

Reached(i, t)  == Distance(t, i) < Half     \* (int32_t)(i - t) >= 0

LockFree == pc2 # "post"                    \* core 2 is the one that holds it over steps

\* the commands of the writes before are waited for, then the bus cycle runs
Cycle == LockFree /\ out = 0 /\ posted' = 0 /\ UNCHANGED <<out, cmdOvf>>

\* one command enters the FIFO, which refuses it when full
Push(n) == /\ posted' = n
           /\ out' = IF out < CmdDepth THEN out + 1 ELSE out
           /\ cmdOvf' = (cmdOvf \/ out = CmdDepth)

PostDirect == /\ LockFree                   \* hw_bus_write_u
              /\ \/ posted < PostedMax /\ Push(posted + 1)
                 \/ posted >= PostedMax /\ out = 0 /\ Push(1)   \* vmpu68_bus_drain

(***************************************************************************)
(* What a read waits for (wq_sync_reads).                                  *)
(***************************************************************************)
\* no clamp: a class not written for long seems to lie ahead (NoEmptyWait)
ReadTarget_MutantUnclamped(c, pub) == IF c = None THEN pub ELSE classWp[c]

ReadTarget(c, pub) ==
    IF c = None THEN pub
    ELSE LET t == classWp[c]
         IN  IF Distance(pub, t) \in 1..(Half - 1) THEN pub ELSE t

\* discipline: no read of a class half the index range after its last write
ReadAllowed(c) == ~HalfRange /\ c \in Class =>
                      Distance(classWp[c], wpPub) \notin (Half - Slack)..Half

(***************************************************************************)
(* Core 1.  It is stopped between two instructions while core 0 switches   *)
(* the queue (emu_quiesce).                                                *)
(***************************************************************************)
Running == pc1 = "run" /\ pc0 # "quiesce"

Prompt == pc0 # "run" => Distance(seen0, wp) < Slack

\* the copy of the worker's index, renewed when the ring looks full
RpNow == IF Distance(rpSeen, wp) >= Limit THEN rpPub ELSE rpSeen

\* one entry more than the ring holds (ImplementsOrderedBus)
Enqueue_MutantOffByOne(w) ==
    /\ Running /\ on /\ Prompt
    /\ Distance(RpNow, wp) <= Limit
    /\ rpSeen' = RpNow /\ ring' = [ring EXCEPT ![Slot(wp)] = w]
    /\ classWp' = [c \in Class |-> IF c = ClassOf[w] THEN Plus1(wp) ELSE classWp[c]]
    /\ wp' = Plus1(wp) /\ pc1' = "publish"
    /\ UNCHANGED <<on, wpPub, op, target, core2Vars, core0Vars, cmdVars, bus>>

Enqueue(w) ==
    /\ Running /\ on /\ Prompt
    /\ Distance(RpNow, wp) < Limit
    /\ rpSeen' = RpNow /\ ring' = [ring EXCEPT ![Slot(wp)] = w]
    /\ classWp' = [c \in Class |-> IF c = ClassOf[w] THEN Plus1(wp) ELSE classWp[c]]
    /\ wp' = Plus1(wp) /\ pc1' = "publish"
    /\ UNCHANGED <<on, wpPub, op, target, core2Vars, core0Vars, cmdVars, bus>>

\* the index goes out before the entry and its class (ForeignReadSees)
Publish_MutantClassLate ==
    /\ pc1 = "publish" /\ pc1' = "run" /\ wpPub' = wp
    /\ classWp' = [c \in Class |-> IF c = ClassOf[ring[Slot(wp - 1)]] THEN wpPub ELSE classWp[c]]
    /\ UNCHANGED <<ring, on, wp, rpSeen, op, target, core2Vars, core0Vars, cmdVars, bus>>

Publish ==
    /\ pc1 = "publish" /\ pc1' = "run" /\ wpPub' = wp
    /\ UNCHANGED <<ring, on, wp, rpSeen, classWp, op, target, core2Vars, core0Vars, cmdVars, bus>>

WriteDirect(w) ==                       \* the queue is off
    /\ Running /\ ~on /\ PostDirect /\ bus' = <<"write", w>>
    /\ UNCHANGED <<ring, on, core1Vars, core2Vars, core0Vars>>

Begin(o, t) ==
    /\ Running /\ op' = o
    /\ pc1' = IF on THEN "wait" ELSE "access"
    /\ target' = IF on THEN t ELSE target
    /\ UNCHANGED <<ring, on, wp, rpSeen, wpPub, classWp, core2Vars, core0Vars, cmdVars, bus>>

ReadBegin(c) == ReadAllowed(c) /\ Begin(<<"read", c>>, ReadTarget(c, wpPub))
SyncBegin    == Begin(<<"sync">>, wpPub)

Wait ==
    /\ pc1 = "wait" /\ Reached(rpPub, target) /\ pc1' = "access" /\ target' = 0
    /\ UNCHANGED <<ring, on, wp, rpSeen, wpPub, classWp, op, core2Vars, core0Vars,
                   cmdVars, bus>>

Access ==
    /\ pc1 = "access" /\ Cycle /\ bus' = op
    /\ pc1' = "run" /\ op' = <<"sync">>
    /\ UNCHANGED <<ring, on, wp, rpSeen, wpPub, classWp, target, core2Vars, core0Vars>>

Bypass ==                               \* wq_io_bypass; hw_iack
    /\ Running /\ Cycle /\ bus' = <<"bypass">>
    /\ UNCHANGED <<ring, on, core1Vars, core2Vars, core0Vars>>

(***************************************************************************)
(* Core 2: hw_wq_worker.                                                   *)
(***************************************************************************)
WpNow == IF rp = wpSeen THEN wpPub ELSE wpSeen

Look ==                                 \* and take the lock
    /\ pc2 = "look" /\ rp # WpNow
    /\ wpSeen' = WpNow /\ pc2' = "post"
    /\ UNCHANGED <<ring, on, core1Vars, rp, count, rpPub, core0Vars, cmdVars, bus>>

More == rp # wpSeen /\ count < Batch

Post ==
    /\ pc2 = "post" /\ More /\ posted < PostedMax
    /\ Push(posted + 1) /\ bus' = <<"write", ring[Slot(rp)]>>
    /\ rp' = Plus1(rp) /\ count' = count + 1
    /\ UNCHANGED <<ring, on, core1Vars, wpSeen, rpPub, pc2, core0Vars>>

GiveWay ==                              \* the lock is released for the drain
    /\ pc2 = "post" /\ More /\ posted >= PostedMax /\ pc2' = "drain"
    /\ UNCHANGED <<ring, on, core1Vars, rp, wpSeen, count, rpPub, core0Vars, cmdVars, bus>>

\* the FIFO is not waited for (NoWriteRefused)
Drained_MutantHasty ==
    /\ pc2 = "drain" /\ pc2' = "relock"
    /\ UNCHANGED <<ring, on, core1Vars, rp, wpSeen, count, rpPub, core0Vars, cmdVars, bus>>

Drained ==                              \* wq_drain_fpga saw the FIFO empty
    /\ pc2 = "drain" /\ out = 0 /\ pc2' = "relock"
    /\ UNCHANGED <<ring, on, core1Vars, rp, wpSeen, count, rpPub, core0Vars, cmdVars, bus>>

Relock ==
    /\ pc2 = "relock" /\ pc2' = "post" /\ posted' = 0 /\ overtaken' = 0
    /\ UNCHANGED <<ring, on, core1Vars, rp, wpSeen, count, rpPub, pc0, op0, seen0, target0,
                   out, cmdOvf, bus>>

Unlock ==
    /\ pc2 = "post" /\ ~More /\ pc2' = "publish"
    /\ UNCHANGED <<ring, on, core1Vars, rp, wpSeen, count, rpPub, core0Vars, cmdVars, bus>>

\* an unfinished batch is not published (WaitEnds)
PublishRp_MutantFull ==
    /\ pc2 = "publish" /\ pc2' = "look" /\ count' = 0
    /\ rpPub' = IF count = Batch THEN rp ELSE rpPub
    /\ UNCHANGED <<ring, on, core1Vars, rp, wpSeen, core0Vars, cmdVars, bus>>

PublishRp ==
    /\ pc2 = "publish" /\ pc2' = "look" /\ rpPub' = rp /\ count' = 0
    /\ UNCHANGED <<ring, on, core1Vars, rp, wpSeen, core0Vars, cmdVars, bus>>

(***************************************************************************)
(* Core 0.                                                                 *)
(***************************************************************************)
\* the lock goes to the core that asks first, or to the one that has just had it
Overtakes == IF pc2 = "relock" THEN overtaken < Overtake /\ overtaken' = overtaken + 1
             ELSE UNCHANGED overtaken

Return0 == pc0' = "run" /\ op0' = None /\ seen0' = 0 /\ target0' = 0    \* its locals are gone

Poke ==                                 \* hw_bus_write: fill, dmaw, a key typed in
    /\ pc0 = "run" /\ PostDirect /\ Overtakes
    /\ UNCHANGED <<ring, on, core1Vars, core2Vars, pc0, op0, seen0, target0, bus>>

ReadBegin0(c) ==                        \* the published index, then the class's
    /\ pc0 = "run" /\ ReadAllowed(c)
    /\ op0' = c /\ seen0' = wpPub
    /\ pc0' = IF on THEN "class" ELSE "access"
    /\ UNCHANGED <<ring, on, core1Vars, core2Vars, target0, overtaken, cmdVars, bus>>

ReadClass0 ==
    /\ pc0 = "class" /\ pc0' = "wait" /\ target0' = ReadTarget(op0, seen0)
    /\ UNCHANGED <<ring, on, core1Vars, core2Vars, op0, seen0, overtaken, cmdVars, bus>>

Wait0 ==
    /\ pc0 = "wait" /\ Reached(rpPub, target0) /\ pc0' = "access" /\ target0' = 0
    /\ UNCHANGED <<ring, on, core1Vars, core2Vars, op0, seen0, overtaken, cmdVars, bus>>

Access0 ==
    /\ pc0 = "access" /\ Cycle /\ Return0
    /\ UNCHANGED <<ring, on, core1Vars, core2Vars, overtaken, bus>>

Quiesce ==                              \* core 1 stops; its writes are waited for
    /\ pc0 = "run" /\ pc1 = "run" /\ pc0' = "quiesce"
    /\ target0' = wpPub
    /\ UNCHANGED <<ring, on, core1Vars, core2Vars, op0, seen0, overtaken, cmdVars, bus>>

Switch ==                               \* hw_wq_enable; core 1 goes on
    /\ pc0 = "quiesce" /\ (on => Reached(rpPub, target0))
    /\ on' \in BOOLEAN /\ Return0
    /\ UNCHANGED <<ring, core1Vars, core2Vars, overtaken, cmdVars, bus>>

Land ==                                 \* the FPGA has run one command
    /\ out > 0 /\ out' = out - 1
    /\ UNCHANGED <<ring, on, core1Vars, core2Vars, core0Vars, posted, cmdOvf, bus>>

Core1 == \/ \E w \in Write : Enqueue(w) \/ WriteDirect(w)
         \/ \E c \in Class : ReadBegin(c)
         \/ Publish \/ SyncBegin \/ Wait \/ Access \/ Bypass

Worker == Look \/ Post \/ GiveWay \/ Drained \/ Relock \/ Unlock \/ PublishRp

Core0 == \/ Poke \/ ReadClass0 \/ Wait0 \/ Access0 \/ Quiesce \/ Switch
         \/ \E c \in Key : ReadBegin0(c)

Next == Core1 \/ Worker \/ Core0 \/ Land

Spec == Init /\ [][Next]_vars

\* The worker's loop never stops, the X68000's bus moves, a core that waits
\* looks at the index again; nothing is assumed of what the program does.
FairSpec ==
    /\ Spec /\ SF_vars(Worker) /\ WF_vars(Land) /\ WF_vars(Wait) /\ WF_vars(Wait0)

-----------------------------------------------------------------------------
(***************************************************************************)
(* Properties.                                                             *)
(***************************************************************************)
\* the writes between two indices, oldest first
Between(a, b) == [i \in 1..Distance(a, b) |-> ring[Slot(a + i - 1)]]
Unsent(b)     == LET s == Between(rp, b) IN {s[i] : i \in DOMAIN s}

\* When core 0 reads a device, every write core 1 had published to that class
\* before the call has been sent: it sees the device as the program left it.
ForeignReadSees ==
    pc0 = "access" /\ on /\ Distance(rp, seen0) <= RingSize =>
        \A w \in Unsent(seen0) : op0 \notin {None, ClassOf[w]}

\* A wait never outlives the queue: a core that finds every published write
\* sent goes on, whatever the indices have wrapped to.  (Otherwise it sits
\* there until the two seconds of wq_sync_to are over.)
NoEmptyWait ==
    /\ pc1 = "wait" /\ rpPub = wpPub => Reached(rpPub, target)
    /\ pc0 = "wait" /\ rpPub = wpPub => Reached(rpPub, target0)

\* The FPGA never refuses a write: what is posted without looking fits the FIFO,
\* although the worker resets the count outside the lock it drained under.
NoWriteRefused == ~cmdOvf

Ordered == INSTANCE OrderedBus WITH q <- Between(rp, wp)

\* Ring, published indices, per-class waits and the worker are a store buffer.
ImplementsOrderedBus == Ordered!BusSpec

\* A core that waits for the queue goes on.
WaitEnds == pc1 = "wait" ~> pc1 # "wait"
=============================================================================
