----------------------------- MODULE SharedRam -----------------------------
(***************************************************************************)
(* What the write-back RAM promises: the CPU and the DMA controller share  *)
(* ONE memory.  The CPU reads what was last written, by whichever master.  *)
(* A transfer reads the CPU's last value of each source word, or - for a   *)
(* word the CPU rewrites while the transfer runs - one of the values it    *)
(* has had meanwhile (may).  There is no shadow, no flush and no snooping. *)
(***************************************************************************)
EXTENDS Integers

CONSTANTS Word, Val, Chan, Transfers, Device, None

VARIABLES
    mem,    \* the last value written to each word
    may,    \* what a transfer may read there now
    reg,    \* the transfer each channel is programmed with
    run,    \* "idle", "running" or "done"
    pos,    \* words moved
    dev     \* the last word handed to a device

sharedVars == <<mem, may, reg, run, pos, dev>>

From(t)    == IF t.from = Device THEN {} ELSE t.from .. (t.from + t.n - 1)
To(t)      == IF t.to   = Device THEN {} ELSE t.to   .. (t.to   + t.n - 1)
Lent(w)    == \E c \in Chan : run[c] # "idle" /\ w \in To(reg[c])
BeingRead(w) == \E c \in Chan : /\ run[c] = "running" /\ w \in From(reg[c])
                                /\ w >= reg[c].from + pos[c]

SharedInit ==
    /\ mem \in [Word -> Val] /\ may = [w \in Word |-> {mem[w]}]
    /\ reg = [c \in Chan |-> None] /\ run = [c \in Chan |-> "idle"]
    /\ pos = [c \in Chan |-> 0] /\ dev = None

Write(w, v) ==
    /\ ~Lent(w)
    /\ mem' = [mem EXCEPT ![w] = v]
    /\ may' = [may EXCEPT ![w] = IF BeingRead(w) THEN @ \cup {v} ELSE {v}]
    /\ UNCHANGED <<reg, run, pos, dev>>

\* an older value is no longer seen; the last one always stays possible
Settle(w) ==
    /\ \E S \in SUBSET may[w] : mem[w] \in S /\ may' = [may EXCEPT ![w] = S]
    /\ UNCHANGED <<mem, reg, run, pos, dev>>

ProgramChannel(c, t) ==
    /\ run[c] = "idle" /\ reg' = [reg EXCEPT ![c] = t]
    /\ UNCHANGED <<mem, may, run, pos, dev>>

StartChannel(c) ==
    /\ run[c] = "idle" /\ reg[c] # None
    /\ run' = [run EXCEPT ![c] = "running"] /\ pos' = [pos EXCEPT ![c] = 0]
    /\ UNCHANGED <<mem, may, reg, dev>>

Move(c, v) ==
    LET t == reg[c] IN
    /\ run[c] = "running"
    /\ t.from # Device => v \in may[t.from + pos[c]]
    /\ IF t.to = Device THEN dev' = v /\ UNCHANGED mem
       ELSE mem' = [mem EXCEPT ![t.to + pos[c]] = v] /\ UNCHANGED dev
    /\ may' = [w \in Word |-> IF \/ t.from # Device /\ w = t.from + pos[c]
                                 \/ t.to # Device /\ w = t.to + pos[c]
                              THEN {mem'[w]} ELSE may[w]]
    /\ pos' = [pos EXCEPT ![c] = @ + 1]
    /\ run' = IF pos[c] + 1 = t.n THEN [run EXCEPT ![c] = "done"] ELSE run
    /\ UNCHANGED reg

\* the driver has seen that the transfer is done; the memory stays as it is
Notice(c) ==
    /\ run[c] = "done"
    /\ run' = [run EXCEPT ![c] = "idle"] /\ reg' = [reg EXCEPT ![c] = None]
    /\ UNCHANGED <<mem, may, pos, dev>>

SharedNext ==
    \/ \E w \in Word : Settle(w) \/ \E v \in Val : Write(w, v)
    \/ \E c \in Chan : \/ StartChannel(c) \/ Notice(c)
                       \/ \E t \in Transfers : ProgramChannel(c, t)
                       \/ \E v \in Val : Move(c, v)

SharedSpec == SharedInit /\ [][SharedNext]_sharedVars
=============================================================================
