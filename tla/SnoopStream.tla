---------------------------- MODULE SnoopStream ----------------------------
(***************************************************************************)
(* The snoop stream between the FPGA and the host.                         *)
(*                                                                         *)
(* bus_engine.v captures each DMA write as a record and queues it in a     *)
(* FIFO.  A word write to the address after the previous record's is a     *)
(* CONTINUATION: the host adds 2 to the last address instead of reading    *)
(* it.  What the FIFO refuses is kept as a range, which is PRESENTED in    *)
(* two records (low, then high bound) once the FIFO has been emptied.      *)
(*                                                                         *)
(* The host reads a record one register read at a time: HI, LO (skipped    *)
(* for a continuation) and DATA.  pi_if.v counts the same reads in         *)
(* snoop_phase and pops the record after DATA; nothing but that agreement  *)
(* tells one word of the stream from another.                              *)
(***************************************************************************)
EXTENDS SnoopRange, Sequences

CONSTANTS
    Data,       \* what a write carries: its value and its strobes
    Depth,      \* records the FIFO holds
    AddrSpace,  \* number of word addresses: Addr is 0 .. AddrSpace - 1
    ByteData,   \* data of writes that are not a whole word
    DirtyReset  \* may the stream be reset while it holds something?

Addr == 0 .. (AddrSpace - 1)

ASSUME AddrAssumption == AddrSpace \in Nat \ {0}
ASSUME DataAssumption == ByteData \subseteq Data /\ DirtyReset \in BOOLEAN
ASSUME NoneAssumption == /\ None \notin Addr /\ None \notin [a : Addr, d : Data]
                         /\ None \notin [lo : Addr, hi : Addr]
ASSUME DepthAssumption == Depth \in Nat \ {0}

VARIABLES
    cap,        \* snoop_din: a captured write, not yet pushed (None: nothing)
    fifo,       \* the queued records
    rdy,        \* the FIFO's registered "not empty", up to one clock late
    last,       \* last_a while last_ok, else None
    rng,        \* rng_lo..rng_hi while rng_valid, else None
    pres,       \* the range being presented
    presPh,     \* 0: its low bound comes next, 1: its high bound
    snoopPhase, \* pi_if: 0 HI, 1 LO, 2 DATA is what a read returns
    v2,         \* stream v2: continuations, HI reads 0 when there is nothing
    hpc,        \* what the host reads next: "hi", "lo" or "data"
    hi,         \* the HI word the host has read
    lo,         \* the address it has read
    snoopLast,  \* snoop_last: address of the last real record
    rngLo,      \* low bound waiting for its high bound (rng_have_lo)
    out         \* what the last pop gave sn_apply: a write or a range

engineVars == <<cap, fifo, rdy, last, rng, pres, presPh>>
hostVars   == <<hpc, hi, lo, snoopLast, rngLo, out>>
streamVars == <<engineVars, snoopPhase, v2, hostVars>>

Write  == [a : Addr, d : Data]
Record == [cont : BOOLEAN, a : Addr, d : Data]
Bounds == [lo : Addr, hi : Addr]
HiWord == [cont : BOOLEAN, kind : {"write", "low", "high"}]

StreamTypeOK ==
    /\ cap \in Record \cup {None} /\ fifo \in Seq(Record) /\ Len(fifo) =< Depth
    /\ rdy \in BOOLEAN /\ v2 \in BOOLEAN
    /\ last \in Addr \cup {None} /\ lo \in Addr \cup {None} /\ rngLo \in Addr \cup {None}
    /\ rng \in Bounds \cup {None} /\ pres \in Bounds \cup {None} /\ presPh \in 0..1
    /\ snoopPhase \in 0..2 /\ hpc \in {"hi", "lo", "data"}
    /\ hi \in HiWord \cup {None} /\ snoopLast \in Addr
    /\ out \in Write \cup Bounds \cup {None}

StreamInit ==
    /\ cap = None /\ fifo = <<>> /\ rdy = FALSE /\ last = None
    /\ rng = None /\ pres = None /\ presPh = 0 /\ snoopPhase = 0
    /\ v2 \in BOOLEAN
    /\ hpc = "hi" /\ hi = None /\ lo = None /\ snoopLast = 0 /\ rngLo = None /\ out = None

After(a) == (a + 1) % AddrSpace            \* the next word's address

(***************************************************************************)
(* The bus engine.                                                         *)
(***************************************************************************)
Capture(a, d) ==                            \* cyc_end of an armed write cycle
    /\ cap = None
    /\ cap' = [cont |-> last # None /\ d \notin ByteData /\ a = After(last), a |-> a, d |-> d]
    /\ UNCHANGED <<fifo, rdy, last, rng, pres, presPh, snoopPhase, v2, hostVars>>

Push ==                                     \* snoop_push; snoop_drop when full
    /\ cap # None /\ cap' = None
    /\ \/ /\ Len(fifo) < Depth
          /\ fifo' = Append(fifo, cap) /\ last' = cap.a
          /\ UNCHANGED rng
       \/ /\ Len(fifo) = Depth
          /\ rng' = Widen(rng, cap.a) /\ last' = None
          /\ UNCHANGED fifo
    /\ UNCHANGED <<rdy, pres, presPh, snoopPhase, v2, hostVars>>

Clock ==                                    \* rdy <= (wp != rp_n)
    /\ rdy # (fifo # <<>>) /\ rdy' = (fifo # <<>>)
    /\ UNCHANGED <<cap, fifo, last, rng, pres, presPh, snoopPhase, v2, hostVars>>

Present ==                                  \* !pres_valid && rng_valid && !snq_rdy
    /\ pres = None /\ rng # None /\ ~rdy
    /\ pres' = rng /\ presPh' = 0 /\ rng' = None
    /\ UNCHANGED <<cap, fifo, rdy, last, snoopPhase, v2, hostVars>>

(***************************************************************************)
(* The host reads REG1 (vmpu68_snoop_pop, the lock is held); the FPGA      *)
(* returns the word snoop_phase names and advances at the end of the       *)
(* strobe.  A read that returns nothing (v2: HI = 0, v1: VST_SNOOP clear)  *)
(* changes nothing.                                                        *)
(***************************************************************************)
Avail == pres # None \/ rdy                 \* snoop_avail
\* the record at the head of the stream (snoop_rec)
Shown ==
    IF pres = None
    THEN [cont |-> Head(fifo).cont, kind |-> "write", a |-> Head(fifo).a]
    ELSE [cont |-> FALSE, kind |-> IF presPh = 0 THEN "low" ELSE "high",
          a |-> IF presPh = 0 THEN pres.lo ELSE pres.hi]

\* the FPGA serves LO after the HI of a continuation too (InPhase)
ReadHi_MutantPhase ==
    /\ hpc = "hi" /\ Avail
    /\ hi' = [cont |-> Shown.cont /\ v2, kind |-> Shown.kind]
    /\ snoopPhase' = 1
    /\ hpc' = IF Shown.cont /\ v2 THEN "data" ELSE "lo"
    /\ out' = None
    /\ UNCHANGED <<engineVars, v2, lo, snoopLast, rngLo>>

ReadHi ==
    /\ hpc = "hi" /\ Avail
    /\ hi' = [cont |-> Shown.cont /\ v2, kind |-> Shown.kind]
    /\ snoopPhase' = IF Shown.cont /\ v2 THEN 2 ELSE 1
    /\ hpc' = IF Shown.cont /\ v2 THEN "data" ELSE "lo"
    /\ out' = None
    /\ UNCHANGED <<engineVars, v2, lo, snoopLast, rngLo>>

ReadLo ==
    /\ hpc = "lo"
    /\ lo' = Shown.a
    /\ snoopPhase' = (snoopPhase + 1) % 3 /\ hpc' = "data"
    /\ UNCHANGED <<engineVars, v2, hi, snoopLast, rngLo, out>>

DecodedAddr == IF hi.cont THEN After(snoopLast) ELSE lo

\* snq_pop is not gated by pres_valid (KeepsContract)
Pop_MutantBoth ==
    /\ fifo' = (IF fifo = <<>> THEN fifo ELSE Tail(fifo)) /\ rdy' = (Len(fifo) > 1)
    /\ presPh' = IF pres = None THEN presPh ELSE 1
    /\ pres' = IF presPh = 1 THEN None ELSE pres

Pop ==                                      \* snoop_pop, of the FIFO or of the range
    \/ /\ pres # None
       /\ presPh' = 1
       /\ pres' = IF presPh = 1 THEN None ELSE pres
       /\ UNCHANGED <<fifo, rdy>>
    \/ /\ pres = None
       /\ fifo' = Tail(fifo) /\ rdy' = (Tail(fifo) # <<>>)
       /\ UNCHANGED <<pres, presPh>>

Decode ==                                   \* the end of vmpu68_snoop_pop, sn_apply
    \/ /\ hi.kind = "write"
       /\ snoopLast' = IF v2 THEN DecodedAddr ELSE snoopLast
       /\ out' = [a |-> DecodedAddr, d |-> Head(fifo).d]
       /\ UNCHANGED rngLo
    \/ /\ hi.kind = "low"
       /\ rngLo' = DecodedAddr
       /\ out' = None
       /\ UNCHANGED snoopLast
    \/ /\ hi.kind = "high"
       /\ out' = IF rngLo = None THEN None ELSE [lo |-> rngLo, hi |-> DecodedAddr]
       /\ rngLo' = None
       /\ UNCHANGED snoopLast

ReadData ==
    /\ hpc = "data"
    /\ Decode /\ Pop
    /\ snoopPhase' = 0 /\ hpc' = "hi" /\ hi' = None /\ lo' = None
    /\ UNCHANGED <<cap, last, rng, v2>>

(***************************************************************************)
(* hw_snoop_reset (emulator reset) and hw_set_snoop2 (mode switch): the    *)
(* pulse of VSTW_SNOOP_RST re-aligns the phase and forgets the ranges; it  *)
(* does not reach the FIFO's contents.                                     *)
(***************************************************************************)
Empty == fifo = <<>> /\ cap = None /\ rng = None /\ pres = None

Reset(mode) ==
    /\ hpc = "hi" /\ (DirtyReset \/ Empty)
    /\ v2' = mode
    /\ snoopPhase' = 0 /\ rng' = None /\ pres' = None /\ last' = None
    /\ snoopLast' = 0
    /\ UNCHANGED <<cap, fifo, rdy, presPh, hpc, hi, lo, rngLo, out>>

Engine == Push \/ Clock \/ Present \/ \E a \in Addr, d \in Data : Capture(a, d)
Host   == ReadHi \/ ReadLo \/ ReadData \/ \E mode \in BOOLEAN : Reset(mode)

StreamNext == Engine \/ Host

StreamSpec == StreamInit /\ [][StreamNext]_streamVars

-----------------------------------------------------------------------------
(***************************************************************************)
(* Properties.                                                             *)
(***************************************************************************)

\* The host and the FPGA agree on which word of the record comes next: the
\* count of register reads is the only thing that frames the stream.
InPhase == snoopPhase = (IF hpc = "hi" THEN 0 ELSE IF hpc = "lo" THEN 1 ELSE 2)

\* the address of the real record before the i-th of the FIFO
Before(i) == IF i = 1 THEN snoopLast ELSE fifo[i - 1].a

\* Every continuation in the FIFO continues the record that the host will have
\* read before it, whatever was refused, presented or reset in between.
AlignedStream ==
    v2 => \A i \in 1..Len(fifo) : fifo[i].cont => fifo[i].a = After(Before(i))

\* A range, once latched for its two reads, is not torn: the two bounds the
\* host is handed are the two of one range (pres_lo, pres_hi).
RangeNotTorn == rngLo # None => pres # None /\ presPh = 1 /\ rngLo = pres.lo

Bare(r)      == [a |-> r.a, d |-> r.d]      \* a record without its cont flag
BareSeq(s)   == [i \in 1..Len(s) |-> Bare(s[i])]
Queued       == BareSeq(fifo)
\* the refused ranges, oldest first
Owed == IF pres = None THEN (IF rng = None THEN <<>> ELSE <<rng>>)
        ELSE IF rng = None THEN <<pres>> ELSE <<pres, rng>>

Contract == INSTANCE SnoopContract WITH queue <- Queued, ranges <- Owed, told <- out

\* The stream hands over each DMA write once, in order and at its own address,
\* or a range that covers it (as long as it is not reset in mid-stream).
KeepsContract == Contract!ContractSpec
=============================================================================
