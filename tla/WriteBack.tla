----------------------------- MODULE WriteBack -----------------------------
(***************************************************************************)
(* The write-back main RAM of the accelerator (src/pi/core/emu68k.c).      *)
(*                                                                         *)
(* The emulated 68000 reads and writes a private copy of the X68000's main *)
(* RAM, the SHADOW.  The only other master that looks at the real RAM is   *)
(* the DMA controller.  Three mechanisms keep the two memories in step:    *)
(*                                                                         *)
(*  - a CPU write stays in the shadow and marks its word DIRTY; the CPU    *)
(*    command that starts a DMA channel first FLUSHES the dirty words the  *)
(*    transfer reads and puts their pages under a write-through HOLD;      *)
(*  - the FPGA SNOOPS every word the DMA controller writes and hands it to *)
(*    the host in a FIFO; when the FIFO is full it keeps the address range *)
(*    of what it LOST and hands that over when the FIFO has been emptied;  *)
(*  - the host DRAINS the FIFO around every access that could tell it a    *)
(*    transfer has finished, and REPAIRS a lost range by re-reading it.    *)
(*                                                                         *)
(* Core 1 of the host is one sequential program (pc); the posted writes,   *)
(* the DMA controller and the console on core 0 interleave with it.        *)
(***************************************************************************)
EXTENDS Integers, Sequences, FiniteSets

CONSTANTS
    Word,           \* word addresses of main RAM, an interval of integers
    PageOf,         \* PageOf[w]: the page of word w (write-through granularity)
    Val,            \* contents of a word
    Chan,           \* the DMA controller's channels
    Transfers,      \* transfers a driver may program: [from, to, n]
    Device,         \* the side of a transfer that is not RAM
    CpuWord,        \* the words the CPU's programs write
    Ring,           \* the words the console pokes from core 0
    None,           \* absence of a value
    PostMax,        \* bound on posted writes in flight
    FifoMax,        \* entries of the snoop FIFO
    GrantMax,       \* the bus is granted only below this many entries
    LongTransfers,  \* may a transfer outlast the write-through hold?
    OnDuringDma,    \* may write-back be switched on while a channel is programmed?
    TwoWriters,     \* may two channels write RAM at the same time?
    PokeRaces       \* may the CPU write a word in the middle of a poke of it, write-back off?

Src(t)   == IF t.from = Device THEN {} ELSE t.from .. (t.from + t.n - 1)
Dst(t)   == IF t.to   = Device THEN {} ELSE t.to   .. (t.to   + t.n - 1)
Words(t) == Src(t) \cup Dst(t)
Page     == {PageOf[w] : w \in Word}
Span     == [lo : Word, hi : Word]          \* an address range, both ends included
PostedWrite == [w : Word, v : Val]

ASSUME WordAssumption     == Word \subseteq Int /\ \A a, b \in Word : a..b \subseteq Word
ASSUME TransferAssumption ==
    /\ Transfers \subseteq [from : Word \cup {Device}, to : Word \cup {Device}, n : Nat \ {0}]
    /\ \A t \in Transfers : Words(t) \subseteq Word /\ Words(t) \cap Ring = {}
    /\ \A t \in Transfers : Src(t) \cap Dst(t) = {}
ASSUME RingAssumption     == Ring \subseteq Word /\ CpuWord \subseteq Word
ASSUME NoneAssumption     == /\ None \notin Val /\ None \notin Chan
                             /\ None \notin Transfers /\ None \notin Span
                             /\ None \notin PostedWrite
ASSUME DeviceAssumption   == Device \notin Word
ASSUME BoundAssumption    == /\ PostMax \in Nat \ {0} /\ FifoMax \in Nat \ {0}
                             /\ GrantMax \in 1..FifoMax
ASSUME FlagAssumption     == {LongTransfers, OnDuringDma, TwoWriters, PokeRaces} \subseteq BOOLEAN

VARIABLES
    shadow,     \* the host's copy of main RAM
    dirty,      \* words whose shadow is newer than the real RAM
    held,       \* pages that are write-through for a while
    wbOn,       \* write-back enabled
    img,        \* the host's image of the DMA channel registers
    pc,         \* what core 1 is doing
    chn,        \* the channel core 1 is starting or polling
    saw,        \* the poll in progress found that channel complete
    rep,        \* lost range the host has been told of and not yet re-read
    win,        \* the rest of the range being re-read
    got,        \* word read from the bus and not yet stored
    posted,     \* writes issued to the FPGA that have not reached the RAM
    ram,        \* the real main RAM
    fifo,       \* snoop records not yet read by the host
    lost,       \* address range of the records the FIFO refused
    reg,        \* the transfer each channel is really programmed with
    run,        \* "idle", "running" or "done" (finished, not yet noticed)
    pos,        \* words a channel has moved
    grant,      \* the channel that owns the bus
    dev,        \* the last word a transfer handed to a device
    poked       \* the word core 0 has stored and not yet marked or issued

coreVars  == <<pc, chn, saw, rep, win, got>>
cacheVars == <<shadow, dirty, held, wbOn, img>>
busVars   == <<posted, ram, fifo, lost>>
dmaVars   == <<reg, run, pos, grant, dev>>
vars      == <<coreVars, cacheVars, busVars, dmaVars, poked>>

TypeOK ==
    /\ shadow \in [Word -> Val]  /\ ram \in [Word -> Val]
    /\ dirty \subseteq Word      /\ held \subseteq Page
    /\ wbOn \in BOOLEAN          /\ saw \in BOOLEAN
    /\ img \in [Chan -> Transfers \cup {None}]
    /\ reg \in [Chan -> Transfers \cup {None}]
    /\ pc \in {"run", "flush", "flushall", "ccr", "poll", "drain", "repair", "read", "store"}
    /\ chn \in Chan \cup {None}  /\ grant \in Chan \cup {None}
    /\ rep \in Span \cup {None}  /\ win \in Span \cup {None} /\ lost \in Span \cup {None}
    /\ got \in Val \cup {None}   /\ dev \in Val \cup {None}
    /\ posted \in Seq(PostedWrite) /\ fifo \in Seq(PostedWrite)
    /\ run \in [Chan -> {"idle", "running", "done"}]
    /\ pos \in [Chan -> Nat]
    /\ poked \in PostedWrite \cup {None}

Init ==
    \E m \in [Word -> Val] :            \* the shadow has just been synchronised
        /\ shadow = m /\ ram = m
        /\ dirty = {} /\ held = {} /\ wbOn = TRUE
        /\ img = [c \in Chan |-> None] /\ reg = [c \in Chan |-> None]
        /\ pc = "run" /\ chn = None /\ saw = FALSE
        /\ rep = None /\ win = None /\ got = None
        /\ posted = <<>> /\ fifo = <<>> /\ lost = None
        /\ run = [c \in Chan |-> "idle"] /\ pos = [c \in Chan |-> 0]
        /\ grant = None /\ dev = None /\ poked = None

(***************************************************************************)
(* Helpers.  A definition whose name ends in _Mutant... is the mutated     *)
(* form of the definition after it: the slip in the code that the property *)
(* named in its comment is there to exclude.                               *)
(***************************************************************************)
Started(c)   == run[c] # "idle"
OwnedByDma   == UNION {Dst(reg[c]) : c \in {d \in Chan : Started(d)}}
ProgrammedBy(c) == IF reg[c] = None THEN {} ELSE Words(reg[c])
\* ... or leaves out a block the device writes (DestinationUntouched)
Flushed_MutantMarOnly(c) == IF img[c] = None THEN {} ELSE Src(img[c])
Flushed(c)   == IF img[c] = None THEN {} ELSE Words(img[c])
BeingPoked   == IF poked = None THEN {} ELSE {poked.w}
Avail        == fifo # <<>> \/ lost # None          \* VST_SNOOP
Room         == Len(posted) < PostMax
BusFree      == grant = None
\* a waited command does not wait for the posted ones (ImplementsSharedRam)
BusIdle_MutantOvertakes == BusFree
BusIdle      == BusFree /\ posted = <<>>            \* a waited command completes

\* the smallest range that holds both r (None: nothing yet) and lo..hi
Hull(r, lo, hi) ==
    IF r = None THEN [lo |-> lo, hi |-> hi]
    ELSE [lo |-> IF lo < r.lo THEN lo ELSE r.lo, hi |-> IF hi > r.hi THEN hi ELSE r.hi]

Post(w, v) == Room /\ posted' = Append(posted, [w |-> w, v |-> v])

(***************************************************************************)
(* The CPU, on core 1.  A driver does not touch the destination of a       *)
(* transfer before it has seen the transfer complete, and transfers that   *)
(* are programmed at the same time do not overlap: the discipline every    *)
(* driver of the machine keeps with the real memory.  It may rewrite the   *)
(* source of a running transfer (a driver that feeds a running chain).     *)
(***************************************************************************)
CpuWrite(w, v) ==                       \* m68k_write_memory_16, MAP_SHADOW
    /\ pc = "run" /\ w \notin OwnedByDma
    /\ PokeRaces \/ wbOn \/ w \notin BeingPoked
    /\ shadow' = [shadow EXCEPT ![w] = v]
    /\ \/ /\ wbOn /\ PageOf[w] \notin held
          /\ dirty' = dirty \cup {w}
          /\ UNCHANGED posted
       \/ /\ ~(wbOn /\ PageOf[w] \notin held)
          /\ Post(w, v)
          /\ UNCHANGED dirty
    /\ UNCHANGED <<coreVars, held, wbOn, img, ram, fifo, lost, dmaVars, poked>>

Poke(w, v) ==                           \* emu68k_poke16, from core 0: the store
    /\ w \in Ring /\ poked = None
    /\ pc # "flushall"                  \* wb_set runs on core 0 too
    /\ shadow' = [shadow EXCEPT ![w] = v]
    /\ poked' = [w |-> w, v |-> v]
    /\ UNCHANGED <<coreVars, dirty, held, wbOn, img, busVars, dmaVars>>

\* wb_on, and no dirty_set (HandedBackCoherent)
PokeEnd_MutantNoMark ==
    /\ poked # None /\ poked' = None
    /\ \/ wbOn /\ UNCHANGED posted
       \/ ~wbOn /\ Post(poked.w, poked.v)
    /\ UNCHANGED <<coreVars, cacheVars, ram, fifo, lost, dmaVars>>

PokeEnd ==                              \* ... then dirty_set, or the write itself
    /\ poked # None /\ poked' = None
    /\ \/ wbOn /\ dirty' = dirty \cup {poked.w} /\ UNCHANGED posted
       \/ ~wbOn /\ Post(poked.w, poked.v) /\ UNCHANGED dirty
    /\ UNCHANGED <<coreVars, shadow, held, wbOn, img, ram, fifo, lost, dmaVars>>

\* the driver writes a channel's address, count and mode registers; the image
\* is kept only while write-back is on (io_write)
Program(c, t) ==
    /\ pc = "run" /\ ~Started(c) /\ reg[c] = None
    /\ \A d \in Chan : Words(t) \cap ProgrammedBy(d) = {}
    /\ reg' = [reg EXCEPT ![c] = t]
    /\ img' = IF wbOn THEN [img EXCEPT ![c] = t] ELSE img
    /\ UNCHANGED <<coreVars, shadow, dirty, held, wbOn, busVars, run, pos, grant, dev, poked>>

\* the driver writes STR to the channel control register (io_write): with
\* write-back on wb_dma_start comes first, then the write itself
StartDma(c) ==
    /\ pc = "run" /\ ~Started(c) /\ reg[c] # None
    /\ TwoWriters \/ Dst(reg[c]) = {} \/ OwnedByDma = {}
    /\ pc' = IF wbOn THEN "flush" ELSE "ccr"
    /\ chn' = c
    /\ UNCHANGED <<saw, rep, win, got, cacheVars, busVars, dmaVars, poked>>

FlushSpan == IF pc = "flush" THEN Flushed(chn) ELSE Word

FlushWord ==                            \* wb_flush_range, a dirty word
    /\ pc \in {"flush", "flushall"}
    /\ \E w \in dirty \cap FlushSpan :
         /\ \A x \in dirty \cap FlushSpan : w =< x       \* in address order
         /\ dirty' = dirty \ {w} /\ Post(w, shadow[w])
    /\ UNCHANGED <<coreVars, shadow, held, wbOn, img, ram, fifo, lost, dmaVars, poked>>

\* wb_mark_wt is not called (SourceWrittenThrough)
FlushDone_MutantNoHold ==
    /\ pc \in {"flush", "flushall"} /\ dirty \cap FlushSpan = {}
    /\ pc' = IF pc = "flush" THEN "ccr" ELSE "run"
    /\ UNCHANGED <<chn, saw, rep, win, got, cacheVars, busVars, dmaVars, poked>>

FlushDone ==                            \* wb_mark_wt, or the end of wb_set(0)
    /\ pc \in {"flush", "flushall"} /\ dirty \cap FlushSpan = {}
    /\ \/ /\ pc = "flush" /\ pc' = "ccr"
          /\ held' = held \cup {PageOf[w] : w \in FlushSpan}
       \/ pc = "flushall" /\ pc' = "run" /\ UNCHANGED held
    /\ UNCHANGED <<chn, saw, rep, win, got, shadow, dirty, wbOn, img, busVars, dmaVars, poked>>

\* the synchronous write of the CCR follows every posted write on the bus
CcrWrite ==
    /\ pc = "ccr" /\ BusIdle
    /\ run' = [run EXCEPT ![chn] = "running"]
    /\ pos' = [pos EXCEPT ![chn] = 0]
    /\ pc' = "run" /\ chn' = None
    /\ UNCHANGED <<saw, rep, win, got, cacheVars, busVars, reg, grant, dev, poked>>

(***************************************************************************)
(* An I/O read or an interrupt acknowledge that could tell the CPU that a  *)
(* channel is done: the bus access first, then the snoop FIFO is drained   *)
(* and lost ranges are re-read before the CPU sees the answer.             *)
(***************************************************************************)
Poll(c) ==
    /\ pc = "run" /\ Started(c)
    /\ pc' = "poll" /\ chn' = c
    /\ UNCHANGED <<saw, rep, win, got, cacheVars, busVars, dmaVars, poked>>

PollRead ==
    /\ pc = "poll" /\ BusIdle
    /\ saw' = (run[chn] = "done")
    /\ pc' = "drain"
    /\ UNCHANGED <<chn, rep, win, got, cacheVars, busVars, dmaVars, poked>>

\* hook_periodic looks at rng_pending only (TransferFinishes)
Periodic_MutantRangeOnly ==
    /\ pc = "run" /\ rep # None /\ pc' = "drain"
    /\ UNCHANGED <<chn, saw, rep, win, got, cacheVars, busVars, dmaVars, poked>>
\* ... or at the line only (RangeRepaired)
Periodic_MutantLineOnly ==
    /\ pc = "run" /\ Avail /\ pc' = "drain"
    /\ UNCHANGED <<chn, saw, rep, win, got, cacheVars, busVars, dmaVars, poked>>

Periodic ==                             \* hook_periodic: the line reports records
    /\ pc = "run" /\ (Avail \/ rep # None)
    /\ pc' = "drain"
    /\ UNCHANGED <<chn, saw, rep, win, got, cacheVars, busVars, dmaVars, poked>>

\* one record read by the host (sn_apply); the FPGA hands the lost range over
\* once its FIFO is empty
PopRecord ==
    \/ /\ fifo # <<>>
       /\ shadow' = [shadow EXCEPT ![Head(fifo).w] = Head(fifo).v]
       /\ dirty' = dirty \ {Head(fifo).w}
       /\ fifo' = Tail(fifo)
       /\ UNCHANGED <<lost, rep>>
    \/ /\ fifo = <<>> /\ lost # None
       /\ rep' = Hull(rep, lost.lo, lost.hi)
       /\ lost' = None
       /\ UNCHANGED <<shadow, dirty, fifo>>

DrainPop ==                             \* emu68k_snoop_apply
    /\ pc = "drain" /\ PopRecord
    /\ UNCHANGED <<pc, chn, saw, win, got, held, wbOn, img, posted, ram, dmaVars, poked>>

\* sn_inwait_hook: records are also read while core 1 waits for the bus
InWaitHook ==
    /\ pc \in {"ccr", "poll", "read", "store"} /\ PopRecord
    /\ UNCHANGED <<pc, chn, saw, win, got, held, wbOn, img, posted, ram, dmaVars, poked>>

\* the CPU goes on; if the poll found the channel done, its driver now owns
\* the words of the transfer again
Resume ==
    /\ pc' = "run" /\ chn' = None /\ saw' = FALSE
    /\ run' = IF saw THEN [run EXCEPT ![chn] = "idle"] ELSE run
    /\ reg' = IF saw THEN [reg EXCEPT ![chn] = None] ELSE reg
    /\ UNCHANGED <<pos, grant, dev, poked>>

\* emu68k_snoop_apply returns without sn_repair (HandedBackCoherent)
DrainEnd_MutantNoRepair ==
    /\ pc = "drain" /\ ~Avail /\ Resume
    /\ UNCHANGED <<win, rep, got, cacheVars, busVars>>

DrainEnd ==
    /\ pc = "drain" /\ ~Avail
    /\ \/ /\ rep # None                 \* sn_repair
          /\ pc' = "repair" /\ win' = rep /\ rep' = None
          /\ UNCHANGED <<chn, saw, dmaVars, poked>>
       \/ rep = None /\ Resume /\ UNCHANGED <<win, rep>>
    /\ UNCHANGED <<got, cacheVars, busVars>>

Advance ==                              \* the loop of sn_repair
    IF win.lo = win.hi THEN Resume /\ win' = None
    ELSE pc' = "repair" /\ win' = [win EXCEPT !.lo = @ + 1] /\ UNCHANGED <<chn, saw, dmaVars, poked>>

RepairSkip ==                           \* the shadow is newer there
    /\ pc = "repair" /\ win.lo \in dirty
    /\ Advance
    /\ UNCHANGED <<rep, got, cacheVars, busVars>>

RepairIssue ==
    /\ pc = "repair" /\ win.lo \notin dirty
    /\ pc' = "read"
    /\ UNCHANGED <<chn, saw, rep, win, got, cacheVars, busVars, dmaVars, poked>>

RepairRead ==                           \* the bus cycle of hw_bus_read
    /\ pc = "read" /\ BusIdle
    /\ got' = ram[win.lo] /\ pc' = "store"
    /\ UNCHANGED <<chn, saw, rep, win, cacheVars, busVars, dmaVars, poked>>

RepairStore ==
    /\ pc = "store"
    /\ shadow' = [shadow EXCEPT ![win.lo] = got]
    /\ got' = None
    /\ Advance
    /\ UNCHANGED <<rep, dirty, held, wbOn, img, busVars>>

(***************************************************************************)
(* Write-back switched off and on (emu68k_wb_set, core 1 held between two  *)
(* instructions), and the end of a page's hold (page_wt).                  *)
(***************************************************************************)
WbOff ==
    /\ pc = "run" /\ wbOn /\ poked = None
    /\ wbOn' = FALSE /\ pc' = "flushall"
    /\ UNCHANGED <<chn, saw, rep, win, got, shadow, dirty, held, img, busVars, dmaVars, poked>>

WbOn ==
    /\ pc = "run" /\ ~wbOn /\ poked = None
    /\ OnDuringDma \/ \A c \in Chan : reg[c] = None
    /\ wbOn' = TRUE
    /\ UNCHANGED <<coreVars, shadow, dirty, held, img, busVars, dmaVars, poked>>

HoldExpires(p) ==
    /\ pc = "run" /\ p \in held
    /\ LongTransfers \/ \A c \in Chan : run[c] = "running" => p \notin {PageOf[w] : w \in Words(reg[c])}
    /\ held' = held \ {p}
    /\ UNCHANGED <<coreVars, shadow, dirty, wbOn, img, busVars, dmaVars, poked>>

(***************************************************************************)
(* The bus: posted writes land in order while the board owns it; the       *)
(* engine grants it when the snoop FIFO has room for a burst, and the DMA  *)
(* controller then moves as many words as it likes.                        *)
(***************************************************************************)
Land ==
    /\ posted # <<>> /\ BusFree
    /\ ram' = [ram EXCEPT ![Head(posted).w] = Head(posted).v]
    /\ posted' = Tail(posted)
    /\ UNCHANGED <<coreVars, cacheVars, fifo, lost, dmaVars, poked>>

Grant(c) ==
    /\ BusFree /\ run[c] = "running" /\ Len(fifo) < GrantMax
    /\ grant' = c
    /\ UNCHANGED <<coreVars, cacheVars, busVars, reg, run, pos, dev, poked>>

Release ==
    /\ grant # None /\ grant' = None
    /\ UNCHANGED <<coreVars, cacheVars, busVars, reg, run, pos, dev, poked>>

\* a refused record leaves no trace (NoWriteForgotten)
Snoop_MutantDrop(w, v) ==
    /\ fifo' = IF Len(fifo) < FifoMax THEN Append(fifo, [w |-> w, v |-> v]) ELSE fifo
    /\ UNCHANGED lost

Snoop(w, v) ==                          \* a record, or the range of what was lost
    \/ /\ Len(fifo) < FifoMax
       /\ fifo' = Append(fifo, [w |-> w, v |-> v])
       /\ UNCHANGED lost
    \/ /\ Len(fifo) = FifoMax
       /\ lost' = Hull(lost, w, w)
       /\ UNCHANGED fifo

\* one word of the transfer: v comes from RAM, or from the device
Beat(c, v) ==
    LET t == reg[c] IN
    /\ grant = c
    /\ t.from # Device => v = ram[t.from + pos[c]]
    /\ \/ t.to = Device /\ dev' = v /\ UNCHANGED <<ram, fifo, lost>>
       \/ /\ t.to # Device
          /\ ram' = [ram EXCEPT ![t.to + pos[c]] = v]
          /\ Snoop(t.to + pos[c], v)
          /\ UNCHANGED dev
    /\ pos' = [pos EXCEPT ![c] = @ + 1]
    /\ IF pos[c] + 1 = t.n
       THEN run' = [run EXCEPT ![c] = "done"] /\ grant' = None
       ELSE UNCHANGED <<run, grant>>
    /\ UNCHANGED <<coreVars, cacheVars, posted, reg, poked>>

Core1 ==
    \/ \E w \in CpuWord, v \in Val : CpuWrite(w, v)
    \/ \E c \in Chan, t \in Transfers : Program(c, t)
    \/ \E c \in Chan : StartDma(c) \/ Poll(c)
    \/ FlushWord \/ FlushDone \/ CcrWrite \/ PollRead \/ Periodic
    \/ DrainPop \/ InWaitHook \/ DrainEnd
    \/ RepairSkip \/ RepairIssue \/ RepairRead \/ RepairStore

Core0 ==
    \/ \E w \in Ring, v \in Val : Poke(w, v)
    \/ PokeEnd \/ WbOff \/ WbOn

Bus ==
    \/ Land \/ Release
    \/ \E c \in Chan : Grant(c) \/ \E v \in Val : Beat(c, v)

Next == Core1 \/ Core0 \/ Bus \/ \E p \in Page : HoldExpires(p)

Spec == Init /\ [][Next]_vars

\* Core 1 never stops executing, posted writes and granted beats are carried
\* out, and a channel that finds the bus grantable again and again gets it.
CoreWork ==
    \/ FlushWord \/ FlushDone \/ CcrWrite \/ PollRead \/ Periodic \/ DrainPop
    \/ DrainEnd \/ RepairSkip \/ RepairIssue \/ RepairRead \/ RepairStore

BeatOf(c) == \E v \in Val : Beat(c, v)

FairSpec ==
    /\ Spec
    /\ WF_vars(CoreWork) /\ WF_vars(Land)
    /\ \A c \in Chan : SF_vars(Grant(c)) /\ SF_vars(BeatOf(c))

-----------------------------------------------------------------------------
(***************************************************************************)
(* Properties.                                                             *)
(***************************************************************************)
Newer       == dirty \cup BeingPoked        \* the shadow alone has the last value
PostedTo(w) == \E i \in 1..Len(posted) : posted[i].w = w
In(r, w)    == r # None /\ r.lo =< w /\ w =< r.hi
\* the host will still hear of, or re-read, a DMA write of word w
Noted(w)    == \/ \E i \in 1..Len(fifo) : fifo[i].w = w
               \/ In(lost, w) \/ In(rep, w) \/ In(win, w)
Moved(c)    == IF reg[c].to = Device THEN {} ELSE reg[c].to .. (reg[c].to + pos[c] - 1)
ToRead(c)   == IF reg[c].from = Device THEN {}
               ELSE (reg[c].from + pos[c]) .. (reg[c].from + reg[c].n - 1)

\* A word that no transfer owns and that neither waits in the shadow for a
\* flush or for core 0, nor has a write in flight, is the same in both memories.
\* In particular, once a driver has been told
\* that its transfer is done (m68k_read_memory_16, int_ack) the CPU reads what
\* the DMA controller wrote, lost records included.
HandedBackCoherent ==
    \A w \in Word : w \notin Newer /\ ~PostedTo(w) /\ w \notin OwnedByDma => shadow[w] = ram[w]

\* No word a running transfer has still to read is dirty: wb_dma_start wrote
\* it back, and its page's hold kept later CPU writes on their way to the RAM.
SourceWrittenThrough ==
    \A c \in Chan : run[c] = "running" => ToRead(c) \cap dirty = {}

\* When the start command goes out with write-back on, every word the transfer
\* will read has been written back (wb_dma_start).
StartFlushed ==
    pc = "ccr" /\ wbOn => Src(reg[chn]) \cap dirty = {}

\* No write of the CPU's is on its way to, or kept for, a word the DMA
\* controller is writing: it would land on top of the device's data.
DestinationUntouched ==
    \A w \in OwnedByDma : w \notin dirty /\ ~PostedTo(w)

\* Every word a transfer has written is in the shadow, or the host will hear
\* of it: nothing the FIFO refused is forgotten (sn_apply, sn_repair).
NoWriteForgotten ==
    \A c \in Chan : Started(c) => \A w \in Moved(c) : shadow[w] = ram[w] \/ Noted(w)

\* Switching write-back off leaves nothing behind (emu68k_wb_set): every word
\* written before reaches the RAM although nothing flushes any more.
OffMeansClean == ~wbOn /\ pc # "flushall" => dirty = {}

\* A started transfer finishes: the FIFO that holds back the next grant is
\* always drained, by the periodic hook or inside a bus wait.
TransferFinishes == \A c \in Chan : run[c] = "running" ~> run[c] = "done"

\* A range the host was told of is re-read (rng_pending).
RangeRepaired == rep # None ~> rep = None

-----------------------------------------------------------------------------
\* The one memory that shadow and RAM stand for: what the DMA controller has
\* written and nobody has been told of counts already.
SharedMem == [w \in Word |->
    IF \E c \in Chan : Started(c) /\ w \in Moved(c) THEN ram[w] ELSE shadow[w]]

SharedMay == [w \in Word |->
    IF \E c \in Chan : run[c] = "running" /\ w \in ToRead(c)
    THEN {ram[w]} \cup {posted[i].v : i \in {j \in 1..Len(posted) : posted[j].w = w}}
    ELSE {SharedMem[w]}]

Shared == INSTANCE SharedRam WITH mem <- SharedMem, may <- SharedMay

\* The write-back RAM implements one shared memory.
ImplementsSharedRam == Shared!SharedSpec
=============================================================================
