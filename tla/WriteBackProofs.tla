-------------------------- MODULE WriteBackProofs --------------------------
(***************************************************************************)
(* Theorems about WriteBack for every set of words, pages, channels and    *)
(* transfers, and every size of the FIFO and of the posted-write queue.    *)
(***************************************************************************)
EXTENDS WriteBack, SequenceTheorems, TLAPS

Ordered(r) == r # None => r.lo =< r.hi

\* What the program counter of core 1 and the state of a channel say about
\* the other variables.  TypeOK alone is not inductive: a beat stores at
\* to + pos, which is a word of RAM only because a running channel has words
\* left to move.
Control ==
    /\ \A c \in Chan : Started(c) => reg[c] \in Transfers
    /\ \A c \in Chan : run[c] = "running" => pos[c] < reg[c].n
    /\ grant # None => run[grant] = "running"
    /\ pc \in {"flush", "ccr"} => /\ chn \in Chan /\ ~Started(chn)
                                  /\ reg[chn] \in Transfers
    /\ pc = "poll" => chn \in Chan
    /\ saw => chn \in Chan /\ run[chn] = "done"
    /\ saw => pc \in {"drain", "repair", "read", "store"}
    /\ pc \in {"repair", "read", "store"} => win # None
    /\ pc = "store" => got # None
    /\ Ordered(lost) /\ Ordered(rep) /\ Ordered(win)
    /\ poked # None => poked.w \in Ring

CInv == TypeOK /\ Control

LEMMA InitCInv ==
  ASSUME Init PROVE CInv
  <1>1. PICK m \in [Word -> Val] : Init!(m)
    BY DEF Init
  <1>2. TypeOK
    <2>1. posted \in Seq(PostedWrite) /\ fifo \in Seq(PostedWrite)
      BY <1>1
    <2>2. pos \in [Chan -> Nat] /\ run \in [Chan -> {"idle", "running", "done"}]
      BY <1>1
    <2>3. /\ img \in [Chan -> Transfers \cup {None}]
          /\ reg \in [Chan -> Transfers \cup {None}]
      BY <1>1
    <2>4. QED
      BY <1>1, <2>1, <2>2, <2>3 DEF TypeOK
  <1>3. Control
    BY <1>1, NoneAssumption DEF Control, Ordered, Started
  <1>4. QED
    BY <1>2, <1>3 DEF CInv

USE DEF vars, coreVars, cacheVars, busVars, dmaVars

\* The smallest range that covers a range and more is a range.
LEMMA HullType ==
  ASSUME NEW r \in Span \cup {None}, Ordered(r), NEW lo \in Word, NEW hi \in Word, lo =< hi
  PROVE  Hull(r, lo, hi) \in Span /\ Ordered(Hull(r, lo, hi))
  <1>1. lo \in Int /\ hi \in Int
    BY WordAssumption
  <1>2. CASE r = None
    BY <1>2 DEF Hull, Span, Ordered
  <1>3. CASE r # None
    <2>1. r \in Span /\ r.lo \in Word /\ r.hi \in Word /\ r.lo =< r.hi
      BY <1>3 DEF Span, Ordered
    <2>2. r.lo \in Int /\ r.hi \in Int
      BY <2>1, WordAssumption
    <2>3. QED
      BY <1>1, <1>3, <2>1, <2>2 DEF Hull, Span, Ordered
  <1>4. QED
    BY <1>2, <1>3

\* Transfer t's i-th word on either side is a word of RAM.
LEMMA TransferWords ==
  ASSUME NEW t \in Transfers, NEW i \in Nat, i < t.n
  PROVE  /\ t.from # Device => t.from + i \in Word
         /\ t.to # Device => t.to + i \in Word
  <1>1. Words(t) \subseteq Word /\ t.n \in Nat \ {0}
    BY TransferAssumption
  <1>2. t.from \in Word \cup {Device} /\ t.to \in Word \cup {Device}
    BY TransferAssumption
  <1>3. ASSUME t.from # Device PROVE t.from + i \in Word
    <2>1. t.from \in Int
      BY <1>2, <1>3, WordAssumption
    <2>2. t.from + i \in t.from .. (t.from + t.n - 1)
      BY <1>1, <2>1
    <2>3. QED
      BY <1>1, <1>3, <2>2 DEF Words, Src
  <1>4. ASSUME t.to # Device PROVE t.to + i \in Word
    <2>1. t.to \in Int
      BY <1>2, <1>4, WordAssumption
    <2>2. t.to + i \in t.to .. (t.to + t.n - 1)
      BY <1>1, <2>1
    <2>3. QED
      BY <1>1, <1>4, <2>2 DEF Words, Dst
  <1>5. QED
    BY <1>3, <1>4

LEMMA CpuWriteCInv ==
  ASSUME CInv, NEW w \in Word, NEW v \in Val, CpuWrite(w, v)
  PROVE  CInv'
  <1>1. posted' \in Seq(PostedWrite)
    <2>1. posted' = posted \/ posted' = Append(posted, [w |-> w, v |-> v])
      BY DEF CpuWrite, Post
    <2>2. [w |-> w, v |-> v] \in PostedWrite
      BY DEF PostedWrite
    <2>3. posted \in Seq(PostedWrite)
      BY DEF CInv, TypeOK
    <2>4. QED
      BY <2>1, <2>2, <2>3, AppendProperties
  <1>2. TypeOK'
    BY <1>1 DEF CpuWrite, CInv, TypeOK
  <1>3. Control'
    BY DEF CpuWrite, CInv, Control, Ordered, Started
  <1>4. QED
    BY <1>2, <1>3 DEF CInv

LEMMA PokeCInv ==
  ASSUME CInv, NEW w \in Ring, NEW v \in Val, Poke(w, v)
  PROVE  CInv'
  <1>1. w \in Word /\ [w |-> w, v |-> v] \in PostedWrite
    BY RingAssumption DEF PostedWrite
  <1>2. TypeOK'
    BY <1>1 DEF Poke, CInv, TypeOK
  <1>3. Control'
    BY DEF Poke, CInv, Control, Ordered, Started
  <1>4. QED
    BY <1>2, <1>3 DEF CInv

LEMMA PokeEndCInv == ASSUME CInv, PokeEnd PROVE CInv'
  <1>1. poked \in PostedWrite /\ poked.w \in Word /\ poked.v \in Val
        /\ [w |-> poked.w, v |-> poked.v] \in PostedWrite
    BY DEF PokeEnd, CInv, TypeOK, PostedWrite
  <1>2. posted' \in Seq(PostedWrite)
    <2>1. posted' = posted \/ posted' = Append(posted, [w |-> poked.w, v |-> poked.v])
      BY DEF PokeEnd, Post
    <2>2. posted \in Seq(PostedWrite)
      BY DEF CInv, TypeOK
    <2>3. QED
      BY <1>1, <2>1, <2>2, AppendProperties
  <1>3. TypeOK'
    BY <1>1, <1>2 DEF PokeEnd, CInv, TypeOK
  <1>4. Control'
    BY DEF PokeEnd, CInv, Control, Ordered, Started
  <1>5. QED
    BY <1>3, <1>4 DEF CInv

LEMMA ProgramCInv ==
  ASSUME CInv, NEW c \in Chan, NEW t \in Transfers, Program(c, t)
  PROVE  CInv'
  <1>1. TypeOK'
    BY DEF Program, CInv, TypeOK
  <1>2. Control'
    BY DEF Program, CInv, TypeOK, Control, Ordered, Started
  <1>3. QED
    BY <1>1, <1>2 DEF CInv

LEMMA StartPollCInv ==
  ASSUME CInv, NEW c \in Chan, StartDma(c) \/ Poll(c)
  PROVE  CInv'
  <1>1. TypeOK'
    BY DEF StartDma, Poll, CInv, TypeOK
  <1>2. Control'
    BY DEF StartDma, Poll, CInv, TypeOK, Control, Ordered, Started
  <1>3. QED
    BY <1>1, <1>2 DEF CInv

LEMMA FlushWordCInv == ASSUME CInv, FlushWord PROVE CInv'
  <1>1. PICK w \in Word : dirty' = dirty \ {w} /\ Post(w, shadow[w])
    BY DEF FlushWord, CInv, TypeOK
  <1>2. posted' \in Seq(PostedWrite)
    <2>1. [w |-> w, v |-> shadow[w]] \in PostedWrite
      BY DEF PostedWrite, CInv, TypeOK
    <2>2. posted \in Seq(PostedWrite)
      BY DEF CInv, TypeOK
    <2>3. QED
      BY <1>1, <2>1, <2>2, AppendProperties DEF Post
  <1>3. TypeOK'
    BY <1>1, <1>2 DEF FlushWord, CInv, TypeOK
  <1>4. Control'
    BY DEF FlushWord, CInv, Control, Ordered, Started
  <1>5. QED
    BY <1>3, <1>4 DEF CInv

LEMMA FlushDoneCInv == ASSUME CInv, FlushDone PROVE CInv'
  <1>1. FlushSpan \subseteq Word
    BY TransferAssumption DEF FlushSpan, Flushed, CInv, TypeOK, Control
  <1>2. TypeOK'
    BY <1>1 DEF FlushDone, CInv, TypeOK, Page
  <1>3. Control'
    BY DEF FlushDone, CInv, TypeOK, Control, Ordered, Started
  <1>4. QED
    BY <1>2, <1>3 DEF CInv

LEMMA CcrWriteCInv == ASSUME CInv, CcrWrite PROVE CInv'
  <1>1. TypeOK'
    BY DEF CcrWrite, CInv, TypeOK
  <1>2. reg[chn].n \in Nat \ {0}
    BY TransferAssumption DEF CcrWrite, CInv, Control
  <1>3. Control'
    BY <1>2 DEF CcrWrite, CInv, TypeOK, Control, Ordered, Started, BusIdle, BusFree
  <1>4. QED
    BY <1>1, <1>3 DEF CInv

LEMMA PollReadCInv == ASSUME CInv, PollRead \/ Periodic PROVE CInv'
  <1>1. TypeOK'
    BY DEF PollRead, Periodic, CInv, TypeOK
  <1>2. Control'
    BY DEF PollRead, Periodic, CInv, TypeOK, Control, Ordered, Started
  <1>3. QED
    BY <1>1, <1>2 DEF CInv

LEMMA PopCInv == ASSUME CInv, DrainPop \/ InWaitHook PROVE CInv'
  <1>1. CASE fifo # <<>>
    <2>1. Head(fifo) \in PostedWrite /\ Tail(fifo) \in Seq(PostedWrite)
      BY <1>1 DEF CInv, TypeOK
    <2>2. Head(fifo).w \in Word /\ Head(fifo).v \in Val
      BY <2>1 DEF PostedWrite
    <2>3. TypeOK'
      BY <1>1, <2>1, <2>2 DEF DrainPop, InWaitHook, PopRecord, CInv, TypeOK
    <2>4. Control'
      BY <1>1 DEF DrainPop, InWaitHook, PopRecord, CInv, TypeOK, Control, Ordered, Started
    <2>5. QED
      BY <2>3, <2>4 DEF CInv
  <1>2. CASE fifo = <<>>
    <2>1. lost \in Span /\ rep' = Hull(rep, lost.lo, lost.hi) /\ lost' = None
      BY <1>2 DEF DrainPop, InWaitHook, PopRecord, CInv, TypeOK
    <2>2. lost.lo \in Word /\ lost.hi \in Word /\ lost.lo =< lost.hi
      BY <2>1, NoneAssumption DEF CInv, Control, Ordered, Span
    <2>3. rep' \in Span /\ Ordered(rep')
      BY <2>1, <2>2, HullType DEF CInv, TypeOK, Control
    <2>4. TypeOK'
      BY <1>2, <2>1, <2>3 DEF DrainPop, InWaitHook, PopRecord, CInv, TypeOK
    <2>5. Control'
      BY <1>2, <2>1, <2>3 DEF DrainPop, InWaitHook, PopRecord, CInv, TypeOK, Control, Ordered, Started
    <2>6. QED
      BY <2>4, <2>5 DEF CInv
  <1>3. QED
    BY <1>1, <1>2

\* Giving control back to the CPU frees the channel it has seen complete,
\* which owns neither the bus nor core 1.
LEMMA ResumeCInv ==
  ASSUME CInv, Resume, pc \in {"drain", "repair", "read", "store"},
         rep' = rep, win' \in {win, None}, got' \in {got, None}, lost' = lost
  PROVE  /\ Control'
         /\ pc' \in {"run"} /\ chn' \in Chan \cup {None} /\ saw' \in BOOLEAN
         /\ run' \in [Chan -> {"idle", "running", "done"}]
         /\ reg' \in [Chan -> Transfers \cup {None}]
         /\ pos' = pos /\ grant' = grant /\ dev' = dev /\ poked' = poked
  <1>1. CASE saw
    BY <1>1 DEF Resume, CInv, TypeOK, Control, Ordered, Started
  <1>2. CASE ~saw
    BY <1>2 DEF Resume, CInv, TypeOK, Control, Ordered, Started
  <1>3. QED
    BY <1>1, <1>2

LEMMA DrainEndCInv == ASSUME CInv, DrainEnd PROVE CInv'
  <1>1. CASE rep # None
    <2>1. TypeOK'
      BY <1>1 DEF DrainEnd, CInv, TypeOK
    <2>2. Control'
      BY <1>1 DEF DrainEnd, CInv, TypeOK, Control, Ordered, Started
    <2>3. QED
      BY <2>1, <2>2 DEF CInv
  <1>2. CASE rep = None
    <2>1. Resume /\ UNCHANGED <<win, rep, got, cacheVars, busVars>> /\ pc = "drain"
      BY <1>2 DEF DrainEnd
    <2>2. Control'
      BY <2>1, ResumeCInv
    <2>3. TypeOK'
      BY <2>1, ResumeCInv DEF CInv, TypeOK
    <2>4. QED
      BY <2>2, <2>3 DEF CInv
  <1>3. QED
    BY <1>1, <1>2

\* The loop of sn_repair stays inside the range it was given.
LEMMA AdvanceCInv ==
  ASSUME CInv, Advance, pc \in {"repair", "store"},
         rep' = rep, got' \in {got, None}, lost' = lost
  PROVE  /\ Control'
         /\ pc' \in {"run", "repair"} /\ chn' \in Chan \cup {None} /\ saw' \in BOOLEAN
         /\ win' \in Span \cup {None}
         /\ run' \in [Chan -> {"idle", "running", "done"}]
         /\ reg' \in [Chan -> Transfers \cup {None}]
         /\ pos' = pos /\ grant' = grant /\ dev' = dev /\ poked' = poked
  <1>1. win \in Span /\ win.lo \in Word /\ win.hi \in Word /\ win.lo =< win.hi
    BY DEF CInv, TypeOK, Control, Ordered, Span
  <1>2. CASE win.lo = win.hi
    BY <1>2, ResumeCInv DEF Advance
  <1>3. CASE win.lo # win.hi
    <2>1. win.lo \in Int /\ win.hi \in Int
      BY <1>1, WordAssumption
    <2>2. win.lo + 1 \in win.lo .. win.hi
      BY <1>1, <1>3, <2>1
    <2>3. win.lo + 1 \in Word
      BY <1>1, <2>2, WordAssumption
    <2>4. win' = [win EXCEPT !.lo = @ + 1] /\ pc' = "repair" /\ UNCHANGED <<chn, saw, dmaVars, poked>>
      BY <1>3 DEF Advance
    <2>5. win' \in Span /\ win' # None /\ Ordered(win')
      BY <1>1, <1>3, <2>1, <2>3, <2>4, NoneAssumption DEF Span, Ordered
    <2>6. Control'
      BY <2>4, <2>5 DEF CInv, TypeOK, Control, Ordered, Started
    <2>7. QED
      BY <2>4, <2>5, <2>6 DEF CInv, TypeOK
  <1>4. QED
    BY <1>2, <1>3

LEMMA RepairCInv ==
  ASSUME CInv, RepairSkip \/ RepairIssue \/ RepairRead \/ RepairStore
  PROVE  CInv'
  <1>1. CASE RepairSkip
    <2>1. Control'
      BY <1>1, AdvanceCInv DEF RepairSkip
    <2>2. TypeOK'
      BY <1>1, AdvanceCInv DEF RepairSkip, CInv, TypeOK
    <2>3. QED
      BY <2>1, <2>2 DEF CInv
  <1>2. CASE RepairIssue
    <2>1. TypeOK'
      BY <1>2 DEF RepairIssue, CInv, TypeOK
    <2>2. Control'
      BY <1>2 DEF RepairIssue, CInv, TypeOK, Control, Ordered, Started
    <2>3. QED
      BY <2>1, <2>2 DEF CInv
  <1>3. CASE RepairRead
    <2>1. win \in Span /\ win.lo \in Word
      BY <1>3 DEF RepairRead, CInv, TypeOK, Control, Span
    <2>2. ram[win.lo] \in Val
      BY <2>1 DEF CInv, TypeOK
    <2>3. TypeOK'
      BY <1>3, <2>2 DEF RepairRead, CInv, TypeOK
    <2>4. Control'
      BY <1>3, <2>2, NoneAssumption DEF RepairRead, CInv, TypeOK, Control, Ordered, Started
    <2>5. QED
      BY <2>3, <2>4 DEF CInv
  <1>4. CASE RepairStore
    <2>1. Control'
      BY <1>4, AdvanceCInv DEF RepairStore
    <2>2. got \in Val
      BY <1>4 DEF RepairStore, CInv, TypeOK, Control
    <2>3. TypeOK'
      BY <1>4, <2>2, AdvanceCInv DEF RepairStore, CInv, TypeOK
    <2>4. QED
      BY <2>1, <2>3 DEF CInv
  <1>5. QED
    BY <1>1, <1>2, <1>3, <1>4

LEMMA SwitchCInv ==
  ASSUME CInv, WbOff \/ WbOn \/ \E p \in Page : HoldExpires(p)
  PROVE  CInv'
  <1>1. TypeOK'
    BY DEF WbOff, WbOn, HoldExpires, CInv, TypeOK
  <1>2. Control'
    BY DEF WbOff, WbOn, HoldExpires, CInv, TypeOK, Control, Ordered, Started
  <1>3. QED
    BY <1>1, <1>2 DEF CInv

LEMMA BusCInv ==
  ASSUME CInv, Land \/ Release \/ \E c \in Chan : Grant(c)
  PROVE  CInv'
  <1>1. CASE Land
    <2>1. posted # <<>> /\ posted \in Seq(PostedWrite)
      BY <1>1 DEF Land, CInv, TypeOK
    <2>2. Head(posted) \in PostedWrite /\ Tail(posted) \in Seq(PostedWrite)
      BY <2>1
    <2>3. TypeOK'
      BY <1>1, <2>2 DEF Land, CInv, TypeOK, PostedWrite
    <2>4. Control'
      BY <1>1 DEF Land, CInv, Control, Ordered, Started
    <2>5. QED
      BY <2>3, <2>4 DEF CInv
  <1>2. CASE Release
    <2>1. TypeOK'
      BY <1>2 DEF Release, CInv, TypeOK
    <2>2. Control'
      BY <1>2 DEF Release, CInv, TypeOK, Control, Ordered, Started
    <2>3. QED
      BY <2>1, <2>2 DEF CInv
  <1>3. ASSUME NEW c \in Chan, Grant(c) PROVE CInv'
    <2>1. TypeOK'
      BY <1>3 DEF Grant, CInv, TypeOK
    <2>2. Control'
      BY <1>3 DEF Grant, CInv, TypeOK, Control, Ordered, Started
    <2>3. QED
      BY <2>1, <2>2 DEF CInv
  <1>4. QED
    BY <1>1, <1>2, <1>3

LEMMA BeatCInv ==
  ASSUME CInv, NEW c \in Chan, NEW v \in Val, Beat(c, v)
  PROVE  CInv'
  <1>1. run[c] = "running" /\ reg[c] \in Transfers /\ pos[c] \in Nat /\ pos[c] < reg[c].n
    BY NoneAssumption DEF Beat, CInv, TypeOK, Control, Started
  <1>2. reg[c].to # Device => reg[c].to + pos[c] \in Word
    BY <1>1, TransferWords
  <1>3. reg[c].n \in Nat \ {0}
    BY <1>1, TransferAssumption
  <1>4. fifo' \in Seq(PostedWrite) /\ lost' \in Span \cup {None} /\ Ordered(lost')
    <2>1. CASE reg[c].to = Device
      BY <2>1 DEF Beat, CInv, TypeOK, Control
    <2>2. CASE reg[c].to # Device
      <3>1. Snoop(reg[c].to + pos[c], v)
        BY <2>2 DEF Beat
      <3>2. [w |-> reg[c].to + pos[c], v |-> v] \in PostedWrite
        BY <1>2, <2>2 DEF PostedWrite
      <3>3. fifo' \in Seq(PostedWrite)
        <4>1. fifo \in Seq(PostedWrite)
          BY DEF CInv, TypeOK
        <4>2. fifo' = fifo \/ fifo' = Append(fifo, [w |-> reg[c].to + pos[c], v |-> v])
          BY <3>1 DEF Snoop
        <4>3. QED
          BY <4>1, <4>2, <3>2, AppendProperties
      <3>4. reg[c].to + pos[c] \in Int
        BY <1>2, <2>2, WordAssumption
      <3>5. lost' \in Span \cup {None} /\ Ordered(lost')
        BY <1>2, <2>2, <3>1, <3>4, HullType DEF Snoop, CInv, TypeOK, Control
      <3>6. QED
        BY <3>3, <3>5
    <2>3. QED
      BY <2>1, <2>2
  <1>5. TypeOK'
    <2>1. ram' \in [Word -> Val] /\ dev' \in Val \cup {None}
      BY DEF Beat, CInv, TypeOK
    <2>2. pos' \in [Chan -> Nat]
      BY <1>1 DEF Beat, CInv, TypeOK
    <2>3. run' \in [Chan -> {"idle", "running", "done"}] /\ grant' \in Chan \cup {None}
      BY DEF Beat, CInv, TypeOK
    <2>4. QED
      BY <1>4, <2>1, <2>2, <2>3 DEF Beat, CInv, TypeOK
  <1>6. Control'
    BY <1>1, <1>3, <1>4 DEF Beat, CInv, TypeOK, Control, Ordered, Started
  <1>7. QED
    BY <1>5, <1>6 DEF CInv

LEMMA NextCInv == ASSUME CInv, [Next]_vars PROVE CInv'
  <1>1. CASE UNCHANGED vars
    BY <1>1 DEF CInv, TypeOK, Control, Ordered, Started
  <1>2. CASE Core1
    BY <1>2, CpuWriteCInv, ProgramCInv, StartPollCInv, FlushWordCInv, FlushDoneCInv, CcrWriteCInv,
       PollReadCInv, PopCInv, DrainEndCInv, RepairCInv, RingAssumption DEF Core1
  <1>3. CASE Core0
    BY <1>3, PokeCInv, PokeEndCInv, SwitchCInv DEF Core0
  <1>4. CASE Bus
    BY <1>4, BusCInv, BeatCInv DEF Bus
  <1>5. CASE \E p \in Page : HoldExpires(p)
    BY <1>5, SwitchCInv
  <1>6. QED
    BY <1>1, <1>2, <1>3, <1>4, <1>5 DEF Next

\* Type correctness, with the control invariant it rests on.
THEOREM TypeCorrect == Spec => []TypeOK
  <1>1. Init => CInv
    BY InitCInv
  <1>2. CInv /\ [Next]_vars => CInv'
    BY NextCInv
  <1>3. CInv => TypeOK
    BY DEF CInv
  <1>4. QED
    BY <1>1, <1>2, <1>3, PTL DEF Spec

(***************************************************************************)
(* What is dirty, and why the DMA controller never meets it.  The register *)
(* image is exact while write-back is on, so the flush covers the transfer *)
(* that is about to start; the hold then covers its pages, so the CPU's    *)
(* stores to them are no longer kept back.                                 *)
(***************************************************************************)
Covered(c) == \A w \in Words(reg[c]) : PageOf[w] \in held

OffClean ==
    /\ pc = "flushall" => ~wbOn
    /\ pc = "flush" => wbOn
    /\ ~wbOn /\ pc # "flushall" => dirty = {}

ImageExact ==
    wbOn => \A c \in Chan : ~Started(c) /\ reg[c] # None => img[c] = reg[c]

ReadyToStart ==
    pc = "ccr" => /\ Words(reg[chn]) \cap dirty = {}
                  /\ wbOn => Covered(chn)

RunningCovered ==
    wbOn => \A c \in Chan : run[c] = "running" => Covered(c)

DInv ==
    OffClean /\ ImageExact /\ ReadyToStart /\ RunningCovered /\ SourceWrittenThrough

Discipline == ~LongTransfers /\ ~OnDuringDma

LEMMA InitDInv == ASSUME Init PROVE DInv
  BY DEF Init, DInv, OffClean, ImageExact, ReadyToStart, RunningCovered,
         SourceWrittenThrough, ToRead, Started

\* Words still to be read are words of the transfer.
LEMMA ToReadWords ==
  ASSUME CInv, NEW c \in Chan, run[c] = "running"
  PROVE  ToRead(c) \subseteq Words(reg[c])
  <1>1. reg[c] \in Transfers /\ pos[c] \in Nat
    BY DEF CInv, TypeOK, Control, Started
  <1>2. reg[c].from # Device => reg[c].from \in Int /\ reg[c].n \in Nat
    BY <1>1, TransferAssumption, WordAssumption
  <1>3. QED
    BY <1>1, <1>2 DEF ToRead, Words, Src

\* OffMeansClean needs no discipline of the machine's programs.
LEMMA OffCleanStep ==
  ASSUME CInv, OffClean, [Next]_vars
  PROVE  OffClean'
  <1> USE DEF OffClean
  <1>1. CASE Core1
    <2>1. ASSUME NEW w \in CpuWord, NEW v \in Val, CpuWrite(w, v) PROVE OffClean'
      BY <2>1 DEF CpuWrite
    <2>2. ASSUME NEW c \in Chan, NEW t \in Transfers, Program(c, t) PROVE OffClean'
      BY <2>2 DEF Program
    <2>3. ASSUME NEW c \in Chan, StartDma(c) \/ Poll(c) PROVE OffClean'
      BY <2>3 DEF StartDma, Poll
    <2>4. CASE FlushWord
      BY <2>4 DEF FlushWord, CInv, TypeOK
    <2>5. CASE FlushDone
      <3>1. pc = "flushall" => dirty = {}
        BY <2>5 DEF FlushDone, FlushSpan, CInv, TypeOK
      <3>2. QED
        BY <2>5, <3>1 DEF FlushDone, CInv, TypeOK
    <2>6. CASE CcrWrite \/ PollRead \/ Periodic
      BY <2>6 DEF CcrWrite, PollRead, Periodic
    <2>7. CASE DrainPop \/ InWaitHook
      BY <2>7 DEF DrainPop, InWaitHook, PopRecord
    <2>8. CASE DrainEnd \/ RepairSkip \/ RepairIssue \/ RepairRead \/ RepairStore
      BY <2>8 DEF DrainEnd, RepairSkip, RepairIssue, RepairRead, RepairStore, Advance, Resume
    <2>9. QED
      BY <1>1, <2>1, <2>2, <2>3, <2>4, <2>5, <2>6, <2>7, <2>8 DEF Core1
  <1>2. CASE Core0
    BY <1>2 DEF Core0, Poke, PokeEnd, WbOff, WbOn
  <1>3. CASE Bus
    BY <1>3 DEF Bus, Land, Release, Grant, Beat
  <1>4. CASE \E p \in Page : HoldExpires(p)
    BY <1>4 DEF HoldExpires
  <1>5. CASE UNCHANGED vars
    BY <1>5
  <1>6. QED
    BY <1>1, <1>2, <1>3, <1>4, <1>5 DEF Next

\* Switching write-back off leaves no word behind.
THEOREM OffIsClean == Spec => []OffMeansClean
  <1>1. Init => CInv /\ OffClean
    BY InitCInv, InitDInv DEF DInv
  <1>2. CInv /\ OffClean /\ [Next]_vars => CInv' /\ OffClean'
    BY NextCInv, OffCleanStep
  <1>3. OffClean => OffMeansClean
    BY DEF OffClean, OffMeansClean
  <1>4. QED
    BY <1>1, <1>2, <1>3, PTL DEF Spec

LEMMA CpuWriteDInv ==
  ASSUME CInv, DInv, NEW w \in Word, NEW v \in Val, CpuWrite(w, v)
  PROVE  ImageExact' /\ ReadyToStart' /\ RunningCovered' /\ SourceWrittenThrough'
  <1>1. UNCHANGED <<img, reg, run, pos, pc, chn, held, wbOn>>
    BY DEF CpuWrite
  <1>2. ImageExact' /\ RunningCovered'
    BY <1>1 DEF DInv, ImageExact, RunningCovered, Covered, Started
  <1>3. ReadyToStart'
    BY DEF CpuWrite, ReadyToStart
  <1>4. dirty' \subseteq dirty \cup {w} /\ (dirty' = dirty \/ (wbOn /\ PageOf[w] \notin held))
    BY DEF CpuWrite
  <1>5. ASSUME NEW c \in Chan, run[c] = "running" PROVE ToRead(c) \cap dirty' = {}
    BY <1>4, <1>5, ToReadWords DEF DInv, RunningCovered, Covered, SourceWrittenThrough
  <1>6. SourceWrittenThrough'
    BY <1>1, <1>5 DEF SourceWrittenThrough, ToRead
  <1>7. QED
    BY <1>2, <1>3, <1>6

\* No transfer touches the console's words.
LEMMA PokeEndDInv ==
  ASSUME CInv, DInv, PokeEnd
  PROVE  ImageExact' /\ ReadyToStart' /\ RunningCovered' /\ SourceWrittenThrough'
  <1>1. UNCHANGED <<img, reg, run, pos, pc, chn, held, wbOn>>
    BY DEF PokeEnd
  <1>2. ImageExact' /\ RunningCovered'
    BY <1>1 DEF DInv, ImageExact, RunningCovered, Covered, Started
  <1>3. PICK w \in Ring : dirty' \subseteq dirty \cup {w}
    BY DEF PokeEnd, CInv, Control
  <1>4. \A t \in Transfers : w \notin Words(t)
    BY TransferAssumption
  <1>5. ReadyToStart'
    BY <1>1, <1>3, <1>4 DEF DInv, ReadyToStart, Covered, CInv, Control
  <1>6. ASSUME NEW c \in Chan, run[c] = "running" PROVE w \notin ToRead(c)
    BY <1>4, <1>6, ToReadWords DEF CInv, Control, Started
  <1>7. SourceWrittenThrough'
    BY <1>1, <1>3, <1>6 DEF DInv, SourceWrittenThrough, ToRead
  <1>8. QED
    BY <1>2, <1>5, <1>7

\* A step that writes nothing, starts nothing and moves no channel.
LEMMA QuietDInv ==
  ASSUME CInv, DInv, dirty' \subseteq dirty, held \subseteq held', wbOn' = wbOn,
         UNCHANGED <<img, reg, run, pos>>, pc' = "ccr" => pc = "ccr" /\ chn' = chn
  PROVE  ImageExact' /\ ReadyToStart' /\ RunningCovered' /\ SourceWrittenThrough'
  BY DEF DInv, ImageExact, ReadyToStart, RunningCovered, Covered, SourceWrittenThrough,
         ToRead, Started

\* wb_dma_start: the image is exact, so what was flushed is the transfer.
LEMMA FlushDoneDInv ==
  ASSUME CInv, DInv, FlushDone
  PROVE  ImageExact' /\ ReadyToStart' /\ RunningCovered' /\ SourceWrittenThrough'
  <1>1. UNCHANGED <<dirty, wbOn, img, reg, run, pos, chn>> /\ held \subseteq held'
    BY DEF FlushDone
  <1>2. ImageExact' /\ RunningCovered' /\ SourceWrittenThrough'
    BY <1>1 DEF DInv, ImageExact, RunningCovered, Covered, SourceWrittenThrough, ToRead, Started
  <1>3. ASSUME pc' = "ccr" PROVE Words(reg[chn]) \cap dirty = {} /\ Covered(chn)'
    <2>1. pc = "flush" /\ held' = held \cup {PageOf[w] : w \in FlushSpan}
      BY <1>3 DEF FlushDone
    <2>2. chn \in Chan /\ ~Started(chn) /\ reg[chn] \in Transfers /\ wbOn
      BY <2>1 DEF CInv, Control, DInv, OffClean
    <2>3. FlushSpan = Words(reg[chn])
      BY <2>1, <2>2, NoneAssumption DEF FlushSpan, Flushed, DInv, ImageExact
    <2>4. QED
      BY <1>1, <2>1, <2>3 DEF FlushDone, Covered
  <1>4. ReadyToStart'
    BY <1>1, <1>3 DEF ReadyToStart
  <1>5. QED
    BY <1>2, <1>4

LEMMA CcrWriteDInv ==
  ASSUME CInv, DInv, CcrWrite
  PROVE  ImageExact' /\ ReadyToStart' /\ RunningCovered' /\ SourceWrittenThrough'
  <1>1. /\ chn \in Chan /\ ~Started(chn) /\ reg[chn] \in Transfers /\ pc = "ccr" /\ pc' = "run"
        /\ UNCHANGED <<dirty, wbOn, img, reg, held>>
        /\ run' = [run EXCEPT ![chn] = "running"] /\ pos' = [pos EXCEPT ![chn] = 0]
    BY DEF CcrWrite, CInv, Control
  <1>2. ImageExact'
    BY <1>1 DEF DInv, ImageExact, Started, CInv, TypeOK
  <1>3. ReadyToStart'
    BY <1>1 DEF ReadyToStart
  <1>4. RunningCovered'
    BY <1>1 DEF DInv, ReadyToStart, RunningCovered, Covered, CInv, TypeOK
  <1>5. CInv'
    BY CcrWriteCInv
  <1>6. ASSUME NEW c \in Chan, run'[c] = "running" PROVE ToRead(c)' \cap dirty = {}
    <2>1. CASE c = chn
      <3>1. ToRead(c)' \subseteq Words(reg'[c])
        <4>1. reg'[c].from # Device => reg'[c].from \in Int /\ reg'[c].n \in Nat
          BY <1>1, <2>1, TransferAssumption, WordAssumption
        <4>2. pos'[c] = 0
          BY <1>1, <2>1 DEF CInv, TypeOK
        <4>3. QED
          BY <4>1, <4>2 DEF ToRead, Words, Src
      <3>2. QED
        BY <1>1, <2>1, <3>1 DEF DInv, ReadyToStart
    <2>2. CASE c # chn
      BY <1>1, <1>6, <2>2 DEF DInv, SourceWrittenThrough, ToRead, CInv, TypeOK
    <2>3. QED
      BY <2>1, <2>2
  <1>7. SourceWrittenThrough'
    BY <1>1, <1>6 DEF SourceWrittenThrough
  <1>8. QED
    BY <1>2, <1>3, <1>4, <1>7

\* The image follows the registers, so the next flush covers the transfer.
LEMMA ProgramDInv ==
  ASSUME CInv, DInv, NEW c \in Chan, NEW t \in Transfers, Program(c, t)
  PROVE  ImageExact' /\ ReadyToStart' /\ RunningCovered' /\ SourceWrittenThrough'
  <1>1. /\ pc = "run" /\ ~Started(c) /\ reg' = [reg EXCEPT ![c] = t]
        /\ img' = (IF wbOn THEN [img EXCEPT ![c] = t] ELSE img)
        /\ UNCHANGED <<pc, dirty, held, wbOn, run, pos>>
    BY DEF Program
  <1>2. ImageExact'
    BY <1>1 DEF DInv, ImageExact, Started, CInv, TypeOK
  <1>3. ReadyToStart'
    BY <1>1 DEF ReadyToStart
  <1>4. \A d \in Chan : run'[d] = "running" => d # c /\ reg'[d] = reg[d]
    BY <1>1 DEF Started, CInv, TypeOK
  <1>5. RunningCovered' /\ SourceWrittenThrough'
    BY <1>1, <1>4 DEF DInv, RunningCovered, Covered, SourceWrittenThrough, ToRead
  <1>6. QED
    BY <1>2, <1>3, <1>5

\* With write-back off nothing is dirty, so the write may go out at once.
LEMMA StartPollDInv ==
  ASSUME CInv, DInv, NEW c \in Chan, StartDma(c) \/ Poll(c)
  PROVE  ImageExact' /\ ReadyToStart' /\ RunningCovered' /\ SourceWrittenThrough'
  <1>1. UNCHANGED <<dirty, held, wbOn, img, reg, run, pos>> /\ pc = "run"
    BY DEF StartDma, Poll
  <1>2. pc' = "ccr" => ~wbOn
    BY DEF StartDma, Poll
  <1>3. ReadyToStart'
    BY <1>1, <1>2 DEF DInv, OffClean, ReadyToStart
  <1>4. ImageExact' /\ RunningCovered' /\ SourceWrittenThrough'
    BY <1>1 DEF DInv, ImageExact, RunningCovered, Covered, SourceWrittenThrough, ToRead, Started
  <1>5. QED
    BY <1>3, <1>4

\* A channel that completes, or that is handed back, only leaves the scope of
\* the invariant.
LEMMA ResumeDInv ==
  ASSUME CInv, DInv, Resume, UNCHANGED <<dirty, held, wbOn, img>>
  PROVE  ImageExact' /\ ReadyToStart' /\ RunningCovered' /\ SourceWrittenThrough'
  <1>1. pc' = "run" /\ pos' = pos
    BY DEF Resume
  <1>2. \A c \in Chan : run'[c] = "running" => run[c] = "running" /\ reg'[c] = reg[c]
    <2>1. CASE saw
      BY <2>1 DEF Resume, CInv, TypeOK, Control
    <2>2. CASE ~saw
      BY <2>2 DEF Resume
    <2>3. QED
      BY <2>1, <2>2
  <1>3. \A c \in Chan : run'[c] = "idle" /\ reg'[c] # None => run[c] = "idle" /\ reg'[c] = reg[c]
    <2>1. CASE saw
      BY <2>1 DEF Resume, CInv, TypeOK, Control
    <2>2. CASE ~saw
      BY <2>2 DEF Resume
    <2>3. QED
      BY <2>1, <2>2
  <1>4. ImageExact'
    BY <1>3 DEF DInv, ImageExact, Started
  <1>5. ReadyToStart'
    BY <1>1 DEF ReadyToStart
  <1>6. RunningCovered' /\ SourceWrittenThrough'
    BY <1>1, <1>2 DEF DInv, RunningCovered, Covered, SourceWrittenThrough, ToRead
  <1>7. QED
    BY <1>4, <1>5, <1>6

LEMMA DrainRepairDInv ==
  ASSUME CInv, DInv,
         DrainEnd \/ RepairSkip \/ RepairIssue \/ RepairRead \/ RepairStore
  PROVE  ImageExact' /\ ReadyToStart' /\ RunningCovered' /\ SourceWrittenThrough'
  <1>1. UNCHANGED <<dirty, held, wbOn, img>>
    BY DEF DrainEnd, RepairSkip, RepairIssue, RepairRead, RepairStore
  <1>2. Resume \/ (UNCHANGED <<reg, run, pos>> /\ pc' # "ccr")
    BY DEF DrainEnd, RepairSkip, RepairIssue, RepairRead, RepairStore, Advance
  <1>3. QED
    BY <1>1, <1>2, ResumeDInv, QuietDInv

\* A transfer shorter than the hold keeps its pages held, and write-back is
\* switched on only when no channel is programmed.
LEMMA SwitchDInv ==
  ASSUME CInv, DInv, Discipline, WbOff \/ WbOn \/ \E p \in Page : HoldExpires(p)
  PROVE  ImageExact' /\ ReadyToStart' /\ RunningCovered' /\ SourceWrittenThrough'
  <1>1. UNCHANGED <<dirty, img, reg, run, pos>> /\ pc' # "ccr"
    BY DEF WbOff, WbOn, HoldExpires
  <1>2. ReadyToStart' /\ SourceWrittenThrough'
    BY <1>1 DEF ReadyToStart, DInv, SourceWrittenThrough, ToRead
  <1>3. CASE WbOff
    BY <1>2, <1>3 DEF WbOff, ImageExact, RunningCovered
  <1>4. CASE WbOn
    <2>1. \A c \in Chan : reg[c] = None
      BY <1>4 DEF WbOn, Discipline
    <2>2. \A c \in Chan : run[c] # "running"
      BY <2>1, NoneAssumption DEF CInv, Control, Started
    <2>3. QED
      BY <1>1, <1>2, <2>1, <2>2 DEF ImageExact, RunningCovered
  <1>5. ASSUME NEW p \in Page, HoldExpires(p) PROVE ImageExact' /\ RunningCovered'
    <2>1. ImageExact'
      BY <1>1, <1>5 DEF HoldExpires, DInv, ImageExact, Started
    <2>2. \A c \in Chan : run[c] = "running" => p \notin {PageOf[w] : w \in Words(reg[c])}
      BY <1>5 DEF HoldExpires, Discipline
    <2>3. RunningCovered'
      BY <1>1, <1>5, <2>2 DEF HoldExpires, DInv, RunningCovered, Covered
    <2>4. QED
      BY <2>1, <2>3
  <1>6. QED
    BY <1>2, <1>3, <1>4, <1>5

\* A beat moves the channel on: one word less to read.
LEMMA BeatDInv ==
  ASSUME CInv, DInv, NEW c \in Chan, NEW v \in Val, Beat(c, v)
  PROVE  ImageExact' /\ ReadyToStart' /\ RunningCovered' /\ SourceWrittenThrough'
  <1>1. /\ run[c] = "running" /\ reg[c] \in Transfers /\ pos[c] \in Nat
        /\ UNCHANGED <<pc, chn, dirty, held, wbOn, img, reg>>
        /\ pos' = [pos EXCEPT ![c] = @ + 1]
    BY NoneAssumption DEF Beat, CInv, TypeOK, Control, Started
  <1>2. run' = run \/ run' = [run EXCEPT ![c] = "done"]
    BY DEF Beat
  <1>3. \A d \in Chan : /\ run'[d] = "running" => run[d] = "running"
                        /\ run'[d] = "idle" => run[d] = "idle"
    BY <1>1, <1>2 DEF CInv, TypeOK
  <1>4. ImageExact' /\ ReadyToStart' /\ RunningCovered'
    BY <1>1, <1>3 DEF DInv, ImageExact, ReadyToStart, RunningCovered, Covered, Started
  <1>5. ASSUME NEW d \in Chan, run'[d] = "running" PROVE ToRead(d)' \subseteq ToRead(d)
    <2>1. CASE d # c
      BY <1>1, <2>1 DEF ToRead, CInv, TypeOK
    <2>2. CASE d = c
      <3>1. reg[c].from # Device => reg[c].from \in Int /\ reg[c].n \in Nat
        BY <1>1, TransferAssumption, WordAssumption
      <3>2. pos'[c] = pos[c] + 1
        BY <1>1 DEF CInv, TypeOK
      <3>3. QED
        BY <1>1, <2>2, <3>1, <3>2 DEF ToRead
    <2>3. QED
      BY <2>1, <2>2
  <1>6. SourceWrittenThrough'
    BY <1>1, <1>3, <1>5 DEF DInv, SourceWrittenThrough
  <1>7. QED
    BY <1>4, <1>6

LEMMA NextDInv == ASSUME CInv, DInv, Discipline, [Next]_vars PROVE DInv'
  <1>1. OffClean'
    BY OffCleanStep DEF DInv
  <1>2. ImageExact' /\ ReadyToStart' /\ RunningCovered' /\ SourceWrittenThrough'
    <2>1. CASE Core1
      <3>1. CASE FlushWord
        BY <3>1, QuietDInv DEF FlushWord
      <3>2. CASE PollRead \/ Periodic
        BY <3>2, QuietDInv DEF PollRead, Periodic
      <3>3. CASE DrainPop \/ InWaitHook
        <4>1. dirty' \subseteq dirty
          BY <3>3 DEF DrainPop, InWaitHook, PopRecord
        <4>2. QED
          BY <3>3, <4>1, QuietDInv DEF DrainPop, InWaitHook
      <3>4. ASSUME NEW w \in CpuWord, NEW v \in Val, CpuWrite(w, v)
            PROVE  ImageExact' /\ ReadyToStart' /\ RunningCovered' /\ SourceWrittenThrough'
        BY <3>4, CpuWriteDInv, RingAssumption
      <3>5. ASSUME NEW c \in Chan, NEW t \in Transfers, Program(c, t)
            PROVE  ImageExact' /\ ReadyToStart' /\ RunningCovered' /\ SourceWrittenThrough'
        BY <3>5, ProgramDInv
      <3>6. ASSUME NEW c \in Chan, StartDma(c) \/ Poll(c)
            PROVE  ImageExact' /\ ReadyToStart' /\ RunningCovered' /\ SourceWrittenThrough'
        BY <3>6, StartPollDInv
      <3>7. QED
        BY <2>1, <3>1, <3>2, <3>3, <3>4, <3>5, <3>6, FlushDoneDInv, CcrWriteDInv, DrainRepairDInv
        DEF Core1
    <2>2. CASE Core0
      <3>1. ASSUME NEW w \in Ring, NEW v \in Val, Poke(w, v)
            PROVE  ImageExact' /\ ReadyToStart' /\ RunningCovered' /\ SourceWrittenThrough'
        BY <3>1, QuietDInv DEF Poke
      <3>2. QED
        BY <2>2, <3>1, PokeEndDInv, SwitchDInv DEF Core0
    <2>3. CASE Land \/ Release \/ \E c \in Chan : Grant(c)
      BY <2>3, QuietDInv DEF Land, Release, Grant
    <2>4. ASSUME NEW c \in Chan, NEW v \in Val, Beat(c, v)
          PROVE  ImageExact' /\ ReadyToStart' /\ RunningCovered' /\ SourceWrittenThrough'
      BY <2>4, BeatDInv
    <2>5. CASE \E p \in Page : HoldExpires(p)
      BY <2>5, SwitchDInv
    <2>6. CASE UNCHANGED vars
      BY <2>6, QuietDInv
    <2>7. QED
      BY <2>1, <2>2, <2>3, <2>4, <2>5, <2>6 DEF Next, Bus
  <1>3. QED
    BY <1>1, <1>2 DEF DInv

\* No running transfer reads a word whose newest value is still held back in
\* the shadow, provided no transfer outlasts the hold of its pages and
\* write-back is not switched on under a programmed channel.
THEOREM SourceIsWrittenThrough ==
  ASSUME Discipline PROVE Spec => []SourceWrittenThrough
  <1>1. Init => CInv /\ DInv
    BY InitCInv, InitDInv
  <1>2. CInv /\ DInv /\ [Next]_vars => CInv' /\ DInv'
    BY NextCInv, NextDInv
  <1>3. CInv /\ DInv => SourceWrittenThrough
    BY DEF DInv
  <1>4. QED
    BY <1>1, <1>2, <1>3, PTL DEF Spec

\* The write-back of wb_dma_start is complete when the start command goes out.
THEOREM StartIsFlushed ==
  ASSUME Discipline PROVE Spec => []StartFlushed
  <1>1. Init => CInv /\ DInv
    BY InitCInv, InitDInv
  <1>2. CInv /\ DInv /\ [Next]_vars => CInv' /\ DInv'
    BY NextCInv, NextDInv
  <1>3. CInv /\ DInv => StartFlushed
    BY DEF CInv, Control, DInv, ReadyToStart, StartFlushed, Words
  <1>4. QED
    BY <1>1, <1>2, <1>3, PTL DEF Spec

(***************************************************************************)
(* The destination of a transfer: nothing of the CPU's lands on it.        *)
(***************************************************************************)

\* Posting one write adds only its own word to the words in flight.
LEMMA PostAddsOne ==
  ASSUME CInv, NEW w \in Word, NEW v \in Val, Post(w, v), NEW x, PostedTo(x)'
  PROVE  PostedTo(x) \/ x = w
  <1>1. posted \in Seq(PostedWrite) /\ [w |-> w, v |-> v] \in PostedWrite
    BY DEF CInv, TypeOK, PostedWrite
  <1>2. posted' = Append(posted, [w |-> w, v |-> v])
    BY DEF Post
  <1>3. PICK i \in 1..Len(posted') : posted'[i].w = x
    BY DEF PostedTo
  <1>4. Len(posted') = Len(posted) + 1 /\ Len(posted) \in Nat
    BY <1>1, <1>2, AppendProperties
  <1>5. CASE i \in 1..Len(posted)
    <2>1. posted'[i] = posted[i]
      BY <1>1, <1>2, <1>5, AppendProperties
    <2>2. QED
      BY <1>3, <1>5, <2>1 DEF PostedTo
  <1>6. CASE i = Len(posted) + 1
    <2>1. posted'[i] = [w |-> w, v |-> v]
      BY <1>1, <1>2, <1>6, AppendProperties
    <2>2. QED
      BY <1>3, <2>1
  <1>7. QED
    BY <1>4, <1>5, <1>6

LEMMA LandAddsNone ==
  ASSUME CInv, Land, NEW x, PostedTo(x)'
  PROVE  PostedTo(x)
  <1>1. posted \in Seq(PostedWrite) /\ posted # <<>> /\ posted' = Tail(posted)
    BY DEF Land, CInv, TypeOK
  <1>2. PICK i \in 1..Len(posted') : posted'[i].w = x
    BY DEF PostedTo
  <1>3. Len(posted') = Len(posted) - 1 /\ Len(posted) \in Nat
    BY <1>1
  <1>4. i \in Int /\ i + 1 \in 1..Len(posted) /\ posted'[i] = posted[i + 1]
    BY <1>1, <1>2, <1>3
  <1>5. QED
    BY <1>2, <1>4 DEF PostedTo

DestClean ==
    \A c \in Chan : Started(c) => \A w \in Dst(reg[c]) : w \notin dirty /\ ~PostedTo(w)

\* A step that adds no owner, no dirty word and no posted write.
LEMMA QuietDestClean ==
  ASSUME DestClean, dirty' \subseteq dirty,
         \A x : PostedTo(x)' => PostedTo(x),
         \A c \in Chan : Started(c)' => Started(c) /\ reg'[c] = reg[c]
  PROVE  DestClean'
  BY DEF DestClean

\* A step of the CPU or the console that writes word w.
LEMMA WriteDestClean ==
  ASSUME CInv, DestClean, NEW w \in Word, NEW v \in Val,
         (dirty' = dirty \cup {w} /\ UNCHANGED posted) \/ (Post(w, v) /\ dirty' \subseteq dirty),
         UNCHANGED <<run, reg>>,
         \A c \in Chan : Started(c) => w \notin Dst(reg[c])
  PROVE  DestClean'
  <1>1. ASSUME NEW c \in Chan, Started(c)', NEW x \in Dst(reg'[c])
        PROVE  x \notin dirty' /\ ~PostedTo(x)'
    <2>1. Started(c) /\ x \in Dst(reg[c]) /\ x # w
      BY <1>1 DEF Started
    <2>2. x \notin dirty /\ ~PostedTo(x)
      BY <2>1 DEF DestClean
    <2>3. x \notin dirty'
      BY <2>1, <2>2
    <2>4. ~PostedTo(x)'
      <3>1. CASE UNCHANGED posted
        BY <2>2, <3>1 DEF PostedTo
      <3>2. CASE Post(w, v)
        BY <2>1, <2>2, <3>2, PostAddsOne
      <3>3. QED
        BY <3>1, <3>2
    <2>5. QED
      BY <2>3, <2>4
  <1>2. QED
    BY <1>1 DEF DestClean

LEMMA CcrWriteDestClean ==
  ASSUME CInv, DInv, DestClean, CcrWrite
  PROVE  DestClean'
  <1>1. /\ pc = "ccr" /\ posted = <<>> /\ UNCHANGED <<dirty, posted, reg>>
        /\ run' = [run EXCEPT ![chn] = "running"]
    BY DEF CcrWrite, BusIdle
  <1>2. \A x : ~PostedTo(x)'
    BY <1>1 DEF PostedTo
  <1>3. Dst(reg[chn]) \cap dirty = {}
    BY <1>1 DEF DInv, ReadyToStart, Words
  <1>4. \A c \in Chan : Started(c)' => Started(c) \/ c = chn
    BY <1>1 DEF Started, CInv, TypeOK
  <1>5. QED
    BY <1>1, <1>2, <1>3, <1>4 DEF DestClean

LEMMA NextDestClean ==
  ASSUME CInv, DInv, DestClean, [Next]_vars
  PROVE  DestClean'
  <1>1. CASE Core1
    <2>1. ASSUME NEW w \in CpuWord, NEW v \in Val, CpuWrite(w, v) PROVE DestClean'
      <3>1. \A c \in Chan : Started(c) => w \notin Dst(reg[c])
        BY <2>1 DEF CpuWrite, OwnedByDma
      <3>2. UNCHANGED <<run, reg>> /\ w \in Word
        BY <2>1, RingAssumption DEF CpuWrite
      <3>3. (dirty' = dirty \cup {w} /\ UNCHANGED posted) \/ (Post(w, v) /\ dirty' \subseteq dirty)
        BY <2>1 DEF CpuWrite
      <3>4. QED
        BY <3>1, <3>2, <3>3, WriteDestClean
    <2>2. CASE FlushWord
      <3>1. PICK w \in dirty : dirty' = dirty \ {w} /\ Post(w, shadow[w])
        BY <2>2 DEF FlushWord
      <3>2. w \in Word /\ shadow[w] \in Val
        BY <3>1 DEF CInv, TypeOK
      <3>3. \A c \in Chan : Started(c) => w \notin Dst(reg[c])
        BY <3>1 DEF DestClean
      <3>4. UNCHANGED <<run, reg>>
        BY <2>2 DEF FlushWord
      <3>5. QED
        BY <3>1, <3>2, <3>3, <3>4, WriteDestClean
    <2>3. ASSUME NEW c \in Chan, NEW t \in Transfers, Program(c, t) PROVE DestClean'
      <3>1. UNCHANGED <<dirty, posted, run>> /\ ~Started(c) /\ reg' = [reg EXCEPT ![c] = t]
        BY <2>3 DEF Program
      <3>2. \A d \in Chan : Started(d)' => Started(d) /\ reg'[d] = reg[d]
        BY <3>1 DEF Started, CInv, TypeOK
      <3>3. \A x : PostedTo(x)' => PostedTo(x)
        BY <3>1 DEF PostedTo
      <3>4. QED
        BY <3>1, <3>2, <3>3, QuietDestClean
    <2>4. CASE CcrWrite
      BY <2>4, CcrWriteDestClean
    <2>5. CASE \/ \E c \in Chan : StartDma(c) \/ Poll(c)
               \/ FlushDone \/ PollRead \/ Periodic \/ DrainPop \/ InWaitHook
               \/ DrainEnd \/ RepairSkip \/ RepairIssue \/ RepairRead \/ RepairStore
      <3>1. dirty' \subseteq dirty /\ posted' = posted
        BY <2>5 DEF StartDma, Poll, FlushDone, PollRead, Periodic, DrainPop, InWaitHook,
           PopRecord, DrainEnd, RepairSkip, RepairIssue, RepairRead, RepairStore
      <3>2. UNCHANGED <<run, reg>> \/ Resume
        BY <2>5 DEF StartDma, Poll, FlushDone, PollRead, Periodic, DrainPop, InWaitHook,
           DrainEnd, RepairSkip, RepairIssue, RepairRead, RepairStore, Advance
      <3>3. \A c \in Chan : Started(c)' => Started(c) /\ reg'[c] = reg[c]
        <4>1. CASE UNCHANGED <<run, reg>>
          BY <4>1 DEF Started
        <4>2. CASE Resume /\ saw
          BY <4>2 DEF Resume, Started, CInv, TypeOK, Control
        <4>3. CASE Resume /\ ~saw
          BY <4>3 DEF Resume, Started
        <4>4. QED
          BY <3>2, <4>1, <4>2, <4>3
      <3>4. \A x : PostedTo(x)' => PostedTo(x)
        BY <3>1 DEF PostedTo
      <3>5. QED
        BY <3>1, <3>3, <3>4, QuietDestClean
    <2>6. QED
      BY <1>1, <2>1, <2>2, <2>3, <2>4, <2>5 DEF Core1
  <1>2. CASE Core0
    <2>1. ASSUME NEW w \in Ring, NEW v \in Val, Poke(w, v) PROVE DestClean'
      BY <2>1, QuietDestClean DEF Poke, PostedTo, Started
    <2>2. CASE PokeEnd
      <3>1. poked.w \in Ring /\ poked.w \in Word /\ poked.v \in Val
        BY <2>2, RingAssumption DEF PokeEnd, CInv, TypeOK, Control, PostedWrite
      <3>2. \A c \in Chan : Started(c) => poked.w \notin Dst(reg[c])
        BY <3>1, TransferAssumption DEF CInv, Control, Words
      <3>3. /\ UNCHANGED <<run, reg>>
            /\ \/ dirty' = dirty \cup {poked.w} /\ UNCHANGED posted
               \/ Post(poked.w, poked.v) /\ dirty' \subseteq dirty
        BY <2>2 DEF PokeEnd
      <3>4. QED
        BY <3>1, <3>2, <3>3, WriteDestClean
    <2>3. CASE WbOff \/ WbOn
      BY <2>3, QuietDestClean DEF WbOff, WbOn, PostedTo, Started
    <2>4. QED
      BY <1>2, <2>1, <2>2, <2>3 DEF Core0
  <1>3. CASE Land
    BY <1>3, LandAddsNone, QuietDestClean DEF Land, Started
  <1>4. CASE Release \/ \E c \in Chan : Grant(c)
    BY <1>4, QuietDestClean DEF Release, Grant, PostedTo, Started
  <1>5. ASSUME NEW c \in Chan, NEW v \in Val, Beat(c, v) PROVE DestClean'
    <2>1. run[c] = "running" /\ UNCHANGED <<dirty, posted, reg>>
      BY <1>5, NoneAssumption DEF Beat, CInv, TypeOK, Control
    <2>2. run' = run \/ run' = [run EXCEPT ![c] = "done"]
      BY <1>5 DEF Beat
    <2>3. \A d \in Chan : Started(d)' => Started(d)
      BY <2>1, <2>2 DEF Started, CInv, TypeOK
    <2>4. QED
      BY <2>1, <2>3, QuietDestClean DEF PostedTo
  <1>6. CASE \E p \in Page : HoldExpires(p)
    BY <1>6, QuietDestClean DEF HoldExpires, PostedTo, Started
  <1>7. CASE UNCHANGED vars
    BY <1>7, QuietDestClean DEF PostedTo, Started
  <1>8. QED
    BY <1>1, <1>2, <1>3, <1>4, <1>5, <1>6, <1>7 DEF Next, Bus

\* No write of the CPU's is kept for, or on its way to, a word that a started
\* transfer writes: the flush of the destination block and the bus order of
\* the start command see to it.
THEOREM DestinationIsUntouched ==
  ASSUME Discipline PROVE Spec => []DestinationUntouched
  <1>1. Init => CInv /\ DInv /\ DestClean
    <2>1. Init => DestClean
      BY DEF Init, DestClean, Started
    <2>2. QED
      BY <2>1, InitCInv, InitDInv
  <1>2. CInv /\ DInv /\ DestClean /\ [Next]_vars => CInv' /\ DInv' /\ DestClean'
    BY NextCInv, NextDInv, NextDestClean
  <1>3. DestClean => DestinationUntouched
    BY DEF DestClean, DestinationUntouched, OwnedByDma
  <1>4. QED
    BY <1>1, <1>2, <1>3, PTL DEF Spec

-----------------------------------------------------------------------------
(***************************************************************************)
(* Coherence.  As long as only one channel writes RAM at a time, whatever  *)
(* the snoop path still holds is about words that channel has written: a   *)
(* record has the word's value, a range ends before the next word, and so  *)
(* a word that is being re-read does not change under the reader.          *)
(***************************************************************************)
Writes(c) == Started(c) /\ reg[c].to # Device

OneWriter ==
    /\ \A c, d \in Chan : Writes(c) /\ Writes(d) => c = d
    /\ pc \in {"flush", "ccr"} /\ reg[chn].to # Device => \A d \in Chan : ~Writes(d)

Within == \A c \in Chan : Started(c) => pos[c] =< reg[c].n

Written(w) == \E c \in Chan : Started(c) /\ w \in Moved(c)
Records == \A i \in 1..Len(fifo) : fifo[i].v = ram[fifo[i].w] /\ Written(fifo[i].w)

Behind(r) == r # None => \A w \in r.lo .. r.hi : Written(w)
Ranges == Behind(lost) /\ Behind(rep) /\ Behind(win)

Reread ==
    /\ win # None => pc \in {"repair", "read", "store"}
    /\ pc = "store" => got = ram[win.lo]

\* Once a poll has found the writer done, nothing of its words is in the FIFO.
Seen == saw /\ pc # "drain" /\ reg[chn].to # Device => fifo = <<>> /\ lost = None /\ rep = None

\* The write that will land last carries the shadow's value.
LastIs(w, v) == \E i \in 1..Len(posted) :
    posted[i] = [w |-> w, v |-> v] /\ \A j \in 1..Len(posted) : j > i => posted[j].w # w
Latest == \A w \in Word : w \notin Newer /\ PostedTo(w) => LastIs(w, shadow[w])

Agree == \A w \in Word : w \notin Newer /\ ~PostedTo(w) => shadow[w] = ram[w] \/ Noted(w)

\* What core 0 is about to issue is still what it has stored.
Poking == poked # None /\ ~wbOn => shadow[poked.w] = poked.v

KInv == OneWriter /\ Within /\ Records /\ Ranges /\ Reread /\ Seen /\ Latest /\ Agree /\ Poking

All == CInv /\ DInv /\ DestClean /\ KInv

\* What a started channel has written lies in its destination.
LEMMA WrittenOwned ==
  ASSUME CInv, Within, DestClean, NEW w, Written(w)
  PROVE  w \in Word /\ w \in OwnedByDma /\ w \notin Newer /\ w \notin dirty /\ ~PostedTo(w)
  <1>1. PICK c \in Chan : Started(c) /\ w \in Moved(c)
    BY DEF Written
  <1>2. reg[c] \in Transfers /\ pos[c] \in Nat /\ pos[c] =< reg[c].n
    BY <1>1 DEF CInv, TypeOK, Control, Within
  <1>3. reg[c].to # Device /\ reg[c].to \in Int /\ reg[c].n \in Nat
    BY <1>1, <1>2, TransferAssumption, WordAssumption DEF Moved
  <1>4. w \in Dst(reg[c])
    BY <1>1, <1>2, <1>3 DEF Moved, Dst
  <1>5. Dst(reg[c]) \subseteq Word
    BY <1>2, TransferAssumption DEF Words
  <1>6. w \notin Ring
    BY <1>2, <1>4, TransferAssumption DEF Words
  <1>7. w \notin BeingPoked
    BY <1>6 DEF BeingPoked, CInv, Control
  <1> QED BY <1>1, <1>4, <1>5, <1>7 DEF OwnedByDma, DestClean, Newer

\* What a channel has written stays written until it is handed back.
LEMMA WrittenKept ==
  ASSUME CInv, NEW w, Written(w),
         \A c \in Chan : Started(c) => Started(c)' /\ reg'[c] = reg[c] /\ pos'[c] \in Nat /\ pos[c] =< pos'[c]
  PROVE  Written(w)'
  <1>1. PICK c \in Chan : Started(c) /\ w \in Moved(c)
    BY DEF Written
  <1>2. reg[c] \in Transfers /\ pos[c] \in Nat
    BY <1>1 DEF CInv, TypeOK, Control
  <1>3. reg[c].to # Device /\ reg[c].to \in Int
    BY <1>1, <1>2, TransferAssumption, WordAssumption DEF Moved
  <1>4. w \in Moved(c)'
    BY <1>1, <1>2, <1>3 DEF Moved
  <1> QED BY <1>1, <1>4 DEF Written

\* What one channel has written is an interval, so a range that covers two
\* pieces of it covers nothing else.
LEMMA WrittenInterval ==
  ASSUME CInv, OneWriter, NEW lo, NEW hi, Written(lo), Written(hi), NEW x \in Int, lo =< x, x =< hi
  PROVE  Written(x)
  <1>1. PICK c \in Chan : Started(c) /\ lo \in Moved(c)
    BY DEF Written
  <1>2. PICK d \in Chan : Started(d) /\ hi \in Moved(d)
    BY DEF Written
  <1>3. c = d
    BY <1>1, <1>2 DEF OneWriter, Writes, Moved
  <1>4. reg[c] \in Transfers /\ pos[c] \in Nat /\ reg[c].to # Device
    BY <1>1 DEF CInv, TypeOK, Control, Moved
  <1>5. reg[c].to \in Int
    BY <1>4, TransferAssumption, WordAssumption
  <1>6. x \in Moved(c)
    BY <1>1, <1>2, <1>3, <1>4, <1>5 DEF Moved
  <1> QED BY <1>1, <1>6 DEF Written

LEMMA HullBehind ==
  ASSUME CInv, OneWriter, NEW r \in Span \cup {None}, Ordered(r), Behind(r),
         NEW lo \in Word, NEW hi \in Word, lo =< hi, \A w \in lo .. hi : Written(w)
  PROVE  /\ Behind(Hull(r, lo, hi))
         /\ \A x \in Word : In(r, x) => In(Hull(r, lo, hi), x)
         /\ \A x \in Word : lo =< x /\ x =< hi => In(Hull(r, lo, hi), x)
  <1> DEFINE h == Hull(r, lo, hi)
  <1>1. lo \in Int /\ hi \in Int /\ Written(lo) /\ Written(hi)
    BY WordAssumption
  <1>2. h \in Span /\ h # None
    BY HullType, NoneAssumption
  <1>3. CASE r = None
    BY <1>2, <1>3 DEF Hull, Behind, In
  <1>4. CASE r # None
    <2>1. r.lo \in Int /\ r.hi \in Int /\ r.lo =< r.hi
      BY <1>4, WordAssumption DEF Span, Ordered
    <2>2. Written(r.lo) /\ Written(r.hi)
      BY <1>4, <2>1 DEF Behind
    <2>3. /\ h.lo = (IF lo < r.lo THEN lo ELSE r.lo) /\ h.hi = (IF hi > r.hi THEN hi ELSE r.hi)
      BY <1>4 DEF Hull
    <2>4. Written(h.lo) /\ Written(h.hi)
      BY <1>1, <2>2, <2>3
    <2>5. Behind(h)
      BY <1>1, <2>1, <2>3, <2>4, WrittenInterval DEF Behind
    <2>6. ASSUME NEW x \in Word, In(r, x) PROVE In(h, x)
      <3>1. x \in Int /\ r.lo =< x /\ x =< r.hi
        BY <2>6, WordAssumption DEF In
      <3> HIDE DEF h
      <3> QED BY <1>1, <1>2, <2>1, <2>3, <3>1 DEF In
    <2>7. ASSUME NEW x \in Word, lo =< x, x =< hi PROVE In(h, x)
      <3>1. x \in Int
        BY WordAssumption
      <3> HIDE DEF h
      <3> QED BY <1>1, <1>2, <2>1, <2>3, <2>7, <3>1 DEF In
    <2> QED BY <2>5, <2>6, <2>7
  <1> QED BY <1>3, <1>4

LEMMA PostedLast ==
  ASSUME CInv, NEW w \in Word, NEW v \in Val, Post(w, v)
  PROVE  /\ PostedTo(w)' /\ LastIs(w, v)'
         /\ \A x : x # w => /\ PostedTo(x)' <=> PostedTo(x)
                            /\ \A u : LastIs(x, u) => LastIs(x, u)'
  <1> DEFINE e == [w |-> w, v |-> v]
  <1>1. posted \in Seq(PostedWrite) /\ e \in PostedWrite /\ posted' = Append(posted, e)
    BY DEF CInv, TypeOK, PostedWrite, Post
  <1>2. /\ Len(posted') = Len(posted) + 1 /\ Len(posted) \in Nat
        /\ posted'[Len(posted) + 1] = e
        /\ \A i \in 1..Len(posted) : posted'[i] = posted[i]
    BY <1>1, AppendProperties
  <1>3. PostedTo(w)' /\ LastIs(w, v)'
    BY <1>2 DEF PostedTo, LastIs
  <1>4. ASSUME NEW x, x # w PROVE PostedTo(x)' <=> PostedTo(x)
    BY <1>2, <1>4 DEF PostedTo
  <1>5. ASSUME NEW x, x # w, NEW u, LastIs(x, u) PROVE LastIs(x, u)'
    <2>1. PICK i \in 1..Len(posted) : posted[i] = [w |-> x, v |-> u]
             /\ \A j \in 1..Len(posted) : j > i => posted[j].w # x
      BY <1>5 DEF LastIs
    <2>2. i \in 1..Len(posted') /\ posted'[i] = [w |-> x, v |-> u]
      BY <1>2, <2>1
    <2>3. ASSUME NEW j \in 1..Len(posted'), j > i PROVE posted'[j].w # x
      BY <1>2, <1>5, <2>1, <2>3
    <2> QED BY <2>2, <2>3 DEF LastIs
  <1> QED BY <1>3, <1>4, <1>5

LEMMA LandedLast ==
  ASSUME CInv, Land
  PROVE  LET h == Head(posted)
         IN  /\ h \in PostedWrite /\ PostedTo(h.w)
             /\ \A x : PostedTo(x)' => PostedTo(x)
             /\ \A x : PostedTo(x) /\ ~PostedTo(x)' => x = h.w
             /\ \A x, u : LastIs(x, u) => LastIs(x, u)' \/ (x = h.w /\ u = h.v /\ ~PostedTo(x)')
  <1> DEFINE h == Head(posted)
  <1>1. posted \in Seq(PostedWrite) /\ posted # <<>> /\ posted' = Tail(posted)
    BY DEF Land, CInv, TypeOK
  <1>2. /\ Len(posted) \in Nat \ {0} /\ Len(posted') = Len(posted) - 1
        /\ \A i \in 1..Len(posted') : posted'[i] = posted[i + 1]
        /\ h = posted[1] /\ h \in PostedWrite
    BY <1>1
  <1>3. PostedTo(h.w)
    BY <1>2 DEF PostedTo
  <1>4. ASSUME NEW x, PostedTo(x)' PROVE PostedTo(x)
    BY <1>4, LandAddsNone
  <1>5. ASSUME NEW x, NEW i \in 1..Len(posted), i # 1, posted[i].w = x PROVE PostedTo(x)'
    <2>1. i - 1 \in 1..Len(posted') /\ posted'[i - 1] = posted[i]
      BY <1>2, <1>5
    <2> QED BY <1>5, <2>1 DEF PostedTo
  <1>6. ASSUME NEW x, PostedTo(x), ~PostedTo(x)' PROVE x = h.w
    BY <1>2, <1>5, <1>6 DEF PostedTo
  <1>7. ASSUME NEW x, NEW u, LastIs(x, u) PROVE LastIs(x, u)' \/ (x = h.w /\ u = h.v /\ ~PostedTo(x)')
    <2>1. PICK i \in 1..Len(posted) : posted[i] = [w |-> x, v |-> u]
             /\ \A j \in 1..Len(posted) : j > i => posted[j].w # x
      BY <1>7 DEF LastIs
    <2>2. CASE i = 1
      <3>1. \A j \in 1..Len(posted') : posted'[j].w # x
        BY <1>2, <2>1, <2>2
      <3> QED BY <1>2, <2>1, <2>2, <3>1 DEF PostedTo
    <2>3. CASE i # 1
      <3>1. i - 1 \in 1..Len(posted') /\ posted'[i - 1] = [w |-> x, v |-> u]
        BY <1>2, <2>1, <2>3
      <3>2. ASSUME NEW j \in 1..Len(posted'), j > i - 1 PROVE posted'[j].w # x
        BY <1>2, <2>1, <3>2
      <3> QED BY <3>1, <3>2 DEF LastIs
    <2> QED BY <2>2, <2>3
  <1> QED BY <1>2, <1>3, <1>4, <1>6, <1>7

-----------------------------------------------------------------------------
Chain == OneWriter /\ Within /\ Records /\ Ranges /\ Reread /\ Seen

\* A step that leaves the snoop path, the RAM and the channels alone.
LEMMA QuietChain ==
  ASSUME CInv, Chain, UNCHANGED <<ram, fifo, lost, rep, run, pos, got, win>>,
         \A c \in Chan : Started(c) => reg'[c] = reg[c],
         saw' => saw /\ chn' = chn,
         saw' /\ pc' # "drain" => pc # "drain",
         pc' \in {"flush", "ccr"} => pc \in {"flush", "ccr"} /\ UNCHANGED <<chn, reg>>,
         win # None => pc' \in {"repair", "read", "store"},
         pc' = "store" => pc = "store"
  PROVE  Chain'
  <1> USE DEF Chain
  <1>1. \A c \in Chan : Started(c)' <=> Started(c)
    BY DEF Started
  <1>2. OneWriter' /\ Within'
    BY <1>1 DEF OneWriter, Within, Writes
  <1>3. \A w : Written(w) => Written(w)'
    BY <1>1 DEF Written, Moved
  <1>4. Records' /\ Ranges'
    BY <1>3 DEF Records, Ranges, Behind
  <1>5. Reread'
    BY DEF Reread
  <1>6. Seen'
    <2>1. saw => Started(chn) /\ chn \in Chan
      BY DEF CInv, Control, Started
    <2> QED BY <2>1 DEF Seen
  <1> QED BY <1>2, <1>4, <1>5, <1>6

\* A step that changes no memory and no write, and forgets no record.
LEMMA QuietAgree ==
  ASSUME Latest, Agree, Poking, UNCHANGED <<shadow, ram, posted, dirty, poked>>, poked # None => wbOn' = wbOn,
         \A w \in Word : Noted(w) => Noted(w)' \/ shadow[w] = ram[w]
  PROVE  Latest' /\ Agree' /\ Poking'
  BY DEF Latest, Agree, LastIs, PostedTo, Poking, Newer, BeingPoked

\* A word written, and marked or issued, by the same store.
LEMMA WrittenAgree ==
  ASSUME CInv, Latest, Agree, NEW w \in Word, NEW v \in Val, shadow' = [shadow EXCEPT ![w] = v],
         UNCHANGED <<ram, fifo, lost, rep, win>>,
         \/ Newer' = Newer \cup {w} /\ UNCHANGED posted
         \/ Newer' \in {Newer, Newer \ {w}} /\ Post(w, v)
  PROVE  Latest' /\ Agree'
  <1>1. shadow \in [Word -> Val]
    BY DEF CInv, TypeOK
  <1>2. \A x : Noted(x)' <=> Noted(x)
    BY DEF Noted, In
  <1>3. ASSUME Newer' = Newer \cup {w}, UNCHANGED posted PROVE Latest' /\ Agree'
    BY <1>1, <1>2, <1>3 DEF Latest, Agree, LastIs, PostedTo
  <1>4. ASSUME Post(w, v), Newer' \in {Newer, Newer \ {w}} PROVE Latest' /\ Agree'
    <2>1. ASSUME NEW x \in Word, x \notin Newer', PostedTo(x)', x # w PROVE LastIs(x, shadow[x])'
      BY <1>4, <1>1, <2>1, PostedLast DEF Latest
    <2>2. LastIs(w, v)'
      BY <1>4, PostedLast
    <2>3. ASSUME NEW x \in Word, x \notin Newer', ~PostedTo(x)' PROVE x # w /\ (shadow[x] = ram[x] \/ Noted(x))
      BY <1>4, <2>3, PostedLast DEF Agree
    <2>4. Latest'
      BY <1>1, <2>1, <2>2 DEF Latest
    <2>5. Agree'
      BY <1>1, <1>2, <2>3 DEF Agree
    <2> QED BY <2>4, <2>5
  <1> QED BY <1>3, <1>4

LEMMA CpuWriteK ==
  ASSUME All, ~PokeRaces, NEW w \in Word, NEW v \in Val, CpuWrite(w, v)
  PROVE  KInv'
  <1>1. Chain'
    BY QuietChain DEF All, KInv, Chain, CpuWrite, CInv, Control, Reread
  <1>2. /\ shadow' = [shadow EXCEPT ![w] = v] /\ shadow \in [Word -> Val]
        /\ UNCHANGED <<ram, fifo, lost, rep, win, poked, wbOn>>
    BY DEF CpuWrite, All, CInv, TypeOK
  <1>3. (dirty' = dirty \cup {w} /\ UNCHANGED posted) \/ (UNCHANGED dirty /\ Post(w, v))
    BY DEF CpuWrite
  <1>4. (Newer' = Newer \cup {w} /\ UNCHANGED posted) \/ (Newer' = Newer /\ Post(w, v))
    BY <1>2, <1>3 DEF Newer, BeingPoked
  <1>5. Latest' /\ Agree'
    BY <1>2, <1>4, WrittenAgree DEF All, KInv
  <1>6. Poking'
    BY <1>2 DEF CpuWrite, BeingPoked, Poking, All, KInv
  <1> QED BY <1>1, <1>5, <1>6 DEF KInv, Chain

\* Core 0 stores the word, and then marks it or issues the write: in between
\* the shadow alone has it.
LEMMA PokeK ==
  ASSUME All, NEW w \in Ring, NEW v \in Val, Poke(w, v)
  PROVE  KInv'
  <1>1. Chain'
    BY QuietChain DEF All, KInv, Chain, Poke, CInv, Control, Reread
  <1>2. /\ shadow' = [shadow EXCEPT ![w] = v] /\ shadow \in [Word -> Val] /\ w \in Word
        /\ UNCHANGED <<ram, fifo, lost, rep, win, posted, dirty, wbOn>>
        /\ poked = None /\ poked' = [w |-> w, v |-> v] /\ poked' # None
    <2>1. [w |-> w, v |-> v] \in PostedWrite
      BY RingAssumption DEF PostedWrite
    <2> QED BY <2>1, RingAssumption, NoneAssumption DEF Poke, All, CInv, TypeOK
  <1>3. Newer' = Newer \cup {w}
    BY <1>2 DEF Newer, BeingPoked
  <1>4. Latest' /\ Agree'
    BY <1>2, <1>3, WrittenAgree DEF All, KInv
  <1>5. Poking'
    BY <1>2 DEF Poking
  <1> QED BY <1>1, <1>4, <1>5 DEF KInv, Chain

LEMMA PokeEndK == ASSUME All, PokeEnd PROVE KInv'
  <1>1. Chain'
    BY QuietChain DEF All, KInv, Chain, PokeEnd, CInv, Control, Reread
  <1>2. PICK w \in Word, v \in Val : w = poked.w /\ v = poked.v
    BY DEF PokeEnd, All, CInv, TypeOK, PostedWrite
  <1>3. /\ UNCHANGED <<shadow, ram, fifo, lost, rep, win, wbOn>> /\ shadow \in [Word -> Val]
        /\ poked # None /\ poked' = None
    BY DEF PokeEnd, All, CInv, TypeOK
  <1>4. Poking'
    BY <1>3 DEF Poking
  <1>5. CASE wbOn
    <2>1. dirty' = dirty \cup {w} /\ UNCHANGED posted
      BY <1>2, <1>5 DEF PokeEnd
    <2>2. Newer' = Newer
      BY <1>2, <1>3, <2>1 DEF Newer, BeingPoked
    <2>3. \A x : Noted(x)' <=> Noted(x)
      BY <1>3 DEF Noted, In
    <2>4. Latest' /\ Agree'
      BY <1>3, <2>1, <2>2, <2>3 DEF Latest, Agree, LastIs, PostedTo, All, KInv
    <2> QED BY <1>1, <1>4, <2>4 DEF KInv, Chain
  <1>6. CASE ~wbOn
    <2>1. Post(w, v) /\ dirty' = dirty /\ shadow[w] = v
      BY <1>2, <1>3, <1>6 DEF PokeEnd, Poking, All, KInv
    <2>2. Newer' \in {Newer, Newer \ {w}}
      BY <1>2, <1>3, <2>1 DEF Newer, BeingPoked
    <2>3. shadow' = [shadow EXCEPT ![w] = v]
      BY <1>3, <2>1
    <2>4. Latest' /\ Agree'
      BY <1>3, <2>1, <2>2, <2>3, WrittenAgree DEF All, KInv
    <2> QED BY <1>1, <1>4, <2>4 DEF KInv, Chain
  <1> QED BY <1>5, <1>6

LEMMA QuietK ==
  ASSUME All, Chain', UNCHANGED <<shadow, ram, posted, dirty, fifo, lost, rep, win, poked>>,
         poked # None => wbOn' = wbOn
  PROVE  KInv'
  <1>1. \A w : Noted(w)' <=> Noted(w)
    BY DEF Noted, In
  <1>2. Latest' /\ Agree' /\ Poking'
    BY <1>1, QuietAgree DEF All, KInv
  <1> QED BY <1>2 DEF KInv, Chain

LEMMA ProgramK ==
  ASSUME All, NEW c \in Chan, NEW t \in Transfers, Program(c, t)
  PROVE  KInv'
  <1>1. Chain'
    <2>1. \A d \in Chan : Started(d) => reg'[d] = reg[d]
      BY DEF Program, All, CInv, TypeOK
    <2>2. win = None /\ pc = "run"
      BY DEF Program, All, KInv, Reread
    <2> QED BY <2>1, <2>2, QuietChain DEF Program, All, KInv, Chain
  <1> QED BY <1>1, QuietK DEF Program

LEMMA StartPollK ==
  ASSUME All, ~TwoWriters, NEW c \in Chan, StartDma(c) \/ Poll(c)
  PROVE  KInv'
  <1>1. win = None /\ pc = "run" /\ ~saw /\ UNCHANGED <<ram, fifo, lost, rep, run, pos, got, win, saw, reg>>
    BY DEF StartDma, Poll, All, KInv, Reread, CInv, Control
  <1>2. OneWriter'
    <2>1. CASE Poll(c)
      BY <2>1 DEF Poll, OneWriter, Writes, Started, All, KInv
    <2>2. CASE StartDma(c)
      <3>1. chn' = c /\ reg' = reg /\ run' = run
        BY <2>2 DEF StartDma
      <3>2. ASSUME NEW d \in Chan, Writes(d) PROVE Dst(reg[d]) # {} /\ Dst(reg[d]) \subseteq OwnedByDma
        <4>1. reg[d] \in Transfers /\ reg[d].to # Device /\ Started(d)
          BY <3>2 DEF Writes, All, CInv, Control
        <4>2. reg[d].to \in Int /\ reg[d].n \in Nat \ {0}
          BY <4>1, TransferAssumption, WordAssumption
        <4>3. reg[d].to \in Dst(reg[d])
          BY <4>1, <4>2 DEF Dst
        <4> QED BY <4>1, <4>3 DEF OwnedByDma
      <3>3. reg[c] \in Transfers
        BY <2>2 DEF StartDma, All, CInv, TypeOK
      <3>4. ASSUME reg[c].to # Device PROVE Dst(reg[c]) # {}
        <4>1. reg[c].to \in Int /\ reg[c].n \in Nat \ {0}
          BY <3>3, <3>4, TransferAssumption, WordAssumption
        <4>2. reg[c].to \in Dst(reg[c])
          BY <3>4, <4>1 DEF Dst
        <4> QED BY <4>2
      <3>5. reg[c].to # Device => \A d \in Chan : ~Writes(d)
        BY <2>2, <3>2, <3>4 DEF StartDma
      <3> QED BY <3>1, <3>5 DEF OneWriter, Writes, Started, All, KInv
    <2> QED BY <2>1, <2>2
  <1>3. Within' /\ Records' /\ Ranges' /\ Reread' /\ Seen'
    <2>1. \A d \in Chan : Started(d)' <=> Started(d)
      BY <1>1 DEF Started
    <2>2. \A w : Written(w)' <=> Written(w)
      BY <1>1, <2>1 DEF Written, Moved
    <2>3. pc' # "store"
      BY DEF StartDma, Poll
    <2> QED BY <1>1, <2>1, <2>2, <2>3 DEF All, KInv, Within, Records, Ranges, Behind, Reread, Seen
  <1> QED BY <1>1, <1>2, <1>3, QuietK DEF Chain, StartDma, Poll

LEMMA FlushWordK == ASSUME All, FlushWord PROVE KInv'
  <1>1. Chain'
    BY QuietChain DEF All, KInv, Chain, FlushWord, CInv, Control, Reread
  <1>2. PICK w \in dirty : dirty' = dirty \ {w} /\ Post(w, shadow[w])
    BY DEF FlushWord
  <1>3. w \in Word /\ shadow[w] \in Val /\ UNCHANGED <<shadow, ram, fifo, lost, rep, win>>
    BY DEF All, CInv, TypeOK, FlushWord
  <1>4. poked' = poked /\ wbOn' = wbOn /\ shadow' = [shadow EXCEPT ![w] = shadow[w]]
    BY <1>3 DEF FlushWord, All, CInv, TypeOK
  <1>5. Newer' \in {Newer, Newer \ {w}}
    BY <1>2, <1>4 DEF Newer, BeingPoked
  <1>6. Latest' /\ Agree'
    BY <1>2, <1>3, <1>4, <1>5, WrittenAgree DEF All, KInv
  <1>7. Poking'
    BY <1>3, <1>4 DEF Poking, All, KInv
  <1> QED BY <1>1, <1>6, <1>7 DEF KInv, Chain

LEMMA QuietStepsK ==
  ASSUME All, FlushDone \/ PollRead \/ Periodic \/ WbOff \/ WbOn \/ RepairIssue
              \/ Release \/ (\E c \in Chan : Grant(c)) \/ \E p \in Page : HoldExpires(p)
  PROVE  KInv'
  <1>1. /\ UNCHANGED <<shadow, ram, posted, dirty, fifo, lost, rep, win, run, pos, got, reg, poked>>
        /\ poked # None => wbOn' = wbOn
    BY DEF FlushDone, PollRead, Periodic, WbOff, WbOn, RepairIssue, Release, Grant, HoldExpires
  <1>2. CASE PollRead
    <2>1. ~saw /\ pc = "poll" /\ pc' = "drain" /\ win = None
      BY <1>2 DEF PollRead, All, KInv, Reread, CInv, Control
    <2>2. \A d \in Chan : Started(d)' <=> Started(d)
      BY <1>1 DEF Started
    <2>3. \A w : Written(w)' <=> Written(w)
      BY <1>1, <2>2 DEF Written, Moved
    <2>4. Chain'
      BY <1>1, <2>1, <2>2, <2>3 DEF All, KInv, Chain, OneWriter, Writes, Within, Records, Ranges, Behind, Reread, Seen
    <2> QED BY <1>1, <2>4, QuietK
  <1>3. CASE ~PollRead
    <2>1. Chain'
      BY <1>1, <1>3, QuietChain DEF All, KInv, Chain, CInv, Control, Reread, FlushDone, Periodic, WbOff, WbOn,
         RepairIssue, Release, Grant, HoldExpires
    <2> QED BY <1>1, <2>1, QuietK
  <1> QED BY <1>2, <1>3

\* The channel that starts has written nothing yet.
LEMMA CcrWriteK == ASSUME All, CcrWrite PROVE KInv'
  <1>1. /\ pc = "ccr" /\ chn \in Chan /\ ~Started(chn) /\ reg[chn] \in Transfers /\ ~saw
        /\ run' = [run EXCEPT ![chn] = "running"] /\ pos' = [pos EXCEPT ![chn] = 0]
        /\ UNCHANGED <<shadow, ram, posted, dirty, fifo, lost, rep, win, got, saw, reg, poked, wbOn>>
        /\ pc' = "run" /\ win = None
    BY DEF CcrWrite, All, KInv, CInv, Control, Reread
  <1>2. \A d \in Chan : /\ Started(d)' <=> Started(d) \/ d = chn
                        /\ d # chn => run'[d] = run[d] /\ pos'[d] = pos[d]
    BY <1>1 DEF Started, All, CInv, TypeOK
  <1>3. OneWriter'
    BY <1>1, <1>2 DEF OneWriter, Writes, All, KInv
  <1>4. pos'[chn] = 0 /\ reg[chn].n \in Nat
    BY <1>1, TransferAssumption DEF All, CInv, TypeOK
  <1>5. Within'
    BY <1>1, <1>2, <1>4 DEF Within, All, KInv
  <1>6. ASSUME NEW w, Written(w) PROVE Written(w)'
    <2>1. PICK d \in Chan : Started(d) /\ w \in Moved(d)
      BY <1>6 DEF Written
    <2>2. d # chn
      BY <1>1, <2>1
    <2> QED BY <1>1, <1>2, <2>1, <2>2 DEF Written, Moved
  <1>7. Records' /\ Ranges' /\ Reread' /\ Seen'
    BY <1>1, <1>6 DEF Records, Ranges, Behind, Reread, Seen, All, KInv
  <1> QED BY <1>1, <1>3, <1>5, <1>7, QuietK DEF Chain

\* A record has the value of its word; a range goes on waiting to be re-read.
LEMMA PopK == ASSUME All, DrainPop \/ InWaitHook PROVE KInv'
  <1>1. PopRecord /\ UNCHANGED <<pc, chn, saw, win, got, posted, ram, reg, run, pos, poked, wbOn>>
    BY DEF DrainPop, InWaitHook
  <1>2. \A w : Written(w)' <=> Written(w)
    BY <1>1 DEF Written, Moved, Started
  <1>3. OneWriter' /\ Within' /\ Reread'
    BY <1>1 DEF OneWriter, Writes, Within, Started, Reread, All, KInv
  <1>4. CASE fifo # <<>>
    <2> DEFINE h == Head(fifo)
    <2>1. /\ fifo \in Seq(PostedWrite) /\ fifo' = Tail(fifo) /\ UNCHANGED <<lost, rep>>
          /\ shadow' = [shadow EXCEPT ![h.w] = h.v] /\ dirty' = dirty \ {h.w}
          /\ shadow \in [Word -> Val]
      BY <1>1, <1>4 DEF PopRecord, All, CInv, TypeOK
    <2>2. /\ Len(fifo) \in Nat \ {0} /\ Len(fifo') = Len(fifo) - 1 /\ h = fifo[1] /\ h \in PostedWrite
          /\ \A i \in 1..Len(fifo') : fifo'[i] = fifo[i + 1]
      BY <1>4, <2>1
    <2>3. h.v = ram[h.w] /\ Written(h.w)
      BY <2>2 DEF Records, All, KInv
    <2>4. h.w \in Word /\ h.w \notin Newer /\ h.w \notin dirty /\ ~PostedTo(h.w)
      BY <2>3, WrittenOwned DEF All, KInv
    <2>5. Records'
      <3>1. ASSUME NEW i \in 1..Len(fifo') PROVE fifo'[i].v = ram[fifo'[i].w] /\ Written(fifo'[i].w)
        <4>1. i + 1 \in 1..Len(fifo) /\ fifo'[i] = fifo[i + 1]
          BY <2>2
        <4> QED BY <4>1 DEF Records, All, KInv
      <3> QED BY <1>1, <1>2, <3>1 DEF Records
    <2>6. Ranges'
      BY <1>1, <1>2, <2>1 DEF Ranges, Behind, All, KInv
    <2>7. Seen'
      BY <1>1, <1>4, <2>1 DEF Seen, All, KInv
    <2>8. ASSUME NEW x, x # h.w, Noted(x) PROVE Noted(x)'
      <3>1. CASE \E i \in 1..Len(fifo) : fifo[i].w = x
        <4>1. PICK i \in 1..Len(fifo) : fifo[i].w = x
          BY <3>1
        <4>2. i - 1 \in 1..Len(fifo') /\ fifo'[i - 1].w = x
          BY <2>2, <2>8, <4>1
        <4> QED BY <4>2 DEF Noted
      <3>2. CASE In(lost, x) \/ In(rep, x) \/ In(win, x)
        BY <1>1, <2>1, <3>2 DEF Noted, In
      <3> QED BY <2>8, <3>1, <3>2 DEF Noted
    <2> HIDE DEF h
    <2>11. Newer' = Newer /\ Poking'
      BY <1>1, <2>1, <2>4 DEF Newer, BeingPoked, Poking, All, KInv
    <2>9. Latest'
      BY <1>1, <2>1, <2>4, <2>11 DEF Latest, LastIs, PostedTo, All, KInv
    <2>10. Agree'
      <3>1. ASSUME NEW x \in Word, x \notin Newer', ~PostedTo(x)' PROVE (shadow[x] = ram[x] \/ Noted(x))'
        <4>1. CASE x = h.w
          BY <1>1, <2>1, <2>3, <4>1
        <4>2. CASE x # h.w
          <5>1. x \notin Newer /\ ~PostedTo(x) /\ shadow'[x] = shadow[x]
            BY <1>1, <2>1, <2>11, <3>1, <4>2 DEF PostedTo
          <5>2. shadow[x] = ram[x] \/ Noted(x)
            BY <5>1 DEF Agree, All, KInv
          <5> QED BY <1>1, <2>8, <4>2, <5>1, <5>2
        <4> QED BY <4>1, <4>2
      <3> QED BY <3>1 DEF Agree
    <2> QED BY <1>3, <2>5, <2>6, <2>7, <2>9, <2>10, <2>11 DEF KInv
  <1>5. CASE fifo = <<>>
    <2>1. /\ fifo' = fifo /\ lost # None /\ rep' = Hull(rep, lost.lo, lost.hi) /\ lost' = None
          /\ UNCHANGED <<shadow, dirty>>
      BY <1>1, <1>5 DEF PopRecord
    <2>2. lost \in Span /\ rep \in Span \cup {None} /\ Ordered(rep) /\ Ordered(lost)
      BY <2>1 DEF All, CInv, TypeOK, Control
    <2>3. lost.lo \in Word /\ lost.hi \in Word /\ lost.lo =< lost.hi
          /\ \A w \in lost.lo .. lost.hi : Written(w)
      BY <2>1, <2>2 DEF Span, Ordered, All, KInv, Ranges, Behind
    <2>4. /\ Behind(rep') /\ \A x \in Word : In(rep, x) => In(rep', x)
          /\ \A x \in Word : In(lost, x) => In(rep', x)
      BY <2>1, <2>2, <2>3, HullBehind DEF All, KInv, Ranges, In
    <2>5. Ranges' /\ Records'
      BY <1>1, <1>2, <2>1, <2>4 DEF Ranges, Behind, Records, All, KInv
    <2>6. Seen'
      BY <1>1, <2>1 DEF Seen, All, KInv
    <2>7. \A x \in Word : Noted(x) => Noted(x)'
      BY <1>1, <2>1, <2>4 DEF Noted, In
    <2>8. Latest' /\ Agree' /\ Poking'
      BY <1>1, <2>1, <2>7, QuietAgree DEF All, KInv
    <2> QED BY <1>3, <2>5, <2>6, <2>8 DEF KInv
  <1> QED BY <1>4, <1>5

\* The range stays behind the writer, so what is read for it stays true.
LEMMA RepairReadK == ASSUME All, RepairRead PROVE KInv'
  <1>1. /\ UNCHANGED <<shadow, ram, posted, dirty, fifo, lost, rep, win, run, pos, reg, saw, chn, poked, wbOn>>
        /\ got' = ram[win.lo] /\ pc = "read" /\ pc' = "store"
    BY DEF RepairRead
  <1>2. \A w : Written(w)' <=> Written(w)
    BY <1>1 DEF Written, Moved, Started
  <1>3. Chain'
    BY <1>1, <1>2 DEF Chain, OneWriter, Writes, Within, Started, Records, Ranges, Behind, Reread, Seen, All, KInv
  <1> QED BY <1>1, <1>3, QuietK

\* Handing back a channel takes its words out of the accounting: there is
\* nothing left to account for.
LEMMA ResumeChain ==
  ASSUME All, Resume, win' = None, UNCHANGED <<ram, fifo, lost, rep>>,
         saw /\ reg[chn].to # Device => fifo = <<>> /\ lost = None /\ rep = None
  PROVE  Chain'
  <1>1. pc' = "run" /\ ~saw' /\ pos' = pos
    BY DEF Resume
  <1>2. Reread' /\ Seen'
    BY <1>1 DEF Reread, Seen
  <1>3. CASE ~saw
    <2>1. \A w : Written(w)' <=> Written(w)
      BY <1>1, <1>3 DEF Resume, Written, Moved, Started
    <2>2. OneWriter' /\ Within' /\ Records' /\ Ranges'
      BY <1>1, <1>3, <2>1 DEF Resume, OneWriter, Writes, Started, Within, Records, Ranges, Behind, All, KInv
    <2> QED BY <1>2, <2>2 DEF Chain
  <1>4. CASE saw
    <2>1. /\ run' = [run EXCEPT ![chn] = "idle"] /\ reg' = [reg EXCEPT ![chn] = None]
          /\ chn \in Chan /\ Started(chn)
      BY <1>4 DEF Resume, All, CInv, Control, Started
    <2>2. \A d \in Chan : /\ Started(d)' <=> Started(d) /\ d # chn
                          /\ d # chn => reg'[d] = reg[d]
      BY <2>1 DEF Started, All, CInv, TypeOK
    <2>3. OneWriter' /\ Within'
      BY <1>1, <2>2 DEF OneWriter, Writes, Within, All, KInv
    <2>4. CASE reg[chn].to = Device
      <3>1. \A w : Written(w) => Written(w)'
        BY <1>1, <2>1, <2>2, <2>4 DEF Written, Moved
      <3> QED BY <1>2, <2>3, <3>1 DEF Chain, Records, Ranges, Behind, All, KInv
    <2>5. CASE reg[chn].to # Device
      <3>1. Records' /\ Ranges'
        BY <1>4, <2>5 DEF Records, Ranges, Behind
      <3> QED BY <1>2, <2>3, <3>1 DEF Chain
    <2> QED BY <2>4, <2>5
  <1> QED BY <1>3, <1>4

LEMMA DrainEndK == ASSUME All, DrainEnd PROVE KInv'
  <1>1. /\ pc = "drain" /\ fifo = <<>> /\ lost = None /\ win = None
        /\ UNCHANGED <<shadow, ram, posted, dirty, fifo, lost, got, poked, wbOn>>
    BY DEF Resume, DrainEnd, Avail, All, KInv, Reread
  <1>2. CASE rep # None
    <2>1. /\ pc' = "repair" /\ win' = rep /\ rep' = None /\ UNCHANGED <<chn, saw, reg, run, pos>>
      BY <1>2 DEF DrainEnd
    <2>2. \A w : Written(w)' <=> Written(w)
      BY <2>1 DEF Written, Moved, Started
    <2>3. Chain'
      BY <1>1, <2>1, <2>2 DEF Chain, OneWriter, Writes, Within, Started, Records, Ranges, Behind, Reread, Seen, All, KInv
    <2>4. \A w \in Word : Noted(w) => Noted(w)'
      BY <1>1, <2>1 DEF Noted, In
    <2> QED BY <1>1, <2>3, <2>4, QuietAgree DEF Chain, KInv, All
  <1>3. CASE rep = None
    <2>1. Resume /\ UNCHANGED <<win, rep>>
      BY <1>3 DEF DrainEnd
    <2>2. Chain'
      BY <1>1, <1>3, <2>1, ResumeChain
    <2>3. \A w \in Word : Noted(w) => Noted(w)'
      BY <1>1, <2>1 DEF Noted, In
    <2> QED BY <1>1, <2>2, <2>3, QuietAgree DEF Chain, KInv, All
  <1> QED BY <1>2, <1>3

LEMMA WinWritten ==
  ASSUME CInv, Ranges, win # None
  PROVE  win \in Span /\ win.lo \in Word /\ win.hi \in Word /\ win.lo =< win.hi /\ Written(win.lo)
  <1>1. win \in Span /\ win.lo \in Word /\ win.hi \in Word /\ win.lo =< win.hi
    BY DEF CInv, TypeOK, Control, Ordered, Span
  <1>2. win.lo \in win.lo .. win.hi
    <2>1. win.lo \in Int /\ win.hi \in Int
      BY <1>1, WordAssumption
    <2> QED BY <1>1, <2>1
  <1> QED BY <1>1, <1>2 DEF Ranges, Behind

\* sn_repair: the word re-read is right, and the rest of the range follows.
LEMMA RepairStoreK == ASSUME All, RepairSkip \/ RepairStore PROVE KInv'
  <1>1. win # None /\ pc # "drain"
    BY DEF RepairSkip, RepairStore, All, CInv, Control
  <1>2. win \in Span /\ win.lo \in Word /\ win.hi \in Word /\ win.lo =< win.hi /\ Written(win.lo)
    BY <1>1, WinWritten DEF All, KInv
  <1>3. win.lo \notin Newer /\ win.lo \notin dirty /\ ~PostedTo(win.lo)
    BY <1>2, WrittenOwned DEF All, KInv
  <1>4. /\ RepairStore /\ got = ram[win.lo] /\ Advance
        /\ shadow' = [shadow EXCEPT ![win.lo] = got] /\ shadow \in [Word -> Val]
        /\ UNCHANGED <<ram, posted, dirty, fifo, lost, rep, poked, wbOn>>
    BY <1>3 DEF RepairSkip, RepairStore, Advance, Resume, All, KInv, Reread, CInv, TypeOK
  <1>5. ASSUME NEW w \in Word, In(win, w), w # win.lo PROVE In(win', w)
    <2>1. win.lo \in Int /\ win.hi \in Int /\ w \in Int /\ win # None
      BY <1>1, <1>2, WordAssumption, NoneAssumption
    <2>2. win.lo =< w /\ w =< win.hi /\ win.lo # win.hi
      BY <1>5, <2>1 DEF In
    <2>3. win' = [win EXCEPT !.lo = @ + 1]
      BY <1>4, <2>2 DEF Advance
    <2>4. win' = [lo |-> win.lo + 1, hi |-> win.hi]
      BY <1>2, <2>3 DEF Span
    <2>5. win.lo + 1 \in Word
      BY <1>2, <2>1, <2>2, WordAssumption
    <2>6. win' # None
      BY <1>2, <2>4, <2>5, NoneAssumption DEF Span
    <2> QED BY <1>5, <2>1, <2>2, <2>4, <2>6 DEF In
  <1>6. ASSUME NEW w \in Word, Noted(w), w # win.lo PROVE Noted(w)'
    BY <1>4, <1>5, <1>6 DEF Noted, In
  <1>10. Newer' = Newer /\ Poking'
    BY <1>3, <1>4 DEF Newer, BeingPoked, Poking, All, KInv
  <1>7. Latest'
    BY <1>3, <1>4, <1>10 DEF Latest, LastIs, PostedTo, All, KInv
  <1>8. Agree'
    <2>1. ASSUME NEW w \in Word, w \notin Newer', ~PostedTo(w)' PROVE (shadow[w] = ram[w] \/ Noted(w))'
      <3>1. CASE w = win.lo
        BY <1>4, <3>1
      <3>2. CASE w # win.lo
        <4>1. shadow[w] = ram[w] \/ Noted(w)
          BY <1>4, <1>10, <2>1 DEF Agree, PostedTo, All, KInv
        <4> QED BY <1>4, <1>6, <3>2, <4>1
      <3> QED BY <3>1, <3>2
    <2> QED BY <2>1 DEF Agree
  <1>9. Chain'
    <2>1. CASE win.lo = win.hi
      <3>1. Resume /\ win' = None
        BY <1>4, <2>1 DEF Advance
      <3> QED BY <1>1, <1>4, <3>1, ResumeChain DEF All, KInv, Seen
    <2>2. CASE win.lo # win.hi
      <3>1. pc' = "repair" /\ win' = [win EXCEPT !.lo = @ + 1] /\ UNCHANGED <<chn, saw, reg, run, pos>>
        BY <1>4, <2>2 DEF Advance
      <3>2. \A w : Written(w)' <=> Written(w)
        BY <1>4, <3>1 DEF Written, Moved, Started
      <3>3. Behind(win')
        <4>1. win' = [lo |-> win.lo + 1, hi |-> win.hi] /\ win.lo \in Int /\ win.hi \in Int
          BY <1>2, <3>1, WordAssumption DEF Span
        <4>2. \A w \in win.lo .. win.hi : Written(w)
          BY <1>1, NoneAssumption DEF Ranges, Behind, All, KInv
        <4> QED BY <4>1, <4>2 DEF Behind
      <3>4. Ranges'
        BY <1>4, <3>2, <3>3 DEF Ranges, Behind, All, KInv
      <3> QED BY <1>1, <1>4, <3>1, <3>2, <3>4 DEF Chain, OneWriter, Writes, Within, Started, Records, Reread, Seen, All, KInv
    <2> QED BY <2>1, <2>2
  <1> QED BY <1>7, <1>8, <1>9, <1>10 DEF KInv, Chain

\* A posted write lands on a word nobody has written meanwhile.
LEMMA LandK == ASSUME All, Land PROVE KInv'
  <1> DEFINE h == Head(posted)
  <1>1. /\ ram' = [ram EXCEPT ![h.w] = h.v] /\ ram \in [Word -> Val]
        /\ UNCHANGED <<pc, chn, saw, rep, win, got, shadow, dirty, fifo, lost, reg, run, pos, poked, wbOn>>
    BY DEF Land, All, CInv, TypeOK
  <1>2. /\ h \in PostedWrite /\ PostedTo(h.w)
        /\ \A x : PostedTo(x)' => PostedTo(x)
        /\ \A x : PostedTo(x) /\ ~PostedTo(x)' => x = h.w
        /\ \A x, u : LastIs(x, u) => LastIs(x, u)' \/ (x = h.w /\ u = h.v /\ ~PostedTo(x)')
    BY LandedLast DEF All
  <1> HIDE DEF h
  <1>3. ASSUME NEW w, Written(w) PROVE w \in Word /\ w # h.w /\ ram'[w] = ram[w] /\ Written(w)'
    <2>1. w # h.w /\ w \in Word
      BY <1>2, <1>3, WrittenOwned DEF All, KInv
    <2> QED BY <1>1, <1>3, <2>1 DEF Written, Moved, Started
  <1>4. Records' /\ Ranges'
    BY <1>1, <1>3 DEF Records, Ranges, Behind, All, KInv
  <1>5. Reread'
    <2>1. ASSUME pc = "store" PROVE Written(win.lo)
      BY <2>1, WinWritten DEF All, KInv, CInv, Control
    <2> QED BY <1>1, <1>3, <2>1 DEF Reread, All, KInv
  <1>6. OneWriter' /\ Within' /\ Seen'
    BY <1>1 DEF OneWriter, Writes, Started, Within, Seen, All, KInv
  <1>9. Newer' = Newer /\ Poking'
    BY <1>1 DEF Newer, BeingPoked, Poking, All, KInv
  <1>7. Latest'
    BY <1>1, <1>2, <1>9 DEF Latest, All, KInv
  <1>8. Agree'
    <2>1. ASSUME NEW w \in Word, w \notin Newer, ~PostedTo(w)' PROVE shadow[w] = ram'[w] \/ Noted(w)'
      <3>1. CASE PostedTo(w)
        <4>1. LastIs(w, shadow[w]) /\ w = h.w
          BY <1>2, <2>1, <3>1 DEF Latest, All, KInv
        <4>2. ~LastIs(w, shadow[w])'
          BY <2>1 DEF LastIs, PostedTo
        <4> QED BY <1>1, <1>2, <2>1, <4>1, <4>2
      <3>2. CASE ~PostedTo(w)
        <4>1. w # h.w
          BY <1>2, <3>2
        <4> QED BY <1>1, <2>1, <3>2, <4>1 DEF Agree, Noted, In, All, KInv
      <3> QED BY <3>1, <3>2
    <2> QED BY <1>1, <1>9, <2>1 DEF Agree
  <1> QED BY <1>4, <1>5, <1>6, <1>7, <1>8, <1>9 DEF KInv

\* A beat writes the next word of the one writer, and tells of it.
LEMMA BeatK == ASSUME All, NEW c \in Chan, NEW v \in Val, Beat(c, v) PROVE KInv'
  <1>1. /\ run[c] = "running" /\ Started(c) /\ reg[c] \in Transfers /\ pos[c] \in Nat
        /\ pos[c] < reg[c].n /\ reg[c].n \in Nat
    BY NoneAssumption, TransferAssumption DEF Beat, All, CInv, TypeOK, Control, Started
  <1>2. /\ UNCHANGED <<pc, chn, saw, rep, win, got, shadow, dirty, posted, reg, poked, wbOn>>
        /\ pos' = [pos EXCEPT ![c] = @ + 1] /\ pos \in [Chan -> Nat] /\ reg \in [Chan -> Transfers \cup {None}]
        /\ ram \in [Word -> Val] /\ fifo \in Seq(PostedWrite)
    <2>1. UNCHANGED <<coreVars, cacheVars, posted, reg, poked>> /\ pos' = [pos EXCEPT ![c] = @ + 1]
      BY DEF Beat
    <2> QED BY <2>1 DEF All, CInv, TypeOK
  <1>3. \A d \in Chan : Started(d)' <=> Started(d)
    BY <1>1 DEF Beat, Started, All, CInv, TypeOK
  <1>4. \A w : Written(w) => Written(w)'
    BY <1>2, <1>3, WrittenKept DEF All
  <1>5. OneWriter' /\ Within'
    BY <1>1, <1>2, <1>3 DEF OneWriter, Writes, Within, All, KInv
  <1>6. CASE reg[c].to = Device
    <2>1. UNCHANGED <<ram, fifo, lost>>
      BY <1>6 DEF Beat
    <2>2. Records' /\ Ranges' /\ Reread' /\ Seen'
      BY <1>2, <1>4, <2>1 DEF Records, Ranges, Behind, Reread, Seen, All, KInv
    <2> QED BY <1>2, <1>5, <2>1, <2>2, QuietK DEF Chain
  <1>7. CASE reg[c].to # Device
    <2>1. reg[c].to + pos[c] \in Word /\ reg[c].to \in Int
      BY <1>1, <1>7, TransferWords, TransferAssumption, WordAssumption
    <2>2. PICK x \in Word : x = reg[c].to + pos[c]
      BY <2>1
    <2>3. /\ ram' = [ram EXCEPT ![x] = v] /\ Snoop(x, v)
          /\ [w |-> x, v |-> v] \in PostedWrite
      BY <1>7, <2>2 DEF Beat, PostedWrite
    <2>4. ASSUME NEW w, Written(w) PROVE w # x /\ ram'[w] = ram[w] /\ w \in reg[c].to .. x
      <3>1. PICK d \in Chan : Started(d) /\ w \in Moved(d)
        BY <2>4 DEF Written
      <3>2. d = c
        BY <1>1, <1>7, <3>1 DEF OneWriter, Writes, Moved, All, KInv
      <3>3. w # x /\ w \in reg[c].to .. x
        BY <1>1, <1>7, <2>1, <2>2, <3>1, <3>2 DEF Moved
      <3> QED BY <1>2, <2>3, <3>3
    <2>5. Written(x)' /\ ram'[x] = v
      <3>1. reg'[c] = reg[c] /\ pos'[c] = pos[c] + 1
        BY <1>2
      <3>2. x \in Moved(c)'
        BY <1>1, <1>7, <2>1, <2>2, <3>1 DEF Moved
      <3> QED BY <1>1, <1>2, <1>3, <2>3, <3>2 DEF Written
    <2>6. Reread'
      BY <1>2, <2>4, WinWritten DEF Reread, All, KInv, CInv, Control
    <2>7. Seen'
      <3>1. saw => run[chn] = "done" /\ chn \in Chan
        BY DEF All, CInv, Control
      <3>2. saw => reg[chn].to = Device
        BY <1>1, <1>7, <3>1 DEF OneWriter, Writes, Started, All, KInv
      <3> QED BY <1>2, <3>2 DEF Seen
    <2>8. Latest' /\ Poking' /\ Newer' = Newer
      <3>1. Newer' = Newer /\ Poking'
        BY <1>2 DEF Poking, Newer, BeingPoked, All, KInv
      <3>2. Latest'
        BY <1>2, <3>1 DEF Latest, LastIs, PostedTo, All, KInv
      <3> QED BY <3>1, <3>2
    <2>9. ASSUME \A w \in Word : Noted(w) => Noted(w)', Noted(x)' PROVE Agree'
      <3>1. ASSUME NEW w \in Word, w \notin Newer, ~PostedTo(w) PROVE shadow[w] = ram'[w] \/ Noted(w)'
        <4>1. CASE w = x
          BY <2>9, <4>1
        <4>2. CASE w # x
          BY <1>2, <2>3, <2>9, <3>1, <4>2 DEF Agree, All, KInv
        <4> QED BY <4>1, <4>2
      <3> QED BY <1>2, <2>8, <3>1 DEF Agree, PostedTo
    <2>10. CASE Len(fifo) < FifoMax
      <3>1. fifo' = Append(fifo, [w |-> x, v |-> v]) /\ lost' = lost
        BY <1>2, <2>3, <2>10, BoundAssumption DEF Snoop
      <3>2. /\ Len(fifo') = Len(fifo) + 1 /\ Len(fifo) \in Nat
            /\ fifo'[Len(fifo) + 1] = [w |-> x, v |-> v]
            /\ \A i \in 1..Len(fifo) : fifo'[i] = fifo[i]
        BY <1>2, <2>3, <3>1, AppendProperties
      <3>3. ASSUME NEW i \in 1..Len(fifo') PROVE (fifo[i].v = ram[fifo[i].w] /\ Written(fifo[i].w))'
        <4>1. CASE i \in 1..Len(fifo)
          <5>1. fifo[i].v = ram[fifo[i].w] /\ Written(fifo[i].w) /\ fifo'[i] = fifo[i]
            BY <3>2, <4>1 DEF Records, All, KInv
          <5>2. PICK w : w = fifo[i].w
            OBVIOUS
          <5>3. Written(w)' /\ ram'[w] = ram[w]
            BY <1>4, <2>4, <5>1, <5>2
          <5>4. fifo'[i].w = w /\ fifo'[i].v = ram[w]
            BY <5>1, <5>2
          <5> QED BY <5>3, <5>4
        <4>2. CASE i = Len(fifo) + 1
          <5>1. fifo'[i].w = x /\ fifo'[i].v = v
            BY <3>2, <4>2
          <5> QED BY <2>5, <5>1
        <4> QED BY <3>2, <4>1, <4>2
      <3>4. Records' /\ Ranges'
        BY <1>2, <1>4, <3>1, <3>3 DEF Records, Ranges, Behind, All, KInv
      <3>5. \A w \in Word : Noted(w) => Noted(w)'
        BY <1>2, <3>1, <3>2 DEF Noted, In
      <3>6. Noted(x)'
        <4>1. Len(fifo) + 1 \in 1..Len(fifo') /\ fifo'[Len(fifo) + 1].w = x
          BY <3>2
        <4> QED BY <4>1 DEF Noted
      <3> QED BY <1>5, <2>6, <2>7, <2>8, <2>9, <3>4, <3>5, <3>6 DEF KInv
    <2>11. CASE ~(Len(fifo) < FifoMax)
      <3>1. lost' = Hull(lost, x, x) /\ fifo' = fifo
        BY <2>3, <2>11 DEF Snoop
      <3>2. x \in Int /\ lost \in Span \cup {None} /\ Ordered(lost)
        BY WordAssumption DEF All, CInv, TypeOK, Control
      <3>3. ASSUME NEW w \in reg[c].to .. x PROVE Written(w)'
        <4>1. reg'[c] = reg[c] /\ pos'[c] = pos[c] + 1
          BY <1>2
        <4>2. w \in Moved(c)'
          BY <1>1, <1>7, <2>1, <2>2, <4>1 DEF Moved
        <4> QED BY <1>1, <1>3, <4>2 DEF Written
      <3>4. ASSUME lost # None PROVE lost.lo \in reg[c].to .. x /\ lost.hi \in reg[c].to .. x /\ lost.lo =< lost.hi
        <4>1. lost.lo \in Word /\ lost.hi \in Word /\ lost.lo =< lost.hi
          BY <3>2, <3>4 DEF Span, Ordered
        <4>2. lost.lo \in lost.lo .. lost.hi /\ lost.hi \in lost.lo .. lost.hi
          <5>1. lost.lo \in Int /\ lost.hi \in Int
            BY <4>1, WordAssumption
          <5> QED BY <4>1, <5>1
        <4>3. Written(lost.lo) /\ Written(lost.hi)
          BY <3>4, <4>2 DEF Ranges, Behind, All, KInv
        <4> QED BY <2>4, <4>1, <4>3
      <3>5. /\ lost'.lo \in reg[c].to .. x /\ lost'.hi = x
            /\ lost # None => lost'.lo =< lost.lo
        <4>1. CASE lost = None
          BY <1>1, <2>1, <2>2, <3>1, <3>2, <4>1 DEF Hull
        <4>2. CASE lost # None
          <5>1. lost'.lo = (IF x < lost.lo THEN x ELSE lost.lo) /\ lost'.hi = (IF x > lost.hi THEN x ELSE lost.hi)
            BY <3>1, <4>2 DEF Hull
          <5>2. x \in reg[c].to .. x
            BY <1>1, <2>1, <2>2, <3>2
          <5> QED BY <2>1, <3>2, <3>4, <4>2, <5>1, <5>2
        <4> QED BY <4>1, <4>2
      <3>6. Behind(lost)'
        <4>1. ASSUME NEW w \in lost'.lo .. lost'.hi PROVE Written(w)'
          BY <2>1, <3>2, <3>3, <3>5, <4>1
        <4> QED BY <4>1 DEF Behind
      <3>7. Ranges'
        BY <1>2, <1>4, <3>6 DEF Ranges, Behind, All, KInv
      <3>8. Records'
        BY <1>4, <2>4, <3>1 DEF Records, All, KInv
      <3>9. lost' \in Span /\ lost' # None
        BY <3>1, <3>2, HullType, NoneAssumption
      <3>10. ASSUME NEW w \in Word, Noted(w) \/ w = x PROVE Noted(w)'
        <4>1. w \in Int
          BY WordAssumption
        <4>2. CASE w = x
          BY <2>1, <3>2, <3>5, <3>9, <4>2 DEF Noted, In
        <4>3. CASE In(lost, w)
          <5>1. lost'.lo =< w /\ w =< lost'.hi
            BY <2>1, <3>2, <3>4, <3>5, <4>1, <4>3 DEF In
          <5> QED BY <3>9, <5>1 DEF Noted, In
        <4>4. CASE Noted(w) /\ ~In(lost, w)
          BY <1>2, <3>1, <4>4 DEF Noted, In
        <4> QED BY <3>10, <4>2, <4>3, <4>4
      <3> QED BY <1>5, <2>6, <2>7, <2>8, <2>9, <3>7, <3>8, <3>10 DEF KInv
    <2> QED BY <2>10, <2>11
  <1> QED BY <1>6, <1>7

LEMMA InitK == ASSUME Init PROVE KInv
  <1>1. OneWriter /\ Within
    BY DEF Init, OneWriter, Within, Writes, Started
  <1>2. Records /\ Ranges /\ Reread /\ Seen
    BY DEF Init, Records, Ranges, Behind, Reread, Seen
  <1>3. Latest /\ Agree
    BY DEF Init, Latest, Agree, PostedTo
  <1>4. Poking
    BY DEF Init, Poking
  <1> QED BY <1>1, <1>2, <1>3, <1>4 DEF KInv

LEMMA NextK == ASSUME All, ~TwoWriters, ~PokeRaces, [Next]_vars PROVE KInv'
  <1>1. CASE Core1
    <2>1. CASE \E w \in CpuWord, v \in Val : CpuWrite(w, v)
      BY <2>1, CpuWriteK, RingAssumption
    <2>2. CASE \E c \in Chan, t \in Transfers : Program(c, t)
      BY <2>2, ProgramK
    <2>3. CASE \E c \in Chan : StartDma(c) \/ Poll(c)
      BY <2>3, StartPollK
    <2>4. CASE FlushWord \/ FlushDone \/ CcrWrite \/ PollRead \/ Periodic
      BY <2>4, FlushWordK, QuietStepsK, CcrWriteK
    <2>5. CASE DrainPop \/ InWaitHook \/ DrainEnd
      BY <2>5, PopK, DrainEndK
    <2>6. CASE RepairSkip \/ RepairIssue \/ RepairRead \/ RepairStore
      BY <2>6, RepairStoreK, QuietStepsK, RepairReadK
    <2> QED BY <1>1, <2>1, <2>2, <2>3, <2>4, <2>5, <2>6 DEF Core1
  <1>2. CASE Core0
    BY <1>2, PokeK, PokeEndK, QuietStepsK DEF Core0
  <1>3. CASE Bus
    BY <1>3, LandK, QuietStepsK, BeatK DEF Bus
  <1>4. CASE \E p \in Page : HoldExpires(p)
    BY <1>4, QuietStepsK
  <1>5. CASE UNCHANGED vars
    <2>1. Chain'
      BY <1>5 DEF Chain, OneWriter, Writes, Started, Within, Records, Ranges, Behind, Written, Moved, Reread, Seen, All, KInv
    <2> QED BY <1>5, <2>1, QuietK
  <1> QED BY <1>1, <1>2, <1>3, <1>4, <1>5 DEF Next

LEMMA Everything == ASSUME Discipline, ~TwoWriters, ~PokeRaces PROVE Spec => []All
  <1>1. Init => All
    <2>1. Init => DestClean
      BY DEF Init, DestClean, Started
    <2> QED BY <2>1, InitCInv, InitDInv, InitK DEF All
  <1>2. All /\ [Next]_vars => All'
    BY NextCInv, NextDInv, NextDestClean, NextK DEF All
  <1> QED BY <1>1, <1>2, PTL DEF Spec

\* What the host will still hear of is something a channel has written.
LEMMA NotedWritten == ASSUME All, NEW w \in Word, Noted(w) PROVE Written(w)
  <1>1. w \in Int
    BY WordAssumption
  <1>2. ASSUME NEW r \in Span \cup {None}, In(r, w), Behind(r) PROVE Written(w)
    <2>1. r \in Span /\ r.lo \in Int /\ r.hi \in Int
      BY <1>2, WordAssumption DEF In, Span
    <2>2. w \in r.lo .. r.hi
      BY <1>1, <1>2, <2>1 DEF In
    <2> QED BY <1>2, <2>2 DEF Behind, In
  <1>3. CASE \E i \in 1..Len(fifo) : fifo[i].w = w
    BY <1>3 DEF All, KInv, Records
  <1>4. CASE In(lost, w) \/ In(rep, w) \/ In(win, w)
    BY <1>2, <1>4 DEF All, KInv, Ranges, CInv, TypeOK
  <1> QED BY <1>3, <1>4 DEF Noted

LEMMA AllCoherent == ASSUME All PROVE HandedBackCoherent /\ NoWriteForgotten
  <1>1. ASSUME NEW w \in Word, Written(w) PROVE w \in OwnedByDma /\ w \notin Newer /\ ~PostedTo(w)
    BY <1>1, WrittenOwned DEF All, KInv
  <1>2. HandedBackCoherent
    BY <1>1, NotedWritten DEF HandedBackCoherent, Agree, All, KInv
  <1>3. ASSUME NEW c \in Chan, Started(c), NEW w \in Moved(c) PROVE shadow[w] = ram[w] \/ Noted(w)
    <2>1. Written(w)
      BY <1>3 DEF Written
    <2>2. w \in Word
      BY <2>1, WrittenOwned DEF All, KInv
    <2> QED BY <1>1, <2>1, <2>2 DEF Agree, All, KInv
  <1> QED BY <1>2, <1>3 DEF NoWriteForgotten

\* Once the CPU has seen a transfer complete it reads what the DMA controller
\* wrote, records the FIFO lost included, and in general a word nobody is
\* about to change is the same in both memories (wb_dma_start, sn_apply,
\* sn_repair).
THEOREM HandedBackIsCoherent ==
  ASSUME Discipline, ~TwoWriters, ~PokeRaces PROVE Spec => []HandedBackCoherent
  <1>1. All => HandedBackCoherent
    BY AllCoherent
  <1> QED BY <1>1, Everything, PTL

\* Nothing a transfer has written is forgotten: the shadow has it, or a record
\* or a lost range the host has still to work through covers it.
THEOREM NothingForgotten ==
  ASSUME Discipline, ~TwoWriters, ~PokeRaces PROVE Spec => []NoWriteForgotten
  <1>1. All => NoWriteForgotten
    BY AllCoherent
  <1> QED BY <1>1, Everything, PTL

-----------------------------------------------------------------------------
(***************************************************************************)
(* Shadow and RAM implement one shared memory, step by step.  A word the   *)
(* DMA controller has written counts with its RAM value until the transfer *)
(* is handed back, and coherence says the shadow has that value then.      *)
(***************************************************************************)
Disjoint == \A c, d \in Chan : c # d => ProgrammedBy(c) \cap ProgrammedBy(d) = {}

Sound == All /\ Disjoint /\ HandedBackCoherent

Reading(w)  == \E c \in Chan : run[c] = "running" /\ w \in ToRead(c)
InFlight(w) == {posted[i].v : i \in {j \in 1..Len(posted) : posted[j].w = w}}

\* The refinement mapping in these words, before and after a step.
LEMMA ViewOf ==
  /\ SharedMem = [w \in Word |-> IF Written(w) THEN ram[w] ELSE shadow[w]]
  /\ SharedMay = [w \in Word |-> IF Reading(w) THEN {ram[w]} \cup InFlight(w) ELSE {SharedMem[w]}]
  BY DEF SharedMem, SharedMay, Written, Reading, InFlight

LEMMA ViewNext ==
  /\ SharedMem' = [w \in Word |-> IF Written(w)' THEN ram'[w] ELSE shadow'[w]]
  /\ SharedMay' = [w \in Word |-> IF Reading(w)' THEN {ram'[w]} \cup InFlight(w)' ELSE {SharedMem'[w]}]
  BY DEF SharedMem, SharedMay, Written, Reading, InFlight

\* A started channel's words lie inside what it is programmed with.
LEMMA StartedWords ==
  ASSUME CInv, Within, NEW c \in Chan, Started(c)
  PROVE  /\ reg[c] \in Transfers /\ reg[c] # None
         /\ Moved(c) \subseteq Dst(reg[c]) /\ Moved(c) \subseteq ProgrammedBy(c)
         /\ ToRead(c) \subseteq Src(reg[c]) /\ ToRead(c) \subseteq ProgrammedBy(c)
         /\ Dst(reg[c]) \subseteq ProgrammedBy(c) /\ Dst(reg[c]) \subseteq OwnedByDma
         /\ ProgrammedBy(c) \subseteq Word /\ Src(reg[c]) \cap Dst(reg[c]) = {}
  <1>1. reg[c] \in Transfers /\ pos[c] \in Nat /\ pos[c] =< reg[c].n
    BY DEF CInv, TypeOK, Control, Within
  <1>2. reg[c] # None /\ Words(reg[c]) \subseteq Word /\ Src(reg[c]) \cap Dst(reg[c]) = {}
    BY <1>1, TransferAssumption, NoneAssumption
  <1>3. reg[c].to # Device => reg[c].to \in Int
    BY <1>1, TransferAssumption, WordAssumption
  <1>4. reg[c].from # Device => reg[c].from \in Int
    BY <1>1, TransferAssumption, WordAssumption
  <1>5. reg[c].n \in Nat
    BY <1>1, TransferAssumption
  <1>6. Moved(c) \subseteq Dst(reg[c])
    BY <1>1, <1>3, <1>5 DEF Moved, Dst
  <1>7. ToRead(c) \subseteq Src(reg[c])
    BY <1>1, <1>4, <1>5 DEF ToRead, Src
  <1>8. Dst(reg[c]) \subseteq OwnedByDma
    BY DEF OwnedByDma
  <1> QED BY <1>1, <1>2, <1>6, <1>7, <1>8 DEF ProgrammedBy, Words

\* No channel reads what another, or the same one, has written.
LEMMA NotBoth ==
  ASSUME CInv, Within, Disjoint, NEW w, Reading(w) PROVE ~Written(w)
  <1>1. PICK c \in Chan : run[c] = "running" /\ w \in ToRead(c)
    BY DEF Reading
  <1>2. ASSUME NEW d \in Chan, Started(d), w \in Moved(d) PROVE FALSE
    BY <1>1, <1>2, StartedWords DEF Disjoint, Started
  <1> QED BY <1>2 DEF Written

\* No transfer reads a word of the console's.
LEMMA RingUnread == ASSUME CInv, Within, NEW w \in Ring PROVE ~Reading(w)
  <1>1. ASSUME NEW c \in Chan, run[c] = "running", w \in ToRead(c) PROVE FALSE
    <2>1. Started(c)
      BY <1>1 DEF Started
    <2>2. reg[c] \in Transfers /\ w \in Words(reg[c])
      BY <1>1, <2>1, StartedWords DEF Words
    <2> QED BY <2>2, TransferAssumption
  <1> QED BY <1>1 DEF Reading

\* A word with nothing on its way has one value.
LEMMA OneValue ==
  ASSUME All, NEW w \in Word, w \notin Newer, ~PostedTo(w)
  PROVE  SharedMem[w] = ram[w]
  BY ViewOf, NotedWritten DEF All, KInv, Agree

\* The last value written is always one a transfer may read.
LEMMA MemInMay == ASSUME Sound PROVE \A w \in Word : SharedMem[w] \in SharedMay[w]
  <1>1. ASSUME NEW w \in Word, Reading(w) PROVE SharedMem[w] \in {ram[w]} \cup InFlight(w)
    <2>1. w \notin Newer
      <3>1. w \notin dirty
        BY <1>1 DEF Reading, Sound, All, DInv, SourceWrittenThrough
      <3>2. w \notin BeingPoked
        BY <1>1, RingUnread DEF Sound, All, KInv, BeingPoked, CInv, Control
      <3> QED BY <3>1, <3>2 DEF Newer
    <2>2. CASE PostedTo(w)
      <3>1. SharedMem[w] = shadow[w]
        BY <1>1, NotBoth, ViewOf DEF Sound, All, KInv
      <3>2. PICK i \in 1..Len(posted) : posted[i] = [w |-> w, v |-> shadow[w]]
        BY <2>1, <2>2 DEF Sound, All, KInv, Latest, LastIs
      <3>3. posted[i].w = w /\ posted[i].v = shadow[w]
        BY <3>2
      <3> QED BY <3>1, <3>3 DEF InFlight
    <2> QED BY <2>1, <2>2, OneValue DEF Sound
  <1> QED BY <1>1, ViewOf

\* Steps that leave the transfers and the RAM alone, and change the shadow
\* only where the RAM's value counts, are not seen.
LEMMA Unseen ==
  ASSUME UNCHANGED <<reg, run, pos, dev, ram>>,
         \A w \in Word : shadow'[w] # shadow[w] => Written(w),
         \A w \in Word : Reading(w) => InFlight(w)' = InFlight(w)
  PROVE  UNCHANGED <<SharedMem, SharedMay, reg, run, pos, dev>>
  <1>1. \A w : /\ Written(w)' <=> Written(w)
               /\ Reading(w)' <=> Reading(w)
    BY DEF Written, Reading, Started, Moved, ToRead
  <1>2. SharedMem' = SharedMem
    BY <1>1, ViewOf, ViewNext
  <1>3. SharedMay' = SharedMay
    BY <1>1, <1>2, ViewOf, ViewNext
  <1> QED BY <1>2, <1>3

LEMMA NextDisjoint == ASSUME CInv, Disjoint, [Next]_vars PROVE Disjoint'
  <1>1. CASE \E c \in Chan, t \in Transfers : Program(c, t)
    <2>1. PICK c \in Chan, t \in Transfers : Program(c, t)
      BY <1>1
    <2>2. reg' = [reg EXCEPT ![c] = t] /\ reg \in [Chan -> Transfers \cup {None}] /\ t # None
      BY <2>1, NoneAssumption DEF Program, CInv, TypeOK
    <2>3. \A d \in Chan : ProgrammedBy(d)' = IF d = c THEN Words(t) ELSE ProgrammedBy(d)
      BY <2>2 DEF ProgrammedBy
    <2>4. \A d \in Chan : Words(t) \cap ProgrammedBy(d) = {}
      BY <2>1 DEF Program
    <2> QED BY <2>3, <2>4 DEF Disjoint
  <1>2. ASSUME Resume PROVE Disjoint'
    <2>1. reg \in [Chan -> Transfers \cup {None}]
      BY DEF CInv, TypeOK
    <2>2. \A d \in Chan : ProgrammedBy(d)' \subseteq ProgrammedBy(d)
      BY <1>2, <2>1 DEF Resume, ProgrammedBy
    <2> QED BY <2>2 DEF Disjoint
  <1>3. CASE UNCHANGED reg
    BY <1>3 DEF Disjoint, ProgrammedBy
  <1>4. \/ \E c \in Chan, t \in Transfers : Program(c, t)
        \/ Resume
        \/ UNCHANGED reg
    <2>1. CASE Core1
      BY <2>1 DEF Core1, CpuWrite, StartDma, Poll, FlushWord, FlushDone, CcrWrite, PollRead,
         Periodic, DrainPop, InWaitHook, DrainEnd, RepairSkip, RepairIssue, RepairRead, RepairStore, Advance
    <2>2. CASE Core0
      BY <2>2 DEF Core0, Poke, PokeEnd, WbOff, WbOn
    <2>3. CASE Bus
      BY <2>3 DEF Bus, Land, Release, Grant, Beat
    <2>4. CASE (\E p \in Page : HoldExpires(p)) \/ UNCHANGED vars
      BY <2>4 DEF HoldExpires
    <2> QED BY <2>1, <2>2, <2>3, <2>4 DEF Next
  <1> QED BY <1>1, <1>2, <1>3, <1>4

LEMMA Soundness == ASSUME Discipline, ~TwoWriters, ~PokeRaces PROVE Spec => []Sound
  <1>1. Init => Disjoint
    BY DEF Init, Disjoint, ProgrammedBy
  <1>2. All => CInv /\ HandedBackCoherent
    BY AllCoherent DEF All
  <1>3. CInv /\ Disjoint /\ [Next]_vars => Disjoint'
    BY NextDisjoint
  <1>4. Sound <=> All /\ Disjoint /\ HandedBackCoherent
    BY DEF Sound
  <1> QED BY <1>1, <1>2, <1>3, <1>4, Everything, PTL DEF Spec

Abstractly == Shared!SharedNext \/ UNCHANGED <<SharedMem, SharedMay, reg, run, pos, dev>>

\* Posting a write to a word adds to what is on its way there, and only there.
LEMMA PostFlight ==
  ASSUME CInv, NEW w \in Word, NEW v \in Val, Post(w, v)
  PROVE  /\ InFlight(w)' = InFlight(w) \cup {v}
         /\ \A x : x # w => InFlight(x)' = InFlight(x)
  <1> DEFINE e == [w |-> w, v |-> v]
  <1>1. posted \in Seq(PostedWrite) /\ e \in PostedWrite /\ posted' = Append(posted, e)
    BY DEF CInv, TypeOK, PostedWrite, Post
  <1>2. /\ Len(posted') = Len(posted) + 1 /\ Len(posted) \in Nat
        /\ posted'[Len(posted) + 1] = e
        /\ \A i \in 1..Len(posted) : posted'[i] = posted[i]
    BY <1>1, AppendProperties
  <1>3. 1..Len(posted') = 1..Len(posted) \cup {Len(posted) + 1}
    BY <1>2
  <1>4. e.w = w /\ e.v = v
    OBVIOUS
  <1> HIDE DEF e
  <1>5. ASSUME NEW x, x # w PROVE InFlight(x)' = InFlight(x)
    <2>1. {j \in 1..Len(posted') : posted'[j].w = x} = {j \in 1..Len(posted) : posted[j].w = x}
      BY <1>2, <1>3, <1>4, <1>5
    <2> QED BY <1>2, <2>1 DEF InFlight
  <1>6. InFlight(w)' = InFlight(w) \cup {v}
    <2>1. {j \in 1..Len(posted') : posted'[j].w = w}
              = {j \in 1..Len(posted) : posted[j].w = w} \cup {Len(posted) + 1}
      BY <1>2, <1>3, <1>4
    <2> QED BY <1>2, <1>4, <2>1 DEF InFlight
  <1> QED BY <1>5, <1>6

\* What the abstract memory calls lent and being read.
LEMMA SameWords ==
  ASSUME CInv, NEW w \in Word
  PROVE  /\ Shared!Lent(w) <=> w \in OwnedByDma
         /\ Shared!BeingRead(w) <=> Reading(w)
  <1>1. Shared!Lent(w) <=> w \in OwnedByDma
    BY DEF Shared!Lent, Shared!To, OwnedByDma, Dst, Started
  <1>2. ASSUME NEW c \in Chan, run[c] = "running"
        PROVE  w \in Shared!From(reg[c]) /\ w >= reg[c].from + pos[c] <=> w \in ToRead(c)
    <2>1. reg[c] \in Transfers /\ pos[c] \in Nat /\ w \in Int
      BY <1>2, WordAssumption DEF CInv, TypeOK, Control, Started
    <2>2. reg[c].from # Device => reg[c].from \in Int /\ reg[c].n \in Nat
      BY <2>1, TransferAssumption, WordAssumption
    <2> QED BY <2>1, <2>2 DEF Shared!From, ToRead
  <1> QED BY <1>1, <1>2 DEF Shared!BeingRead, Reading

\* A store of the CPU's is a write of the shared memory, whether it stays in
\* the shadow or is posted: no word still to be read is ever kept back.
LEMMA WriteStep ==
  ASSUME Sound, SourceWrittenThrough', NEW w \in Word, NEW v \in Val, CpuWrite(w, v) \/ Poke(w, v)
  PROVE  Shared!Write(w, v)
  <1>1. CInv /\ Within /\ Disjoint
    BY DEF Sound, All, KInv
  <1>2. w \notin OwnedByDma
    <2>1. CASE CpuWrite(w, v)
      BY <2>1 DEF CpuWrite
    <2>2. CASE Poke(w, v)
      <3>1. ASSUME NEW c \in Chan, Started(c) PROVE w \notin Dst(reg[c])
        BY <1>1, <2>2, <3>1, StartedWords, TransferAssumption DEF Poke, Words
      <3> QED BY <3>1 DEF OwnedByDma
    <2> QED BY <2>1, <2>2
  <1>3. ~Written(w)
    BY <1>1, <1>2, WrittenOwned DEF Sound, All
  <1>4. /\ shadow' = [shadow EXCEPT ![w] = v] /\ shadow \in [Word -> Val]
        /\ UNCHANGED <<ram, reg, run, pos, dev>>
    BY <1>1 DEF CpuWrite, Poke, CInv, TypeOK
  <1>5. \A x : /\ Written(x)' <=> Written(x)
               /\ Reading(x)' <=> Reading(x)
    BY <1>4 DEF Written, Reading, Started, Moved, ToRead
  <1>6. Post(w, v) \/ posted' = posted
    BY DEF CpuWrite, Poke
  <1>7. Reading(w) => Post(w, v)
    <2>1. CASE CpuWrite(w, v)
      <3>1. Post(w, v) \/ dirty' = dirty \cup {w}
        BY <2>1 DEF CpuWrite
      <3> QED BY <1>5, <3>1 DEF Reading, SourceWrittenThrough
    <2>2. CASE Poke(w, v)
      BY <1>1, <2>2, RingUnread DEF Poke
    <2> QED BY <2>1, <2>2
  <1>8. \A x : x # w => InFlight(x)' = InFlight(x)
    <2>1. CASE posted' = posted
      BY <2>1 DEF InFlight
    <2> QED BY <1>1, <1>6, <2>1, PostFlight
  <1>9. Reading(w) => InFlight(w)' = InFlight(w) \cup {v}
    BY <1>1, <1>7, PostFlight
  <1>10. SharedMem' = [SharedMem EXCEPT ![w] = v]
    BY <1>3, <1>4, <1>5, ViewOf, ViewNext
  <1>11. SharedMay' = [SharedMay EXCEPT ![w] = IF Reading(w) THEN @ \cup {v} ELSE {v}]
    <2>1. ASSUME NEW x \in Word, x # w PROVE SharedMay'[x] = SharedMay[x]
      BY <1>4, <1>5, <1>8, <1>10, <2>1, ViewOf, ViewNext
    <2>2. SharedMay'[w] = IF Reading(w) THEN SharedMay[w] \cup {v} ELSE {v}
      BY <1>4, <1>5, <1>9, <1>10, ViewOf, ViewNext
    <2> QED BY <2>1, <2>2, ViewOf, ViewNext
  <1> QED BY <1>1, <1>2, <1>4, <1>10, <1>11, SameWords DEF Shared!Write

\* A posted write that lands settles what a transfer may read there.
LEMMA LandStep ==
  ASSUME Sound, \A w \in Word : SharedMem'[w] \in SharedMay'[w], Land
  PROVE  \E w \in Word : Shared!Settle(w)
  <1> DEFINE h == Head(posted)
  <1>1. posted # <<>> /\ posted \in Seq(PostedWrite) /\ posted' = Tail(posted) /\ h \in PostedWrite
    BY DEF Land, Sound, All, CInv, TypeOK
  <1>2. /\ Len(posted) \in Nat \ {0} /\ Len(posted') = Len(posted) - 1 /\ h = posted[1]
        /\ \A i \in 1..Len(posted') : posted'[i] = posted[i + 1]
    BY <1>1
  <1>3. PICK w \in Word : w = h.w
    BY <1>1 DEF PostedWrite
  <1>4. PICK v \in Val : v = h.v
    BY <1>1 DEF PostedWrite
  <1>5. /\ ram' = [ram EXCEPT ![w] = v] /\ ram \in [Word -> Val]
        /\ UNCHANGED <<shadow, reg, run, pos, dev>>
    BY <1>3, <1>4 DEF Land, Sound, All, CInv, TypeOK
  <1>6. \A x : /\ Written(x)' <=> Written(x)
               /\ Reading(x)' <=> Reading(x)
    BY <1>5 DEF Written, Reading, Started, Moved, ToRead
  <1>7. ~Written(w)
    BY <1>2, <1>3, WrittenOwned DEF PostedTo, Sound, All, KInv
  <1> HIDE DEF h
  <1>8. InFlight(w)' \cup {v} = InFlight(w)
    <2>2. ASSUME NEW u \in InFlight(w), u # v PROVE u \in InFlight(w)'
      <3>1. PICK j \in 1..Len(posted) : posted[j].w = w /\ posted[j].v = u
        BY <2>2 DEF InFlight
      <3>2. j # 1
        BY <1>2, <1>4, <2>2, <3>1
      <3>3. j - 1 \in 1..Len(posted') /\ posted'[j - 1] = posted[(j - 1) + 1] /\ (j - 1) + 1 = j
        BY <1>2, <3>2
      <3> QED BY <3>1, <3>3 DEF InFlight
    <2>3. ASSUME NEW u \in InFlight(w)' PROVE u \in InFlight(w)
      <3>1. PICK j \in 1..Len(posted') : posted'[j].w = w /\ posted'[j].v = u
        BY <2>3 DEF InFlight
      <3>2. j + 1 \in 1..Len(posted) /\ posted'[j] = posted[j + 1]
        BY <1>2
      <3> QED BY <3>1, <3>2 DEF InFlight
    <2>4. v \in InFlight(w)
      BY <1>2, <1>3, <1>4 DEF InFlight
    <2> QED BY <2>2, <2>3, <2>4
  <1>9. ASSUME NEW x, x # w PROVE InFlight(x)' = InFlight(x)
    <2>1. ASSUME NEW u \in InFlight(x) PROVE u \in InFlight(x)'
      <3>1. PICK j \in 1..Len(posted) : posted[j].w = x /\ posted[j].v = u
        BY <2>1 DEF InFlight
      <3>2. j # 1
        BY <1>2, <1>3, <1>9, <3>1
      <3>3. j - 1 \in 1..Len(posted') /\ posted'[j - 1] = posted[(j - 1) + 1] /\ (j - 1) + 1 = j
        BY <1>2, <3>2
      <3> QED BY <3>1, <3>3 DEF InFlight
    <2>2. ASSUME NEW u \in InFlight(x)' PROVE u \in InFlight(x)
      <3>1. PICK j \in 1..Len(posted') : posted'[j].w = x /\ posted'[j].v = u
        BY <2>2 DEF InFlight
      <3>2. j + 1 \in 1..Len(posted) /\ posted'[j] = posted[j + 1]
        BY <1>2
      <3> QED BY <3>1, <3>2 DEF InFlight
    <2> QED BY <2>1, <2>2
  <1>10. SharedMem' = SharedMem
    BY <1>5, <1>6, <1>7, ViewOf, ViewNext
  <1>11. SharedMay'[w] \subseteq SharedMay[w]
    BY <1>5, <1>6, <1>8, <1>10, ViewOf, ViewNext
  <1>12. SharedMay' = [SharedMay EXCEPT ![w] = SharedMay'[w]]
    BY <1>5, <1>6, <1>9, <1>10, ViewOf, ViewNext
  <1> QED BY <1>5, <1>10, <1>11, <1>12 DEF Shared!Settle

LEMMA ProgramStep ==
  ASSUME Sound, NEW c \in Chan, NEW t \in Transfers, Program(c, t)
  PROVE  Shared!ProgramChannel(c, t)
  <1>1. /\ reg' = [reg EXCEPT ![c] = t] /\ reg \in [Chan -> Transfers \cup {None}] /\ run[c] = "idle"
        /\ UNCHANGED <<shadow, ram, posted, run, pos, dev>>
    BY DEF Program, Started, Sound, All, CInv, TypeOK
  <1>2. \A x : /\ Written(x)' <=> Written(x)
               /\ Reading(x)' <=> Reading(x)
               /\ InFlight(x)' = InFlight(x)
    BY <1>1 DEF Written, Reading, Started, Moved, ToRead, InFlight
  <1>3. SharedMem' = SharedMem
    BY <1>1, <1>2, ViewOf, ViewNext
  <1>4. SharedMay' = SharedMay
    BY <1>1, <1>2, <1>3, ViewOf, ViewNext
  <1> QED BY <1>1, <1>3, <1>4 DEF Shared!ProgramChannel

\* The start command goes out when everything the transfer reads is in the
\* RAM: the flush wrote it back and the bus carried it out.
LEMMA StartStep == ASSUME Sound, CcrWrite PROVE Shared!StartChannel(chn)
  <1>0. PICK c \in Chan : c = chn
    BY DEF CcrWrite, Sound, All, CInv, Control
  <1>1. /\ c \in Chan /\ ~Started(c) /\ reg[c] \in Transfers /\ reg[c] # None
        /\ Words(reg[c]) \cap dirty = {} /\ posted = <<>>
        /\ Disjoint /\ CInv /\ Within
    BY <1>0, NoneAssumption DEF CcrWrite, BusIdle, Sound, All, KInv, DInv, ReadyToStart, CInv, Control
  <1>2. /\ run' = [run EXCEPT ![c] = "running"] /\ pos' = [pos EXCEPT ![c] = 0]
        /\ run \in [Chan -> {"idle", "running", "done"}] /\ pos \in [Chan -> Nat] /\ run[c] = "idle"
        /\ UNCHANGED <<shadow, ram, posted, reg, dev>>
    BY <1>0, <1>1 DEF CcrWrite, Started, CInv, TypeOK
  <1>3. Moved(c)' = {} /\ (reg[c].to # Device => reg[c].to \in Int)
    <2>1. reg[c].to # Device => reg[c].to \in Int
      BY <1>1, TransferAssumption, WordAssumption
    <2> QED BY <1>1, <1>2, <2>1 DEF Moved
  <1>4. \A x : Written(x)' <=> Written(x)
    <2>1. \A d \in Chan : d # c => (Moved(d)' = Moved(d)) /\ (Started(d)' <=> Started(d))
      BY <1>1, <1>2 DEF Moved, Started
    <2> QED BY <1>1, <1>3, <2>1 DEF Written
  <1>5. ToRead(c)' \subseteq Words(reg[c])
    <2>1. reg[c].from # Device => reg[c].from \in Int /\ reg[c].n \in Nat
      BY <1>1, TransferAssumption, WordAssumption
    <2> QED BY <1>1, <1>2, <2>1 DEF ToRead, Words, Src
  <1>6. \A x : Reading(x)' <=> Reading(x) \/ x \in ToRead(c)'
    <2>1. \A d \in Chan : d # c => /\ ToRead(d)' = ToRead(d)
                                   /\ run'[d] = "running" <=> run[d] = "running"
      BY <1>1, <1>2 DEF ToRead
    <2>2. run'[c] = "running" /\ run[c] # "running"
      BY <1>1, <1>2
    <2>3. ASSUME NEW x, Reading(x)' PROVE Reading(x) \/ x \in ToRead(c)'
      <3>1. PICK d \in Chan : run'[d] = "running" /\ x \in ToRead(d)'
        BY <2>3 DEF Reading
      <3> QED BY <2>1, <3>1 DEF Reading
    <2>4. ASSUME NEW x, Reading(x) PROVE Reading(x)'
      <3>1. PICK d \in Chan : run[d] = "running" /\ x \in ToRead(d)
        BY <2>4 DEF Reading
      <3> QED BY <2>1, <2>2, <3>1 DEF Reading
    <2>5. ASSUME NEW x, x \in ToRead(c)' PROVE Reading(x)'
      BY <1>1, <2>2, <2>5 DEF Reading
    <2> QED BY <2>3, <2>4, <2>5
  <1>7. SharedMem' = SharedMem
    BY <1>2, <1>4, ViewOf, ViewNext
  <1>8. \A x : InFlight(x)' = InFlight(x)
    BY <1>2 DEF InFlight
  <1>9. ASSUME NEW w \in Word, w \in ToRead(c)', ~Reading(w)
        PROVE  SharedMay'[w] = SharedMay[w]
    <2>1. w \notin dirty /\ ~PostedTo(w) /\ InFlight(w) = {}
      BY <1>1, <1>5, <1>9 DEF PostedTo, InFlight
    <2>3. w \notin Newer
      BY <1>1, <1>5, <1>9, <2>1, TransferAssumption DEF Newer, BeingPoked, CInv, Control
    <2>2. SharedMem[w] = ram[w]
      BY <2>1, <2>3, OneValue DEF Sound
    <2> QED BY <1>2, <1>6, <1>8, <1>9, <2>1, <2>2, ViewOf, ViewNext
  <1>10. ASSUME NEW w \in Word, w \notin ToRead(c)' \/ Reading(w)
         PROVE  SharedMay'[w] = SharedMay[w]
    BY <1>2, <1>6, <1>7, <1>8, <1>10, ViewOf, ViewNext
  <1>11. SharedMay' = SharedMay
    BY <1>9, <1>10, ViewOf, ViewNext
  <1> QED BY <1>0, <1>1, <1>2, <1>7, <1>11 DEF Shared!StartChannel

\* A transfer that is handed back: its words have been drained or repaired, so
\* they keep their value when they count with the shadow again.
LEMMA NoticeStep ==
  ASSUME Sound, HandedBackCoherent', Resume, saw, UNCHANGED <<dirty, posted, ram>>,
         shadow' \in [Word -> Val], \A w \in Word : shadow'[w] # shadow[w] => Written(w)
  PROVE  Shared!Notice(chn)
  <1>1. chn \in Chan /\ run[chn] = "done" /\ CInv /\ Within /\ Disjoint /\ DestClean /\ All
    BY DEF Sound, All, KInv, CInv, Control
  <1>2. /\ run' = [run EXCEPT ![chn] = "idle"] /\ reg' = [reg EXCEPT ![chn] = None]
        /\ run \in [Chan -> {"idle", "running", "done"}] /\ reg \in [Chan -> Transfers \cup {None}]
        /\ UNCHANGED <<pos, dev, poked>>
    BY <1>1 DEF Resume, CInv, TypeOK
  <1>3. \A d \in Chan : d # chn => /\ Moved(d)' = Moved(d) /\ ToRead(d)' = ToRead(d)
                                   /\ run'[d] = run[d] /\ reg'[d] = reg[d]
    BY <1>1, <1>2 DEF Moved, ToRead
  <1>4. run'[chn] = "idle"
    BY <1>1, <1>2
  <1>5. \A x : Reading(x)' <=> Reading(x)
    BY <1>1, <1>3, <1>4 DEF Reading
  <1>6. \A x : Written(x)' => Written(x)
    BY <1>3, <1>4 DEF Written, Started
  <1>7. ASSUME NEW w \in Word, Written(w), ~Written(w)' PROVE shadow'[w] = ram[w]
    <2>1. w \in Moved(chn) /\ Started(chn)
      BY <1>3, <1>4, <1>7 DEF Written, Started
    <2>2. w \in ProgrammedBy(chn)
      BY <1>1, <2>1, StartedWords
    <2>3. ASSUME NEW d \in Chan, Started(d)' PROVE w \notin Dst(reg'[d])
      <3>1. d # chn /\ Started(d) /\ reg'[d] = reg[d]
        BY <1>3, <1>4, <2>3 DEF Started
      <3>2. Dst(reg[d]) \subseteq ProgrammedBy(d)
        BY <1>1, <3>1, StartedWords
      <3> QED BY <1>1, <2>2, <3>1, <3>2 DEF Disjoint
    <2>4. w \notin OwnedByDma'
      BY <2>3 DEF OwnedByDma
    <2>5. w \notin Newer /\ ~PostedTo(w)
      BY <1>1, <1>7, WrittenOwned
    <2>6. w \notin Newer' /\ ~PostedTo(w)'
      BY <1>2, <2>5 DEF PostedTo, Newer, BeingPoked
    <2>7. shadow'[w] = ram'[w]
      BY <2>4, <2>6 DEF HandedBackCoherent
    <2> QED BY <2>7
  <1>8. SharedMem' = SharedMem
    <2>1. ASSUME NEW w \in Word PROVE SharedMem'[w] = SharedMem[w]
      BY <1>6, <1>7, ViewOf, ViewNext
    <2> QED BY <2>1, ViewOf, ViewNext
  <1>9. \A x : InFlight(x)' = InFlight(x)
    BY DEF InFlight
  <1>10. SharedMay' = SharedMay
    BY <1>5, <1>8, <1>9, ViewOf, ViewNext
  <1> QED BY <1>1, <1>2, <1>8, <1>10 DEF Shared!Notice

\* The rest of core 1 and of core 0 is not seen in the shared memory, except
\* for the end of a drain or a repair that gives a transfer back.
LEMMA DrainStep ==
  ASSUME Sound, HandedBackCoherent', TypeOK',
         DrainPop \/ InWaitHook \/ DrainEnd \/ RepairSkip \/ RepairStore
  PROVE  Abstractly
  <1>1. UNCHANGED <<ram, posted>> /\ \A x : InFlight(x)' = InFlight(x)
    BY DEF DrainPop, InWaitHook, DrainEnd, RepairSkip, RepairStore, InFlight
  <1>2. \A w \in Word : shadow'[w] # shadow[w] => Written(w)
    <2>1. CASE UNCHANGED shadow
      BY <2>1
    <2>2. CASE (DrainPop \/ InWaitHook) /\ fifo # <<>>
      <3>1. fifo \in Seq(PostedWrite) /\ shadow \in [Word -> Val]
        BY DEF Sound, All, CInv, TypeOK
      <3>2. 1 \in 1..Len(fifo) /\ Head(fifo) = fifo[1]
        BY <2>2, <3>1
      <3>3. Written(Head(fifo).w)
        BY <3>2 DEF Sound, All, KInv, Records
      <3> QED BY <2>2, <3>1, <3>3 DEF DrainPop, InWaitHook, PopRecord
    <2>3. CASE RepairStore
      <3>1. Written(win.lo) /\ shadow \in [Word -> Val]
        BY <2>3, WinWritten DEF RepairStore, Sound, All, KInv, CInv, TypeOK, Control
      <3> QED BY <2>3, <3>1 DEF RepairStore
    <2> QED BY <2>1, <2>2, <2>3 DEF DrainPop, InWaitHook, PopRecord, DrainEnd, RepairSkip
  <1>3. CASE Resume /\ saw
    <2>1. UNCHANGED dirty
      BY <1>3 DEF DrainPop, InWaitHook, DrainEnd, RepairSkip, RepairStore, Resume, Sound, All, CInv, Control
    <2>2. shadow' \in [Word -> Val] /\ chn \in Chan
      BY <1>3 DEF TypeOK, Sound, All, CInv, Control
    <2>3. Shared!Notice(chn)
      BY <1>1, <1>2, <1>3, <2>1, <2>2, NoticeStep
    <2> QED BY <2>2, <2>3 DEF Abstractly, Shared!SharedNext
  <1>4. CASE ~(Resume /\ saw)
    <2>1. UNCHANGED <<reg, run, pos, dev>>
      BY <1>4 DEF DrainPop, InWaitHook, DrainEnd, RepairSkip, RepairStore, Advance, Resume
    <2> QED BY <1>1, <1>2, <2>1, Unseen DEF Abstractly
  <1> QED BY <1>3, <1>4

LEMMA QuietStep ==
  ASSUME Sound,
         \/ FlushWord \/ FlushDone \/ PollRead \/ Periodic \/ RepairIssue \/ RepairRead
         \/ PokeEnd \/ WbOff \/ WbOn \/ Release \/ UNCHANGED vars
         \/ \E c \in Chan : StartDma(c) \/ Poll(c) \/ Grant(c)
         \/ \E p \in Page : HoldExpires(p)
  PROVE  Abstractly
  <1>1. UNCHANGED <<reg, run, pos, dev, ram, shadow>>
    BY DEF PokeEnd, FlushWord, FlushDone, PollRead, Periodic, RepairIssue, RepairRead, WbOff, WbOn, Release,
           StartDma, Poll, Grant, HoldExpires
  <1>2. \A w \in Word : Reading(w) => InFlight(w)' = InFlight(w)
    <2>1. CASE FlushWord
      <3>1. PICK w \in Word : w \in dirty /\ Post(w, shadow[w])
        BY <2>1 DEF FlushWord, Sound, All, CInv, TypeOK
      <3>2. shadow[w] \in Val /\ CInv
        BY DEF Sound, All, CInv, TypeOK
      <3>3. ~Reading(w)
        BY <3>1 DEF Reading, Sound, All, DInv, SourceWrittenThrough
      <3> QED BY <3>1, <3>2, <3>3, PostFlight
    <2>2. CASE UNCHANGED posted
      BY <2>2 DEF InFlight
    <2>3. CASE PokeEnd /\ ~UNCHANGED posted
      <3>1. poked.w \in Ring /\ poked.w \in Word /\ poked.v \in Val /\ Post(poked.w, poked.v) /\ CInv
        BY <2>3 DEF PokeEnd, PostedWrite, Sound, All, CInv, TypeOK, Control
      <3>2. ~Reading(poked.w)
        BY <3>1, RingUnread DEF Sound, All, KInv
      <3> QED BY <3>1, <3>2, PostFlight
    <2> QED BY <2>1, <2>2, <2>3 DEF FlushDone, PollRead, Periodic, RepairIssue, RepairRead, WbOff, WbOn, Release,
           StartDma, Poll, Grant, HoldExpires
  <1> QED BY <1>1, <1>2, Unseen DEF Abstractly

LEMMA IntervalGrows ==
  ASSUME NEW a \in Int, NEW k \in Nat
  PROVE  a .. (a + (k + 1) - 1) = a .. (a + k - 1) \cup {a + k}
  <1>1. \A x \in Int : x =< a + (k + 1) - 1 /\ a =< x <=> (x =< a + k - 1 /\ a =< x) \/ x = a + k
    OBVIOUS
  <1> QED BY <1>1

\* A beat of the DMA controller: it reads what the shared memory allows, and
\* what it writes counts at once.
LEMMA BeatStep ==
  ASSUME Sound, CInv', Within', Disjoint', NEW c \in Chan, NEW v \in Val, Beat(c, v)
  PROVE  Shared!Move(c, v)
  <1> DEFINE t == reg[c]
  <1>1. /\ CInv /\ Within /\ Disjoint /\ run[c] = "running" /\ t \in Transfers
        /\ pos[c] \in Nat /\ pos[c] < t.n /\ Started(c)
    BY NoneAssumption DEF Beat, Started, Sound, All, KInv, CInv, TypeOK, Control
  <1>2. /\ pos' = [pos EXCEPT ![c] = @ + 1] /\ pos \in [Chan -> Nat]
        /\ run' = (IF pos[c] + 1 = t.n THEN [run EXCEPT ![c] = "done"] ELSE run)
        /\ run \in [Chan -> {"idle", "running", "done"}] /\ ram \in [Word -> Val]
        /\ UNCHANGED <<shadow, posted, reg>>
    BY <1>1 DEF Beat, CInv, TypeOK
  <1>3. /\ t.from # Device => t.from + pos[c] \in Word /\ t.from \in Int
        /\ t.to # Device => t.to + pos[c] \in Word /\ t.to \in Int
        /\ t.n \in Nat
    BY <1>1, TransferWords, TransferAssumption, WordAssumption
  <1>4. \A d \in Chan : Started(d)' <=> Started(d)
    BY <1>1, <1>2 DEF Started
  <1>5. \A d \in Chan : d # c => Moved(d)' = Moved(d) /\ ToRead(d)' = ToRead(d) /\ run'[d] = run[d]
    BY <1>2 DEF Moved, ToRead
  <1>6. Moved(c)' = Moved(c) \cup (IF t.to = Device THEN {} ELSE {t.to + pos[c]})
    <2>1. pos'[c] = pos[c] + 1
      BY <1>2
    <2>2. CASE t.to = Device
      BY <1>2, <2>2 DEF Moved
    <2>3. CASE t.to # Device
      <3>1. t.to .. (t.to + pos'[c] - 1) = t.to .. (t.to + pos[c] - 1) \cup {t.to + pos[c]}
        BY <1>1, <1>3, <2>1, <2>3, IntervalGrows
      <3> QED BY <1>2, <2>3, <3>1 DEF Moved
    <2> QED BY <2>2, <2>3
  <1>7. ToRead(c) = ToRead(c)' \cup (IF t.from = Device THEN {} ELSE {t.from + pos[c]})
    BY <1>1, <1>2, <1>3 DEF ToRead
  <1>8. run'[c] # "running" => ToRead(c)' = {}
    BY <1>1, <1>2, <1>3 DEF ToRead
  <1>9. t.from # Device => t.from + pos[c] \notin ToRead(c)'
    BY <1>1, <1>2, <1>3 DEF ToRead
  <1> HIDE DEF t
  <1>10. \A x : Written(x)' <=> Written(x) \/ (t.to # Device /\ x = t.to + pos[c])
    <2>1. ASSUME NEW x, Written(x)' PROVE Written(x) \/ (t.to # Device /\ x = t.to + pos[c])
      <3>1. PICK d \in Chan : Started(d) /\ x \in Moved(d)'
        BY <1>4, <2>1 DEF Written
      <3> QED BY <1>5, <1>6, <3>1 DEF Written
    <2>2. ASSUME NEW x, Written(x) PROVE Written(x)'
      <3>1. PICK d \in Chan : Started(d) /\ x \in Moved(d)
        BY <2>2 DEF Written
      <3> QED BY <1>4, <1>5, <1>6, <3>1 DEF Written
    <2>3. ASSUME NEW x, t.to # Device, x = t.to + pos[c] PROVE Written(x)'
      BY <1>1, <1>4, <1>6, <2>3 DEF Written
    <2> QED BY <2>1, <2>2, <2>3
  <1>11. \A x : Reading(x)' => Reading(x)
    <2>1. ASSUME NEW x, Reading(x)' PROVE Reading(x)
      <3>1. PICK d \in Chan : run'[d] = "running" /\ x \in ToRead(d)'
        BY <2>1 DEF Reading
      <3> QED BY <1>1, <1>5, <1>7, <3>1 DEF Reading
    <2> QED BY <2>1
  <1>12. \A x : Reading(x) => Reading(x)' \/ (t.from # Device /\ x = t.from + pos[c])
    <2>1. ASSUME NEW x, Reading(x) PROVE Reading(x)' \/ (t.from # Device /\ x = t.from + pos[c])
      <3>1. PICK d \in Chan : run[d] = "running" /\ x \in ToRead(d)
        BY <2>1 DEF Reading
      <3>2. CASE d = c
        BY <1>7, <1>8, <3>1, <3>2 DEF Reading
      <3>3. CASE d # c
        BY <1>5, <3>1, <3>3 DEF Reading
      <3> QED BY <3>2, <3>3
    <2> QED BY <2>1
  <1>13. t.from # Device => Reading(t.from + pos[c]) /\ \A x : x = t.from + pos[c] => ~Reading(x)'
    <2>1. ASSUME t.from # Device PROVE t.from + pos[c] \in ToRead(c)
      BY <1>7, <2>1
    <2>2. ASSUME t.from # Device, NEW d \in Chan, run'[d] = "running", t.from + pos[c] \in ToRead(d)'
          PROVE  FALSE
      <3>1. d # c
        <4>1. ASSUME d = c PROVE FALSE
          BY <1>9, <2>2, <4>1
        <4> QED BY <4>1
      <3>2. Started(d) /\ t.from + pos[c] \in ToRead(d)
        BY <1>5, <2>2, <3>1 DEF Started
      <3> QED BY <1>1, <2>1, <2>2, <3>1, <3>2, StartedWords DEF Disjoint
    <2>3. t.from # Device => Reading(t.from + pos[c])
      BY <1>1, <2>1 DEF Reading
    <2>4. PICK w : w = t.from + pos[c]
      OBVIOUS
    <2>5. ASSUME t.from # Device, Reading(w)' PROVE FALSE
      <3>1. PICK d \in Chan : run'[d] = "running" /\ w \in ToRead(d)'
        BY <2>5 DEF Reading
      <3> QED BY <2>2, <2>4, <2>5, <3>1
    <2> QED BY <2>3, <2>4, <2>5
  <1>14. t.to # Device => ~Reading(t.to + pos[c])
    <2>1. ASSUME t.to # Device PROVE t.to + pos[c] \in Dst(t)
      BY <1>1, <1>3, <2>1 DEF Dst
    <2>2. ASSUME t.to # Device, NEW d \in Chan, run[d] = "running", t.to + pos[c] \in ToRead(d)
          PROVE  FALSE
      <3>1. Started(d) /\ t.to + pos[c] \in ProgrammedBy(c)
        BY <1>1, <2>1, <2>2, StartedWords DEF Started, t
      <3>2. CASE d = c
        BY <1>1, <2>1, <2>2, <3>1, <3>2, StartedWords DEF t
      <3>3. CASE d # c
        BY <1>1, <2>2, <3>1, <3>3, StartedWords DEF Disjoint
      <3> QED BY <3>2, <3>3
    <2> QED BY <2>2 DEF Reading
  <1>15. /\ t.from # Device => v = ram[t.from + pos[c]]
         /\ t.to = Device => dev' = v /\ ram' = ram
         /\ t.to # Device => ram' = [ram EXCEPT ![t.to + pos[c]] = v] /\ dev' = dev /\ poked' = poked
    BY DEF Beat, t
  <1>16. t.from # Device => v \in SharedMay[t.from + pos[c]]
    BY <1>3, <1>13, <1>15, ViewOf
  <1>17. SharedMem' = IF t.to = Device THEN SharedMem ELSE [SharedMem EXCEPT ![t.to + pos[c]] = v]
    <2>1. CASE t.to = Device
      BY <1>2, <1>10, <1>15, <2>1, ViewOf, ViewNext
    <2>2. CASE t.to # Device
      BY <1>2, <1>3, <1>10, <1>15, <2>2, ViewOf, ViewNext
    <2> QED BY <2>1, <2>2
  <1>18. \A x : InFlight(x)' = InFlight(x)
    BY <1>2 DEF InFlight
  <1>19. ASSUME NEW w \in Word
         PROVE  SharedMay'[w] = IF (t.from # Device /\ w = t.from + pos[c]) \/ (t.to # Device /\ w = t.to + pos[c])
                           THEN {SharedMem'[w]} ELSE SharedMay[w]
    <2>1. CASE (t.from # Device /\ w = t.from + pos[c]) \/ (t.to # Device /\ w = t.to + pos[c])
      <3>1. ~Reading(w)'
        BY <1>11, <1>13, <1>14, <2>1
      <3> QED BY <2>1, <3>1, ViewNext
    <2>2. CASE ~((t.from # Device /\ w = t.from + pos[c]) \/ (t.to # Device /\ w = t.to + pos[c]))
      <3>1. Reading(w)' <=> Reading(w)
        BY <1>11, <1>12, <2>2
      <3>2. ram'[w] = ram[w] /\ SharedMem'[w] = SharedMem[w]
        <4>1. CASE t.to = Device
          BY <1>15, <1>17, <4>1
        <4>2. CASE t.to # Device
          BY <1>2, <1>15, <1>17, <2>2, <4>2, ViewOf
        <4> QED BY <4>1, <4>2
      <3> QED BY <1>18, <2>2, <3>1, <3>2, ViewOf, ViewNext
    <2> QED BY <2>1, <2>2
  <1>20. SharedMay' = [w \in Word |-> IF (t.from # Device /\ w = t.from + pos[c]) \/ (t.to # Device /\ w = t.to + pos[c])
                           THEN {SharedMem'[w]} ELSE SharedMay[w]]
    BY <1>19, ViewNext
  <1> QED BY <1>1, <1>2, <1>15, <1>16, <1>17, <1>20 DEF Shared!Move, t

LEMMA NextStep ==
  ASSUME Sound, Sound', \A w \in Word : SharedMem'[w] \in SharedMay'[w], [Next]_vars
  PROVE  Abstractly
  <1>1. CInv' /\ TypeOK' /\ Within' /\ Disjoint' /\ HandedBackCoherent' /\ SourceWrittenThrough'
    BY DEF Sound, All, KInv, DInv, CInv
  <1>2. CASE Core1
    <2>1. ASSUME NEW w \in CpuWord, NEW v \in Val, CpuWrite(w, v) PROVE Abstractly
      <3>1. w \in Word /\ Shared!Write(w, v)
        BY <1>1, <2>1, WriteStep, RingAssumption
      <3> QED BY <3>1 DEF Abstractly, Shared!SharedNext
    <2>2. ASSUME NEW c \in Chan, NEW t \in Transfers, Program(c, t) PROVE Abstractly
      BY <2>2, ProgramStep DEF Abstractly, Shared!SharedNext
    <2>3. ASSUME CcrWrite PROVE Abstractly
      <3>1. chn \in Chan
        BY <2>3 DEF CcrWrite, Sound, All, CInv, Control
      <3> QED BY <2>3, <3>1, StartStep DEF Abstractly, Shared!SharedNext
    <2>4. CASE \/ \E c \in Chan : StartDma(c) \/ Poll(c)
               \/ FlushWord \/ FlushDone \/ PollRead \/ Periodic \/ RepairIssue \/ RepairRead
      BY <2>4, QuietStep
    <2>5. CASE DrainPop \/ InWaitHook \/ DrainEnd \/ RepairSkip \/ RepairStore
      BY <1>1, <2>5, DrainStep
    <2> QED BY <1>2, <2>1, <2>2, <2>3, <2>4, <2>5 DEF Core1
  <1>3. CASE Core0
    <2>1. ASSUME NEW w \in Ring, NEW v \in Val, Poke(w, v) PROVE Abstractly
      <3>1. w \in Word /\ Shared!Write(w, v)
        BY <1>1, <2>1, WriteStep, RingAssumption
      <3> QED BY <3>1 DEF Abstractly, Shared!SharedNext
    <2> QED BY <1>3, <2>1, QuietStep DEF Core0
  <1>4. CASE Bus
    <2>1. CASE Land
      BY <2>1, LandStep DEF Abstractly, Shared!SharedNext
    <2>2. ASSUME NEW c \in Chan, NEW v \in Val, Beat(c, v) PROVE Abstractly
      BY <1>1, <2>2, BeatStep DEF Abstractly, Shared!SharedNext
    <2> QED BY <1>4, <2>1, <2>2, QuietStep DEF Bus
  <1>5. CASE (\E p \in Page : HoldExpires(p)) \/ UNCHANGED vars
    BY <1>5, QuietStep
  <1> QED BY <1>2, <1>3, <1>4, <1>5 DEF Next

LEMMA InitStep == ASSUME Init PROVE Shared!SharedInit
  <1>1. PICK m \in [Word -> Val] : shadow = m /\ ram = m
    BY DEF Init
  <1>2. \A c \in Chan : run[c] = "idle" /\ reg[c] = None /\ pos[c] = 0
    BY DEF Init
  <1>3. (\A w : ~Written(w) /\ ~Reading(w))
    BY <1>2 DEF Written, Reading, Started
  <1>4. SharedMem = m
    BY <1>1, <1>3, ViewOf
  <1>5. SharedMay = [w \in Word |-> {SharedMem[w]}]
    BY <1>3, ViewOf
  <1> QED BY <1>1, <1>4, <1>5 DEF Init, Shared!SharedInit

\* The shadow, the dirty words, the flush and the hold of wb_dma_start, the
\* FPGA's snooping and the host's drain and repair amount to one memory that
\* the CPU and the DMA controller share.
THEOREM WriteBackImplementsSharedRam ==
  ASSUME Discipline, ~TwoWriters, ~PokeRaces PROVE Spec => ImplementsSharedRam
  <1>1. Init => Shared!SharedInit
    BY InitStep
  <1>2. Sound => \A w \in Word : SharedMem[w] \in SharedMay[w]
    BY MemInMay
  <1>3. Sound /\ Sound' /\ (\A w \in Word : SharedMem[w] \in SharedMay[w])' /\ [Next]_vars
        => [Shared!SharedNext]_(Shared!sharedVars)
    BY NextStep DEF Abstractly, Shared!sharedVars
  <1> QED BY <1>1, <1>2, <1>3, Soundness, PTL DEF Spec, ImplementsSharedRam, Shared!SharedSpec
=============================================================================
