------------------------------- MODULE BusPort -------------------------------
(***************************************************************************)
(* The register port between the host and the FPGA (vmpu68_io.c, hw.c;     *)
(* pi_if.v, bus_engine.v).  The host keeps images of what it last wrote -  *)
(* the CTRL register, the data latch, the address the FPGA steps to by     *)
(* itself, the word at the head of the prefetch FIFO, the reasons for a    *)
(* high interrupt line - and leaves out every strobe the images make       *)
(* superfluous; nothing in a register tells it when an image is wrong.     *)
(*                                                                         *)
(* A call holds the hardware lock from its begin to its end.  Its strobes  *)
(* are one step: the engine sees none of them but the one that starts a    *)
(* command.  wire holds a command that has left the host and has not been  *)
(* synchronised yet; a STATUS read comes later than that (wait_pre, the    *)
(* polls of the line), a look at the line may not.  A stopped FPGA clock   *)
(* (module Machine) and the snoop stream (SnoopStream) are left out.       *)
(***************************************************************************)
EXTENDS Integers, Sequences

CONSTANTS
    Block,      \* bytes ADDR_LO can tell apart (64 KB)
    Blocks,     \* values of CTRL[7:0]
    PfDepth,    \* words of the prefetch FIFO
    PostedMax,  \* posted_max
    Bad,        \* addresses no device answers
    Menus,      \* what a behaviour is made of, one of these: its calls, the
                \* words other masters write, and bounds: the writes of the
                \* host, those of others, the changes of mode and reloads
    LateModes,  \* TRUE: a mode is changed, or the engine configured, right
                \* after an ai write; FALSE: after a read, as BootX68 does
    Withdraws   \* TRUE: a request may fall while the line is watched for a
                \* command that has not arrived

Addrs == 0..(Block * Blocks - 1)
Even(a) == a - (a % 2)
Top == Block * Blocks - 1    \* the acknowledge's address
Words == {a \in Addrs : a % 2 = 0}
\* m68k_read_memory_16 and its like clear bit 0 of a word's address; what the
\* stream reads is words
Calls == {k \in [op : {"read", "plain", "write", "sync", "iack", "cfg"}, addr : Addrs, size : {1, 2}] :
            (k.op = "read" => k.size = 2) /\ (k.size = 2 => k.addr % 2 = 0)}

ASSUME BusPortAssumption ==
    /\ Block \in Nat /\ Block % 2 = 0 /\ Block > 0 /\ Blocks \in Nat \ {0}
    /\ PfDepth \in Nat \ {0} /\ PostedMax \in Nat \ {0} /\ Bad \subseteq Addrs
    /\ \A m \in Menus : /\ m.calls \subseteq Calls /\ m.shared \subseteq Words
                         /\ {m.writes, m.foreign, m.sets} \subseteq Nat
    /\ {LateModes, Withdraws} \subseteq BOOLEAN

VARIABLES
    menu,      \* what this behaviour is made of
    pc, call,  \* the call in progress and where it is
    res, st,   \* what it returns: the word, and the fault and VPA bits of STATUS
    mode,      \* autostart_mode, busy_irq_mode, wr_ai_mode, pf_on
    lastCtrl,  \* last_ctrl
    lastData,  \* last_data
    wr,        \* wr_valid, wr_fpga and wr_last
    pf,        \* pf_next and pf_have
    pfSeq, pfLast,
    lineHeld, posted,
    port,      \* FPGA: the CTRL fields, the address, the data latch, REG3
    ai_ok,     \* FPGA: the bitstream implements ai writes
    wire,      \* the command that has not been synchronised yet
    cmds,      \* command FIFO
    eng,       \* the bus cycle in progress
    rdata, pfFifo, pfRun, pfA,
    pend, fault, vpa,
    mem,       \* the words of the bus
    other,     \* another reason for a high line (interrupt, snoop record)
    due,       \* ghost: writes asked for that have not been on the bus yet
    past,      \* ghost: what a word has held since the last command was given
    mine,      \* ghost: the command of this call has faulted
    writes, foreign, sets,
    reloaded   \* the FPGA lost its registers and no call has been made since

host == <<mode, lastCtrl, lastData, wr, pf, pfSeq, pfLast, posted>>
engine == <<cmds, eng, rdata, pfFifo, pfRun, pfA, fault, vpa, mem>>
bounds == <<writes, foreign, sets>>
vars == <<menu, pc, call, res, st, host, lineHeld, port, ai_ok, wire, engine, pend, other,
          due, past, mine, bounds, reloaded>>

NoImage == [none |-> TRUE]
NoCycle == [on |-> FALSE]
NoData == 0 - 1
Nothing == <<0 - 1, 0 - 1>>
Floating == <<0 - 2, 0 - 2>>   \* the word of nobody (0xFFFF)
Smaller(a, b) == IF a < b THEN a ELSE b

Ctrl(fc, rw, size, p, wt, ai, hi) ==
    [fc |-> fc, rw |-> rw, size |-> size, pf |-> p, wt |-> wt, ai |-> ai, hi |-> hi]
NoCtrl == Ctrl(0, FALSE, 1, FALSE, FALSE, FALSE, 0)
Hi(a) == a \div Block
Lo(a) == a % Block
Address(p) == p.ctrl.hi * Block + p.lo
AiWrite(p) == p.ctrl.ai /\ ~p.ctrl.rw

-----------------------------------------------------------------------------
(* What a strobe does in the FPGA (pi_if.v): it changes the port, and may    *)
(* start a command with the fields as they stand.                            *)
Command(p) == [rw |-> p.ctrl.rw, addr |-> Address(p), size |-> p.ctrl.size, data |-> p.data,
               pf |-> p.ctrl.pf /\ p.ctrl.rw, wt |-> p.ctrl.wt, fc |-> p.ctrl.fc]
\* ai: the address steps by the size of the access after the start
Stepped(p) ==
    LET d == IF p.ctrl.pf THEN 0 - p.ctrl.size ELSE p.ctrl.size
        a == (Address(p) + d) % (Block * Blocks)
    IN  [p EXCEPT !.ctrl.hi = Hi(a), !.lo = Lo(a)]
Started(s, p) == [port |-> IF AiWrite(p) THEN Stepped(p) ELSE p, go |-> Append(s.go, Command(p))]
Quiet(s, p) == [port |-> p, go |-> s.go]

Strobe(s, x) ==
    CASE x.reg = "data" -> LET p == [s.port EXCEPT !.data = x.v]
                           IN  IF AiWrite(p) THEN Started(s, p) ELSE Quiet(s, p)
      [] x.reg = "addr" -> LET p == [s.port EXCEPT !.lo = x.v]
                           IN  IF p.auto /\ ~AiWrite(p) THEN Started(s, p) ELSE Quiet(s, p)
      [] x.reg = "ctrl" -> LET p == [s.port EXCEPT !.ctrl = x.v]
                           IN  IF p.auto THEN Quiet(s, p) ELSE Started(s, p)
      [] x.reg = "none" -> s
\* A call gives at most three, some of which the images make superfluous.
Strobes(xs) == Strobe(Strobe(Strobe([port |-> port, go |-> <<>>], xs[1]), xs[2]), xs[3])

LeftOut == [reg |-> "none"]
ToCtrl(c) == [reg |-> "ctrl", v |-> c]
ToAddr(a) == [reg |-> "addr", v |-> Lo(a)]
ToData(d) == [reg |-> "data", v |-> d]

\* WR_AI_ON
AiOn == mode.ai /\ mode.auto
\* set_ctrl, and the same for the data latch in vmpu68_reg_write
set_ctrl(c) == IF lastCtrl = c THEN LeftOut ELSE ToCtrl(c)
PutData(d) == IF lastData = d /\ ~AiOn THEN LeftOut ELSE ToData(d)
\* the data, fields and address of a command, the strobe that starts it last
Give(data, c, a) == IF mode.auto THEN <<data, set_ctrl(c), ToAddr(a)>> ELSE <<data, ToAddr(a), ToCtrl(c)>>
\* without autostart the CTRL image is not kept
CtrlAfter(c) == IF mode.auto THEN c ELSE lastCtrl

\* The strobes xs leave the host.
Send(xs) == /\ port' = Strobes(xs).port /\ wire' = wire \o Strobes(xs).go

Line == other \/ (port.busyIrq /\ (pend \/ fault))
Busy == cmds # <<>> \/ (eng.on /\ ~eng.spec)
Status == [fault |-> fault, vpa |-> vpa]
Good == [fault |-> FALSE, vpa |-> FALSE]
\* every STATUS read notes why the line may be high (held_mask)
Held == fault \/ other
NoteLine == lineHeld' = Held
Count == Smaller(Len(pfFifo), 3)

-----------------------------------------------------------------------------
(* The calls.                                                                *)
Go(where) == pc' = where
\* a command of this host: the stream's mirror is dropped, the past begins here
Fresh == past' = [w \in Words |-> {mem[w]}] /\ mine' = FALSE

\* vmpu68_bus_read_fc: hold read, line or STATUS
WaitRead(fc) ==
    IF mode.bi /\ ~lineHeld /\ fc = 5 THEN Go("holdup") ELSE Go("status")
bus_read_fc(a, size, fc) ==
    LET c == Ctrl(fc, TRUE, size, FALSE, mode.bi, FALSE, Hi(a)) IN
    /\ Send(Give(LeftOut, c, a)) /\ lastCtrl' = CtrlAfter(c)
    /\ wr' = NoImage /\ pf' = NoImage /\ WaitRead(fc) /\ Fresh
    /\ UNCHANGED <<mode, lastData, pfSeq, pfLast>>

\* vmpu68_bus_read_pf, from "restart": a stream on the third word of a run
WaitStream(stream, held) ==
    CASE stream -> Go("pfstatus")
      [] ~stream /\ mode.bi /\ ~held -> Go("holdup")
      [] OTHER -> Go("status")
Restart(a, held) ==
    LET seq == IF a = pfLast + 2 THEN Smaller(pfSeq + 1, 2) ELSE 0
        c == Ctrl(5, TRUE, 2, seq >= 2, mode.bi, FALSE, Hi(a))
    IN  /\ pfSeq' = seq /\ pfLast' = a /\ pf' = NoImage
        /\ Send(Give(LeftOut, c, a)) /\ lastCtrl' = CtrlAfter(c) /\ wr' = NoImage
        /\ WaitStream(seq >= 2, held) /\ Fresh
        /\ UNCHANGED <<mode, lastData>>

\* issue_write: one, two or three strobes
Direction(a, size) ==
    CASE wr # NoImage /\ a = (wr.last + size) % (Block * Blocks) -> FALSE
      [] wr # NoImage /\ a # (wr.last + size) % (Block * Blocks)
         /\ a = (wr.last - size) % (Block * Blocks) -> TRUE
      [] OTHER -> lastCtrl = NoImage \/ lastCtrl.pf
\* Mutant: the step of the last access is taken for the step of this one.
Follows_MutantSize(a, kept) == wr # NoImage /\ wr.fpga = a
Follows(a, kept) == wr # NoImage /\ wr.fpga = a /\ lastCtrl = kept
AiStrobes(a, size, d, wt) ==
    LET at(dec) == Ctrl(5, FALSE, size, dec, wt, TRUE, Hi(a))
        kept == at(lastCtrl = NoImage \/ lastCtrl.pf)
    IN  IF Follows(a, kept) THEN [c |-> kept, xs |-> <<LeftOut, LeftOut, ToData(d)>>]
        ELSE LET c == at(Direction(a, size))
             IN  [c |-> c, xs |-> <<set_ctrl(c), ToAddr(a), ToData(d)>>]
issue_write(a, size, d, wt) ==
    /\ pf' = NoImage /\ lastData' = d
    /\ IF AiOn
       THEN LET w == AiStrobes(a, size, d, wt)
                f == (IF w.c.pf THEN a - size ELSE a + size) % (Block * Blocks)
            IN  /\ Send(w.xs) /\ wr' = [fpga |-> f, last |-> a]
                /\ lastCtrl' = [w.c EXCEPT !.hi = Hi(f)]
       ELSE LET c == Ctrl(5, FALSE, size, FALSE, wt, FALSE, Hi(a))
            IN  /\ Send(Give(PutData(d), c, a)) /\ lastCtrl' = CtrlAfter(c) /\ wr' = NoImage
    /\ due' = Append(due, [addr |-> a, size |-> size, data |-> d])
    /\ Fresh /\ UNCHANGED <<mode, pfSeq, pfLast>>

\* a waited write: the line when it can tell, STATUS otherwise (wait_done)
WaitDone == IF mode.bi /\ ~lineHeld THEN Go("up") ELSE Go("done")

\* BootX68 reads address 0 before anything else
BootRead == [op |-> "read", addr |-> 0, size |-> 2]
MayBegin(k) ==
    /\ pc = "idle" /\ call' = k /\ res' = Nothing /\ st' = Good /\ reloaded' = FALSE
    /\ IF reloaded THEN k = BootRead ELSE k \in menu.calls
    /\ UNCHANGED <<menu, ai_ok, other, engine, pend, foreign, sets>>

\* hw_bus_read of a word of memory: the head of the stream, or a command
Hits(a) == mode.pf /\ pf # NoImage /\ pf.next = a
Read(k) ==
    /\ k.op = "read" /\ MayBegin(k) /\ posted' = 0
    /\ IF Hits(k.addr)
       THEN /\ pc' = "hit" /\ mine' = FALSE
            /\ UNCHANGED <<mode, lastCtrl, lastData, wr, pf, pfSeq, pfLast, port, wire, past>>
       ELSE IF mode.pf THEN Restart(k.addr, lineHeld) ELSE bus_read_fc(k.addr, 2, 5)
    /\ UNCHANGED <<lineHeld, due, writes>>
\* hw_bus_read of the I/O area, or of a byte
ReadPlain(k) ==
    /\ k.op = "plain" /\ MayBegin(k) /\ posted' = 0 /\ bus_read_fc(k.addr, k.size, 5)
    /\ UNCHANGED <<lineHeld, due, writes>>
\* hw_bus_write: posted_max commands are waited for first
Full == posted >= PostedMax
BusWrite(k) ==
    /\ k.op = "write" /\ MayBegin(k) /\ writes < menu.writes /\ writes' = writes + 1
    /\ IF Full
       THEN /\ pc' = "room" /\ posted' = 0 /\ mine' = FALSE
            /\ UNCHANGED <<mode, lastCtrl, lastData, wr, pf, pfSeq, pfLast, port, wire, past, due>>
       ELSE issue_write(k.addr, k.size, writes', FALSE) /\ posted' = posted + 1 /\ pc' = "ret"
    /\ UNCHANGED lineHeld
\* hw_bus_write_sync
WriteSync(k) ==
    /\ k.op = "sync" /\ MayBegin(k) /\ writes < menu.writes /\ writes' = writes + 1 /\ posted' = 0
    /\ issue_write(k.addr, k.size, writes', mode.bi) /\ WaitDone
    /\ UNCHANGED lineHeld
\* hw_iack: whatever was posted comes first
Iack(k) ==
    /\ k.op = "iack" /\ MayBegin(k) /\ posted' = 0 /\ pc' = "drain" /\ mine' = FALSE
    /\ UNCHANGED <<mode, lastCtrl, lastData, wr, pf, pfSeq, pfLast, port, wire, past, due, lineHeld, writes>>
\* vmpu68_bus_write_fc: the engine's configuration port
CfgStrobes(c) == IF mode.auto THEN <<ToData(NoData), ToCtrl(c), ToAddr(0)>> ELSE <<ToData(NoData), ToAddr(0), ToCtrl(c)>>
Configure(k) ==
    /\ k.op = "cfg" /\ MayBegin(k) /\ (LateModes \/ ~AiWrite(port))
    /\ Send(CfgStrobes(Ctrl(7, FALSE, 2, FALSE, mode.bi, FALSE, 0)))
    /\ lastCtrl' = NoImage /\ lastData' = NoData /\ wr' = NoImage /\ pf' = NoImage /\ posted' = 0
    /\ WaitDone /\ Fresh
    /\ UNCHANGED <<mode, pfSeq, pfLast, due, lineHeld, writes>>

-----------------------------------------------------------------------------
(* How a call goes on.                                                       *)
\* the DATA register: the head of the FIFO, popped, or the last word read
Word == IF pfFifo # <<>> THEN Head(pfFifo) ELSE rdata
Popped == IF pfFifo # <<>> THEN Tail(pfFifo) ELSE pfFifo
TakeWord == res' = Word /\ pfFifo' = Popped
Elsewhere == UNCHANGED <<menu, call, ai_ok, other, reloaded, writes, foreign, sets>>
NoStrobe == UNCHANGED <<mode, lastCtrl, lastData, wr, pfSeq, pfLast, posted, port, wire, past, mine, due>>
EngineStays == UNCHANGED <<engine, pend>>
EngineStaysButFifo == UNCHANGED <<cmds, eng, rdata, pfRun, pfA, fault, vpa, mem, pend>>

\* a hit: the count is asked for when none is known; a stream that has ended,
\* or shows no word for too long, begins again
HitPoll ==
    /\ pc = "hit" /\ pf.have = 0 /\ wire = <<>> /\ NoteLine
    /\ \/ (Count > 0 \/ pfRun) /\ pf' = [pf EXCEPT !.have = Count] /\ pc' = pc /\ NoStrobe
       \/ Count = 0 /\ Restart(call.addr, Held) /\ UNCHANGED <<posted, due>>
    /\ UNCHANGED <<res, st>> /\ EngineStays /\ Elsewhere
HitTake ==
    /\ pc = "hit" /\ pf.have > 0 /\ TakeWord
    /\ pf' = [next |-> call.addr + 2, have |-> pf.have - 1] /\ pfLast' = call.addr /\ pc' = "ret"
    /\ UNCHANGED <<mode, lastCtrl, lastData, wr, pfSeq, posted, port, wire, past, mine, due, st, lineHeld>>
    /\ EngineStaysButFifo /\ Elsewhere

\* The line: high first, for the command may still be on its way, then low.
LineHigh ==
    /\ pc \in {"up", "holdup"} /\ Line /\ pc' = (IF pc = "up" THEN "down" ELSE "holddown")
    /\ UNCHANGED <<pf, res, st, lineHeld>> /\ NoStrobe /\ EngineStays /\ Elsewhere
LineLow ==
    /\ pc \in {"down", "holddown"} /\ ~Line /\ pc' = "ret"
    \* hold_live: a word the FIFO still holds is not shown
    /\ res' = (IF pc = "holddown" THEN rdata ELSE res)
    /\ UNCHANGED <<pf, st, lineHeld>> /\ NoStrobe /\ EngineStays /\ Elsewhere
LineGivesUp ==
    /\ pc \in {"up", "holdup", "down", "holddown"} /\ wire = <<>>
    /\ pc' = (IF pc \in {"up", "down"} THEN "done" ELSE "status")
    /\ UNCHANGED <<pf, res, st, lineHeld>> /\ NoStrobe /\ EngineStays /\ Elsewhere

\* busy_poll, until the engine is idle
BusyPoll ==
    /\ pc \in {"status", "done", "drain", "room", "pfstatus"} /\ Busy /\ wire = <<>> /\ NoteLine
    /\ UNCHANGED <<pc, pf, res, st>> /\ NoStrobe /\ EngineStays /\ Elsewhere
NotBusy(where) == pc = where /\ ~Busy /\ wire = <<>> /\ NoteLine

StatusDone ==
    /\ NotBusy("status") /\ st' = Status /\ pc' = "data"
    /\ UNCHANGED <<pf, res>> /\ NoStrobe /\ EngineStays /\ Elsewhere
TakeData ==
    /\ pc = "data" /\ TakeWord /\ pc' = "ret"
    /\ UNCHANGED <<pf, st, lineHeld>> /\ NoStrobe /\ EngineStaysButFifo /\ Elsewhere
WriteDone ==
    /\ NotBusy("done") /\ st' = Status /\ pc' = "ret"
    /\ UNCHANGED <<pf, res>> /\ NoStrobe /\ EngineStays /\ Elsewhere

\* the stream's own word: busy first, then the count
\* Mutant: the count alone is looked at.
StreamReady_MutantCount == pc = "pfstatus" /\ wire = <<>> /\ NoteLine /\ (~Busy \/ Count > 0)
StreamReady == NotBusy("pfstatus")
StreamStatus ==
    /\ StreamReady /\ st' = Status
    /\ IF Count = 0 THEN res' = Floating /\ pc' = "ret" /\ pf' = pf
       ELSE res' = res /\ pc' = "pfdata" /\ pf' = [next |-> call.addr + 2, have |-> Count - 1]
    /\ NoStrobe /\ EngineStays /\ Elsewhere
StreamData ==
    /\ pc = "pfdata" /\ TakeWord /\ pc' = "ret"
    /\ UNCHANGED <<pf, st, lineHeld>> /\ NoStrobe /\ EngineStaysButFifo /\ Elsewhere

\* posted writes waited for: a fault of theirs is reported, and this write is not made
RoomMade ==
    /\ NotBusy("room") /\ pc' = "ret"
    /\ IF fault THEN st' = Status /\ UNCHANGED <<pf, host, port, wire, past, mine, due>>
       ELSE /\ issue_write(call.addr, call.size, writes, FALSE) /\ posted' = 1
            /\ UNCHANGED st
    /\ UNCHANGED res /\ EngineStays /\ Elsewhere

\* the acknowledge: a fault flag left by an earlier write is cleared first
\* Mutant: it is left standing.
Clean_MutantStale == fault
Clean == FALSE
Acknowledge ==
    /\ NotBusy("drain") /\ fault' = Clean
    /\ bus_read_fc(Top, 1, 7)
    /\ UNCHANGED <<res, st, posted, due, cmds, eng, rdata, pfFifo, pfRun, pfA, vpa, mem, pend>> /\ Elsewhere

\* The call ends; hw_iack clears a fault it reports as a spurious interrupt,
\* hw_set_out_delay one it takes for an older bitstream's.
Return ==
    /\ pc = "ret" /\ pc' = "idle" /\ fault' = (fault /\ ~(call.op \in {"iack", "cfg"} /\ st.fault))
    /\ call' = NoCycle /\ res' = Nothing /\ st' = Good
    /\ UNCHANGED <<menu, ai_ok, other, reloaded, bounds, pf, lineHeld,
                   cmds, eng, rdata, pfFifo, pfRun, pfA, vpa, mem, pend>> /\ NoStrobe

HostStep == \/ \E k \in menu.calls \cup {BootRead} : \/ Read(k) \/ ReadPlain(k) \/ BusWrite(k)
                                          \/ WriteSync(k) \/ Iack(k) \/ Configure(k)
        \/ HitPoll \/ HitTake \/ LineHigh \/ LineLow \/ LineGivesUp \/ BusyPoll
        \/ StatusDone \/ TakeData \/ WriteDone \/ StreamStatus \/ StreamData
        \/ RoomMade \/ Acknowledge \/ Return

-----------------------------------------------------------------------------
(* Between two calls: the modes, the fault flag, the machine's power.        *)
MaySet == pc = "idle" /\ ~reloaded /\ sets < menu.sets /\ sets' = sets + 1
SetUnchanged == UNCHANGED <<menu, pc, call, res, st, pfSeq, pfLast, posted, wire, other,
                            past, mine, writes, foreign>>
\* after an ai write only when LateModes says so: its next DATA strobe would start a cycle
Calm == LateModes \/ ~AiWrite(port)

hw_set_autostart(on) ==
    /\ MaySet /\ (on \/ Calm) /\ port' = [port EXCEPT !.auto = on]
    /\ mode' = [mode EXCEPT !.auto = on] /\ lastCtrl' = NoImage
    /\ UNCHANGED <<lastData, wr, pf, lineHeld, ai_ok, due, reloaded>> /\ EngineStays /\ SetUnchanged
hw_set_busy_irq(on) ==
    /\ MaySet /\ port' = [port EXCEPT !.busyIrq = on]
    /\ mode' = [mode EXCEPT !.bi = on] /\ lastCtrl' = NoImage
    /\ UNCHANGED <<lastData, wr, pf, lineHeld, ai_ok, due, reloaded>> /\ EngineStays /\ SetUnchanged
\* on only when the bitstream has it and the cycles are started by themselves
hw_set_wr_ai(on) ==
    /\ MaySet /\ (on \/ Calm) /\ mode' = [mode EXCEPT !.ai = on /\ ai_ok /\ mode.auto]
    /\ wr' = NoImage /\ lastCtrl' = NoImage
    /\ UNCHANGED <<lastData, pf, lineHeld, port, ai_ok, due, reloaded>> /\ EngineStays /\ SetUnchanged
vmpu68_pf_enable(on) ==
    /\ MaySet /\ mode' = [mode EXCEPT !.pf = on] /\ pf' = NoImage
    /\ UNCHANGED <<lastCtrl, lastData, wr, lineHeld, port, ai_ok, due, reloaded>> /\ EngineStays /\ SetUnchanged
hw_clear_fault ==
    /\ pc = "idle" /\ ~reloaded /\ fault /\ fault' = FALSE
    /\ UNCHANGED <<mode, lastCtrl, lastData, wr, pf, lineHeld, port, ai_ok, due, reloaded, sets,
                   cmds, eng, rdata, pfFifo, pfRun, pfA, vpa, mem, pend>> /\ SetUnchanged

\* Power was lost: the FPGA starts over, perhaps with another bitstream, and
\* hw_reinit writes the modes again and forgets the images.
hw_reinit ==
    /\ MaySet /\ reloaded' = TRUE /\ ai_ok' \in BOOLEAN
    /\ mode' = [mode EXCEPT !.ai = mode.ai /\ ai_ok' /\ mode.auto]
    /\ port' = [ctrl |-> NoCtrl, lo |-> 0, data |-> 0, auto |-> mode.auto, busyIrq |-> mode.bi]
    /\ lastCtrl' = NoImage /\ lastData' = NoData /\ wr' = NoImage
    /\ cmds' = <<>> /\ eng' = NoCycle /\ rdata' = Nothing /\ pfFifo' = <<>> /\ pfRun' = FALSE
    /\ fault' = FALSE /\ vpa' = FALSE /\ pend' = FALSE /\ lineHeld' = other /\ due' = <<>>
    /\ wire = <<>> /\ UNCHANGED <<pf, pfA, mem>> /\ SetUnchanged

Modes == \/ \E on \in BOOLEAN : \/ hw_set_autostart(on) \/ hw_set_busy_irq(on)
                                \/ hw_set_wr_ai(on) \/ vmpu68_pf_enable(on)
         \/ hw_clear_fault \/ hw_reinit

-----------------------------------------------------------------------------
(* The FPGA (bus_engine.v) and the other masters.                            *)
AtHost == UNCHANGED <<menu, pc, call, res, st, host, lineHeld, port, ai_ok, writes, sets, reloaded>>

\* a command is synchronised and pushed
Land ==
    /\ wire # <<>> /\ cmds' = Append(cmds, Head(wire)) /\ wire' = Tail(wire)
    /\ pend' = (pend \/ Head(wire).wt)
    /\ UNCHANGED <<eng, rdata, pfFifo, pfRun, pfA, fault, vpa, mem, other, due, past, mine, foreign>> /\ AtHost
StillPending == pend /\ cmds' # <<>>

\* a write in CPU space configures the engine and runs no cycle
Consumed(c) == ~c.rw /\ c.fc = 7
dispatch ==
    /\ ~eng.on /\ cmds # <<>> /\ cmds' = Tail(cmds)
    /\ IF Consumed(Head(cmds))
       THEN pend' = StillPending /\ UNCHANGED <<eng, vpa, pfRun, pfFifo>>
       ELSE /\ eng' = [on |-> TRUE, spec |-> FALSE, c |-> Head(cmds)]
            /\ vpa' = FALSE /\ pfRun' = FALSE /\ pfFifo' = <<>> /\ pend' = pend
    /\ UNCHANGED <<rdata, pfA, fault, mem, wire, other, due, past, mine, foreign>> /\ AtHost
\* nothing to do: the stream is fetched ahead
FetchAhead ==
    /\ ~eng.on /\ cmds = <<>> /\ pfRun /\ Len(pfFifo) < PfDepth
    /\ eng' = [on |-> TRUE, spec |-> TRUE,
               c |-> [Command(port) EXCEPT !.rw = TRUE, !.addr = pfA, !.size = 2, !.pf = FALSE, !.fc = 5]]
    /\ UNCHANGED <<cmds, rdata, pfFifo, pfRun, pfA, fault, vpa, mem, pend, wire, other, due,
                   past, mine, foreign>> /\ AtHost

Stored(w, a, size, d) ==
    IF size = 2 THEN <<d, d>> ELSE IF a % 2 = 1 THEN <<w[1], d>> ELSE <<d, w[2]>>
\* nobody answers an acknowledge, or with a vector, or with VPA
Answers(c) ==
    CASE c.fc = 7 -> {"vector", "vpa", "none"}
      [] c.fc # 7 /\ c.addr \in Bad -> {"none"}
      [] OTHER -> {"dtack"}
\* it is the command the call in progress waits for
Awaited == pc \in {"status", "up", "holdup", "down", "holddown", "done", "pfstatus"}
           /\ ~eng.spec /\ wire = <<>> /\ cmds = <<>>
CycleEnds(answer) ==
    LET c == eng.c
        w == Even(c.addr)
        streamed == c.pf \/ eng.spec
        bad == answer = "none"
        held == IF c.fc = 7 \/ bad THEN Floating ELSE mem[w]
    IN  /\ eng.on /\ answer \in Answers(c) /\ eng' = NoCycle /\ UNCHANGED cmds
        /\ fault' = (fault \/ (bad /\ ~eng.spec)) /\ mine' = (mine \/ (bad /\ Awaited))
        /\ vpa' = (vpa \/ answer = "vpa")
        /\ pfFifo' = (IF streamed /\ ~bad THEN Append(pfFifo, held) ELSE pfFifo)
        /\ rdata' = (IF c.rw /\ ~streamed THEN held ELSE rdata)
        /\ pfRun' = (IF streamed THEN ~bad /\ Lo(w) + 2 # Block /\ (c.pf \/ pfRun) ELSE pfRun)
        /\ pfA' = (IF streamed THEN w + 2 ELSE pfA)
        /\ IF c.rw THEN UNCHANGED <<mem, past, due>>
           ELSE /\ mem' = (IF bad THEN mem ELSE [mem EXCEPT ![w] = Stored(@, c.addr, c.size, c.data)])
                /\ past' = [past EXCEPT ![w] = {mem'[w]}]
                /\ due' = (IF due = <<>> THEN due ELSE Tail(due))
        /\ pend' = StillPending
    /\ UNCHANGED <<wire, other, foreign>> /\ AtHost

\* another master writes between two cycles: the stream stops, its words stay
Foreign(w) ==
    /\ ~eng.on /\ foreign < menu.foreign /\ foreign' = foreign + 1 /\ pfRun' = FALSE
    /\ mem' = [mem EXCEPT ![w] = <<0 - 10 - foreign, 0 - 10 - foreign>>]
    /\ past' = [past EXCEPT ![w] = @ \cup {mem'[w]}]
    /\ UNCHANGED <<cmds, eng, rdata, pfFifo, pfA, fault, vpa, pend, wire, other, due, mine>> /\ AtHost
\* A request (an interrupt, a snoop record) is raised and withdrawn at any
\* time, by a write that is still queued too.  One that the line has been seen
\* high for, in place of a command still on its way, stays until it has arrived.
MistakenFor == wire # <<>> /\ pc \in {"down", "holddown"}
Request ==
    /\ (other /\ MistakenFor => Withdraws) /\ other' = ~other
    /\ UNCHANGED <<engine, pend, wire, due, past, mine, foreign>> /\ AtHost

Machine == \/ Land \/ dispatch \/ FetchAhead \/ \E x \in {"dtack", "vector", "vpa", "none"} : CycleEnds(x)
           \/ (\E w \in menu.shared : Foreign(w)) \/ Request

Init ==
    /\ menu \in Menus /\ pc = "idle" /\ call = NoCycle /\ res = Nothing /\ st = Good
    /\ mode = [auto |-> TRUE, bi |-> TRUE, ai |-> TRUE, pf |-> TRUE]
    /\ lastCtrl = NoImage /\ lastData = NoData /\ wr = NoImage /\ pf = NoImage /\ pfSeq = 0 /\ pfLast = 1
    /\ lineHeld = FALSE /\ posted = 0 /\ ai_ok = TRUE
    /\ port = [ctrl |-> NoCtrl, lo |-> 0, data |-> 0, auto |-> TRUE, busyIrq |-> TRUE]
    /\ wire = <<>> /\ cmds = <<>> /\ eng = NoCycle /\ rdata = Nothing /\ pfFifo = <<>>
    /\ pfRun = FALSE /\ pfA = 0 /\ pend = FALSE /\ fault = FALSE /\ vpa = FALSE
    /\ mem = [w \in Words |-> <<0 - 100 - w, 0 - 100 - w>>] /\ other = FALSE
    /\ due = <<>> /\ past = [w \in Words |-> {mem[w]}] /\ mine = FALSE
    /\ writes = 0 /\ foreign = 0 /\ sets = 0 /\ reloaded = FALSE

Next == HostStep \/ Modes \/ Machine
Spec == Init /\ [][Next]_vars

-----------------------------------------------------------------------------
(* Properties.                                                               *)

(* The images and queues have their types; no more commands are queued than  *)
(* the host allows itself to post, and the one it waits for (hw.c posted_max; *)
(* the FPGA's FIFO drops a command silently when it is full).                *)
TypeOK ==
    /\ mode \in [auto : BOOLEAN, bi : BOOLEAN, ai : BOOLEAN, pf : BOOLEAN]
    /\ posted \in 0..PostedMax /\ pfSeq \in 0..2 /\ (pf = NoImage \/ pf.next \in 0..(Top + 1))
    /\ Len(pfFifo) <= PfDepth /\ Len(cmds) + Len(wire) <= PostedMax + 1
    /\ (wr = NoImage \/ (wr.fpga \in Addrs /\ wr.last \in Addrs))

(* A read that reports no fault returns a word its address has held since    *)
(* the last command was given, and after every write the host made before it *)
(* (vmpu68_bus_read_fc, vmpu68_bus_read_pf: the stream, the hold read, the   *)
(* hits): never the word of an earlier stream, or of another address.        *)
FreshReads ==
    pc = "ret" /\ call.op \in {"read", "plain"} /\ ~st.fault => res \in past[Even(call.addr)]

(* The commands on their way are the writes the host asked for and the bus   *)
(* has not seen, in their order, each with its own address, size and data,   *)
(* however few strobes it was given with (issue_write); after them comes at  *)
(* most the command the call in progress waits for; and a call that waits    *)
(* returns when none is left.                                                *)
Underway == (IF eng.on /\ ~eng.spec THEN <<eng.c>> ELSE <<>>) \o cmds \o wire
IsWrite(c) == ~c.rw /\ c.fc # 7
AsAsked(c, w) == IsWrite(c) /\ w = [addr |-> c.addr, size |-> c.size, data |-> c.data]
WritesAsAsked ==
    /\ \A i \in DOMAIN due : i \in DOMAIN Underway /\ AsAsked(Underway[i], due[i])
    /\ \A i \in DOMAIN Underway : i \in DOMAIN due \/ (i = Len(Underway) /\ ~IsWrite(Underway[i]))
    /\ pc = "ret" /\ call.op # "write" => due = <<>>

(* A call that waits for its command reports the fault of that command, also *)
(* when the interrupt line told it that the command was over; and a spurious *)
(* interrupt is one whose own acknowledge nobody answered (hw_iack), not one *)
(* that found the fault flag of an earlier write.  The type invariant is     *)
(* checked with it.                                                          *)
FaultsReported ==
    /\ TypeOK
    /\ pc = "ret" => /\ mine => st.fault
                     /\ call.op = "iack" /\ st.fault => mine
=============================================================================
