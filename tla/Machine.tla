------------------------------ MODULE Machine ------------------------------
(***************************************************************************)
(* Starting and stopping the emulated 68000: core 1's loop (CEmuCore::Run  *)
(* in baremetal/kernel.cpp), the ways core 0 stops it (emu_quiesce and its *)
(* callers), and the supervision that follows the X68000's power switch    *)
(* and reset button (the main loop of CKernel::Run, BootX68, and the hello *)
(* marker and reset latch of mgmtd/hw.c and fpga/rtl/pi_if.v).             *)
(*                                                                         *)
(* Time is counted in units of one second, scaled down: Settle (1 s of     *)
(* clock before a boot), ShortGap (3 s), LongUp (10 s), QuiesceMax (6 s),  *)
(* ResetMax (5 s).  RunOn, BounceGap and BounceUp are the machine's: how   *)
(* long its clock runs on, stops and comes back as its supplies decay.     *)
(* The main loop passes at least once a second unless it waits inside      *)
(* emu_quiesce or BootX68, and a core 1 that was told to stop does so      *)
(* within the second as long as the bus clock runs: with the clock stopped *)
(* it may hang in a bus wait.                                              *)
(***************************************************************************)
EXTENDS Integers, FiniteSets

CONSTANTS Settle, ShortGap, LongUp, QuiesceMax, ResetMax, RunOn, BounceGap, BounceUp,
          Unwatched,    \* may the clock stop before the FPGA is initialised, or come back unseen?
          MaxSwitch, MaxPress, MaxCmds

ASSUME TimesAssumption ==
    /\ {Settle, ShortGap, LongUp, QuiesceMax, ResetMax, RunOn, BounceGap, BounceUp} \subseteq Nat \ {0}
    /\ RunOn > 1                      \* the clock runs on for at least one pass of the supervision
    /\ BounceGap + 1 < ShortGap       \* a gap is seen up to one unit longer than it is
    /\ BounceUp < LongUp

ASSUME UnwatchedAssumption == Unwatched \in BOOLEAN

ASSUME BoundsAssumption == {MaxSwitch, MaxPress, MaxCmds} \subseteq Nat

VARIABLES
    \* core 1
    run,        \* s_emu_run
    active,     \* s_emu_active
    pc1,        \* where CEmuCore::Run is
    ext,        \* emu68k.c ext_reset: core 1 saw the reset latch and stopped itself
    \* core 0
    pc0,        \* where the main loop is
    then,       \* where emu_quiesce returns to
    waited,     \* seconds spent in the wait at pc0
    paused,     \* s_pause_depth # 0
    wasRunning, \* s_pause_was_running
    phase,      \* how far this pass of the 200 ms supervision is
    mock,       \* no FPGA answered hw_init: mock mode
    frozen,     \* s_fpga_frozen
    sup,        \* the supervisor's idea of the machine
    \* the machine and the FPGA
    keeps,      \* the FPGA keeps its supply (from the Pi) when the machine is off
    stage,      \* the machine's power
    age,        \* seconds in this stage, up to the longest that matters
    resetIn,    \* RESET_IN, as the FPGA last sampled it
    latch,      \* VDIAG_RST_SEEN
    hello,      \* the hello marker, echoed by the FPGA
    lock,       \* VDIAG_PLL_LOCK, stuck at its last value without a clock
    \* history
    due,        \* the machine was reset and the emulated CPU was not (or not cleanly) reset since
    ran,        \* the emulated CPU has executed since its last reset
    gaveUp,     \* the last emu_quiesce returned with core 1 still active
    used        \* switch operations, reset presses and commands so far

core1Vars == <<run, active, pc1, ext>>
core0Vars == <<pc0, then, waited, paused, wasRunning, phase, mock, frozen, sup>>
fpgaVars == <<keeps, stage, age, resetIn, latch, hello, lock>>
ghostVars == <<due, ran, gaveUp, used>>
vars == <<core1Vars, core0Vars, fpgaVars, ghostVars>>

Stages == {"on", "runon", "gap", "bounce", "dead"}
\* The code that runs with core 1 stopped, after emu_quiesce
Stopped == {"restart", "stay", "xrst", "reset", "held", "reinit", "bootpower", "bootbutton"}
Booting == {"waitreset", "setup", "cpureset", "bootend"}

Clk == stage \in {"on", "runon", "bounce"}
Powered == keeps \/ stage # "dead"
Least(a, b) == IF a < b THEN a ELSE b
Longest == RunOn + BounceGap + BounceUp

SupInit == [on |-> FALSE, was |-> FALSE, everDead |-> FALSE, up |-> 0, dead |-> 0, gap |-> ShortGap, btn |-> FALSE]

CoreFlags == run \in BOOLEAN /\ active \in BOOLEAN /\ ext \in BOOLEAN
HostFlags == paused \in BOOLEAN /\ wasRunning \in BOOLEAN /\ mock \in BOOLEAN /\ frozen \in BOOLEAN
FpgaFlags == /\ keeps \in BOOLEAN /\ resetIn \in BOOLEAN /\ latch \in BOOLEAN
             /\ hello \in BOOLEAN /\ lock \in BOOLEAN
HistoryFlags == due \in BOOLEAN /\ ran \in BOOLEAN /\ gaveUp \in BOOLEAN
Flags == CoreFlags /\ HostFlags /\ FpgaFlags /\ HistoryFlags

TypeOK ==
    /\ Flags
    /\ pc1 \in {"idle", "seen", "published", "running", "halted", "pauseseen", "draining"}
    /\ pc0 \in {"loop", "pausing", "noted", "quiesce"} \cup Stopped \cup Booting /\ then \in Stopped
    /\ waited \in 0..(QuiesceMax + ResetMax) /\ phase \in 0..2
    /\ sup \in [on : BOOLEAN, was : BOOLEAN, everDead : BOOLEAN, up : 0..LongUp,
                dead : 0..ShortGap, gap : 0..ShortGap, btn : BOOLEAN]
    /\ stage \in Stages /\ age \in 0..Longest
    /\ used \in [sw : 0..MaxSwitch, press : 0..MaxPress, cmd : 0..MaxCmds]

----------------------------------------------------------------------------
\* Registers of the FPGA as core 0 reads and writes them: a write is lost
\* while the clock is stopped, and a clear of the latch loses against a
\* RESET_IN that is still asserted (pi_if.v).

HelloWritten == hello \/ Clk
LatchCleared == latch /\ (resetIn \/ ~Clk)

\* hw_alive: 1 the marker is there, -1 the FPGA answers without it, 0 nothing answers
hw_alive == IF ~Powered THEN 0 ELSE IF hello THEN 1 ELSE -1

\* emu_quiesce, up to its wait
BeginQuiesce(next) ==
    /\ run' = FALSE /\ pc0' = "quiesce" /\ then' = next /\ waited' = 0 /\ gaveUp' = FALSE

----------------------------------------------------------------------------
\* Core 1

\* The run flag is seen ...
SeeRun ==
    /\ pc1 = "idle" /\ run
    /\ pc1' = "seen"
    /\ UNCHANGED <<run, active, ext, core0Vars, fpgaVars, ghostVars>>

\* ... active is published ...
Publish ==
    /\ pc1 = "seen"
    /\ pc1' = "published" /\ active' = TRUE
    /\ UNCHANGED <<run, ext, core0Vars, fpgaVars, ghostVars>>

\* Mutant: the flag is not looked at again
Recheck_MutantOnce ==
    /\ pc1 = "published"
    /\ IF ~ext THEN pc1' = "running" /\ ran' = TRUE /\ UNCHANGED active
               ELSE pc1' = "idle" /\ active' = FALSE /\ UNCHANGED ran
    /\ UNCHANGED <<run, ext, core0Vars, fpgaVars, due, gaveUp, used>>

\* ... and the flag looked at again before executing
Recheck ==
    /\ pc1 = "published"
    /\ IF run /\ ~ext THEN pc1' = "running" /\ ran' = TRUE /\ UNCHANGED active
                      ELSE pc1' = "idle" /\ active' = FALSE /\ UNCHANGED ran
    /\ UNCHANGED <<run, ext, core0Vars, fpgaVars, due, gaveUp, used>>

\* The batch of cycles ends, or core 1 that has stopped itself is done with it
Leave ==
    /\ pc1 \in {"running", "halted"}
    /\ pc1' = "idle" /\ active' = FALSE
    /\ UNCHANGED <<run, ext, core0Vars, fpgaVars, ghostVars>>

\* The batch ends at a breakpoint or a diagnostic halt: core 1 takes its own flag
\* down, whatever core 0 has made of it since the batch began
Breakpoint ==
    /\ pc1 = "running" /\ used.cmd < MaxCmds
    /\ pc1' = "halted" /\ run' = FALSE
    /\ used' = [used EXCEPT !.cmd = @ + 1]
    /\ UNCHANGED <<active, ext, core0Vars, fpgaVars, due, ran, gaveUp>>

\* hook_periodic finds nothing but the reset latch on the interrupt line
SeeLatch ==
    /\ pc1 = "running" /\ latch /\ Clk /\ ~ext
    /\ ext' = TRUE /\ pc1' = "idle" /\ active' = FALSE
    /\ UNCHANGED <<run, core0Vars, fpgaVars, ghostVars>>

\* Paused by a Web request: keep draining the snoop FIFO
SeePause ==
    /\ pc1 = "idle" /\ ~run /\ paused /\ wasRunning
    /\ pc1' = "pauseseen"
    /\ UNCHANGED <<run, active, ext, core0Vars, fpgaVars, ghostVars>>

Drain ==
    /\ pc1 = "pauseseen"
    /\ pc1' = "draining" /\ active' = TRUE
    /\ UNCHANGED <<run, ext, core0Vars, fpgaVars, ghostVars>>

EndDrain ==
    /\ pc1 = "draining"
    /\ pc1' = "idle" /\ active' = FALSE
    /\ UNCHANGED <<run, ext, core0Vars, fpgaVars, ghostVars>>

----------------------------------------------------------------------------
\* Core 0: emu_quiesce and what its callers do with core 1 stopped

QuiesceDone ==
    /\ pc0 = "quiesce" /\ ~active
    /\ pc0' = then /\ waited' = 0
    /\ UNCHANGED <<core1Vars, then, paused, wasRunning, phase, mock, frozen, sup, fpgaVars, ghostVars>>

QuiesceGivesUp ==
    /\ pc0 = "quiesce" /\ active /\ waited >= QuiesceMax
    /\ pc0' = then /\ waited' = 0 /\ gaveUp' = TRUE
    /\ UNCHANGED <<core1Vars, then, paused, wasRunning, phase, mock, frozen, sup, fpgaVars, due, ran, used>>

Command(next) ==
    /\ pc0 = "loop" /\ used.cmd < MaxCmds /\ used' = [used EXCEPT !.cmd = @ + 1]
    /\ BeginQuiesce(next)
    /\ UNCHANGED <<active, pc1, ext, phase, mock, frozen, sup, fpgaVars, due, ran>>

\* A setting, a bus probe or a cache flush that starts the core again whatever it did before
Change == Command("restart") /\ UNCHANGED <<paused, wasRunning>>
\* A console command that leaves the core stopped
StopCore == Command("stay") /\ UNCHANGED <<paused, wasRunning>>
\* /api/emu/reset: vmpu68_emu_reset
WebReset == Command("reset") /\ UNCHANGED <<paused, wasRunning>>
\* xrst: drive RESET+HALT for 200 ms
Xrst == Command("xrst") /\ UNCHANGED <<paused, wasRunning>>

\* vmpu68_emu_pause (1): the depth, the note of the flag, emu_quiesce
Pause ==
    /\ pc0 = "loop" /\ used.cmd < MaxCmds /\ used' = [used EXCEPT !.cmd = @ + 1]
    /\ pc0' = "pausing" /\ paused' = TRUE
    /\ UNCHANGED <<core1Vars, then, waited, wasRunning, phase, mock, frozen, sup, fpgaVars, due, ran, gaveUp>>

PauseNoted ==
    /\ pc0 = "pausing"
    /\ pc0' = "noted" /\ wasRunning' = run
    /\ UNCHANGED <<core1Vars, then, waited, paused, phase, mock, frozen, sup, fpgaVars, ghostVars>>

PauseStops ==
    /\ pc0 = "noted" /\ BeginQuiesce("held")
    /\ UNCHANGED <<active, pc1, ext, paused, wasRunning, phase, mock, frozen, sup, fpgaVars, due, ran, used>>

\* erun 1: no emu_quiesce
Erun ==
    /\ pc0 = "loop" /\ used.cmd < MaxCmds /\ used' = [used EXCEPT !.cmd = @ + 1]
    /\ run' = TRUE
    /\ UNCHANGED <<active, pc1, ext, core0Vars, fpgaVars, due, ran, gaveUp>>

Restarted ==
    /\ pc0 = "restart"
    /\ pc0' = "loop" /\ run' = TRUE
    /\ UNCHANGED <<active, pc1, ext, then, waited, paused, wasRunning, phase, mock, frozen, sup, fpgaVars, ghostVars>>

Stay ==
    /\ pc0 = "stay"
    /\ pc0' = "loop"
    /\ UNCHANGED <<core1Vars, then, waited, paused, wasRunning, phase, mock, frozen, sup, fpgaVars, ghostVars>>

\* vmpu68_emu_pause (0) after the request's work: a stopped emulator stays stopped
Unpause ==
    /\ pc0 = "held"
    /\ pc0' = "loop" /\ paused' = FALSE /\ run' = (run \/ wasRunning)
    /\ UNCHANGED <<active, pc1, ext, then, waited, wasRunning, phase, mock, frozen, sup, fpgaVars, ghostVars>>

\* Mutant: the bootstrap is left to the latch, which our own drive does not set
XrstDriven_MutantLatch ==
    /\ pc0 = "xrst"
    /\ pc0' = "loop" /\ due' = (due \/ (ran /\ Clk))
    /\ UNCHANGED <<core1Vars, then, waited, paused, wasRunning, phase, mock, frozen, sup, fpgaVars, ran, gaveUp, used>>

XrstDriven ==
    /\ pc0 = "xrst"
    /\ pc0' = "loop" /\ sup' = [sup EXCEPT !.btn = TRUE]
    /\ due' = (due \/ (ran /\ Clk))
    /\ UNCHANGED <<core1Vars, then, waited, paused, wasRunning, phase, mock, frozen, fpgaVars, ran, gaveUp, used>>

\* emu68k_reset: RESET+HALT driven for 100 ms, the CPU reset with whatever core
\* 1 is doing.  Our own pulse sets the latch when the machine's reset circuit
\* stretches it.
CpuReset(next) ==
    /\ pc0' = next /\ ext' = FALSE /\ due' = (pc1 = "running") /\ ran' = (pc1 = "running")
    /\ \E stretched \in BOOLEAN : latch' = (latch \/ (stretched /\ Clk))
    /\ UNCHANGED <<run, active, pc1, then, waited, paused, wasRunning, phase, mock, frozen, sup,
                   keeps, stage, age, resetIn, hello, lock, gaveUp, used>>

WebCpuReset == pc0 = "reset" /\ CpuReset("restart")

----------------------------------------------------------------------------
\* Core 0: BootX68

hw_reinit ==
    /\ pc0 = "bootpower"
    /\ pc0' = "waitreset" /\ hello' = HelloWritten
    /\ UNCHANGED <<core1Vars, then, waited, paused, wasRunning, phase, mock, frozen, sup,
                   keeps, stage, age, resetIn, latch, lock, ghostVars>>

BootButton ==
    /\ pc0 = "bootbutton"
    /\ pc0' = "waitreset"
    /\ UNCHANGED <<core1Vars, then, waited, paused, wasRunning, phase, mock, frozen, sup, fpgaVars, ghostVars>>

ResetReleased ==
    /\ pc0 = "waitreset" /\ (resetIn => waited >= ResetMax)
    /\ pc0' = "setup" /\ waited' = 0 /\ latch' = LatchCleared
    /\ UNCHANGED <<core1Vars, then, paused, wasRunning, phase, mock, frozen, sup,
                   keeps, stage, age, resetIn, hello, lock, ghostVars>>

\* RAM size, bus clock, write setup, resync, caches; when the bus clock has
\* changed the machine is reset once more and the latch cleared again
Setup ==
    /\ pc0 = "setup"
    /\ pc0' = "cpureset"
    /\ \E clockChanged \in BOOLEAN : latch' = IF clockChanged THEN LatchCleared ELSE latch
    /\ UNCHANGED <<core1Vars, then, waited, paused, wasRunning, phase, mock, frozen, sup,
                   keeps, stage, age, resetIn, hello, lock, ghostVars>>

BootCpuReset == pc0 = "cpureset" /\ CpuReset("bootend")

\* The reset that got us here is handled
BootEnd ==
    /\ pc0 = "bootend"
    /\ pc0' = "loop" /\ run' = TRUE /\ latch' = LatchCleared
    /\ sup' = [sup EXCEPT !.btn = FALSE]
    /\ UNCHANGED <<active, pc1, ext, then, waited, paused, wasRunning, phase, mock, frozen,
                   keeps, stage, age, resetIn, hello, lock, ghostVars>>

----------------------------------------------------------------------------
\* Core 0: the supervision, once per 200 ms in the order of the main loop

\* Mock mode: hw_init again
ProbeMock ==
    /\ pc0 = "loop" /\ phase = 0 /\ mock
    /\ phase' = 1 /\ mock' = ~Powered /\ hello' = (hello \/ (Powered /\ Clk))
    /\ UNCHANGED <<core1Vars, pc0, then, waited, paused, wasRunning, frozen, sup,
                   keeps, stage, age, resetIn, latch, lock, ghostVars>>

Alive ==
    /\ pc0 = "loop" /\ phase = 0 /\ ~mock /\ hw_alive >= 0
    /\ phase' = 1 /\ frozen' = FALSE
    /\ UNCHANGED <<core1Vars, pc0, then, waited, paused, wasRunning, mock, sup, fpgaVars, ghostVars>>

\* No marker and no lock: the clock is stopped, say so once and wait
Frozen ==
    /\ pc0 = "loop" /\ phase = 0 /\ ~mock /\ hw_alive < 0 /\ ~lock
    /\ phase' = 1 /\ frozen' = TRUE
    /\ IF ~frozen /\ sup.on
         THEN BeginQuiesce("stay") /\ sup' = [sup EXCEPT !.on = FALSE]
         ELSE UNCHANGED <<run, pc0, then, waited, gaveUp, sup>>
    /\ UNCHANGED <<active, pc1, ext, paused, wasRunning, mock, fpgaVars, due, ran, used>>

\* No marker with a lock: the FPGA was reloaded behind our back
Reconfigured ==
    /\ pc0 = "loop" /\ phase = 0 /\ ~mock /\ hw_alive < 0 /\ lock
    /\ phase' = 1 /\ frozen' = FALSE /\ BeginQuiesce("reinit")
    /\ UNCHANGED <<active, pc1, ext, paused, wasRunning, mock, sup, fpgaVars, due, ran, used>>

Reinit ==
    /\ pc0 = "reinit"
    /\ pc0' = "loop" /\ hello' = HelloWritten
    /\ sup' = [sup EXCEPT !.on = FALSE, !.everDead = FALSE, !.was = FALSE]
    /\ UNCHANGED <<core1Vars, then, waited, paused, wasRunning, phase, mock, frozen,
                   keeps, stage, age, resetIn, latch, lock, ghostVars>>

\* The 10 ms sampler; an FPGA without supply reads as anything
Sample ==
    /\ pc0 = "loop" /\ ~mock /\ sup.on
    /\ \E seen \in IF Powered THEN {latch} ELSE BOOLEAN :
         LET btn == sup.btn \/ seen \/ ext
         IN  /\ btn
             /\ latch' = (latch /\ ~(seen /\ Clk /\ ~resetIn))
             /\ IF lock /\ Clk
                  THEN BeginQuiesce("bootbutton") /\ sup' = [sup EXCEPT !.btn = FALSE]
                  ELSE sup' = [sup EXCEPT !.btn = TRUE] /\ UNCHANGED <<run, pc0, then, waited, gaveUp>>
    /\ UNCHANGED <<active, pc1, ext, paused, wasRunning, phase, mock, frozen,
                   keeps, stage, age, resetIn, hello, lock, due, ran, used>>

\* Mutants: any clock is trusted after Settle; a clock back after a short gap never is
Trusted_MutantSoon(s) == s.up >= Settle
Trusted_MutantNever(s) == s.up >= Settle /\ s.gap >= ShortGap

\* The clock runs and the machine counts as off: a clock that is back after
\* only a short gap is trusted once it has stayed up longer than any bounce
Trusted(s) == s.up >= Settle /\ (s.gap >= ShortGap \/ s.up >= LongUp)

PowerSeen ==
    LET revived == [sup EXCEPT !.btn = FALSE, !.was = TRUE, !.up = 0,
                               !.gap = IF sup.everDead THEN sup.dead ELSE ShortGap]
        s == IF sup.was THEN [sup EXCEPT !.btn = FALSE] ELSE revived
    IN  /\ pc0 = "loop" /\ phase = 1 /\ ~mock /\ Clk /\ ~sup.on
        /\ phase' = 2
        /\ IF Trusted(s)
             THEN BeginQuiesce("bootpower") /\ sup' = [s EXCEPT !.everDead = FALSE, !.on = TRUE]
             ELSE sup' = s /\ UNCHANGED <<run, pc0, then, waited, gaveUp>>
        /\ UNCHANGED <<active, pc1, ext, paused, wasRunning, mock, frozen, fpgaVars, due, ran, used>>

\* The clock is stopped
ClockLost ==
    /\ pc0 = "loop" /\ phase = 1 /\ ~mock /\ ~Clk
    /\ phase' = 2
    /\ sup' = [sup EXCEPT !.btn = FALSE, !.was = FALSE, !.everDead = TRUE, !.on = FALSE,
                          !.dead = IF sup.was \/ ~sup.everDead THEN 0 ELSE sup.dead]
    /\ IF sup.on THEN BeginQuiesce("stay") ELSE UNCHANGED <<run, pc0, then, waited, gaveUp>>
    /\ UNCHANGED <<active, pc1, ext, paused, wasRunning, mock, frozen, fpgaVars, due, ran, used>>

\* The machine is on: a reset noted by the sampler, or its level
Attend ==
    /\ pc0 = "loop" /\ phase = 1 /\ ~mock /\ Clk /\ sup.on
    /\ phase' = 2 /\ sup' = [sup EXCEPT !.btn = FALSE]
    /\ IF sup.btn \/ resetIn THEN BeginQuiesce("bootbutton")
                             ELSE UNCHANGED <<run, pc0, then, waited, gaveUp>>
    /\ UNCHANGED <<active, pc1, ext, paused, wasRunning, mock, frozen, fpgaVars, due, ran, used>>

NothingToSupervise ==
    /\ pc0 = "loop" /\ phase = 1 /\ mock
    /\ phase' = 2
    /\ UNCHANGED <<core1Vars, pc0, then, waited, paused, wasRunning, mock, frozen, sup, fpgaVars, ghostVars>>

----------------------------------------------------------------------------
\* The machine

\* The machine's own power-on reset; an FPGA that lost its supply is configured anew
SwitchOn ==
    /\ stage # "on" /\ used.sw < MaxSwitch /\ used' = [used EXCEPT !.sw = @ + 1]
    /\ stage' = "on" /\ age' = 0
    /\ resetIn' = TRUE /\ latch' = TRUE /\ lock' = TRUE /\ hello' = (hello /\ Powered)
    /\ due' = TRUE
    /\ UNCHANGED <<core1Vars, core0Vars, keeps, ran, gaveUp>>

\* The clock runs on while the supplies decay
SwitchOff ==
    /\ stage = "on" /\ used.sw < MaxSwitch /\ used' = [used EXCEPT !.sw = @ + 1]
    /\ stage' = "runon" /\ age' = 0
    /\ UNCHANGED <<core1Vars, core0Vars, keeps, resetIn, latch, hello, lock, due, ran, gaveUp>>

\* The reset button: about 25 us, seen by the latch only
ResetButton ==
    /\ stage = "on" /\ used.press < MaxPress /\ used' = [used EXCEPT !.press = @ + 1]
    /\ latch' = TRUE /\ due' = (due \/ ran)
    /\ UNCHANGED <<core1Vars, core0Vars, keeps, stage, age, resetIn, hello, lock, ran, gaveUp>>

\* The clock stops, comes back with RESET_IN asserted and dies for good.  A gap is
\* longer than the 200 ms between two passes of a supervision that is not waiting;
\* a wait hides it, with Unwatched also from a supervisor that counts the machine as off.
Decay ==
    /\ stage = "gap" => phase = 2 \/ (waited > 0 /\ (Unwatched \/ sup.on))
    /\ \/ stage = "runon" /\ age >= RunOn /\ stage' \in {"gap", "dead"} /\ UNCHANGED <<resetIn, latch>>
       \/ stage = "gap" /\ age >= 1 /\ stage' = "bounce" /\ resetIn' = TRUE /\ latch' = TRUE
       \/ stage = "gap" /\ age >= 1 /\ stage' = "dead" /\ UNCHANGED <<resetIn, latch>>
       \/ stage = "bounce" /\ age >= 1 /\ stage' = "dead" /\ UNCHANGED <<resetIn, latch>>
    /\ stage' = "gap" => Unwatched \/ hello
    /\ age' = 0
    /\ IF stage' = "dead" /\ ~keeps THEN hello' = FALSE /\ lock' = FALSE ELSE UNCHANGED <<hello, lock>>
    /\ UNCHANGED <<core1Vars, core0Vars, keeps, ghostVars>>

\* One second.  Not before core 1 has followed a stop it can follow, core 0 has
\* ended a wait it can end, and the main loop has made its pass.
Tick ==
    /\ pc1 \in {"idle", "running"} /\ ~(Clk /\ ~run /\ pc1 = "running")
    /\ \/ pc0 = "loop" /\ phase = 2 /\ UNCHANGED waited
       \/ pc0 = "quiesce" /\ active /\ waited < QuiesceMax /\ waited' = waited + 1
       \/ pc0 = "waitreset" /\ resetIn /\ waited < ResetMax /\ waited' = waited + 1
       \/ pc0 = "setup" /\ waited < 1 /\ waited' = waited + 1
    /\ ~(pc0 = "loop" /\ ~mock /\ sup.on /\ (sup.btn \/ latch \/ ext))
    /\ ~(stage = "gap" /\ age >= BounceGap) /\ ~(stage = "bounce" /\ age >= BounceUp)
    /\ phase' = 0
    /\ age' = IF stage \in {"on", "dead"} THEN 0 ELSE Least(age + 1, Longest)
    /\ resetIn' = (resetIn /\ stage # "on")
    /\ sup' = [sup EXCEPT !.up = IF sup.was THEN Least(@ + 1, LongUp) ELSE 0,
                          !.dead = IF sup.everDead /\ ~sup.was THEN Least(@ + 1, ShortGap) ELSE 0]
    /\ UNCHANGED <<core1Vars, pc0, then, paused, wasRunning, mock, frozen,
                   keeps, stage, latch, hello, lock, ghostVars>>

----------------------------------------------------------------------------
\* The Pi starts with the machine on or long off; hw_init has run
Init ==
    /\ run = FALSE /\ active = FALSE /\ pc1 = "idle" /\ ext = FALSE
    /\ pc0 = "loop" /\ then = "stay" /\ waited = 0 /\ paused = FALSE /\ wasRunning = FALSE
    /\ phase = 0 /\ frozen = FALSE /\ sup = SupInit
    /\ keeps \in BOOLEAN /\ stage \in {"on", "dead"} /\ age = 0
    /\ mock = ~Powered /\ hello = Clk /\ lock = Clk
    /\ resetIn = FALSE /\ latch \in (IF Clk THEN BOOLEAN ELSE {FALSE})
    /\ due = Clk /\ ran = FALSE /\ gaveUp = FALSE
    /\ used = [sw |-> 0, press |-> 0, cmd |-> 0]

Core1 == SeeRun \/ Publish \/ Recheck \/ Leave \/ SeeLatch \/ SeePause \/ Drain \/ EndDrain

Jobs == \/ QuiesceDone \/ QuiesceGivesUp
        \/ Restarted \/ Stay \/ PauseNoted \/ PauseStops \/ Unpause \/ XrstDriven \/ WebCpuReset \/ Reinit
        \/ hw_reinit \/ BootButton \/ ResetReleased \/ Setup \/ BootCpuReset \/ BootEnd

Supervise == \/ ProbeMock \/ Alive \/ Frozen \/ Reconfigured
             \/ Sample \/ PowerSeen \/ ClockLost \/ Attend \/ NothingToSupervise

Commands == Change \/ StopCore \/ WebReset \/ Xrst \/ Pause \/ Erun \/ Breakpoint

Environment == SwitchOn \/ SwitchOff \/ ResetButton \/ Decay

Next == Core1 \/ Jobs \/ Supervise \/ Commands \/ Environment \/ Tick

\* Core 0 polls in a loop and finds core 1 outside while it sleeps between two drains
\* (200 us against a poll of 100 us); core 1 ends its batch while the bus clock runs;
\* time passes.
Fairness ==
    /\ SF_vars(QuiesceDone) /\ WF_vars(Jobs) /\ WF_vars(Supervise) /\ SF_vars(Tick)
    /\ WF_vars(Publish \/ Recheck \/ Drain \/ EndDrain) /\ WF_vars((Clk \/ pc1 = "halted") /\ Leave)

Spec == Init /\ [][Next]_vars /\ Fairness

----------------------------------------------------------------------------
\* Core 0 works on the emulator's state only while core 1 is outside emu68k_run, and
\* done with what follows a batch, whatever core 1 was about to do when it was told
\* to stop: the only exception is a quiesce that ran out of patience on a frozen bus.
Exclusive == pc0 \in Stopped \cup Booting /\ ~gaveUp => pc1 \notin {"running", "halted"}

\* No reset is lost: as long as the emulated CPU owes the machine a reset (one by the
\* button or the power switch, or a CPU reset made under a core 1 stuck on a frozen
\* bus), a supervisor that counts the machine as on still has that reset in the
\* latch, in the flag of the sampler or on the line.
NoResetLost ==
    due /\ sup.on /\ stage = "on" /\ pc0 = "loop" => latch \/ sup.btn \/ ext \/ resetIn

\* The power-on boot never runs on the clock that bounces back while the machine's
\* supplies decay.
NoBootOnBounce == [][~sup.on /\ sup'.on => stage # "bounce"]_vars

\* A machine that is switched on and stays on is booted: its emulated CPU is reset after
\* the last reset the machine had.
Booted == stage = "on" ~> (stage # "on" \/ (sup.on /\ ~due))
=============================================================================
