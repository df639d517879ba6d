--------------------------- MODULE MachineProofs ---------------------------
(***************************************************************************)
(* Theorems about Machine for every length of the waits and gaps, any      *)
(* number of switch operations, button presses and commands.               *)
(***************************************************************************)
EXTENDS Machine, TLAPS

USE DEF vars, core1Vars, core0Vars, fpgaVars, ghostVars, Stopped, Booting

-----------------------------------------------------------------------------
(***************************************************************************)
(* Core 0 stops core 1.  The inductive invariant: active is TRUE exactly   *)
(* while core 1 is past its publication; the run flag stays down from      *)
(* emu_quiesce to the end of the work it was called for; and then core 1   *)
(* is outside emu68k_run, unless the wait gave up.                         *)
(***************************************************************************)
Working == {"quiesce"} \cup Stopped \cup Booting
Inside == {"published", "running", "halted", "draining"}

Handshake ==
    /\ active <=> pc1 \in Inside
    /\ then \in Stopped
    /\ pc0 \in Working => ~run
    /\ Exclusive

LEMMA HandshakeInit == Init => Handshake
  BY DEF Init, Handshake, Exclusive, Working, Inside

\* Core 1 enters the batch only with the run flag up, which it is not while
\* core 0 works.
LEMMA HandshakeCore1 == ASSUME Handshake, Core1 PROVE Handshake'
  <1>1. CASE SeeRun \/ Publish
    BY <1>1 DEF SeeRun, Publish, Handshake, Exclusive, Working, Inside
  <1>2. CASE Recheck
    BY <1>2 DEF Recheck, Handshake, Exclusive, Working, Inside
  <1>3. CASE Leave
    BY <1>3 DEF Leave, Handshake, Exclusive, Working, Inside
  <1>4. CASE SeePause \/ Drain \/ EndDrain
    BY <1>4 DEF SeePause, Drain, EndDrain, Handshake, Exclusive, Working, Inside
  <1>5. CASE SeeLatch
    BY <1>5 DEF SeeLatch, Handshake, Exclusive, Working, Inside
  <1> QED BY <1>1, <1>2, <1>3, <1>4, <1>5 DEF Core1

\* emu_quiesce takes the flag down before anything else.
LEMMA HandshakeQuiesce ==
  ASSUME Handshake, NEW next \in Stopped, BeginQuiesce(next), UNCHANGED <<active, pc1>>
  PROVE Handshake'
  BY DEF BeginQuiesce, Handshake, Exclusive, Working, Inside

\* Core 0 goes from its wait to its work when core 1 is outside, or gives up;
\* it raises the flag only when it goes back to its loop.
LEMMA HandshakeJobs == ASSUME Handshake, Jobs PROVE Handshake'
  <1>1. CASE QuiesceDone \/ QuiesceGivesUp
    BY <1>1 DEF QuiesceDone, QuiesceGivesUp, Handshake, Exclusive, Working, Inside
  <1>2. CASE Restarted \/ Stay \/ PauseNoted \/ Unpause
    BY <1>2 DEF Restarted, Stay, PauseNoted, Unpause, Handshake, Exclusive, Working, Inside
  <1>3. CASE XrstDriven \/ Reinit
    BY <1>3 DEF XrstDriven, Reinit, Handshake, Exclusive, Working, Inside
  <1>4. CASE hw_reinit \/ BootButton \/ ResetReleased \/ Setup
    BY <1>4 DEF hw_reinit, BootButton, ResetReleased, Setup, Handshake, Exclusive, Working, Inside
  <1>5. CASE WebCpuReset \/ BootCpuReset
    BY <1>5 DEF WebCpuReset, BootCpuReset, CpuReset, Handshake, Exclusive, Working, Inside
  <1>6. CASE BootEnd
    BY <1>6 DEF BootEnd, Handshake, Exclusive, Working, Inside
  <1>7. CASE PauseStops
    BY <1>7, HandshakeQuiesce DEF PauseStops
  <1> QED BY <1>1, <1>2, <1>3, <1>4, <1>5, <1>6, <1>7 DEF Jobs

LEMMA HandshakeStay ==
  ASSUME Handshake, UNCHANGED <<run, active, pc1, pc0, then, gaveUp>>
  PROVE Handshake'
  BY DEF Handshake, Exclusive, Working, Inside

LEMMA HandshakeSupervise == ASSUME Handshake, Supervise PROVE Handshake'
  <1>1. CASE ProbeMock \/ Alive \/ NothingToSupervise
    BY <1>1, HandshakeStay DEF ProbeMock, Alive, NothingToSupervise
  <1>2. CASE Frozen
    BY <1>2, HandshakeQuiesce, HandshakeStay DEF Frozen
  <1>3. CASE Reconfigured
    BY <1>3, HandshakeQuiesce DEF Reconfigured
  <1>4. CASE Sample
    BY <1>4, HandshakeQuiesce, HandshakeStay DEF Sample
  <1>5. CASE PowerSeen
    BY <1>5, HandshakeQuiesce, HandshakeStay DEF PowerSeen
  <1>6. CASE ClockLost
    BY <1>6, HandshakeQuiesce, HandshakeStay DEF ClockLost
  <1>7. CASE Attend
    BY <1>7, HandshakeQuiesce, HandshakeStay DEF Attend
  <1> QED BY <1>1, <1>2, <1>3, <1>4, <1>5, <1>6, <1>7 DEF Supervise

LEMMA HandshakeCommands == ASSUME Handshake, Commands PROVE Handshake'
  <1>1. CASE Change \/ StopCore \/ WebReset \/ Xrst
    BY <1>1, HandshakeQuiesce DEF Change, StopCore, WebReset, Xrst, Command
  <1>2. CASE Erun
    BY <1>2 DEF Erun, Handshake, Exclusive, Working, Inside
  <1>3. CASE Breakpoint
    BY <1>3 DEF Breakpoint, Handshake, Exclusive, Working, Inside
  <1>4. CASE Pause
    BY <1>4 DEF Pause, Handshake, Exclusive, Working, Inside
  <1> QED BY <1>1, <1>2, <1>3, <1>4 DEF Commands

LEMMA HandshakeStep == ASSUME Handshake, [Next]_vars PROVE Handshake'
  <1>1. CASE Environment
    BY <1>1, HandshakeStay DEF Environment, SwitchOn, SwitchOff, ResetButton, Decay
  <1>2. CASE Tick
    BY <1>2, HandshakeStay DEF Tick
  <1>3. CASE UNCHANGED vars
    BY <1>3, HandshakeStay
  <1> QED BY <1>1, <1>2, <1>3, HandshakeCore1, HandshakeJobs, HandshakeSupervise, HandshakeCommands DEF Next

\* Core 0 works on the emulator's state only while core 1 is outside
\* emu68k_run, for every length of the waits, unless emu_quiesce gave up.
THEOREM CoresExclude == Spec => []Exclusive
  <1>1. Handshake => Exclusive
    BY DEF Handshake
  <1> QED BY HandshakeInit, HandshakeStep, <1>1, PTL DEF Spec

-----------------------------------------------------------------------------
(***************************************************************************)
(* The type invariant.                                                     *)
(***************************************************************************)
Places ==
    /\ pc1 \in {"idle", "seen", "published", "running", "halted", "pauseseen", "draining"}
    /\ pc0 \in {"loop", "pausing", "noted", "quiesce"} \cup Stopped \cup Booting /\ then \in Stopped
    /\ waited \in 0..(QuiesceMax + ResetMax) /\ phase \in 0..2

LEMMA FlagsInit == ASSUME Init PROVE Flags
  <1>1. CoreFlags
    BY DEF Init, CoreFlags
  <1>2. HistoryFlags
    <2>1. due \in BOOLEAN
      BY DEF Init, Clk
    <2> QED BY <2>1 DEF Init, HistoryFlags
  <1>3. HostFlags
    <2>1. mock \in BOOLEAN
      BY DEF Init, Powered
    <2> QED BY <2>1 DEF Init, HostFlags
  <1>4. FpgaFlags
    <2>1. hello \in BOOLEAN
      BY DEF Init, Clk
    <2>2. lock \in BOOLEAN
      BY DEF Init, Clk
    <2> QED BY <2>1, <2>2 DEF Init, FpgaFlags
  <1> QED BY <1>1, <1>2, <1>3, <1>4 DEF Flags

LEMMA CoreFlagsStep == ASSUME Flags, [Next]_vars PROVE CoreFlags'
  <1> USE DEF Flags, CoreFlags
  <1>0. wasRunning \in BOOLEAN
    BY DEF HostFlags
  <1>1. CASE Core1
    BY <1>1, <1>0 DEF Core1, SeeRun, Publish, Recheck, Leave, SeeLatch, SeePause, Drain, EndDrain
  <1>2. CASE Jobs
    BY <1>2, <1>0 DEF Jobs, QuiesceDone, QuiesceGivesUp, Restarted, Stay, PauseNoted, PauseStops, BeginQuiesce, Unpause, XrstDriven,
        WebCpuReset, Reinit, hw_reinit, BootButton, ResetReleased, Setup, BootCpuReset,
        BootEnd, CpuReset, HelloWritten, LatchCleared
  <1>3. CASE Supervise
    BY <1>3, <1>0 DEF Supervise, ProbeMock, Alive, Frozen, Reconfigured, Sample, PowerSeen,
        ClockLost, Attend, NothingToSupervise, BeginQuiesce
  <1>4. CASE Commands
    BY <1>4, <1>0 DEF Commands, Change, StopCore, WebReset, Xrst, Pause, Erun, Breakpoint,
        Command, BeginQuiesce
  <1>5. CASE Environment
    BY <1>5, <1>0 DEF Environment, SwitchOn, SwitchOff, ResetButton, Decay
  <1>6. CASE Tick
    BY <1>6, <1>0 DEF Tick
  <1>7. CASE UNCHANGED vars
    BY <1>7, <1>0
  <1> QED BY <1>1, <1>2, <1>3, <1>4, <1>5, <1>6, <1>7 DEF Next

LEMMA HostFlagsStep == ASSUME Flags, [Next]_vars PROVE HostFlags'
  <1> USE DEF Flags, HostFlags, CoreFlags
  <1>1. CASE Core1
    BY <1>1 DEF Core1, SeeRun, Publish, Recheck, Leave, SeeLatch, SeePause, Drain, EndDrain
  <1>2. CASE Jobs
    BY <1>2 DEF Jobs, QuiesceDone, QuiesceGivesUp, Restarted, Stay, PauseNoted, PauseStops, BeginQuiesce, Unpause, XrstDriven,
        WebCpuReset, Reinit, hw_reinit, BootButton, ResetReleased, Setup, BootCpuReset,
        BootEnd, CpuReset, HelloWritten, LatchCleared
  <1>3. CASE Supervise
    BY <1>3 DEF Supervise, ProbeMock, Alive, Frozen, Reconfigured, Sample, PowerSeen,
        ClockLost, Attend, NothingToSupervise, BeginQuiesce
  <1>4. CASE Commands
    BY <1>4 DEF Commands, Change, StopCore, WebReset, Xrst, Pause, Erun, Breakpoint, Command,
        BeginQuiesce
  <1>5. CASE Environment
    BY <1>5 DEF Environment, SwitchOn, SwitchOff, ResetButton, Decay
  <1>6. CASE Tick
    BY <1>6 DEF Tick
  <1>7. CASE UNCHANGED vars
    BY <1>7
  <1> QED BY <1>1, <1>2, <1>3, <1>4, <1>5, <1>6, <1>7 DEF Next

LEMMA FpgaFlagsStep == ASSUME Flags, [Next]_vars PROVE FpgaFlags'
  <1> USE DEF Flags, FpgaFlags
  <1>1. CASE Core1
    BY <1>1 DEF Core1, SeeRun, Publish, Recheck, Leave, SeeLatch, SeePause, Drain, EndDrain
  <1>2. CASE Jobs
    BY <1>2 DEF Jobs, QuiesceDone, QuiesceGivesUp, Restarted, Stay, PauseNoted, PauseStops, BeginQuiesce, Unpause, XrstDriven,
        WebCpuReset, Reinit, hw_reinit, BootButton, ResetReleased, Setup, BootCpuReset,
        BootEnd, CpuReset, HelloWritten, LatchCleared
  <1>3. CASE Supervise
    BY <1>3 DEF Supervise, ProbeMock, Alive, Frozen, Reconfigured, Sample, PowerSeen,
        ClockLost, Attend, NothingToSupervise, BeginQuiesce
  <1>4. CASE Commands
    BY <1>4 DEF Commands, Change, StopCore, WebReset, Xrst, Pause, Erun, Breakpoint, Command,
        BeginQuiesce
  <1>5. CASE Environment
    BY <1>5 DEF Environment, SwitchOn, SwitchOff, ResetButton, Decay
  <1>6. CASE Tick
    BY <1>6 DEF Tick
  <1>7. CASE UNCHANGED vars
    BY <1>7
  <1> QED BY <1>1, <1>2, <1>3, <1>4, <1>5, <1>6, <1>7 DEF Next

LEMMA HistoryFlagsStep == ASSUME Flags, [Next]_vars PROVE HistoryFlags'
  <1> USE DEF Flags, HistoryFlags
  <1>1. CASE Core1
    BY <1>1 DEF Core1, SeeRun, Publish, Recheck, Leave, SeeLatch, SeePause, Drain, EndDrain
  <1>2. CASE Jobs
    BY <1>2 DEF Jobs, QuiesceDone, QuiesceGivesUp, Restarted, Stay, PauseNoted, PauseStops, BeginQuiesce, Unpause, XrstDriven,
        WebCpuReset, Reinit, hw_reinit, BootButton, ResetReleased, Setup, BootCpuReset,
        BootEnd, CpuReset, HelloWritten, LatchCleared
  <1>3. CASE Supervise
    BY <1>3 DEF Supervise, ProbeMock, Alive, Frozen, Reconfigured, Sample, PowerSeen,
        ClockLost, Attend, NothingToSupervise, BeginQuiesce
  <1>4. CASE Commands
    BY <1>4 DEF Commands, Change, StopCore, WebReset, Xrst, Pause, Erun, Breakpoint, Command,
        BeginQuiesce
  <1>5. CASE Environment
    BY <1>5 DEF Environment, SwitchOn, SwitchOff, ResetButton, Decay
  <1>6. CASE Tick
    BY <1>6 DEF Tick
  <1>7. CASE UNCHANGED vars
    BY <1>7
  <1> QED BY <1>1, <1>2, <1>3, <1>4, <1>5, <1>6, <1>7 DEF Next

LEMMA FlagsStep == ASSUME Flags, [Next]_vars PROVE Flags'
  BY CoreFlagsStep, HostFlagsStep, FpgaFlagsStep, HistoryFlagsStep DEF Flags

LEMMA PlacesStep == ASSUME TypeOK, [Next]_vars PROVE Places'
  <1> USE TimesAssumption DEF TypeOK, Places
  <1>1. CASE Core1
    BY <1>1 DEF Core1, SeeRun, Publish, Recheck, Leave, SeeLatch, SeePause, Drain, EndDrain
  <1>2. CASE Jobs
    BY <1>2 DEF Jobs, QuiesceDone, QuiesceGivesUp, Restarted, Stay, PauseNoted, PauseStops, BeginQuiesce, Unpause, XrstDriven, WebCpuReset, Reinit,
        hw_reinit, BootButton, ResetReleased, Setup, BootCpuReset, BootEnd, CpuReset
  <1>3. CASE Supervise
    BY <1>3 DEF Supervise, ProbeMock, Alive, Frozen, Reconfigured, Sample, PowerSeen, ClockLost, Attend,
        NothingToSupervise, BeginQuiesce
  <1>4. CASE Commands
    BY <1>4 DEF Commands, Change, StopCore, WebReset, Xrst, Pause, Erun, Breakpoint, Command, BeginQuiesce
  <1>5. CASE Environment \/ Tick
    BY <1>5 DEF Environment, Tick, SwitchOn, SwitchOff, ResetButton, Decay
  <1>6. CASE UNCHANGED vars
    BY <1>6
  <1> QED BY <1>1, <1>2, <1>3, <1>4, <1>5, <1>6 DEF Next

Sups == [on : BOOLEAN, was : BOOLEAN, everDead : BOOLEAN, up : 0..LongUp,
         dead : 0..ShortGap, gap : 0..ShortGap, btn : BOOLEAN]

LEMMA SupPowerSeen == ASSUME sup \in Sups, PowerSeen PROVE sup' \in Sups
  <1> DEFINE gap == IF sup.everDead THEN sup.dead ELSE ShortGap
             revived == [sup EXCEPT !.btn = FALSE, !.was = TRUE, !.up = 0, !.gap = gap]
             s == IF sup.was THEN [sup EXCEPT !.btn = FALSE] ELSE revived
  <1>1. gap \in 0..ShortGap /\ 0 \in 0..LongUp
    BY TimesAssumption DEF Sups
  <1>2. ASSUME NEW g \in 0..ShortGap, NEW u \in 0..LongUp
        PROVE  [sup EXCEPT !.btn = FALSE, !.was = TRUE, !.up = u, !.gap = g] \in Sups
    BY DEF Sups
  <1>3. revived \in Sups
    <2> HIDE DEF gap
    <2> QED BY <1>1, <1>2
  <1>4. s \in Sups
    <2>1. [sup EXCEPT !.btn = FALSE] \in Sups
      BY DEF Sups
    <2> HIDE DEF revived
    <2> QED BY <1>3, <2>1
  <1>5. sup' = [s EXCEPT !.everDead = FALSE, !.on = TRUE] \/ sup' = s
    BY DEF PowerSeen
  <1> HIDE DEF s
  <1>6. [s EXCEPT !.everDead = FALSE, !.on = TRUE] \in Sups
    BY <1>4 DEF Sups
  <1> QED BY <1>4, <1>5, <1>6

LEMMA SupClockLost == ASSUME sup \in Sups, ClockLost PROVE sup' \in Sups
  <1> USE TimesAssumption DEF Sups
  <1> DEFINE dead == IF sup.was \/ ~sup.everDead THEN 0 ELSE sup.dead
  <1>1. dead \in 0..ShortGap
    OBVIOUS
  <1>2. sup' = [sup EXCEPT !.btn = FALSE, !.was = FALSE, !.everDead = TRUE, !.on = FALSE, !.dead = dead]
    BY DEF ClockLost
  <1> HIDE DEF dead
  <1> QED BY <1>1, <1>2

LEMMA SupTick == ASSUME sup \in Sups, Tick PROVE sup' \in Sups
  <1> USE TimesAssumption DEF Sups
  <1> DEFINE up == IF sup.was THEN Least(sup.up + 1, LongUp) ELSE 0
             dead == IF sup.everDead /\ ~sup.was THEN Least(sup.dead + 1, ShortGap) ELSE 0
  <1>1. up \in 0..LongUp /\ dead \in 0..ShortGap
    BY DEF Least
  <1>2. sup' = [sup EXCEPT !.up = up, !.dead = dead]
    BY DEF Tick
  <1> HIDE DEF up, dead
  <1> QED BY <1>1, <1>2

LEMMA SupStep == ASSUME sup \in Sups, Flags, [Next]_vars PROVE sup' \in Sups
  <1> USE TimesAssumption DEF Sups
  <1>1. CASE Core1 \/ Commands \/ Environment \/ UNCHANGED vars
    BY <1>1 DEF Core1, SeeRun, Publish, Recheck, Leave, SeeLatch, SeePause, Drain, EndDrain,
        Commands, Change, StopCore, WebReset, Xrst, Pause, Erun, Breakpoint, Command,
        Environment, SwitchOn, SwitchOff, ResetButton, Decay
  <1>2. CASE Jobs
    BY <1>2 DEF Jobs, QuiesceDone, QuiesceGivesUp, Restarted, Stay, PauseNoted, PauseStops, BeginQuiesce, Unpause, XrstDriven, WebCpuReset, Reinit,
        hw_reinit, BootButton, ResetReleased, Setup, BootCpuReset, BootEnd, CpuReset
  <1>3. CASE ProbeMock \/ Alive \/ Frozen \/ Reconfigured \/ Sample \/ Attend \/ NothingToSupervise
    BY <1>3 DEF ProbeMock, Alive, Frozen, Reconfigured, Sample, Attend, NothingToSupervise
  <1> QED BY <1>1, <1>2, <1>3, SupPowerSeen, SupClockLost, SupTick DEF Next, Supervise

LEMMA MachineStep ==
  ASSUME TypeOK, [Next]_vars PROVE stage' \in Stages /\ age' \in 0..Longest
  <1> USE TimesAssumption DEF TypeOK, Stages, Longest
  <1>1. CASE Core1 \/ Commands \/ UNCHANGED vars
    BY <1>1 DEF Core1, SeeRun, Publish, Recheck, Leave, SeeLatch, SeePause, Drain, EndDrain,
        Commands, Change, StopCore, WebReset, Xrst, Pause, Erun, Breakpoint, Command, BeginQuiesce
  <1>2. CASE Jobs
    BY <1>2 DEF Jobs, QuiesceDone, QuiesceGivesUp, Restarted, Stay, PauseNoted, PauseStops, BeginQuiesce, Unpause, XrstDriven, WebCpuReset, Reinit,
        hw_reinit, BootButton, ResetReleased, Setup, BootCpuReset, BootEnd, CpuReset
  <1>3. CASE Supervise
    BY <1>3 DEF Supervise, ProbeMock, Alive, Frozen, Reconfigured, Sample, PowerSeen, ClockLost, Attend,
        NothingToSupervise
  <1>4. CASE Environment \/ Tick
    BY <1>4 DEF Environment, SwitchOn, SwitchOff, ResetButton, Decay, Tick, Least
  <1> QED BY <1>1, <1>2, <1>3, <1>4 DEF Next

LEMMA UsedStep ==
  ASSUME TypeOK, [Next]_vars PROVE used' \in [sw : 0..MaxSwitch, press : 0..MaxPress, cmd : 0..MaxCmds]
  <1> USE BoundsAssumption DEF TypeOK
  <1>1. CASE Core1 \/ Tick \/ UNCHANGED vars
    BY <1>1 DEF Core1, SeeRun, Publish, Recheck, Leave, SeeLatch, SeePause, Drain, EndDrain, Tick
  <1>2. CASE Jobs
    BY <1>2 DEF Jobs, QuiesceDone, QuiesceGivesUp, Restarted, Stay, PauseNoted, PauseStops, BeginQuiesce, Unpause, XrstDriven, WebCpuReset, Reinit,
        hw_reinit, BootButton, ResetReleased, Setup, BootCpuReset, BootEnd, CpuReset
  <1>3. CASE Supervise
    BY <1>3 DEF Supervise, ProbeMock, Alive, Frozen, Reconfigured, Sample, PowerSeen, ClockLost, Attend,
        NothingToSupervise
  <1>4. CASE Commands
    BY <1>4 DEF Commands, Change, StopCore, WebReset, Xrst, Pause, Erun, Breakpoint, Command
  <1>5. CASE Environment
    BY <1>5 DEF Environment, SwitchOn, SwitchOff, ResetButton, Decay
  <1> QED BY <1>1, <1>2, <1>3, <1>4, <1>5 DEF Next

\* The machine, the supervisor's idea of it and both cores have their types,
\* for every length of the waits and gaps.
THEOREM TypeCorrect == Spec => []TypeOK
  <1>1. Init => TypeOK
    <2>2. ASSUME Init PROVE Places /\ sup \in Sups
      BY <2>2, TimesAssumption DEF Init, Places, Sups, SupInit
    <2>3. ASSUME Init PROVE stage \in Stages /\ age \in 0..Longest
      BY <2>3, TimesAssumption DEF Init, Stages, Longest
    <2>4. ASSUME Init PROVE used \in [sw : 0..MaxSwitch, press : 0..MaxPress, cmd : 0..MaxCmds]
      BY <2>4, BoundsAssumption DEF Init
    <2> QED BY FlagsInit, <2>2, <2>3, <2>4 DEF TypeOK, Places, Sups
  <1>2. TypeOK /\ [Next]_vars => TypeOK'
    BY FlagsStep, PlacesStep, SupStep, MachineStep, UsedStep DEF TypeOK, Places, Sups
  <1> QED BY <1>1, <1>2, PTL DEF Spec

-----------------------------------------------------------------------------
(***************************************************************************)
(* No reset is lost.  A boot takes every note of a reset away and ends     *)
(* with the CPU reset, so what has to be kept until then is only a reset   *)
(* that arrives after the CPU's, or one made under a core 1 that is stuck: *)
(* it got stuck on a stopped clock, so the machine has been switched on    *)
(* since, and its own reset is still asserted.                             *)
(***************************************************************************)
\* Where core 0 does not take the note of a reset away.
Idling == {"loop", "pausing", "noted", "restart", "stay", "held", "xrst", "reset", "reinit"}
Keeping == pc0 \in Idling \/ (pc0 = "quiesce" /\ then \in Idling)
Noted == latch \/ sup.btn \/ ext

StuckInReset ==
    /\ (pc0 = "quiesce" /\ waited > 0) \/ pc0 \in Stopped \cup Booting
    /\ pc1 = "running" /\ stage = "on"
    => resetIn

Latched == resetIn => latch
Kept == due /\ sup.on /\ stage = "on" /\ Keeping => Noted
BootKept == pc0 = "bootend" /\ (due \/ ran) /\ stage = "on" => resetIn

ResetInv == Handshake /\ TypeOK /\ StuckInReset /\ Latched /\ Kept /\ BootKept

LEMMA ResetInvInit == ASSUME Init, TypeOK PROVE ResetInv
  <1>1. Handshake
    BY HandshakeInit
  <1>2. StuckInReset /\ Latched /\ BootKept
    BY DEF Init, StuckInReset, Latched, BootKept
  <1>3. Kept
    BY DEF Init, SupInit, Kept
  <1> QED BY <1>1, <1>2, <1>3 DEF ResetInv

\* RESET_IN sets the latch, and no clear of the latch wins against it.
LEMMA LatchedStep == ASSUME ResetInv, [Next]_vars PROVE Latched'
  <1> USE DEF ResetInv, Latched, LatchCleared
  <1>1. CASE Core1 \/ Commands \/ UNCHANGED vars
    BY <1>1 DEF Core1, SeeRun, Publish, Recheck, Leave, SeeLatch, SeePause, Drain, EndDrain,
        Commands, Change, StopCore, WebReset, Xrst, Pause, Erun, Breakpoint, Command
  <1>2. CASE Jobs
    BY <1>2 DEF Jobs, QuiesceDone, QuiesceGivesUp, Restarted, Stay, PauseNoted, PauseStops, BeginQuiesce, Unpause, XrstDriven, WebCpuReset, Reinit,
        hw_reinit, BootButton, ResetReleased, Setup, BootCpuReset, BootEnd, CpuReset
  <1>3. CASE Supervise
    BY <1>3 DEF Supervise, ProbeMock, Alive, Frozen, Reconfigured, Sample, PowerSeen, ClockLost, Attend,
        NothingToSupervise
  <1>4. CASE Environment \/ Tick
    BY <1>4 DEF Environment, SwitchOn, SwitchOff, ResetButton, Decay, Tick
  <1> QED BY <1>1, <1>2, <1>3, <1>4 DEF Next

\* A wait that lasts was a wait on a stopped clock; the machine's reset then
\* lasts until core 1 is out.
LEMMA StuckStep == ASSUME ResetInv, [Next]_vars PROVE StuckInReset'
  <1> USE DEF ResetInv, StuckInReset
  <1>1. CASE Core1
    BY <1>1 DEF Core1, SeeRun, Publish, Recheck, Leave, SeeLatch, SeePause, Drain, EndDrain,
        Handshake, Working
  <1>2. CASE Jobs
    <2>1. QuiesceMax > 0 /\ waited \in Int
      BY TimesAssumption DEF TypeOK
    <2>2. CASE QuiesceDone
      BY <2>2 DEF QuiesceDone, Handshake, Inside
    <2>3. CASE QuiesceGivesUp
      BY <2>1, <2>3, TimesAssumption DEF QuiesceGivesUp
    <2> QED BY <1>2, <2>2, <2>3 DEF Jobs, Restarted, Stay, PauseNoted, PauseStops, BeginQuiesce, Unpause, XrstDriven, WebCpuReset, Reinit,
        hw_reinit, BootButton, ResetReleased, Setup, BootCpuReset, BootEnd, CpuReset
  <1>3. CASE Supervise
    BY <1>3 DEF Supervise, ProbeMock, Alive, Frozen, Reconfigured, Sample, PowerSeen, ClockLost, Attend,
        NothingToSupervise, BeginQuiesce
  <1>4. CASE Commands
    BY <1>4 DEF Commands, Change, StopCore, WebReset, Xrst, Pause, Erun, Breakpoint, Command, BeginQuiesce
  <1>5. CASE Environment
    BY <1>5 DEF Environment, SwitchOn, SwitchOff, ResetButton, Decay
  <1>6. CASE Tick
    <2>1. pc1 = "running" => run \/ ~Clk
      BY <1>6 DEF Tick
    <2>2. stage = "on" => Clk
      BY DEF Clk
    <2>3. pc0 \in Working => ~run
      BY DEF Handshake
    <2> QED BY <1>6, <2>1, <2>2, <2>3 DEF Tick, Working
  <1>7. CASE UNCHANGED vars
    BY <1>7
  <1> QED BY <1>1, <1>2, <1>3, <1>4, <1>5, <1>6, <1>7 DEF Next

\* Between the CPU's reset and the end of the boot no second passes.
LEMMA BootKeptStep == ASSUME ResetInv, [Next]_vars PROVE BootKept'
  <1> USE DEF ResetInv, BootKept
  <1>1. CASE Core1
    BY <1>1 DEF Core1, SeeRun, Publish, Recheck, Leave, SeeLatch, SeePause, Drain, EndDrain,
        Handshake, Working
  <1>2. CASE Jobs
    <2>1. CASE BootCpuReset
      BY <2>1 DEF BootCpuReset, CpuReset, StuckInReset
    <2>2. CASE QuiesceDone \/ QuiesceGivesUp
      BY <2>2 DEF QuiesceDone, QuiesceGivesUp, Handshake
    <2> QED BY <1>2, <2>1, <2>2 DEF Jobs, Restarted, Stay, PauseNoted, PauseStops, BeginQuiesce, Unpause, XrstDriven, WebCpuReset, Reinit,
        hw_reinit, BootButton, ResetReleased, Setup, BootEnd, CpuReset
  <1>3. CASE Supervise
    BY <1>3 DEF Supervise, ProbeMock, Alive, Frozen, Reconfigured, Sample, PowerSeen, ClockLost, Attend,
        NothingToSupervise, BeginQuiesce
  <1>4. CASE Commands
    BY <1>4 DEF Commands, Change, StopCore, WebReset, Xrst, Pause, Erun, Breakpoint, Command, BeginQuiesce
  <1>5. CASE Environment
    BY <1>5 DEF Environment, SwitchOn, SwitchOff, ResetButton, Decay, HistoryFlags
  <1>6. CASE Tick \/ UNCHANGED vars
    BY <1>6 DEF Tick
  <1> QED BY <1>1, <1>2, <1>3, <1>4, <1>5, <1>6 DEF Next

LEMMA KeptJobs == ASSUME ResetInv, Jobs PROVE Kept'
  <1> USE DEF ResetInv, Kept, Keeping, Noted, Idling
  <1>0. sup \in Sups
    BY DEF TypeOK, Sups
  <1>1. CASE QuiesceDone \/ QuiesceGivesUp
    BY <1>1 DEF QuiesceDone, QuiesceGivesUp
  <1>2. CASE Restarted \/ Stay \/ PauseNoted \/ PauseStops \/ Unpause
    BY <1>2 DEF Restarted, Stay, PauseNoted, PauseStops, BeginQuiesce, Unpause
  <1>3. CASE XrstDriven
    BY <1>0, <1>3 DEF XrstDriven, Sups
  <1>4. CASE Reinit
    BY <1>0, <1>4 DEF Reinit, Sups
  <1>5. CASE WebCpuReset
    BY <1>5 DEF WebCpuReset, CpuReset, StuckInReset, Latched
  <1>6. CASE hw_reinit \/ BootButton \/ ResetReleased \/ Setup \/ BootCpuReset
    BY <1>6 DEF hw_reinit, BootButton, ResetReleased, Setup, BootCpuReset, CpuReset
  <1>7. CASE BootEnd
    <2>1. due /\ stage = "on" => resetIn /\ latch
      BY <1>7 DEF BootEnd, BootKept, Latched
    <2> QED BY <1>7, <2>1 DEF BootEnd, LatchCleared
  <1> QED BY <1>1, <1>2, <1>3, <1>4, <1>5, <1>6, <1>7 DEF Jobs

LEMMA KeptSupervise == ASSUME ResetInv, Supervise PROVE Kept'
  <1> USE DEF ResetInv, Kept, Keeping, Noted, Idling
  <1>0. sup \in Sups
    BY DEF TypeOK, Sups
  <1>1. CASE ProbeMock \/ Alive \/ NothingToSupervise
    BY <1>1 DEF ProbeMock, Alive, NothingToSupervise
  <1>2. CASE Frozen
    BY <1>0, <1>2 DEF Frozen, BeginQuiesce, Sups
  <1>3. CASE Reconfigured
    BY <1>3 DEF Reconfigured, BeginQuiesce
  <1>4. CASE Sample
    BY <1>0, <1>4 DEF Sample, BeginQuiesce, Sups
  <1>5. CASE PowerSeen
    <2>1. (pc0' = "quiesce" /\ then' = "bootpower") \/ sup'.on = sup.on
      BY <1>0, <1>5 DEF PowerSeen, BeginQuiesce, Sups
    <2> QED BY <1>5, <2>1 DEF PowerSeen
  <1>6. CASE ClockLost
    BY <1>0, <1>6 DEF ClockLost, Sups
  <1>7. CASE Attend
    BY <1>0, <1>7 DEF Attend, BeginQuiesce, Sups
  <1> QED BY <1>1, <1>2, <1>3, <1>4, <1>5, <1>6, <1>7 DEF Supervise

LEMMA KeptStep == ASSUME ResetInv, [Next]_vars PROVE Kept'
  <1> USE DEF ResetInv, Kept, Keeping, Noted, Idling
  <1>1. CASE Core1 \/ UNCHANGED vars
    BY <1>1 DEF Core1, SeeRun, Publish, Recheck, Leave, SeeLatch, SeePause, Drain, EndDrain
  <1>2. CASE Commands
    BY <1>2 DEF Commands, Change, StopCore, WebReset, Xrst, Pause, Erun, Breakpoint, Command, BeginQuiesce
  <1>3. CASE Environment
    BY <1>3 DEF Environment, SwitchOn, SwitchOff, ResetButton, Decay
  <1>4. CASE Tick
    <2>1. sup \in Sups
      BY DEF TypeOK, Sups
    <2>2. sup'.on = sup.on /\ sup'.btn = sup.btn
      BY <1>4, <2>1 DEF Tick, Sups
    <2> QED BY <1>4, <2>2 DEF Tick
  <1> QED BY <1>1, <1>2, <1>3, <1>4, KeptJobs, KeptSupervise DEF Next

\* A reset of the machine that the emulated CPU has not had is never lost: not
\* by the latch being cleared, a boot in progress, a command or a reset made
\* under a stuck core 1 (hw_rst_seen, BootX68, emu68k_reset).
THEOREM NoResetIsLost == Spec => []NoResetLost
  <1>1. Init /\ TypeOK => ResetInv
    BY ResetInvInit
  <1>2. ResetInv /\ TypeOK' /\ [Next]_vars => ResetInv'
    BY HandshakeStep, LatchedStep, StuckStep, BootKeptStep, KeptStep DEF ResetInv
  <1>3. ResetInv => NoResetLost
    BY DEF ResetInv, Kept, Keeping, Noted, Idling, NoResetLost
  <1> QED BY <1>1, <1>2, <1>3, TypeCorrect, PTL DEF Spec

-----------------------------------------------------------------------------
(***************************************************************************)
(* The bounce.  As long as the supervision watches the machine, a clock    *)
(* that comes back while the supplies decay has either not been noticed    *)
(* yet, with the gap before it measured, or has been up for no longer than *)
(* a bounce lasts and carries the length of that gap.                      *)
(***************************************************************************)
GoesTo(places) == pc0 \in places \/ (pc0 = "quiesce" /\ then \in places)
BootPlaces == Booting \cup {"bootpower", "bootbutton"}

Clocked ==
    /\ stage \in {"gap", "bounce"} => hello
    /\ mock => ~hello /\ ~sup.everDead /\ ~sup.on

Errands ==
    /\ GoesTo({"reinit"}) => ~hello /\ phase # 2 /\ ~mock
    /\ GoesTo(BootPlaces) => sup.on
    /\ sup.on => sup.was

\* A pass of the supervision during the run-on has noticed the clock.
RunOnSeen ==
    stage = "runon" /\ hello /\ (age >= 2 \/ (age = 1 /\ phase = 2)) /\ ~sup.was => ~sup.everDead

GapSeen ==
    stage = "gap" =>
        /\ age =< BounceGap
        /\ ~sup.was /\ sup.everDead => sup.dead =< age
        /\ age >= 1 /\ phase = 2 => ~sup.on /\ ~sup.was /\ sup.everDead

Unnoticed == ~sup.was /\ sup.everDead /\ sup.dead =< BounceGap + (IF phase = 2 THEN 0 ELSE 1)
Noticed == sup.was /\ sup.gap =< BounceGap + 1 /\ sup.up =< age
BounceSeen == stage = "bounce" => age =< BounceUp /\ (sup.on \/ Unnoticed \/ Noticed)

BounceInv == Handshake /\ TypeOK /\ Clocked /\ Errands /\ RunOnSeen /\ GapSeen /\ BounceSeen

LEMMA BounceInit == ASSUME Init, TypeOK PROVE BounceInv
  <1>1. Handshake
    BY HandshakeInit
  <1>2. Clocked /\ Errands
    BY DEF Init, SupInit, Clocked, Errands, GoesTo, BootPlaces, Clk, Powered
  <1>3. RunOnSeen /\ GapSeen /\ BounceSeen
    BY DEF Init, RunOnSeen, GapSeen, BounceSeen
  <1> QED BY <1>1, <1>2, <1>3 DEF BounceInv

\* What a second, a pass that sees the clock and one that does not make of the
\* supervisor's idea of the machine.
LEMMA TickSup ==
  ASSUME TypeOK, Tick
  PROVE  /\ sup'.on = sup.on /\ sup'.was = sup.was /\ sup'.everDead = sup.everDead /\ sup'.gap = sup.gap
         /\ sup'.up =< sup.up + 1 /\ sup'.dead =< sup.dead + 1
  <1> DEFINE up == IF sup.was THEN Least(sup.up + 1, LongUp) ELSE 0
             dead == IF sup.everDead /\ ~sup.was THEN Least(sup.dead + 1, ShortGap) ELSE 0
  <1>1. up =< sup.up + 1 /\ dead =< sup.dead + 1
    BY TimesAssumption DEF TypeOK, Least
  <1>2. sup' = [sup EXCEPT !.up = up, !.dead = dead] /\ sup \in Sups
    BY DEF Tick, TypeOK, Sups
  <1> HIDE DEF up, dead
  <1> QED BY <1>1, <1>2 DEF Sups

LEMMA PowerSup ==
  ASSUME TypeOK, PowerSeen
  PROVE  /\ sup'.was
         /\ sup'.gap = IF sup.was THEN sup.gap ELSE IF sup.everDead THEN sup.dead ELSE ShortGap
         /\ sup'.up = IF sup.was THEN sup.up ELSE 0
         /\ IF sup'.on THEN pc0' = "quiesce" /\ then' = "bootpower" /\ (sup'.gap >= ShortGap \/ sup'.up >= LongUp)
            ELSE UNCHANGED <<pc0, then>>
  <1> DEFINE gap == IF sup.everDead THEN sup.dead ELSE ShortGap
             revived == [sup EXCEPT !.btn = FALSE, !.was = TRUE, !.up = 0, !.gap = gap]
             s == IF sup.was THEN [sup EXCEPT !.btn = FALSE] ELSE revived
  <1>1. gap \in 0..ShortGap /\ 0 \in 0..LongUp /\ sup \in Sups /\ ~sup.on
    BY TimesAssumption DEF TypeOK, Sups, PowerSeen
  <1>2. IF Trusted(s)
        THEN pc0' = "quiesce" /\ then' = "bootpower" /\ sup' = [s EXCEPT !.everDead = FALSE, !.on = TRUE]
        ELSE sup' = s /\ UNCHANGED <<pc0, then>>
    BY DEF PowerSeen, BeginQuiesce
  <1> HIDE DEF gap
  <1>3. /\ s \in Sups /\ s.was /\ ~s.on
        /\ s.gap = IF sup.was THEN sup.gap ELSE gap
        /\ s.up = IF sup.was THEN sup.up ELSE 0
    BY <1>1 DEF Sups
  <1> HIDE DEF s
  <1>4. CASE Trusted(s)
    <2>1. s.gap >= ShortGap \/ s.up >= LongUp
      BY <1>4 DEF Trusted
    <2>2. sup'.was = s.was /\ sup'.gap = s.gap /\ sup'.up = s.up /\ sup'.on
      BY <1>2, <1>3, <1>4 DEF Sups
    <2> QED BY <1>2, <1>3, <1>4, <2>1, <2>2 DEF gap
  <1>5. CASE ~Trusted(s)
    BY <1>2, <1>3, <1>5 DEF gap
  <1> QED BY <1>4, <1>5

LEMMA LostSup ==
  ASSUME TypeOK, ClockLost
  PROVE  /\ ~sup'.was /\ sup'.everDead /\ ~sup'.on
         /\ sup'.dead = 0 \/ (sup'.dead = sup.dead /\ ~sup.was /\ sup.everDead)
  <1> DEFINE dead == IF sup.was \/ ~sup.everDead THEN 0 ELSE sup.dead
  <1>1. sup' = [sup EXCEPT !.btn = FALSE, !.was = FALSE, !.everDead = TRUE, !.on = FALSE, !.dead = dead]
    BY DEF ClockLost
  <1>2. sup \in Sups /\ (dead = 0 \/ (dead = sup.dead /\ ~sup.was /\ sup.everDead))
    BY DEF TypeOK, Sups
  <1> HIDE DEF dead
  <1> QED BY <1>1, <1>2 DEF TypeOK, Sups

\* Every other step leaves it, takes it back, or touches the reset's note only.
SupKept == /\ sup'.was = sup.was /\ sup'.everDead = sup.everDead /\ sup'.on = sup.on
           /\ sup'.gap = sup.gap /\ sup'.up = sup.up /\ sup'.dead = sup.dead

LEMMA NoteSup ==
  ASSUME TypeOK, XrstDriven \/ BootEnd \/ Sample \/ Attend PROVE SupKept
  <1>1. sup \in Sups /\ (sup' = sup \/ \E b \in BOOLEAN : sup' = [sup EXCEPT !.btn = b])
    BY DEF XrstDriven, BootEnd, Sample, Attend, TypeOK, Sups
  <1> QED BY <1>1 DEF SupKept, Sups

LEMMA ReinitSup == ASSUME TypeOK, Reinit PROVE ~sup'.was /\ ~sup'.everDead /\ ~sup'.on
  BY DEF Reinit, TypeOK

LEMMA FrozenSup ==
  ASSUME TypeOK, Frozen
  PROVE  /\ sup'.was = sup.was /\ sup'.everDead = sup.everDead
         /\ sup' = sup \/ (~sup'.on /\ pc0' = "quiesce" /\ then' = "stay")
         /\ sup' = sup => (UNCHANGED <<pc0, then>>) \/ (pc0' = "quiesce" /\ then' = "stay")
         /\ ~hello
  <1>1. ~hello
    BY DEF Frozen, hw_alive
  <1>2. sup' = sup \/ sup' = [sup EXCEPT !.on = FALSE]
    BY DEF Frozen
  <1>3. sup \in Sups
    BY DEF TypeOK, Sups
  <1> QED BY <1>1, <1>2, <1>3 DEF Frozen, BeginQuiesce, Sups

LEMMA SupsType == ASSUME TypeOK PROVE sup \in Sups
  BY DEF TypeOK, Sups

\* Steps of core 1, and of the machine, leave it; so do most jobs of core 0.
QuietJobs == \/ QuiesceDone \/ QuiesceGivesUp \/ Restarted \/ Stay \/ PauseNoted \/ PauseStops \/ Unpause \/ WebCpuReset
             \/ hw_reinit \/ BootButton \/ ResetReleased \/ Setup \/ BootCpuReset

LEMMA ClockedStep == ASSUME BounceInv, ~Unwatched, [Next]_vars PROVE Clocked'
  <1> USE DEF BounceInv, Clocked
  <1>1. CASE Core1 \/ Commands \/ UNCHANGED vars
    BY <1>1 DEF Core1, SeeRun, Publish, Recheck, Leave, SeeLatch, SeePause, Drain, EndDrain,
        Commands, Change, StopCore, WebReset, Xrst, Pause, Erun, Breakpoint, Command
  <1>2. CASE Jobs
    <2>1. CASE XrstDriven \/ BootEnd
      <3>1. SupKept
        BY <2>1, NoteSup
      <3> QED BY <2>1, <3>1 DEF XrstDriven, BootEnd, SupKept
    <2>2. CASE Reinit
      BY <2>2, ReinitSup DEF Reinit, Errands, GoesTo, HelloWritten
    <2>3. CASE hw_reinit
      BY <2>3 DEF hw_reinit, Errands, GoesTo, BootPlaces, HelloWritten
    <2>4. CASE QuietJobs /\ ~hw_reinit
      BY <2>4 DEF QuietJobs, QuiesceDone, QuiesceGivesUp, Restarted, Stay, PauseNoted, PauseStops, BeginQuiesce, Unpause,
          WebCpuReset, BootButton, ResetReleased, Setup, BootCpuReset, CpuReset
    <2> QED BY <1>2, <2>1, <2>2, <2>3, <2>4 DEF Jobs, QuietJobs
  <1>3. CASE Supervise
    <2>1. CASE ProbeMock
      BY <2>1 DEF ProbeMock, Powered
    <2>2. CASE Alive \/ Reconfigured \/ NothingToSupervise
      BY <2>2 DEF Alive, Reconfigured, NothingToSupervise
    <2>3. CASE Frozen
      BY <2>3, FrozenSup DEF Frozen
    <2>4. CASE Sample \/ Attend
      BY <2>4, NoteSup DEF Sample, Attend, SupKept
    <2>5. CASE PowerSeen \/ ClockLost
      BY <2>5 DEF PowerSeen, ClockLost
    <2> QED BY <1>3, <2>1, <2>2, <2>3, <2>4, <2>5 DEF Supervise
  <1>4. CASE Environment
    BY <1>4 DEF Environment, SwitchOn, SwitchOff, ResetButton, Decay, TypeOK, Stages
  <1>5. CASE Tick
    BY <1>5, TickSup DEF Tick
  <1> QED BY <1>1, <1>2, <1>3, <1>4, <1>5 DEF Next

LEMMA ErrandsStep == ASSUME BounceInv, ~Unwatched, [Next]_vars PROVE Errands'
  <1> USE DEF BounceInv, Errands, GoesTo, BootPlaces
  <1>1. CASE Core1 \/ Commands \/ UNCHANGED vars
    BY <1>1 DEF Core1, SeeRun, Publish, Recheck, Leave, SeeLatch, SeePause, Drain, EndDrain,
        Commands, Change, StopCore, WebReset, Xrst, Pause, Erun, Breakpoint, Command, BeginQuiesce
  <1>2. CASE Jobs
    <2>1. CASE XrstDriven \/ BootEnd
      BY <2>1, NoteSup DEF XrstDriven, BootEnd, SupKept
    <2>2. CASE Reinit
      BY <2>2, ReinitSup DEF Reinit
    <2>3. CASE QuietJobs
      BY <2>3 DEF QuietJobs, QuiesceDone, QuiesceGivesUp, Restarted, Stay, PauseNoted, PauseStops, BeginQuiesce, Unpause, Handshake,
          WebCpuReset, hw_reinit, BootButton, ResetReleased, Setup, BootCpuReset, CpuReset
    <2> QED BY <1>2, <2>1, <2>2, <2>3 DEF Jobs, QuietJobs
  <1>3. CASE Supervise
    <2>1. CASE ProbeMock \/ Alive \/ NothingToSupervise
      BY <2>1 DEF ProbeMock, Alive, NothingToSupervise
    <2>2. CASE Reconfigured
      <3>1. ~hello
        BY <2>2 DEF Reconfigured, hw_alive
      <3> QED BY <2>2, <3>1 DEF Reconfigured, BeginQuiesce
    <2>3. CASE Frozen
      BY <2>3, FrozenSup DEF Frozen, BeginQuiesce
    <2>4. CASE Sample \/ Attend
      BY <2>4, NoteSup DEF Sample, Attend, SupKept, BeginQuiesce
    <2>5. CASE PowerSeen
      BY <2>5, PowerSup DEF PowerSeen
    <2>6. CASE ClockLost
      BY <2>6, LostSup DEF ClockLost, BeginQuiesce
    <2> QED BY <1>3, <2>1, <2>2, <2>3, <2>4, <2>5, <2>6 DEF Supervise
  <1>4. CASE Environment
    <2>1. ~hello => ~hello'
      BY <1>4 DEF Environment, SwitchOn, SwitchOff, ResetButton, Decay
    <2>2. UNCHANGED core0Vars
      BY <1>4 DEF Environment, SwitchOn, SwitchOff, ResetButton, Decay
    <2> QED BY <2>1, <2>2
  <1>5. CASE Tick
    <2>1. sup'.on = sup.on /\ sup'.was = sup.was
      BY <1>5, TickSup
    <2>2. phase' = 0 /\ pc0' = pc0 /\ then' = then /\ hello' = hello /\ mock' = mock
      BY <1>5 DEF Tick
    <2> QED BY <2>1, <2>2
  <1> QED BY <1>1, <1>2, <1>3, <1>4, <1>5 DEF Next

\* While the bus clock runs, a second passes only in the main loop after its
\* pass, or in a wait of BootX68.
LEMMA TickPlace == ASSUME BounceInv, Tick, Clk PROVE (pc0 = "loop" /\ phase = 2) \/ (sup.on /\ sup.was)
  <1>1. CASE pc0 = "quiesce"
    <2>1. active /\ pc1 \in {"idle", "running"} /\ ~(~run /\ pc1 = "running")
      BY <1>1 DEF Tick
    <2>2. active => pc1 \in Inside
      BY DEF BounceInv, Handshake
    <2>3. ~run
      BY <1>1 DEF BounceInv, Handshake, Working
    <2> QED BY <2>1, <2>2, <2>3 DEF Inside
  <1>2. CASE pc0 \in {"waitreset", "setup"}
    BY <1>2 DEF BounceInv, Errands, GoesTo, BootPlaces
  <1> QED BY <1>1, <1>2 DEF Tick

LEMMA Ages ==
  ASSUME TypeOK
  PROVE  /\ age \in Nat /\ RunOn \in Nat /\ BounceGap \in Nat /\ BounceUp \in Nat
         /\ RunOn > 1 /\ BounceGap + 1 < ShortGap /\ BounceUp < LongUp
         /\ ShortGap \in Nat /\ LongUp \in Nat
         /\ sup.up \in Nat /\ sup.dead \in Nat /\ sup.gap \in Nat
  <1>1. /\ RunOn \in Nat /\ BounceGap \in Nat /\ BounceUp \in Nat /\ ShortGap \in Nat /\ LongUp \in Nat
        /\ RunOn > 1 /\ BounceGap + 1 < ShortGap /\ BounceUp < LongUp
    BY TimesAssumption
  <1>2. age \in 0..Longest /\ sup.up \in 0..LongUp /\ sup.dead \in 0..ShortGap /\ sup.gap \in 0..ShortGap
    BY DEF TypeOK
  <1> QED BY <1>1, <1>2 DEF Longest

LEMMA TickAge ==
  ASSUME TypeOK, Tick
  PROVE  /\ stage \in {"runon", "gap", "bounce"} => age' =< age + 1 /\ age' \in Nat
         /\ stage = "gap" /\ age =< BounceGap => age' = age + 1 /\ age' =< BounceGap
         /\ stage = "bounce" /\ age =< BounceUp => age' = age + 1 /\ age' =< BounceUp
  <1>1. /\ stage \in {"runon", "gap", "bounce"} => age' = Least(age + 1, Longest)
        /\ stage = "gap" => ~(age >= BounceGap)
        /\ stage = "bounce" => ~(age >= BounceUp)
    BY DEF Tick
  <1> QED BY <1>1, Ages DEF Least, Longest

\* The steps that leave the clock, its age, the supervisor's idea of it and how far its pass is.
Aside == SupKept /\ UNCHANGED <<stage, age, phase, hello>>

LEMMA AsideSteps ==
  ASSUME BounceInv, Core1 \/ Commands \/ UNCHANGED vars \/ ResetButton \/ (QuietJobs /\ ~hw_reinit)
                    \/ XrstDriven \/ BootEnd \/ Sample
  PROVE Aside
  <1>1. CASE Core1 \/ Commands \/ UNCHANGED vars \/ ResetButton
    BY <1>1 DEF Core1, SeeRun, Publish, Recheck, Leave, SeeLatch, SeePause, Drain, EndDrain, ResetButton,
        Commands, Change, StopCore, WebReset, Xrst, Pause, Erun, Breakpoint, Command, Aside, SupKept
  <1>2. CASE QuietJobs /\ ~hw_reinit
    BY <1>2 DEF QuietJobs, QuiesceDone, QuiesceGivesUp, Restarted, Stay, PauseNoted, PauseStops, BeginQuiesce, Unpause, WebCpuReset, BootButton,
        ResetReleased, Setup, BootCpuReset, CpuReset, Aside, SupKept
  <1>3. CASE XrstDriven \/ BootEnd \/ Sample
    <2>1. SupKept
      BY <1>3, NoteSup DEF BounceInv
    <2> QED BY <1>3, <2>1 DEF XrstDriven, BootEnd, Sample, Aside
  <1> QED BY <1>1, <1>2, <1>3

LEMMA Cases ==
  ASSUME BounceInv, [Next]_vars
  PROVE  \/ Aside \/ hw_reinit \/ Reinit
         \/ ProbeMock \/ Alive \/ Frozen \/ Reconfigured \/ PowerSeen \/ ClockLost \/ Attend \/ NothingToSupervise
         \/ SwitchOn \/ SwitchOff \/ Decay \/ Tick
  BY AsideSteps DEF Next, Jobs, Supervise, Environment, QuietJobs

LEMMA RunOnSeenStep == ASSUME BounceInv, ~Unwatched, [Next]_vars PROVE RunOnSeen'
  <1> USE DEF BounceInv, RunOnSeen
  <1>1. CASE Aside
    BY <1>1 DEF Aside, SupKept
  <1>2. CASE hw_reinit
    BY <1>2 DEF hw_reinit, Errands, GoesTo, BootPlaces
  <1>3. CASE Reinit
    BY <1>3, ReinitSup
  <1>4. CASE ProbeMock
    BY <1>4 DEF ProbeMock, Clocked
  <1>5. CASE Alive
    BY <1>5 DEF Alive
  <1>6. CASE Frozen \/ Reconfigured
    <2>1. ~hello'
      BY <1>6, FrozenSup DEF Frozen, Reconfigured, hw_alive
    <2> QED BY <2>1
  <1>7. CASE PowerSeen
    BY <1>7, PowerSup
  <1>8. CASE ClockLost
    BY <1>8 DEF ClockLost, Clk
  <1>9. CASE Attend
    <2>1. SupKept /\ sup.was
      BY <1>9, NoteSup DEF Attend, Errands
    <2> QED BY <2>1 DEF SupKept
  <1>10. CASE NothingToSupervise
    BY <1>10 DEF NothingToSupervise, Clocked
  <1>11. CASE SwitchOn \/ SwitchOff \/ Decay
    BY <1>11 DEF SwitchOn, SwitchOff, Decay
  <1>12. CASE Tick
    <2> SUFFICES ASSUME stage' = "runon", hello', age' >= 2 \/ (age' = 1 /\ phase' = 2), ~sup'.was
                 PROVE  ~sup'.everDead
      OBVIOUS
    <2>1. stage = "runon" /\ hello /\ phase' = 0
      BY <1>12 DEF Tick
    <2>2. sup'.was = sup.was /\ sup'.everDead = sup.everDead
      BY <1>12, TickSup
    <2>3. age >= 1 /\ age \in Nat
      BY <1>12, <2>1, TickAge, Ages
    <2>4. pc0 = "loop" /\ phase = 2
      BY <1>12, <2>1, <2>2, TickPlace DEF Clk
    <2> QED BY <2>1, <2>2, <2>3, <2>4
  <1> QED BY <1>1, <1>2, <1>3, <1>4, <1>5, <1>6, <1>7, <1>8, <1>9, <1>10, <1>11, <1>12, Cases

LEMMA GapSeenStep == ASSUME BounceInv, ~Unwatched, [Next]_vars PROVE GapSeen'
  <1> USE DEF BounceInv, GapSeen
  <1>1. CASE Aside
    BY <1>1 DEF Aside, SupKept
  <1>2. CASE hw_reinit
    BY <1>2 DEF hw_reinit
  <1>3. CASE Reinit
    BY <1>3 DEF Reinit, Clocked, Errands, GoesTo
  <1>4. CASE ProbeMock \/ Alive
    BY <1>4 DEF ProbeMock, Alive
  <1>6. CASE Frozen \/ Reconfigured
    BY <1>6 DEF Frozen, Reconfigured, hw_alive, Clocked
  <1>7. CASE PowerSeen \/ Attend
    BY <1>7 DEF PowerSeen, Attend, Clk
  <1>8. CASE ClockLost
    <2>1. UNCHANGED <<stage, age>>
      BY <1>8 DEF ClockLost
    <2> QED BY <1>8, <2>1, LostSup, Ages
  <1>10. CASE NothingToSupervise
    BY <1>10 DEF NothingToSupervise, Clocked
  <1>11. CASE SwitchOn \/ SwitchOff
    BY <1>11 DEF SwitchOn, SwitchOff
  <1>12. CASE Decay
    <2> SUFFICES ASSUME stage' = "gap" PROVE GapSeen'
      OBVIOUS
    <2>1. stage = "runon" /\ age >= RunOn /\ hello /\ age' = 0 /\ sup' = sup
      BY <1>12 DEF Decay
    <2>2. ~sup.was => ~sup.everDead
      BY <2>1, Ages DEF RunOnSeen
    <2> QED BY <2>1, <2>2, Ages
  <1>13. CASE Tick
    <2>1. stage' = stage /\ phase' = 0
      BY <1>13 DEF Tick
    <2>2. sup'.was = sup.was /\ sup'.everDead = sup.everDead /\ sup'.dead =< sup.dead + 1
      BY <1>13, TickSup
    <2>3. sup'.dead \in Int
      BY <1>13, SupTick, SupsType, TimesAssumption DEF Sups
    <2> QED BY <1>13, <2>1, <2>2, <2>3, TickAge, Ages
  <1> QED BY <1>1, <1>2, <1>3, <1>4, <1>6, <1>7, <1>8, <1>10, <1>11, <1>12, <1>13, Cases

\* On the bounce a pass that sees the clock does not trust it.
LEMMA BouncePass ==
  ASSUME BounceInv, PowerSeen, stage = "bounce" PROVE ~sup'.on /\ Noticed'
  <1>1. ~sup.on /\ phase = 1 /\ stage' = stage /\ age' = age /\ sup' \in Sups
    BY SupPowerSeen, SupsType DEF PowerSeen, BounceInv
  <1>2. age =< BounceUp /\ (Unnoticed \/ Noticed)
    BY <1>1 DEF BounceInv, BounceSeen
  <1>3. sup'.was /\ sup'.gap =< BounceGap + 1 /\ sup'.up =< age
    BY <1>1, <1>2, PowerSup, Ages DEF BounceInv, Unnoticed, Noticed
  <1>4. sup'.gap \in Nat /\ sup'.up \in Nat
    BY <1>1, TimesAssumption DEF Sups
  <1>5. ~(sup'.gap >= ShortGap \/ sup'.up >= LongUp)
    BY <1>2, <1>3, <1>4, Ages DEF BounceInv
  <1> QED BY <1>1, <1>3, <1>5, PowerSup DEF BounceInv, Noticed

LEMMA BounceSeenStep == ASSUME BounceInv, ~Unwatched, [Next]_vars PROVE BounceSeen'
  <1> USE DEF BounceInv, BounceSeen
  <1>1. CASE Aside
    BY <1>1 DEF Aside, SupKept, Unnoticed, Noticed
  <1>2. CASE hw_reinit
    BY <1>2 DEF hw_reinit, Unnoticed, Noticed
  <1>3. CASE Reinit
    BY <1>3 DEF Reinit, Clocked, Errands, GoesTo
  <1>4. CASE ProbeMock \/ Alive
    BY <1>4 DEF ProbeMock, Alive, Unnoticed, Noticed
  <1>6. CASE Frozen \/ Reconfigured
    BY <1>6 DEF Frozen, Reconfigured, hw_alive, Clocked
  <1>7. CASE PowerSeen
    BY <1>7, BouncePass DEF PowerSeen
  <1>8. CASE ClockLost
    BY <1>8 DEF ClockLost, Clk
  <1>9. CASE Attend
    <2>1. SupKept /\ sup.on
      BY <1>9, NoteSup DEF Attend
    <2> QED BY <1>9, <2>1 DEF SupKept, Attend
  <1>10. CASE NothingToSupervise
    BY <1>10 DEF NothingToSupervise, Clocked
  <1>11. CASE SwitchOn \/ SwitchOff
    BY <1>11 DEF SwitchOn, SwitchOff
  <1>12. CASE Decay
    <2> SUFFICES ASSUME stage' = "bounce" PROVE BounceSeen'
      OBVIOUS
    <2>1. stage = "gap" /\ age >= 1 /\ age' = 0 /\ sup' = sup /\ phase' = phase
      BY <1>12 DEF Decay
    <2>2. phase = 2 \/ sup.on
      BY <1>12, <2>1 DEF Decay
    <2>3. phase = 2 => Unnoticed'
      BY <2>1, Ages DEF GapSeen, Unnoticed
    <2> QED BY <2>1, <2>2, <2>3, Ages
  <1>13. CASE Tick
    <2> SUFFICES ASSUME stage = "bounce" PROVE BounceSeen'
      BY <1>13 DEF Tick
    <2>1. stage' = stage /\ phase' = 0 /\ age' = age + 1 /\ age' =< BounceUp
      BY <1>13, TickAge DEF Tick
    <2>2. /\ sup'.on = sup.on /\ sup'.was = sup.was /\ sup'.everDead = sup.everDead /\ sup'.gap = sup.gap
          /\ sup'.up =< sup.up + 1 /\ sup'.dead =< sup.dead + 1
      BY <1>13, TickSup
    <2>3. sup'.dead \in Int /\ sup'.up \in Int
      BY <1>13, SupTick, SupsType, TimesAssumption DEF Sups
    <2>4. phase = 2 \/ sup.on
      BY <1>13, TickPlace DEF Clk
    <2>5. CASE sup.on
      BY <2>1, <2>2, <2>5
    <2>6. CASE Unnoticed /\ phase = 2
      BY <2>1, <2>2, <2>3, <2>6, Ages DEF Unnoticed
    <2>7. CASE Noticed
      BY <2>1, <2>2, <2>3, <2>7, Ages DEF Noticed
    <2> QED BY <2>4, <2>5, <2>6, <2>7
  <1> QED BY <1>1, <1>2, <1>3, <1>4, <1>6, <1>7, <1>8, <1>9, <1>10, <1>11, <1>12, <1>13, Cases

\* As long as the supervision watches the machine, the power-on boot never runs on the
\* clock that bounces back while the supplies decay, for every length of the gap shorter
\* than ShortGap (the 3 s of the test in CKernel::Run) and of the bounce shorter than
\* LongUp (its 10 s).
THEOREM NoBootOnTheBounce == ASSUME ~Unwatched PROVE Spec => NoBootOnBounce
  <1>1. Init /\ TypeOK => BounceInv
    BY BounceInit
  <1>2. BounceInv /\ TypeOK' /\ [Next]_vars => BounceInv'
    BY HandshakeStep, ClockedStep, ErrandsStep, RunOnSeenStep, GapSeenStep, BounceSeenStep DEF BounceInv
  <1>3. BounceInv /\ [Next]_vars => [~sup.on /\ sup'.on => stage # "bounce"]_vars
    <2> SUFFICES ASSUME BounceInv, [Next]_vars, ~sup.on, sup'.on PROVE stage # "bounce"
      OBVIOUS
    <2>1. PowerSeen
      <3>1. TypeOK
        BY DEF BounceInv
      <3>2. CASE Reinit
        BY <3>1, <3>2, ReinitSup
      <3>3. CASE Frozen
        BY <3>1, <3>3, FrozenSup
      <3>4. CASE ClockLost
        BY <3>1, <3>4, LostSup
      <3>5. CASE Tick
        BY <3>1, <3>5, TickSup
      <3>6. CASE Attend
        BY <3>6 DEF Attend
      <3> QED BY <3>2, <3>3, <3>4, <3>5, <3>6, Cases DEF Aside, SupKept, hw_reinit, ProbeMock, Alive, Reconfigured,
            NothingToSupervise, SwitchOn, SwitchOff, Decay
    <2> QED BY <2>1, BouncePass
  <1> QED BY <1>1, <1>2, <1>3, TypeCorrect, PTL DEF Spec, NoBootOnBounce
=============================================================================
