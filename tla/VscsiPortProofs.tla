-------------------------- MODULE VscsiPortProofs --------------------------
(***************************************************************************)
(* Theorems about VscsiPort for every set of images, blocks, buffers and   *)
(* commands and any number of resets.                                      *)
(***************************************************************************)
EXTENDS VscsiPort, TLAPS

USE DEF vars, core1Vars, portVars, workerVars, targetVars

-----------------------------------------------------------------------------
(***************************************************************************)
(* The type invariant.                                                     *)
(***************************************************************************)
FlagsOK == /\ taken \in BOOLEAN /\ present \in BOOLEAN /\ configured \in BOOLEAN
           /\ ua \in BOOLEAN /\ upset \in BOOLEAN

LEMMA FlagsType == ASSUME TypeOK, [Next]_vars PROVE FlagsOK'
  <1>1. FlagsOK
    BY DEF TypeOK, FlagsOK
  <1>2. CASE Emulator
    <2>1. taken' \in {taken, FALSE} /\ UNCHANGED targetVars /\ UNCHANGED upset
      BY <1>2, Zenon DEF Emulator, GuestStore, Start, StartCapture, StartArm, StartRelease, Commit
    <2>2. QED
      BY <1>1, <2>1 DEF FlagsOK
  <1>3. CASE WorkerStep
    <2>1. /\ taken' \in {taken, TRUE} /\ ua' \in {ua, FALSE} /\ UNCHANGED <<present, configured, upset>>
      BY <1>3, Zenon DEF WorkerStep, Look, SeeTaken, Take, CopyCommand, CopyGeneration, Ask,
                  Attend, Exec, IoAnswered, DoneCheck, DoneAnswer, DonePublish
    <2>2. QED
      BY <1>1, <2>1 DEF FlagsOK
  <1>4. CASE IoTask
    BY <1>1, <1>4 DEF IoTask, IoDone, IoFailed, FlagsOK
  <1>5. CASE Console
    <2>1. /\ UNCHANGED taken /\ present' \in {present, TRUE, FALSE} /\ ua' \in {ua, TRUE}
          /\ configured' \in {configured, TRUE, configured /\ present}
          /\ upset' \in {upset, upset \/ InProgress}
      BY <1>5, Zenon DEF Console, EjectBegin, EjectEnd, MountBegin, MountPresent, MountAttention,
                  ResetGeneration, ResetState, ResetTargets
    <2>2. QED
      BY <1>1, <2>1 DEF FlagsOK
  <1>6. CASE UNCHANGED vars
    BY <1>1, <1>6 DEF FlagsOK
  <1>7. QED
    BY <1>2, <1>3, <1>4, <1>5, <1>6 DEF Next

LEMMA EmulatorType == ASSUME TypeOK, FlagsOK', Emulator PROVE TypeOK'
  <1>1. CASE \E b \in Buf, v \in Data : GuestStore(b, v)
    BY <1>1 DEF TypeOK, GuestStore
  <1>2. CASE \E c \in Command : Start(c)
    BY <1>2 DEF TypeOK, Start, Request
  <1>3. CASE StartCapture
    <2>1. req.cmd \in Command /\ req.cmd.at \in Buf
      BY <1>3, CommandAssumption DEF TypeOK, StartCapture
    <2>2. req' \in Request /\ req'.cmd = req.cmd
      BY <1>3 DEF TypeOK, StartCapture, Request
    <2>3. CASE Refuse
      BY <1>3, <2>1, <2>2, <2>3 DEF TypeOK, StartCapture, Refuse, Answer
    <2>4. CASE Capture
      BY <1>3, <2>1, <2>2, <2>4 DEF TypeOK, StartCapture, Capture
    <2>5. QED
      BY <1>3, <2>3, <2>4 DEF StartCapture
  <1>4. CASE StartArm
    BY <1>4 DEF TypeOK, FlagsOK, StartArm
  <1>5. CASE StartRelease
    BY <1>5 DEF TypeOK, StartRelease
  <1>6. CASE Commit
    <2>1. mem' \in [Buf -> Data]
      BY <1>6 DEF TypeOK, Commit
    <2>2. /\ state' = "done" /\ pc1 = "run" /\ state = "pending"
          /\ UNCHANGED <<pc1, taken, gen, req, buf, answer, workerVars, io, pc0, targetVars, image, upset>>
      BY <1>6 DEF Commit
    <2>3. QED
      BY <2>1, <2>2 DEF TypeOK
  <1>7. QED
    BY <1>1, <1>2, <1>3, <1>4, <1>5, <1>6 DEF Emulator

LEMMA WorkerType == ASSUME TypeOK, FlagsOK', WorkerStep PROVE TypeOK'
  <1>1. CASE Look \/ SeeTaken \/ Take
    BY <1>1 DEF TypeOK, FlagsOK, Look, SeeTaken, Take, Worker
  <1>2. CASE CopyCommand \/ CopyGeneration
    BY <1>2 DEF TypeOK, CopyCommand, CopyGeneration, Worker, Request
  <1>3. CASE Ask \/ Attend
    BY <1>3 DEF TypeOK, FlagsOK, Ask, Attend, Conclude, Answer
  <1>4. CASE Exec
    BY <1>4 DEF TypeOK, Exec, Conclude, Answer
  <1>5. CASE IoAnswered
    BY <1>5 DEF TypeOK, IoAnswered, Conclude, Answer
  <1>6. CASE DoneCheck \/ DoneAnswer \/ DonePublish
    BY <1>6, GenAssumption DEF TypeOK, Request, DoneCheck, DoneAnswer, DonePublish, NextPass, Worker
  <1>7. QED
    BY <1>1, <1>2, <1>3, <1>4, <1>5, <1>6 DEF WorkerStep

LEMMA MovesType ==
  ASSUME TypeOK, IoPossible, IoMoves
  PROVE  buf' \in Data /\ image' \in [Medium -> [Block -> Data]]
  BY DEF TypeOK, IoPossible, IoMoves, InRange

LEMMA IoType == ASSUME TypeOK, IoTask PROVE TypeOK'
  <1>1. buf' \in Data /\ image' \in [Medium -> [Block -> Data]]
    BY MovesType DEF IoTask, IoDone, IoFailed, TypeOK
  <1>2. io' \in {"ok", "failed"} /\ UNCHANGED <<core1Vars, state, taken, gen, req, answer,
                                               workerVars, pc0, targetVars, upset>>
    BY DEF IoTask, IoDone, IoFailed
  <1>3. QED
    BY <1>1, <1>2 DEF TypeOK

LEMMA ConsoleType == ASSUME TypeOK, FlagsOK', Console PROVE TypeOK'
  <1>1. CASE EjectBegin \/ EjectEnd
    BY <1>1 DEF TypeOK, FlagsOK, EjectBegin, EjectEnd, Core0
  <1>2. CASE MountPresent \/ MountAttention \/ \E m \in Medium : MountBegin(m)
    BY <1>2 DEF TypeOK, FlagsOK, MountBegin, MountPresent, MountAttention, Core0
  <1>3. CASE ResetGeneration
    BY <1>3, GenAssumption DEF TypeOK, ResetGeneration, Core0
  <1>4. CASE ResetState \/ ResetTargets
    BY <1>4 DEF TypeOK, ResetState, ResetTargets, Core0
  <1>5. QED
    BY <1>1, <1>2, <1>3, <1>4 DEF Console

LEMMA NextType == ASSUME TypeOK, [Next]_vars PROVE TypeOK'
  <1>1. CASE UNCHANGED vars
    BY <1>1 DEF TypeOK
  <1>2. CASE Next
    BY <1>2, FlagsType, EmulatorType, WorkerType, IoType, ConsoleType DEF Next
  <1>3. QED
    BY <1>1, <1>2

LEMMA InitType == Init => TypeOK
  <1>1. SUFFICES ASSUME Init PROVE TypeOK
    OBVIOUS
  <1>2. taken \in BOOLEAN /\ present \in BOOLEAN /\ configured \in BOOLEAN /\ ua \in BOOLEAN /\ upset \in BOOLEAN
    BY <1>1 DEF Init
  <1>3. gen \in 0..GenMax /\ req \in Request /\ job \in Request
    BY <1>1, GenAssumption DEF Init, Request
  <1>4. QED
    BY <1>1, <1>2, <1>3 DEF Init, TypeOK

\* The port is well typed, and core 3 never works on a request that has not
\* been written (vs_start, emu68k_vscsi_take).
THEOREM TypeCorrect == Spec => []TypeOK
  <1>1. Init => TypeOK
    BY InitType
  <1>2. TypeOK /\ [Next]_vars => TypeOK'
    BY NextType
  <1>3. QED
    BY <1>1, <1>2, PTL DEF Spec

-----------------------------------------------------------------------------
(***************************************************************************)
(* One owner: a command is in the hands of core 1 or of core 3, and the    *)
(* I/O task works only while core 3 waits for it.                          *)
(***************************************************************************)
OwnInv ==
    /\ wpc # "look" => state = "busy"
    /\ pc1 # "run"  => state \notin {"busy", "pending"}
    /\ io # "idle"  => wpc = "wait"
    /\ Held => pc1 = "run" /\ wpc = "look" /\ state \notin {"busy", "pending"}

LEMMA NextOwnInv == ASSUME ~upset', OwnInv, [Next]_vars PROVE OwnInv'
  <1>1. CASE Emulator
    <2>1. CASE \E b \in Buf, v \in Data : GuestStore(b, v)
      BY <2>1 DEF OwnInv, GuestStore, Held
    <2>2. CASE \E c \in Command : Start(c)
      BY <2>2 DEF OwnInv, Start, Held, StartAllowed
    <2>3. CASE StartCapture
      BY <2>3 DEF OwnInv, StartCapture, Refuse, Capture, Held
    <2>4. CASE StartArm \/ StartRelease
      BY <2>4 DEF OwnInv, StartArm, StartRelease, Held
    <2>5. CASE Commit
      BY <2>5 DEF OwnInv, Commit, Held
    <2>6. QED
      BY <1>1, <2>1, <2>2, <2>3, <2>4, <2>5 DEF Emulator
  <1>2. CASE WorkerStep
    <2>1. CASE Look \/ SeeTaken \/ Take \/ CopyCommand \/ CopyGeneration
      BY <2>1 DEF OwnInv, Look, SeeTaken, Take, CopyCommand, CopyGeneration, Worker, Held
    <2>2. CASE Ask \/ Attend \/ Exec \/ IoAnswered
      BY <2>2 DEF OwnInv, Ask, Attend, Exec, IoAnswered, Conclude, Held
    <2>3. CASE DoneCheck \/ DoneAnswer \/ DonePublish
      BY <2>3 DEF OwnInv, DoneCheck, DoneAnswer, DonePublish, NextPass, Worker, Held
    <2>4. QED
      BY <1>2, <2>1, <2>2, <2>3 DEF WorkerStep
  <1>3. CASE IoTask
    BY <1>3 DEF OwnInv, IoTask, IoDone, IoFailed, Held
  <1>4. CASE Console
    <2>1. CASE EjectBegin \/ EjectEnd \/ MountPresent \/ MountAttention
               \/ \E m \in Medium : MountBegin(m)
      BY <2>1 DEF OwnInv, EjectBegin, EjectEnd, MountBegin, MountPresent, MountAttention,
                  Core0, Held
    <2>2. CASE ResetGeneration
      BY <2>2 DEF OwnInv, ResetGeneration, InProgress, Core0, Held
    <2>3. CASE ResetState \/ ResetTargets
      BY <2>3 DEF OwnInv, ResetState, ResetTargets, Core0, Held
    <2>4. QED
      BY <1>4, <2>1, <2>2, <2>3 DEF Console
  <1>5. CASE UNCHANGED vars
    BY <1>5 DEF OwnInv, Held
  <1>6. QED
    BY <1>1, <1>2, <1>3, <1>4, <1>5 DEF Next

LEMMA InitOwnInv == Init => OwnInv
  BY DEF Init, OwnInv, Held

LEMMA NextUpset == ASSUME [Next]_vars, ~upset' PROVE ~upset
  BY Zenon DEF Next, Emulator, GuestStore, Start, StartCapture, StartArm, StartRelease, Commit, WorkerStep,
       Look, SeeTaken, Take, CopyCommand, CopyGeneration, Ask, Attend, Exec, IoAnswered, DoneCheck,
       DoneAnswer, DonePublish, IoTask, IoDone, IoFailed, Console, EjectBegin, EjectEnd, MountBegin,
       MountPresent, MountAttention, ResetGeneration, ResetState, ResetTargets

\* Unless a reset falls into a command, the bounce buffer and the request have
\* one owner at a time (vs_start, vs_commit against vscsi_worker and io_do).
THEOREM BufferHasOneOwner == Spec => []OneOwner
  <1> DEFINE Inv == ~upset => OwnInv
  <1>1. Inv => OneOwner
    BY DEF OwnInv, OneOwner, WorkerBusy
  <1>2. Inv /\ [Next]_vars => Inv'
    BY NextOwnInv, NextUpset
  <1>3. Init => Inv
    BY InitOwnInv
  <1>4. QED
    BY <1>1, <1>2, <1>3, PTL DEF Spec

-----------------------------------------------------------------------------
(***************************************************************************)
(* The disk.  While a command is in progress core 3's copy of the request  *)
(* is the request, and its result becomes the answer.                      *)
(***************************************************************************)
Copied == wpc \notin {"look", "untaken", "take", "cmd"}

DiskInv ==
    /\ TypeOK /\ OwnInv
    /\ pc1 \in {"arm", "release"} \/ state = "busy" => req.gen = gen
    /\ pc1 \in {"arm", "release"} /\ req.cmd.op = "write" => buf = mem[req.cmd.at]
    /\ Copied => job.cmd = req.cmd
    /\ Copied /\ wpc # "gen" => job.gen = req.gen
    /\ wpc = "wait" => Transfers
    /\ wpc = "publish" => answer = result
    /\ pc0 = "close" => ~present

LEMMA NextDiskInv == ASSUME ~upset', DiskInv, [Next]_vars PROVE DiskInv'
  <1>1. TypeOK' /\ OwnInv'
    BY NextType, NextOwnInv DEF DiskInv
  <1>2. CASE Emulator
    <2>1. CASE \E b \in Buf, v \in Data : GuestStore(b, v)
      BY <1>1, <2>1 DEF DiskInv, GuestStore, Copied, Transfers
    <2>2. CASE \E c \in Command : Start(c)
      BY <1>1, <2>2 DEF DiskInv, OwnInv, Start, StartAllowed, Copied, Transfers
    <2>3. CASE StartCapture
      <3>1. req'.gen = gen /\ req'.cmd = req.cmd /\ wpc = "look" /\ state # "busy"
            /\ UNCHANGED <<mem, gen, wpc, job, result, pc0, present>>
        BY <2>3 DEF DiskInv, OwnInv, StartCapture, TypeOK, Request
      <3>2. CASE Refuse
        BY <1>1, <2>3, <3>1, <3>2 DEF DiskInv, Refuse, Copied
      <3>3. CASE Capture
        BY <1>1, <2>3, <3>1, <3>3 DEF DiskInv, Capture, Copied
      <3>4. QED
        BY <2>3, <3>2, <3>3 DEF StartCapture
    <2>4. CASE StartArm \/ StartRelease
      BY <1>1, <2>4 DEF DiskInv, StartArm, StartRelease, Copied, Transfers
    <2>5. CASE Commit
      BY <1>1, <2>5 DEF DiskInv, OwnInv, Commit, Copied, Transfers
    <2>6. QED
      BY <1>2, <2>1, <2>2, <2>3, <2>4, <2>5 DEF Emulator
  <1>3. CASE WorkerStep
    <2>1. CASE Look \/ SeeTaken \/ Take
      BY <1>1, <2>1 DEF DiskInv, Look, SeeTaken, Take, Worker, Copied, Transfers
    <2>2. CASE CopyCommand
      BY <1>1, <2>2 DEF DiskInv, OwnInv, TypeOK, Request, CopyCommand, Worker, Copied, Transfers
    <2>3. CASE CopyGeneration
      BY <1>1, <2>3 DEF DiskInv, OwnInv, TypeOK, Request, CopyGeneration, Worker, Copied, Transfers
    <2>4. CASE Ask \/ Attend \/ Exec \/ IoAnswered
      BY <1>1, <2>4 DEF DiskInv, Ask, Attend, Exec, IoAnswered, Conclude, Copied, Transfers
    <2>5. CASE DoneCheck \/ DoneAnswer \/ DonePublish
      BY <1>1, <2>5 DEF DiskInv, OwnInv, DoneCheck, DoneAnswer, DonePublish, NextPass, Worker, Copied, Transfers
    <2>6. QED
      BY <1>3, <2>1, <2>2, <2>3, <2>4, <2>5 DEF WorkerStep
  <1>4. CASE IoTask
    <2>1. /\ pc1 = "run"
          /\ UNCHANGED <<core1Vars, state, gen, req, answer, workerVars, pc0, present>>
      BY <1>4 DEF DiskInv, OwnInv, IoTask, IoDone, IoFailed
    <2>2. QED
      BY <1>1, <2>1 DEF DiskInv, Copied, Transfers
  <1>5. CASE Console
    <2>1. UNCHANGED <<core1Vars, req, buf, answer, workerVars>>
      BY <1>5 DEF Console, EjectBegin, EjectEnd, MountBegin, MountPresent, MountAttention,
                  ResetGeneration, ResetState, ResetTargets
    <2>2. pc0' = "close" => ~present'
      BY <1>5, Zenon DEF Console, EjectBegin, EjectEnd, MountBegin, MountPresent, MountAttention,
                  ResetGeneration, ResetState, ResetTargets, Core0
    <2>3. (gen' = gen /\ state' \in {state, "idle"}) \/ ResetGeneration
      BY <1>5 DEF Console, EjectBegin, EjectEnd, MountBegin, MountPresent, MountAttention,
                  ResetState, ResetTargets
    <2>4. ResetGeneration => pc1 = "run" /\ state # "busy" /\ state' = state
      BY DEF ResetGeneration, InProgress
    <2>5. QED
      BY <1>1, <2>1, <2>2, <2>3, <2>4 DEF DiskInv, Copied, Transfers
  <1>6. CASE UNCHANGED vars
    BY <1>1, <1>6 DEF DiskInv, Copied, Transfers
  <1>7. QED
    BY <1>2, <1>3, <1>4, <1>5, <1>6 DEF Next

\* The abstract variables the mapping computes.
Drive   == <<Inside, Unsaid, ua>>

\* What a step leaves alone when it moves nothing and reports nothing.
LEMMA Stutter ==
  ASSUME UNCHANGED <<image, mem, Current, Got, Drive, Free, upset>>
  PROVE  UNCHANGED Disk!diskVars
  BY DEF Disk!diskVars, Disk!drive, Drive

\* No command in progress: the abstract disk has none either.
LEMMA Quiet ==
  ASSUME state \notin {"busy", "pending"}
  PROVE  Current = None /\ Got = None /\ Free = FALSE
  BY DEF Current, Got, Free

LEMMA CurrentIsCommand ==
  ASSUME TypeOK, state \in {"busy", "pending"}
  PROVE  /\ Current # None /\ Current.cmd = req.cmd /\ req.cmd \in Command
         /\ Current.data = IF req.cmd.op = "write" THEN buf ELSE None
  <1>1. req.cmd \in Command /\ buf \in Data
    BY DEF TypeOK
  <1>2. Current = [cmd |-> req.cmd, data |-> IF req.cmd.op = "write" THEN buf ELSE None]
    BY DEF Current
  <1>3. Current \in [cmd : Command, data : Data \cup {None}]
    BY <1>1, <1>2
  <1>4. QED
    BY <1>1, <1>2, <1>3, DataAssumption

\* The emulator and the worker leave the drive alone, but for a told attention.
LEMMA DriveKept ==
  ASSUME UNCHANGED <<pc0, medium, present, ua>>
  PROVE  UNCHANGED Drive
  BY DEF Drive, Inside, Unsaid

LEMMA EmulatorStep ==
  ASSUME DiskInv, DiskInv', Emulator
  PROVE  [Disk!DiskNext]_(Disk!diskVars)
  <1> USE DEF Disk!drive
  <1>0. UNCHANGED <<Drive, upset, ua>> /\ UNCHANGED <<Inside, Unsaid>>
    <2>1. UNCHANGED <<pc0, medium, present, ua, upset>>
      BY Zenon DEF Emulator, GuestStore, Start, StartCapture, StartArm, StartRelease, Commit
    <2>2. QED
      BY <2>1, DriveKept DEF Inside, Unsaid
  <1>1. CASE \E b \in Buf, v \in Data : GuestStore(b, v)
    <2>1. /\ \E b \in Buf, v \in Data : mem' = [mem EXCEPT ![b] = v]
          /\ UNCHANGED <<portVars, workerVars, io, image>>
      BY <1>1 DEF GuestStore
    <2>2. UNCHANGED <<Current, Got>>
      BY <2>1 DEF Current, Got, Outcome, Finished
    <2>3. UNCHANGED Free
      BY <1>0, <2>1, <2>2, Zenon DEF Free, Unasked
    <2>4. QED
      BY <1>0, <2>1, <2>2, <2>3 DEF Disk!DiskNext, Disk!StoreMem
  <1>2. CASE StartArm \/ StartCapture \/ \E c \in Command : Start(c)
    <2>1. /\ UNCHANGED <<image, mem>>
          /\ state \notin {"busy", "pending"} /\ state' \notin {"busy", "pending"}
      BY <1>2 DEF StartArm, StartCapture, Refuse, Capture, Start, StartAllowed, DiskInv, OwnInv
    <2>2. Current = None /\ Got = None /\ Free = FALSE
      BY <2>1, Quiet
    <2>3. Current' = None /\ Got' = None /\ Free' = FALSE
      BY <2>1 DEF Current, Got, Free
    <2>4. QED
      BY <1>0, <2>1, <2>2, <2>3, Stutter
  <1>3. CASE StartRelease
    <2>1. /\ UNCHANGED <<image, mem, req, buf, io, wpc>> /\ state' = "busy"
          /\ state \notin {"busy", "pending"} /\ io = "idle" /\ wpc = "look"
          /\ req.cmd \in Command
          /\ req.cmd.op = "write" => buf = mem[req.cmd.at]
      BY <1>3 DEF StartRelease, DiskInv, OwnInv, TypeOK
    <2>2. Current = None /\ Got = None
      BY <2>1, Quiet
    <2>3. Current' = [cmd |-> req.cmd, data |-> IF req.cmd.op = "write" THEN buf ELSE None]
      BY <2>1 DEF Current
    <2>4. Got' = None
      BY <2>1 DEF Got, Finished
    <2>5. Current' # None
      <3>1. Current' \in [cmd : Command, data : Data \cup {None}]
        BY <2>1, <2>3 DEF DiskInv, TypeOK
      <3>2. QED
        BY <3>1, DataAssumption
    <2>6. Free' = ~ua
      <3>1. Got' # Failed
        BY <2>4, DataAssumption
      <3>2. wpc' # "attend" /\ Unasked' /\ state' = "busy" /\ ua' = ua
        BY <1>0, <2>1 DEF Unasked
      <3>3. QED
        BY <2>5, <3>1, <3>2, Zenon DEF Free
    <2>7. Disk!Submit(req.cmd)
      BY <1>0, <2>1, <2>2, <2>3, <2>4, <2>6 DEF Disk!Submit
    <2>8. QED
      BY <2>1, <2>7 DEF Disk!DiskNext
  <1>4. CASE Commit
    <2>1. /\ state = "pending" /\ state' = "done" /\ image' = image /\ wpc = "look"
          /\ mem' = IF req.cmd.op = "read" /\ answer = "good" /\ req.cmd.inMemory
                    THEN [mem EXCEPT ![req.cmd.at] = buf] ELSE mem
          /\ buf \in Data /\ req.cmd \in Command
      BY <1>4 DEF Commit, DiskInv, OwnInv, TypeOK
    <2>2. Current' = None /\ Got' = None /\ Free' = FALSE
      BY <2>1 DEF Current, Got, Free
    <2>4. Current # None /\ Current.cmd = req.cmd
      BY <2>1, CurrentIsCommand DEF DiskInv
    <2>5. Got = Outcome(answer)
      BY <2>1 DEF Got
    <2>6. CASE answer = "good"
      <3>1. IF req.cmd.op = "test" THEN Got = None ELSE Got = buf
        BY <2>5, <2>6 DEF Outcome
      <3>2. Free
        <4>1. Got # Failed
          BY <2>1, <3>1, DataAssumption
        <4>2. QED
          BY <2>1, <2>4, <4>1 DEF Free
      <3>3. mem' = IF Disk!Lands THEN [mem EXCEPT ![Current.cmd.at] = Got] ELSE mem
        BY <2>1, <2>4, <2>6, <3>1 DEF Disk!Lands
      <3>4. Disk!ReportGood
        BY <1>0, <2>1, <2>2, <2>4, <3>1, <3>2, <3>3 DEF Disk!ReportGood
      <3>5. QED
        BY <3>4 DEF Disk!DiskNext
    <2>7. CASE answer # "good"
      <3>1. Got = Failed
        BY <2>5, <2>7 DEF Outcome
      <3>2. Disk!ReportFailure
        BY <1>0, <2>1, <2>2, <2>4, <2>7, <3>1 DEF Disk!ReportFailure
      <3>3. QED
        BY <3>2 DEF Disk!DiskNext
    <2>8. QED
      BY <2>6, <2>7
  <1>5. QED
    BY <1>1, <1>2, <1>3, <1>4 DEF Emulator

\* The worker: a failure is an abstract failure, everything else a stutter.
LEMMA WorkerDiskStep ==
  ASSUME DiskInv, DiskInv', WorkerStep
  PROVE  [Disk!DiskNext]_(Disk!diskVars)
  <1> USE DEF Disk!drive
  <1>1. /\ UNCHANGED <<image, mem, req, buf, upset>> /\ UNCHANGED <<Inside, Unsaid>>
        /\ ua' = ua => UNCHANGED Drive
    <2>1. UNCHANGED <<image, mem, req, buf, upset, pc0, medium, present>>
      BY Zenon DEF WorkerStep, Look, SeeTaken, Take, CopyCommand, CopyGeneration, Ask, Attend,
             Exec, IoAnswered, DoneCheck, DoneAnswer, DonePublish
    <2>2. QED
      BY <2>1 DEF Drive, Inside, Unsaid
  <1>2. CASE Look \/ SeeTaken \/ Take \/ CopyCommand \/ CopyGeneration
    <2>1. /\ UNCHANGED <<state, answer, result, io, ua>> /\ ~Finished /\ ~Finished'
          /\ Unasked /\ Unasked' /\ wpc # "attend" /\ wpc' # "attend"
      BY <1>2 DEF Look, SeeTaken, Take, CopyCommand, CopyGeneration, Worker, Finished, Unasked
    <2>2. UNCHANGED <<Current, Got>>
      BY <1>1, <2>1 DEF Current, Got, Outcome
    <2>3. UNCHANGED Free
      BY <2>1, <2>2, Zenon DEF Free
    <2>4. QED
      BY <1>1, <2>1, <2>2, <2>3, Stutter
  \* the command fails here
  <1>3. ASSUME state = "busy", state' = state, io = "idle", io' = io, ~Finished,
               Finished', result' \in {"check", "notarget"},
               ua' = ua \/ (~Free /\ ua' = FALSE)
        PROVE  [Disk!DiskNext]_(Disk!diskVars)
    <2>1. Current # None
      BY <1>3, CurrentIsCommand DEF DiskInv
    <2>2. Current' = Current /\ Got = None
      BY <1>1, <1>3 DEF Current, Got
    <2>3. Got' = Failed
      BY <1>3 DEF Got, Outcome
    <2>4. Free' = FALSE
      BY <2>3 DEF Free
    <2>5. Disk!Fail
      BY <1>1, <1>3, <2>1, <2>2, <2>3, <2>4 DEF Disk!Fail
    <2>6. QED
      BY <2>5 DEF Disk!DiskNext
  \* the command goes on
  <1>4. ASSUME state = "busy", state' = state, io = "idle", io' \in {"idle", "posted"}, ~Finished,
               ~Finished', UNCHANGED <<Free, ua>>
        PROVE  [Disk!DiskNext]_(Disk!diskVars)
    <2>1. UNCHANGED <<Current, Got>>
      BY <1>1, <1>4 DEF Current, Got
    <2>2. QED
      BY <1>1, <1>4, <2>1, Stutter
  <1>5. CASE Ask
    <2>1. /\ state = "busy" /\ state' = state /\ io = "idle" /\ io' = io /\ ~Finished
          /\ ua' = ua /\ Unasked /\ wpc = "ask"
      BY <1>5 DEF Ask, DiskInv, OwnInv, Finished, Unasked
    <2>2. CASE ~configured /\ Conclude("notarget")
      BY <1>3, <2>1, <2>2 DEF Conclude, Finished
    <2>3. CASE ua /\ wpc' = "attend"
      <3>1. Free = FALSE /\ Free' = FALSE
        BY <2>1, <2>3, Zenon DEF Free
      <3>2. QED
        BY <1>4, <2>1, <2>3, <3>1 DEF Finished
    <2>4. CASE ~ua /\ wpc' = "exec"
      <3>1. Current # None
        BY <2>1, CurrentIsCommand DEF DiskInv
      <3>2. Current' = Current /\ Got = None /\ Got' = None
        BY <1>1, <2>1, <2>4 DEF Current, Got, Finished
      <3>3. Free = TRUE /\ Free' = TRUE
        BY <2>1, <2>4, <3>1, <3>2, DataAssumption DEF Free, Unasked
      <3>4. QED
        BY <1>4, <2>1, <2>4, <3>3 DEF Finished
    <2>5. QED
      BY <1>5, <2>2, <2>3, <2>4 DEF Ask
  <1>6. CASE Attend
    <2>1. /\ state = "busy" /\ state' = state /\ io = "idle" /\ io' = io /\ ~Finished
          /\ ua' = FALSE /\ ~Free
      BY <1>6 DEF Attend, DiskInv, OwnInv, Finished, Free
    <2>2. Finished' /\ result' = "check"
      BY <1>6 DEF Attend, Conclude, Finished
    <2>3. QED
      BY <1>3, <2>1, <2>2
  <1>7. CASE Exec
    <2>1. /\ state = "busy" /\ state' = state /\ io = "idle" /\ ~Finished /\ ua' = ua
          /\ ~Unasked /\ wpc # "attend"
      BY <1>7 DEF Exec, DiskInv, OwnInv, Finished, Unasked
    <2>2. CASE Conclude("check") /\ UNCHANGED io
      BY <1>3, <2>1, <2>2 DEF Conclude, Finished
    <2>3. CASE ~Transfers /\ Conclude("good") /\ UNCHANGED io
      <3>1. req.cmd.op = "test"
        BY <1>7, <2>3 DEF Exec, DiskInv, Copied, Transfers
      <3>2. Got = None /\ Got' = None /\ Current' = Current
        BY <1>1, <2>1, <2>3, <3>1 DEF Got, Outcome, Current, Conclude, Finished
      <3>3. ~Unasked' /\ wpc' # "attend"
        BY <2>3 DEF Conclude, Unasked
      <3>4. UNCHANGED Free
        BY <2>1, <3>2, <3>3, Zenon DEF Free
      <3>5. QED
        BY <1>1, <2>1, <3>2, <3>4, Stutter
    <2>4. CASE io' = "posted" /\ wpc' = "wait"
      <3>1. UNCHANGED <<Current, Got>>
        BY <1>1, <2>1, <2>4 DEF Current, Got, Finished
      <3>2. ~Unasked' /\ wpc' # "attend"
        BY <2>4 DEF Unasked
      <3>3. UNCHANGED Free
        BY <2>1, <3>1, <3>2, Zenon DEF Free
      <3>4. QED
        BY <1>4, <2>1, <2>4, <3>3 DEF Finished
    <2>5. QED
      BY <1>7, <2>2, <2>3, <2>4 DEF Exec
  <1>8. CASE IoAnswered \/ DoneCheck \/ DoneAnswer
    <2>1. /\ state = "busy" /\ state' = state /\ io' = "idle" /\ ua' = ua
          /\ ~Unasked /\ ~Unasked' /\ wpc # "attend" /\ wpc' # "attend"
      BY <1>8 DEF IoAnswered, Conclude, DoneCheck, NextPass, StillWanted, DoneAnswer, Worker,
                  DiskInv, OwnInv, Copied, Unasked
    <2>2. Current' = Current
      BY <1>1, <2>1 DEF Current
    <2>3. Got' = Got
      <3>1. CASE IoAnswered
        <4>1. /\ io \in {"ok", "failed"} /\ Finished'
              /\ result' = (IF io = "ok" THEN "good" ELSE "check")
              /\ req.cmd.op # "test"
          BY <3>1 DEF IoAnswered, DiskInv, Conclude, Finished, Copied, Transfers
        <4>2. QED
          BY <1>1, <2>1, <4>1 DEF Got, Outcome
      <3>2. CASE DoneCheck \/ DoneAnswer
        <4>1. io = "idle" /\ result' = result /\ Finished /\ Finished'
          BY <3>2 DEF DoneCheck, NextPass, StillWanted, DoneAnswer, Worker, DiskInv, OwnInv,
                      Copied, Finished
        <4>2. QED
          BY <1>1, <2>1, <4>1 DEF Got, Outcome
      <3>3. QED
        BY <1>8, <3>1, <3>2
    <2>4. UNCHANGED Free
      BY <2>1, <2>2, <2>3, Zenon DEF Free
    <2>5. QED
      BY <1>1, <2>1, <2>2, <2>3, <2>4, Stutter
  <1>9. CASE DonePublish
    <2>1. /\ state = "busy" /\ state' = "pending" /\ io = "idle" /\ Finished
          /\ answer' = answer /\ answer = result /\ ua' = ua
          /\ ~Unasked /\ wpc # "attend" /\ wpc' # "attend"
      BY <1>9 DEF DonePublish, NextPass, DiskInv, OwnInv, Finished, Unasked
    <2>2. UNCHANGED <<Current, Got>>
      BY <1>1, <2>1 DEF Current, Got, Outcome
    <2>3. UNCHANGED Free
      <3>1. state' # "busy"
        BY <2>1
      <3>2. QED
        BY <2>1, <2>2, <3>1, Zenon DEF Free
    <2>4. QED
      BY <1>1, <2>1, <2>2, <2>3, Stutter
  <1>10. QED
    BY <1>2, <1>5, <1>6, <1>7, <1>8, <1>9 DEF WorkerStep

\* The I/O task: the one effect of the command, or its failure.
LEMMA IoDiskStep ==
  ASSUME DiskInv, DiskInv', IoTask
  PROVE  [Disk!DiskNext]_(Disk!diskVars)
  <1> USE DEF Disk!drive
  <1>1. /\ state = "busy" /\ io = "posted" /\ wpc = "wait" /\ job.cmd = req.cmd /\ Transfers
        /\ UNCHANGED <<mem, state, req, wpc, upset, ua>> /\ UNCHANGED <<Inside, Unsaid>>
    BY DEF IoTask, IoDone, IoFailed, DiskInv, OwnInv, Copied, Inside, Unsaid
  <1>2. Current # None /\ Current.cmd = req.cmd /\ req.cmd \in Command
        /\ Current.data = IF req.cmd.op = "write" THEN buf ELSE None
    BY <1>1, CurrentIsCommand DEF DiskInv
  <1>3. Got = None
    BY <1>1 DEF Got, Finished
  <1>4. req.cmd.op = "write" \/ req.cmd.op = "read"
    BY <1>1, <1>2, CommandAssumption DEF Transfers, Op
  <1>5. Free = TRUE
    BY <1>1, <1>2, <1>3, DataAssumption DEF Free, Unasked
  <1>6. IoPossible => Disk!Moves /\ Inside = medium /\ medium \in Medium
    <2>1. ASSUME IoPossible
          PROVE  Inside = medium /\ medium \in Medium /\ medium # None /\ req.cmd.lba \in Block
      BY <1>1, <2>1 DEF IoPossible, InRange, DiskInv, TypeOK, Inside
    <2>2. QED
      BY <1>2, <1>3, <1>5, <2>1 DEF Disk!Moves
  <1>7. ASSUME IoPossible, IoMoves
        PROVE  /\ Current' = Current
               /\ \/ /\ req.cmd.op = "read" /\ buf' = image[Inside][req.cmd.lba] /\ image' = image
                  \/ /\ req.cmd.op = "write" /\ buf' = buf /\ Disk!Write
    <2>1. CASE req.cmd.op = "read"
      BY <1>1, <1>6, <1>7, <2>1 DEF IoMoves, Current
    <2>2. CASE req.cmd.op = "write"
      <3>1. /\ image' = [image EXCEPT ![medium][req.cmd.lba] = buf] /\ buf' = buf
        BY <1>1, <1>7, <2>2 DEF IoMoves
      <3>2. Current' = Current
        BY <1>1, <3>1 DEF Current
      <3>3. QED
        BY <1>2, <1>6, <1>7, <2>2, <3>1, <3>2 DEF Disk!Write
    <2>3. QED
      BY <1>4, <2>1, <2>2
  <1>8. CASE IoDone
    <2>1. IoPossible /\ IoMoves /\ io' = "ok"
      BY <1>8 DEF IoDone
    <2>2. Got' = buf' /\ buf' \in Data
      BY <1>1, <2>1 DEF Got, DiskInv, TypeOK
    <2>3. Free' = TRUE
      <3>1. Current' # None /\ Got' # Failed
        BY <1>2, <1>7, <2>1, <2>2, DataAssumption
      <3>2. QED
        BY <1>1, <3>1 DEF Free, Unasked
    <2>4. Disk!Effect
      BY <1>1, <1>2, <1>5, <1>6, <1>7, <2>1, <2>2, <2>3 DEF Disk!Effect
    <2>5. QED
      BY <2>4 DEF Disk!DiskNext
  <1>9. CASE IoFailed
    <2>1. io' = "failed" /\ (UNCHANGED <<buf, image>> \/ (IoPossible /\ IoMoves))
      BY <1>9 DEF IoFailed
    <2>2. Got' = Failed
      BY <1>1, <2>1 DEF Got
    <2>3. Free' = FALSE
      BY <2>2 DEF Free
    <2>4. Current' = Current /\ (UNCHANGED image \/ (Disk!Moves /\ Disk!Write))
      <3>1. CASE UNCHANGED <<buf, image>>
        BY <1>1, <3>1 DEF Current
      <3>2. CASE IoPossible /\ IoMoves
        BY <1>6, <1>7, <3>2
      <3>3. QED
        BY <2>1, <3>1, <3>2
    <2>5. Disk!Fail
      BY <1>1, <1>2, <1>3, <2>2, <2>3, <2>4 DEF Disk!Fail
    <2>6. QED
      BY <2>5 DEF Disk!DiskNext
  <1>10. QED
    BY <1>8, <1>9 DEF IoTask

\* Mounts and ejects change the drive and announce it, and a reset that falls
\* into no command changes nothing.
LEMMA ConsoleDiskStep ==
  ASSUME ~upset', DiskInv, Console
  PROVE  [Disk!DiskNext]_(Disk!diskVars)
  <1> USE DEF Disk!drive
  <1>1. /\ UNCHANGED <<image, mem, req, buf, answer, wpc, result, io>>
        /\ upset = FALSE /\ upset' = FALSE
    <2>1. UNCHANGED <<image, mem, req, buf, answer, wpc, result, io>>
      BY Zenon DEF Console, EjectBegin, EjectEnd, MountBegin, MountPresent, MountAttention,
             ResetGeneration, ResetState, ResetTargets
    <2>2. upset = FALSE /\ upset' = FALSE
      BY NextUpset DEF Next
    <2>3. QED
      BY <2>1, <2>2
  <1>2. state' = state \/ (state \notin {"busy", "pending"} /\ state' = "idle")
    BY DEF Console, EjectBegin, EjectEnd, MountBegin, MountPresent, MountAttention,
           ResetGeneration, ResetState, ResetTargets, DiskInv, OwnInv, Held, Core0
  <1>3. UNCHANGED <<Current, Got>>
    BY <1>1, <1>2 DEF Current, Got, Outcome, Finished
  <1>4. Unasked' = Unasked
    BY <1>1 DEF Unasked
  <1>5. ASSUME UNCHANGED ua
        PROVE  UNCHANGED Free
    <2>1. CASE state' = state
      BY <1>1, <1>3, <1>4, <1>5, <2>1, Zenon DEF Free
    <2>2. CASE state \notin {"busy", "pending"} /\ state' = "idle"
      BY <2>2, Quiet DEF Free, Current
    <2>3. QED
      BY <1>2, <2>1, <2>2
  <1>6. ASSUME ua' = TRUE
        PROVE  Free' \in {Free, FALSE}
    <2>1. CASE Free'
      <3>1. Free
        <4>1. CASE state' = state
          <5>1. state = "busy" /\ Unasked => FALSE
            BY <1>4, <1>6, <2>1, <4>1 DEF Free
          <5>2. QED
            BY <1>1, <1>3, <2>1, <5>1, Zenon DEF Free
        <4>2. CASE state \notin {"busy", "pending"} /\ state' = "idle"
          BY <2>1, <4>2 DEF Free, Current
        <4>3. QED
          BY <1>2, <4>1, <4>2
      <3>2. QED
        BY <2>1, <3>1
    <2>2. CASE ~Free'
      BY <2>2 DEF Free
    <2>3. QED
      BY <2>1, <2>2
  \* a medium goes in or comes out
  <1>7. CASE EjectBegin \/ MountPresent
    <2>1. ~Unsaid /\ Unsaid' = TRUE /\ Inside' \in Medium \cup {None} /\ ua' = ua
      BY <1>7 DEF EjectBegin, MountPresent, Core0, Unsaid, Inside, DiskInv, TypeOK
    <2>2. Disk!Change
      BY <1>1, <1>3, <1>5, <2>1 DEF Disk!Change
    <2>3. QED
      BY <2>2 DEF Disk!DiskNext
  \* and is announced
  <1>8. CASE EjectEnd \/ MountAttention
    <2>1. Unsaid /\ Unsaid' = FALSE /\ ua' = TRUE /\ Inside' = Inside
      BY <1>8 DEF EjectEnd, MountAttention, Core0, Unsaid, Inside, DiskInv, TypeOK
    <2>2. Disk!Announce
      BY <1>1, <1>3, <1>6, <2>1 DEF Disk!Announce
    <2>3. QED
      BY <2>2 DEF Disk!DiskNext
  <1>9. CASE ResetGeneration \/ ResetState \/ ResetTargets \/ \E m \in Medium : MountBegin(m)
    <2>1. UNCHANGED <<Inside, Unsaid, ua>>
      BY <1>9 DEF ResetGeneration, ResetState, ResetTargets, MountBegin, Core0, Unsaid, Inside
    <2>2. QED
      BY <1>1, <1>3, <1>5, <2>1, Stutter DEF Drive
  <1>10. QED
    BY <1>7, <1>8, <1>9 DEF Console

\* Until a reset falls into a command the port is a disk: one command at a
\* time, each at most once, with the data of its start; what it reports is what
\* happened, and no command started after a change of medium was announced
\* moves a block before the program has been told (execute, io_request, io_do,
\* vs_start, vs_commit).  Images may be changed at any moment.
THEOREM PortImplementsDisk == Spec => ImplementsDisk
  <1> DEFINE Inv == TypeOK /\ (~upset => DiskInv)
  <1>1. Init => Disk!DiskInit
    BY DEF Init, Disk!DiskInit, Current, Got, Free, Inside, Unsaid
  <1>2. Init => Inv
    <2>1. Init => TypeOK
      BY InitType
    <2>2. QED
      BY <2>1, InitOwnInv DEF Init, DiskInv, Copied
  <1>3. Inv /\ [Next]_vars => Inv'
    BY NextType, NextDiskInv, NextUpset
  <1>4. Inv /\ Inv' /\ [Next]_vars => [Disk!DiskNext]_(Disk!diskVars)
    <2>1. SUFFICES ASSUME Inv, Inv', [Next]_vars
                   PROVE  [Disk!DiskNext]_(Disk!diskVars)
      OBVIOUS
    <2>2. CASE upset'
      <3>1. upset' = TRUE
        BY <2>1, <2>2 DEF TypeOK
      <3>2. QED
        BY <3>1 DEF Disk!DiskNext
    <2>3. CASE ~upset' /\ UNCHANGED vars
      <3>1. UNCHANGED <<image, mem, Current, Got, Drive, upset>>
        BY <2>3 DEF Current, Got, Outcome, Finished, Drive, Inside, Unsaid
      <3>2. UNCHANGED Free
        BY <2>3, <3>1, Zenon DEF Free, Unasked
      <3>3. QED
        BY <3>1, <3>2, Stutter
    <2>4. CASE ~upset' /\ Next
      <3>1. DiskInv /\ DiskInv'
        BY <2>1, <2>4, NextUpset
      <3>2. QED
        BY <2>4, <3>1, EmulatorStep, WorkerDiskStep, IoDiskStep, ConsoleDiskStep DEF Next
    <2>5. QED
      BY <2>1, <2>2, <2>3, <2>4
  <1>5. QED
    BY <1>1, <1>2, <1>3, <1>4, PTL DEF Spec, ImplementsDisk, Disk!DiskSpec
=============================================================================
