----------------------------- MODULE VscsiPort -----------------------------
(***************************************************************************)
(* The virtual SCSI port: a mailbox of shared variables without a lock,    *)
(* and the three cores that meet in it.                                    *)
(*                                                                         *)
(*  - core 1 emulates the 68000.  A program starts a command (vs_start)    *)
(*    and polls its status; the poll that finds the command finished       *)
(*    copies the data of a read into 68000 memory (vs_commit);             *)
(*  - core 3 takes the command, executes it and publishes the completion   *)
(*    (vscsi_worker, emu68k_vscsi_take, emu68k_vscsi_done);                *)
(*  - core 0 moves the blocks between the image file and the one bounce    *)
(*    buffer for it (CVscsiIoTask), inserts and removes images, and resets *)
(*    the machine.                                                         *)
(*                                                                         *)
(* One target and block-sized transfers.  INQUIRY and REQUEST SENSE, which *)
(* touch neither medium nor attention, are left out; "test" stands for     *)
(* every other command without data.  So is the byte of a disk's header    *)
(* block that execute sets in what it hands over.                          *)
(***************************************************************************)
EXTENDS Integers

CONSTANTS
    Medium,     \* the image files
    Wp,         \* the ones mounted read-only
    Block,      \* block numbers that every image has
    Buf,        \* buffers in 68000 memory
    Data,       \* contents of a block or of a buffer
    Command,    \* the commands programs issue
    None, Failed,
    GenMax      \* bound on resets

Op == {"test", "read", "write"}

\* fits: the bounce buffer holds the data; inMemory: the program's buffer ends
\* inside memory
ASSUME CommandAssumption == \A c \in Command : /\ c.op \in Op /\ c.at \in Buf
                                               /\ c.fits \in BOOLEAN /\ c.inMemory \in BOOLEAN
ASSUME MediumAssumption  == Wp \subseteq Medium /\ None \notin Medium
ASSUME DataAssumption    == /\ None \notin Data /\ None \notin Command
                            /\ None \notin [cmd : Command, data : Data \cup {None}]
                            /\ Failed \notin Data \cup {None}
ASSUME GenAssumption     == GenMax \in Nat

VARIABLES
    mem,        \* the program's buffers
    pc1,        \* core 1: "run", or the next step of vs_start
    state,      \* vs_state
    taken,      \* vs_taken
    gen,        \* vs_gen
    req,        \* vs_req: the command and its generation
    buf,        \* vs_buf, the bounce buffer (one block)
    answer,     \* vs_status and vs_err
    wpc,        \* core 3: the next step of vscsi_worker
    job,        \* its copy of the request
    result,     \* the answer it is going to give
    io,         \* s_io.state, and s_io.result once "done"
    pc0,        \* core 0: "run", or the next step of a mount, eject or reset
    medium,     \* the open image, or None
    present, configured, ua,    \* of the target (ua: unit attention pending)
    image,      \* the files' contents
    upset       \* history: a reset has fallen into a command in progress

core1Vars  == <<mem, pc1>>
portVars   == <<state, taken, gen, req, buf, answer>>
workerVars == <<wpc, job, result>>
targetVars == <<medium, present, configured, ua>>
vars       == <<core1Vars, portVars, workerVars, io, pc0, targetVars, image, upset>>

Request == [cmd : Command \cup {None}, gen : 0..GenMax]
Answer  == {"good", "check", "notarget", "badrequest"}

TypeOK ==
    /\ mem \in [Buf -> Data] /\ buf \in Data
    /\ pc1 \in {"run", "capture", "arm", "release"}
    /\ state \in {"idle", "busy", "pending", "done"} /\ taken \in BOOLEAN
    /\ gen \in 0..GenMax /\ req \in Request /\ job \in Request
    /\ answer \in Answer \cup {None} /\ result \in Answer \cup {None}
    /\ wpc \in {"look", "untaken", "take", "cmd", "gen", "ask", "attend", "exec",
                "wait", "check", "answer", "publish"}
    /\ io \in {"idle", "posted", "ok", "failed"}
    /\ pc0 \in {"run", "close", "insert", "attention", "reset", "enumerate"}
    /\ medium \in Medium \cup {None}
    /\ present \in BOOLEAN /\ configured \in BOOLEAN /\ ua \in BOOLEAN /\ upset \in BOOLEAN
    /\ image \in [Medium -> [Block -> Data]]
    /\ pc1 # "run" \/ state # "idle" \/ wpc # "look" => req.cmd \in Command
    /\ wpc \notin {"look", "untaken", "take", "cmd"} => job.cmd \in Command

Init ==
    /\ mem \in [Buf -> Data] /\ image \in [Medium -> [Block -> Data]] /\ buf \in Data
    /\ pc1 = "run" /\ wpc = "look" /\ pc0 = "run" /\ io = "idle"
    /\ state = "idle" /\ taken = FALSE /\ gen = 0
    /\ req = [cmd |-> None, gen |-> 0] /\ job = [cmd |-> None, gen |-> 0]
    /\ answer = None /\ result = None
    /\ medium = None /\ present = FALSE /\ configured = FALSE /\ ua = FALSE
    /\ upset = FALSE

\* A command is in progress: between its start and the poll that finds its end.
InProgress == pc1 # "run" \/ state \in {"busy", "pending"} \/ wpc # "look"

(***************************************************************************)
(* Core 1.  It is held between two instructions while core 0 resets.       *)
(***************************************************************************)
Held == pc0 \in {"reset", "enumerate"}

GuestStore(b, v) ==                     \* the program uses its buffers
    /\ pc1 = "run" /\ ~Held
    /\ mem' = [mem EXCEPT ![b] = v]
    /\ UNCHANGED <<pc1, portVars, workerVars, io, pc0, targetVars, image, upset>>

\* a start is accepted while a command is being executed (OneOwner)
StartAllowed_MutantBusy == state # "pending"

StartAllowed == state \notin {"busy", "pending"}    \* else vs_overrun

Start(c) ==                             \* vs_start: memcpy of the CDB
    /\ pc1 = "run" /\ ~Held /\ StartAllowed
    /\ req' = [req EXCEPT !.cmd = c]
    /\ pc1' = "capture"
    /\ UNCHANGED <<mem, state, taken, gen, buf, answer, workerVars, io, pc0, targetVars, image, upset>>

\* not longer than the bounce buffer, and data-out comes from inside memory
Acceptable == req.cmd.fits /\ (req.cmd.op = "write" => req.cmd.inMemory)

Refuse ==
    /\ ~Acceptable
    /\ answer' = "badrequest" /\ state' = "done"
    /\ pc1' = "run"
    /\ UNCHANGED buf

\* the data is not captured: the worker finds whatever the buffer holds (ImplementsDisk)
Capture_MutantLate == pc1' = "arm" /\ UNCHANGED <<state, answer, buf>>

Capture ==                              \* data-out is captured on the emulator core
    /\ Acceptable
    /\ buf' = IF req.cmd.op = "write" THEN mem[req.cmd.at] ELSE buf
    /\ pc1' = "arm"
    /\ UNCHANGED <<state, answer>>

StartCapture ==
    /\ pc1 = "capture"
    /\ req' = [req EXCEPT !.gen = gen]
    /\ Refuse \/ Capture
    /\ UNCHANGED <<mem, taken, gen, workerVars, io, pc0, targetVars, image, upset>>

StartArm ==
    /\ pc1 = "arm" /\ pc1' = "release"
    /\ taken' = FALSE
    /\ UNCHANGED <<mem, state, gen, req, buf, answer, workerVars, io, pc0, targetVars, image, upset>>

StartRelease ==
    /\ pc1 = "release" /\ pc1' = "run"
    /\ state' = "busy"
    /\ UNCHANGED <<mem, taken, gen, req, buf, answer, workerVars, io, pc0, targetVars, image, upset>>

\* A read of +$18 that finds the command finished: vs_commit, then the answer.
\* Data that would go past the end of memory is dropped; the answer is good.
Commit ==
    /\ pc1 = "run" /\ ~Held /\ state = "pending"
    /\ mem' = IF req.cmd.op = "read" /\ answer = "good" /\ req.cmd.inMemory
              THEN [mem EXCEPT ![req.cmd.at] = buf] ELSE mem
    /\ state' = "done"
    /\ UNCHANGED <<pc1, taken, gen, req, buf, answer, workerVars, io, pc0, targetVars, image, upset>>

(***************************************************************************)
(* Core 3: emu68k_vscsi_take, one shared access a step.                    *)
(***************************************************************************)
Worker(from, to) == wpc = from /\ wpc' = to

Look ==
    /\ Worker("look", "untaken") /\ state = "busy"
    /\ UNCHANGED <<core1Vars, portVars, job, result, io, pc0, targetVars, image, upset>>

SeeTaken ==
    /\ wpc = "untaken"
    /\ wpc' = IF taken THEN "look" ELSE "take"
    /\ UNCHANGED <<core1Vars, portVars, job, result, io, pc0, targetVars, image, upset>>

Take ==
    /\ Worker("take", "cmd") /\ taken' = TRUE
    /\ UNCHANGED <<core1Vars, state, gen, req, buf, answer, job, result, io, pc0, targetVars, image, upset>>

CopyCommand ==
    /\ Worker("cmd", "gen") /\ job' = [job EXCEPT !.cmd = req.cmd]
    /\ UNCHANGED <<core1Vars, portVars, result, io, pc0, targetVars, image, upset>>

CopyGeneration ==
    /\ Worker("gen", "ask") /\ job' = [job EXCEPT !.gen = req.gen]
    /\ UNCHANGED <<core1Vars, portVars, result, io, pc0, targetVars, image, upset>>

(***************************************************************************)
(* Core 3: execute, for commands that need the medium.                     *)
(***************************************************************************)
Conclude(r) == wpc' = "check" /\ result' = r

\* the pending attention is not looked at (ImplementsDisk)
Ask_MutantDeaf ==
    /\ wpc = "ask"
    /\ \/ ~configured /\ Conclude("notarget")
       \/ configured /\ wpc' = "exec" /\ UNCHANGED result
    /\ UNCHANGED <<core1Vars, portVars, job, io, pc0, targetVars, image, upset>>

Ask ==                                  \* configured, then the test of t.ua
    /\ wpc = "ask"
    /\ \/ ~configured /\ Conclude("notarget")
       \/ configured /\ ua /\ wpc' = "attend" /\ UNCHANGED result
       \/ configured /\ ~ua /\ wpc' = "exec" /\ UNCHANGED result
    /\ UNCHANGED <<core1Vars, portVars, job, io, pc0, targetVars, image, upset>>

Attend ==                               \* t.ua = FALSE, CHECK CONDITION
    /\ wpc = "attend" /\ ua' = FALSE /\ Conclude("check")
    /\ UNCHANGED <<core1Vars, portVars, job, io, pc0, medium, present, configured, image, upset>>

Transfers == job.cmd.op # "test"
InRange   == medium # None /\ job.cmd.lba \in Block         \* lba + n <= t.blocks
Protected == job.cmd.op = "write" /\ medium \in Wp

Exec ==
    /\ wpc = "exec"
    /\ \/ ~present /\ Conclude("check") /\ UNCHANGED io     \* NOT READY
       \/ present /\ ~Transfers /\ Conclude("good") /\ UNCHANGED io
       \/ /\ present /\ Transfers /\ (~InRange \/ Protected)
          /\ Conclude("check") /\ UNCHANGED io
       \/ /\ present /\ Transfers /\ InRange /\ ~Protected  \* io_request posts
          /\ io' = "posted" /\ wpc' = "wait" /\ UNCHANGED result
    /\ UNCHANGED <<core1Vars, portVars, job, pc0, targetVars, image, upset>>

IoAnswered ==                           \* the end of io_request
    /\ wpc = "wait" /\ io \in {"ok", "failed"}
    /\ Conclude(IF io = "ok" THEN "good" ELSE "check")
    /\ io' = "idle"
    /\ UNCHANGED <<core1Vars, portVars, job, pc0, targetVars, image, upset>>

(***************************************************************************)
(* Core 3: emu68k_vscsi_done, one shared access a step.                    *)
(***************************************************************************)
StillWanted == job.gen = gen /\ state = "busy"

\* the next pass of the loop: request and answer are its locals
NextPass == wpc' = "look" /\ job' = [cmd |-> None, gen |-> 0] /\ result' = None

DoneCheck ==
    /\ wpc = "check"
    /\ IF StillWanted THEN wpc' = "answer" /\ UNCHANGED <<job, result>> ELSE NextPass
    /\ UNCHANGED <<core1Vars, portVars, io, pc0, targetVars, image, upset>>

DoneAnswer ==
    /\ Worker("answer", "publish") /\ answer' = result
    /\ UNCHANGED <<core1Vars, state, taken, gen, req, buf, job, result, io, pc0, targetVars, image, upset>>

DonePublish ==
    /\ wpc = "publish" /\ NextPass /\ state' = "pending"
    /\ UNCHANGED <<core1Vars, taken, gen, req, buf, answer, io, pc0, targetVars, image, upset>>

(***************************************************************************)
(* Core 0: the file I/O for core 3 (CVscsiIoTask, io_do).  Tasks of core 0 *)
(* take turns, so none of it falls into a mount, an eject or a reset.      *)
(***************************************************************************)
IoPossible == present /\ InRange /\ ~Protected

IoMoves ==                              \* the block goes one way or the other
    \/ /\ job.cmd.op = "read"
       /\ buf' = image[medium][job.cmd.lba] /\ UNCHANGED image
    \/ /\ job.cmd.op = "write"
       /\ image' = [image EXCEPT ![medium][job.cmd.lba] = buf] /\ UNCHANGED buf

IoDone ==
    /\ io = "posted" /\ pc0 = "run" /\ IoPossible
    /\ IoMoves /\ io' = "ok"
    /\ UNCHANGED <<core1Vars, state, taken, gen, req, answer, workerVars, pc0, targetVars, upset>>

IoFailed ==                             \* refused, or the card failed at some point
    /\ io = "posted" /\ pc0 = "run" /\ io' = "failed"
    /\ UNCHANGED <<buf, image>> \/ (IoPossible /\ IoMoves)
    /\ UNCHANGED <<core1Vars, state, taken, gen, req, answer, workerVars, pc0, targetVars, upset>>

(***************************************************************************)
(* Core 0: vscsi_eject, vscsi_mount, vmpu68_emu_reset.  Core 3 runs on.    *)
(***************************************************************************)
Core0(from, to) == pc0 = from /\ pc0' = to

EjectBegin ==
    /\ Core0("run", "close") /\ present /\ present' = FALSE
    /\ UNCHANGED <<core1Vars, portVars, workerVars, io, medium, configured, ua, image, upset>>

EjectEnd ==
    /\ Core0("close", "run") /\ medium' = None /\ ua' = TRUE
    /\ UNCHANGED <<core1Vars, portVars, workerVars, io, present, configured, image, upset>>

MountBegin(m) ==                        \* f_open, the geometry
    /\ Core0("run", "insert") /\ ~present /\ medium' = m
    /\ UNCHANGED <<core1Vars, portVars, workerVars, io, present, configured, ua, image, upset>>

MountPresent ==
    /\ Core0("insert", "attention") /\ configured' = TRUE /\ present' = TRUE
    /\ UNCHANGED <<core1Vars, portVars, workerVars, io, medium, ua, image, upset>>

MountAttention ==
    /\ Core0("attention", "run") /\ ua' = TRUE
    /\ UNCHANGED <<core1Vars, portVars, workerVars, io, medium, present, configured, image, upset>>

ResetGeneration ==                      \* core 1 has been stopped (emu_quiesce)
    /\ Core0("run", "reset") /\ pc1 = "run" /\ gen < GenMax
    /\ gen' = gen + 1 /\ upset' = (upset \/ InProgress)
    /\ UNCHANGED <<core1Vars, state, taken, req, buf, answer, workerVars, io, targetVars, image>>

\* the state is left as it was (CommandEnds)
ResetState_MutantStaysBusy ==
    /\ Core0("reset", "enumerate")
    /\ UNCHANGED <<core1Vars, portVars, workerVars, io, targetVars, image, upset>>

ResetState ==                           \* the rest of vs_reset
    /\ Core0("reset", "enumerate") /\ state' = "idle"
    /\ UNCHANGED <<core1Vars, taken, gen, req, buf, answer, workerVars, io, targetVars, image, upset>>

\* Core 3 is not preempted: the 110 ms that emu68k_reset holds the RESET line are
\* enough for the few instructions of a take or of a done (not for an execute).
Brief == {"untaken", "take", "cmd", "gen", "answer", "publish"}

ResetTargets ==                         \* vscsi_on_reset, then core 1 goes on
    /\ Core0("enumerate", "run") /\ wpc \notin Brief
    /\ configured' = (configured /\ present)
    /\ UNCHANGED <<core1Vars, portVars, workerVars, io, medium, present, ua, image, upset>>

Emulator == \/ \E b \in Buf, v \in Data : GuestStore(b, v)
            \/ \E c \in Command : Start(c)
            \/ StartCapture \/ StartArm \/ StartRelease \/ Commit

WorkerStep == \/ Look \/ SeeTaken \/ Take \/ CopyCommand \/ CopyGeneration
              \/ Ask \/ Attend \/ Exec \/ IoAnswered
              \/ DoneCheck \/ DoneAnswer \/ DonePublish

IoTask == IoDone \/ IoFailed

Console == \/ EjectBegin \/ EjectEnd \/ MountPresent \/ MountAttention
           \/ \E m \in Medium : MountBegin(m)
           \/ ResetGeneration \/ ResetState \/ ResetTargets

Next == Emulator \/ WorkerStep \/ IoTask \/ Console

Spec == Init /\ [][Next]_vars

\* Cores 1 and 3 never stop executing, core 0 ends what it has begun, and its
\* scheduler gives the I/O task its turn between the commands of the console.
FairSpec ==
    /\ Spec
    /\ WF_vars(WorkerStep) /\ SF_vars(IoTask)
    /\ WF_vars(EjectEnd \/ MountPresent \/ MountAttention \/ ResetState \/ ResetTargets)
    /\ WF_vars(StartCapture \/ StartArm \/ StartRelease) /\ WF_vars(Commit)

-----------------------------------------------------------------------------
(***************************************************************************)
(* Properties.                                                             *)
(***************************************************************************)
\* core 3 works on the request, its data and its answer
WorkerBusy == wpc \notin {"look", "untaken"} \/ io # "idle"

\* The bounce buffer and the request have one owner: while core 1 fills them
\* (vs_start) or copies them out (vs_commit) neither core 3 nor the I/O task of
\* core 0 is at work on them - unless a reset has fallen into a command.
OneOwner == ~upset /\ (pc1 # "run" \/ state # "busy") => ~WorkerBusy

Finished == wpc \in {"check", "answer", "publish"}
Outcome(a) == IF a # "good" THEN Failed ELSE IF req.cmd.op = "test" THEN None ELSE buf
Got == IF state = "pending" THEN Outcome(answer)
       ELSE IF state # "busy" THEN None
       ELSE IF io = "ok" THEN buf
       ELSE IF io = "failed" THEN Failed
       ELSE IF Finished THEN Outcome(result)
       ELSE None

Current == IF state \in {"busy", "pending"}
           THEN [cmd |-> req.cmd, data |-> IF req.cmd.op = "write" THEN buf ELSE None]
           ELSE None

\* The command has not come to the test of the attention, or has passed it.
Unasked == wpc \in {"look", "untaken", "take", "cmd", "gen", "ask"}
Free == /\ Current # None /\ Got # Failed /\ wpc # "attend"
        /\ state = "busy" /\ Unasked => ~ua

Inside == IF present THEN medium ELSE None
Unsaid == pc0 \in {"close", "attention"}

Disk == INSTANCE VscsiDisk WITH disk <- image, cur <- Current, got <- Got, free <- Free,
                                inside <- Inside, unsaid <- Unsaid, news <- ua

\* Mailbox, worker and I/O task together are a disk that executes one command
\* at a time, each at most once, with the data of the moment it was started; and
\* a command started when an exchanged medium has been announced moves no block
\* before the program has been told (vscsi.cpp 205, 330, 346), wherever mounts
\* and ejects fall.
ImplementsDisk == Disk!DiskSpec

\* A command that has been started is answered, or ended by a reset.
CommandEnds == state = "busy" ~> state # "busy"
=============================================================================
