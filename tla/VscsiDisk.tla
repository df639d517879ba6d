----------------------------- MODULE VscsiDisk -----------------------------
(***************************************************************************)
(* What the virtual SCSI disk promises the program on the X68000: one      *)
(* command at a time; a write carries the bytes that were in memory when   *)
(* it was submitted and happens once; a read that is reported good has put *)
(* into memory what one block held at some moment in between; a command    *)
(* that is reported failed has changed no memory.                          *)
(*                                                                         *)
(* Blocks are moved on the medium in the drive.  A medium that goes in or  *)
(* comes out is announced, and a command submitted while the announcement  *)
(* has not been told moves no block: it fails, which is how the program is *)
(* told.  A command submitted before it may go on to the new medium.       *)
(*                                                                         *)
(* A reset of the machine in the middle of a command ends the promises.    *)
(***************************************************************************)
CONSTANTS Medium, Block, Buf, Data, Command, None, Failed

VARIABLES
    disk,       \* the blocks of every medium
    mem,        \* the program's buffers
    cur,        \* the submitted command and, for a write, its data
    got,        \* what the command has moved between block and buffer, or Failed
    inside,     \* the medium in the drive, or None
    unsaid,     \* it has changed and this is not announced yet
    news,       \* an announcement the program has not been told of
    free,       \* the submitted command may move blocks and report success
    upset       \* the machine was reset in the middle of a command

drive    == <<inside, unsaid, news>>
diskVars == <<disk, mem, cur, got, drive, free, upset>>

DiskInit ==
    /\ disk \in [Medium -> [Block -> Data]] /\ mem \in [Buf -> Data]
    /\ cur = None /\ got = None /\ free = FALSE
    /\ inside = None /\ unsaid = FALSE /\ news = FALSE
    /\ upset = FALSE

StoreMem ==                             \* the program writes a buffer
    /\ \E b \in Buf, v \in Data : mem' = [mem EXCEPT ![b] = v]
    /\ UNCHANGED <<disk, cur, got, drive, free, upset>>

Change ==                               \* at most one change is unannounced
    /\ ~unsaid /\ unsaid' = TRUE
    /\ inside' \in Medium \cup {None}
    /\ UNCHANGED <<disk, mem, cur, got, news, free, upset>>

Announce ==                             \* the command in progress may be told as well
    /\ unsaid /\ unsaid' = FALSE
    /\ news' = TRUE
    /\ free' \in {free, FALSE}
    /\ UNCHANGED <<disk, mem, cur, got, inside, upset>>

Submit(c) ==
    /\ cur = None
    /\ cur' = [cmd |-> c, data |-> IF c.op = "write" THEN mem[c.at] ELSE None]
    /\ free' = ~news
    /\ UNCHANGED <<disk, mem, got, drive, upset>>

\* the command may move its block
Moves == cur # None /\ got = None /\ free /\ inside # None /\ cur.cmd.lba \in Block

Write ==
    /\ cur.cmd.op = "write"
    /\ disk' = [disk EXCEPT ![inside][cur.cmd.lba] = cur.data]

Effect ==                               \* at most once per command
    /\ Moves
    /\ \/ cur.cmd.op = "read" /\ got' = disk[inside][cur.cmd.lba] /\ UNCHANGED disk
       \/ Write /\ got' = cur.data
    /\ UNCHANGED <<mem, cur, drive, free, upset>>

Fail ==                                 \* a write that fails may have written
    /\ cur # None /\ got = None
    /\ got' = Failed /\ free' = FALSE
    /\ UNCHANGED disk \/ (Moves /\ Write)
    /\ news' = news \/ (~free /\ news' = FALSE)        \* the failure tells of the change
    /\ UNCHANGED <<mem, cur, inside, unsaid, upset>>

\* data for a buffer that does not end inside memory lands nowhere
Lands == cur.cmd.op = "read" /\ cur.cmd.inMemory

ReportGood ==
    /\ cur # None /\ free /\ (IF cur.cmd.op = "test" THEN got = None ELSE got \in Data)
    /\ mem' = IF Lands THEN [mem EXCEPT ![cur.cmd.at] = got] ELSE mem
    /\ cur' = None /\ got' = None /\ free' = FALSE
    /\ UNCHANGED <<disk, drive, upset>>

ReportFailure ==
    /\ cur # None /\ got = Failed
    /\ cur' = None /\ got' = None /\ free' = FALSE
    /\ UNCHANGED <<disk, mem, drive, upset>>

DiskNext ==
    \/ StoreMem \/ Change \/ Announce
    \/ \E c \in Command : Submit(c)
    \/ Effect \/ Fail \/ ReportGood \/ ReportFailure
    \/ upset' = TRUE

DiskSpec == DiskInit /\ [][DiskNext]_diskVars
=============================================================================
