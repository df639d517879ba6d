---------------------------- MODULE MCVscsiPort ----------------------------
(***************************************************************************)
(* The instances of VscsiPort that TLC checks.                             *)
(***************************************************************************)
EXTENDS VscsiPort

CONSTANTS m1, b1

\* A command: operation, block, whether the bounce buffer holds it, and whether
\* its buffer lies in memory.  Block 1 is past the end of every image.
Cmd(op, lba, fits, inMemory) ==
    [op |-> op, lba |-> lba, at |-> b1, fits |-> fits, inMemory |-> inMemory]

MCCommands == {Cmd("read", 0, TRUE, TRUE), Cmd("write", 0, TRUE, TRUE), Cmd("test", 0, TRUE, TRUE),
               Cmd("read", 1, TRUE, TRUE),              \* refused by the disk
               Cmd("read", 0, TRUE, FALSE),             \* lands nowhere
               Cmd("write", 0, FALSE, TRUE), Cmd("write", 0, TRUE, FALSE)}
=============================================================================
