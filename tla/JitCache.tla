------------------------------ MODULE JitCache ------------------------------
(***************************************************************************)
(* The block cache of the 68000 -> AArch64 translator (core/jit_a64.c) and *)
(* everything that changes the words its blocks were made from             *)
(* (core/emu68k.c).                                                        *)
(*                                                                         *)
(* The dispatcher looks the program counter up among the valid blocks,     *)
(* translates a block when there is none, and runs it.  Every writer of    *)
(* the shadow memory asks a map of marks, one per cell of 32 bytes,        *)
(* whether translated code may be touched, and only then walks the two     *)
(* chains of blocks, one per granule of 256 bytes, that can reach the      *)
(* address.  The battery-backed SRAM has its own write path.               *)
(*                                                                         *)
(* Addresses are bytes.  What an instruction does is left out: a word is a *)
(* value of Word, a block is a range with the words it was translated      *)
(* from, and where the translator stops (a control transfer, a refused     *)
(* instruction, BLOCK_MAX_INSTR) is any choice up to BlockBytes.           *)
(***************************************************************************)
EXTENDS Integers, FiniteSets

CONSTANTS
  MemTop,      \* bytes of memory that hold code, even
  Cell,        \* bytes per mark of jit_code_map (32)
  Granule,     \* bytes per chain of blocks (256)
  BlockBytes,  \* longest block: BLOCK_MAX_INSTR instructions (48 * 10)
  MaxBlocks,   \* entries of the block table (MAX_BLOCKS)
  DeadMin,     \* dead blocks tolerated before a rebuild (4096)
  Word,        \* the instruction words told apart
  Sram         \* addresses of the words in MAP_SRAM pages; the others are RAM

WordAddr == {a \in 0 .. MemTop - 1 : a % 2 = 0}

ASSUME SizesAssumption ==
  /\ MemTop \in Nat /\ MemTop % 2 = 0
  /\ Cell \in Nat \ {0} /\ Granule \in Nat \ {0}
  /\ Cell % 2 = 0 /\ Granule % Cell = 0
  /\ BlockBytes \in Nat /\ BlockBytes >= 2
  /\ MaxBlocks \in Nat \ {0} /\ DeadMin \in Nat
ASSUME SramAssumption == Sram \subseteq WordAddr

VARIABLES
  mem,        \* the shadow, word by word
  sramValid,  \* rom_valid of the SRAM page
  blocks,     \* the valid blocks (reachable by lookup)
  nblocks,    \* entries of the table in use, dead ones included
  ndead,      \* invalidated blocks still in the table
  codeMap,    \* jit_code_map: cells that may hold translated code
  run         \* the block whose generated code is running, or NoBlock

cache == <<blocks, nblocks, ndead, codeMap>>
jitVars == <<mem, sramValid, blocks, nblocks, ndead, codeMap, run>>

CellOf(a) == a \div Cell
GranuleOf(a) == a \div Granule
WordsOf(pc, end) == {a \in WordAddr : a >= pc /\ a < end}

(* block_t: `code' is FALSE for a block whose first instruction the        *)
(* translator refuses; it stands for "interpret one instruction here".     *)
IsBlock(b) ==
  /\ b = [pc |-> b.pc, end |-> b.end, code |-> b.code, words |-> b.words]
  /\ b.pc \in WordAddr /\ b.end \in Nat /\ b.code \in BOOLEAN
  /\ b.pc < b.end /\ b.end <= b.pc + BlockBytes
  /\ b.words \in [IF b.code THEN WordsOf(b.pc, b.end) ELSE {} -> Word]
NoBlock == [pc |-> 0, end |-> 0, code |-> FALSE, words |-> [a \in {} |-> 0]]


JitInit ==
  /\ mem \in [WordAddr -> Word]
  /\ sramValid = FALSE
  /\ blocks = {} /\ nblocks = 0 /\ ndead = 0 /\ codeMap = {}
  /\ run = NoBlock

-----------------------------------------------------------------------------
(* jit_flush_all: nothing is translated any more. *)
Flush ==
  /\ blocks' = {} /\ nblocks' = 0 /\ ndead' = 0 /\ codeMap' = {}

(* emu68k_jit_fetch16 answers for RAM, and for the SRAM while its page is  *)
(* filled.                                                                 *)
Fetchable(a) == a \in Sram => sramValid

(* What translate makes at pc: nothing that can be run when the first      *)
(* instruction is refused, otherwise the words up to end.                  *)
Refused(pc) == [pc |-> pc, end |-> pc + 2, code |-> FALSE, words |-> [a \in {} |-> 0]]
Translated(pc, end) ==
  [pc |-> pc, end |-> end, code |-> TRUE,
   words |-> [a \in WordsOf(pc, end) |-> mem[a]]]
Translations(pc) ==
  {Refused(pc)} \cup
  {Translated(pc, end) : end \in {e \in pc + 2 .. pc + BlockBytes :
     /\ e % 2 = 0 /\ e <= MemTop
     /\ \A a \in WordsOf(pc, e) : Fetchable(a)}}

CellsOf(pc, end) == {c \in 0 .. CellOf(MemTop) : c >= CellOf(pc) /\ c <= CellOf(end - 1)}

(* The table is full, or most of it is dead, or too little of the code     *)
(* area is left; how much code a block makes is not modelled.              *)
Rebuild(codeFull) == nblocks >= MaxBlocks \/ codeFull \/ (ndead > DeadMin /\ 2 * ndead > nblocks)

(* translate: the new block is marked and chained; a refused one is only   *)
(* hashed, so no write ever invalidates it.                                *)
Translate(b) ==
  LET marks == IF b.code THEN CellsOf(b.pc, b.end) ELSE {}
  IN  \E codeFull \in BOOLEAN :
      IF Rebuild(codeFull)
      THEN /\ blocks' = {b} /\ nblocks' = 1 /\ ndead' = 0
           /\ codeMap' = marks
      ELSE /\ blocks' = blocks \cup {b} /\ nblocks' = nblocks + 1
           /\ codeMap' = codeMap \cup marks
           /\ UNCHANGED ndead

Lookup(pc) == {b \in blocks : b.pc = pc}

(* jit_run: the next block.  One with code is entered; one without hands a *)
(* single instruction to the interpreter, whose writes are those below.    *)
Enter(b) == run' = IF b.code THEN b ELSE NoBlock

Dispatch(pc) ==
  /\ run = NoBlock
  /\ \/ \E b \in Lookup(pc) : Enter(b) /\ UNCHANGED cache
     \/ /\ Lookup(pc) = {}
        /\ \E b \in Translations(pc) : Translate(b) /\ Enter(b)
  /\ UNCHANGED <<mem, sramValid>>

(* A block runs to its end even when one of its own writes invalidated it; *)
(* EXIT_FAULT leaves it early and the interpreter repeats the instruction. *)
Leave ==
  /\ run # NoBlock
  /\ run' = NoBlock
  /\ UNCHANGED <<mem, sramValid, cache>>

-----------------------------------------------------------------------------
\* Mutants: the chain of the granule before is not walked; the width of the
\* write is not looked at
Near_MutantOwn(a) == {b \in blocks : b.code /\ GranuleOf(b.pc) = GranuleOf(a)}

(* jit_note_write walks the chains of the granule of a and of the one      *)
(* before it.                                                              *)
Near(a) == {b \in blocks : b.code /\ GranuleOf(b.pc) \in {GranuleOf(a) - 1, GranuleOf(a)}}
Overlaps(b, a, n) == a < b.end /\ a + n > b.pc
Hit(a, n) == {b \in Near(a) : Overlaps(b, a, n)}
StillLive(a, n) == \E b \in Near(a) \ Hit(a, n) : Overlaps(b, CellOf(a) * Cell, Cell)

NoteWrite(a, n) ==
  /\ blocks' = blocks \ Hit(a, n)
  /\ ndead' = ndead + Cardinality(Hit(a, n))
  /\ codeMap' = IF StillLive(a, n) THEN codeMap ELSE codeMap \ {CellOf(a)}
  /\ UNCHANGED nblocks

(* jit_code_hit *)
CodeHit(a, n) == CellOf(a) \in codeMap \/ CellOf(a + n - 1) \in codeMap

Widths(a) == IF a % 2 = 0 THEN {1, 2} ELSE {1}
WordAt(a) == a - (a % 2)

(* A word or a byte of RAM is written: by the running instruction or the   *)
(* interpreter, by a snoop record (a DMA cycle, applied between batches or *)
(* in the wait of a bus access the running block makes), or by the repair  *)
(* of a lost range.                                                        *)
RamWrite(a, n, v) ==
  /\ WordAt(a) \notin Sram
  /\ mem' = [mem EXCEPT ![WordAt(a)] = v]
  /\ IF CodeHit(a, n) THEN NoteWrite(a, n) ELSE UNCHANGED cache
  /\ UNCHANGED <<sramValid, run>>

(* vs_put_block: a stretch of a virtual SCSI answer lands with one memcpy, *)
(* and every marked cell it touches is noted as a whole.                   *)
CopyHit(cells) == UNION {Hit(c * Cell, Cell) : c \in cells}
Copy(first, last, v) ==
  LET words == {a \in WordAddr : a >= first /\ a <= last}
      cells == {c \in codeMap : c >= CellOf(first) /\ c <= CellOf(last)}
  IN  /\ words \cap Sram = {}
      /\ mem' = [a \in WordAddr |-> IF a \in words THEN v ELSE mem[a]]
      /\ blocks' = blocks \ CopyHit(cells)
      /\ ndead' = ndead + Cardinality(CopyHit(cells))
      /\ codeMap' = codeMap \ cells
      /\ UNCHANGED <<sramValid, nblocks, run>>

(* The CPU writes the SRAM: the cached word follows while the write enable *)
(* is known to be on, otherwise the page is read again.  No translation is *)
(* told in either case.                                                    *)
SramWrite(a, v) ==
  /\ a \in Sram
  /\ \/ /\ mem' = [mem EXCEPT ![a] = v]
        /\ UNCHANGED sramValid
     \/ /\ sramValid' = FALSE
        /\ UNCHANGED mem
  /\ UNCHANGED <<cache, run>>

(* rom_fill: a read finds the page invalid and fills it from the bus. *)
SramFill(a, v) ==
  /\ a \in Sram /\ ~sramValid
  /\ mem' = [mem EXCEPT ![a] = v]
  /\ sramValid' = TRUE
  /\ UNCHANGED <<cache, run>>

(* Reset, resynchronisation, a change of the CPU, of the memory size or of *)
(* the settings, with the core between two blocks: everything translated   *)
(* goes, and memory may be another one afterwards.                         *)
FlushAll(a, v) ==
  /\ run = NoBlock
  /\ Flush
  /\ mem' = [mem EXCEPT ![a] = v]
  /\ sramValid' \in {sramValid, FALSE}
  /\ UNCHANGED run

JitNext ==
  \/ \E pc \in WordAddr : Dispatch(pc)
  \/ Leave
  \/ \E a \in 0 .. MemTop - 1, v \in Word : \E n \in Widths(a) : RamWrite(a, n, v)
  \/ \E first, last \in WordAddr, v \in Word : first <= last /\ Copy(first, last, v)
  \/ \E a \in WordAddr, v \in Word : SramWrite(a, v)
  \/ \E a \in WordAddr, v \in Word : SramFill(a, v)
  \/ \E a \in WordAddr, v \in Word : FlushAll(a, v)

JitSpec == JitInit /\ [][JitNext]_jitVars

-----------------------------------------------------------------------------
(* The words of a block that the granules walked for a write can find.     *)
InReach(b) == {a \in DOMAIN b.words \ Sram : GranuleOf(a) <= GranuleOf(b.pc) + 1}

(* Every variable keeps its type, and no two valid blocks start at one     *)
(* address, so lookup has one answer (jit_a64.c, lookup and translate).    *)
JitTypeOK ==
  /\ mem \in [WordAddr -> Word]
  /\ sramValid \in BOOLEAN
  /\ \A b \in blocks : IsBlock(b)
  /\ nblocks \in 0 .. MaxBlocks
  /\ ndead \in 0 .. MaxBlocks
  /\ codeMap \subseteq 0 .. CellOf(MemTop)
  /\ run = NoBlock \/ IsBlock(run)
  /\ \A b, c \in blocks : b.pc = c.pc => b = c
  /\ Cardinality(blocks) + ndead <= nblocks

(* No stale code: a block that lookup can still return was made from the   *)
(* words that are in memory now, whoever wrote them and through whichever  *)
(* mark, wherever marks have been taken down meanwhile - as far as the two *)
(* granules walked for a write reach (jit_a64.c, jit_note_write; emu68k.c, *)
(* every shadow write).                                                    *)
ReachCoherent == \A b \in blocks : \A a \in InReach(b) : b.words[a] = mem[a]

(* The same for all of a block in RAM, which is what the comment above     *)
(* jit_note_write says: blocks are short enough for two granules.          *)
RamCoherent == \A b \in blocks : \A a \in DOMAIN b.words \ Sram : b.words[a] = mem[a]

(* The same for code in the battery-backed SRAM as well.                   *)
Coherent == \A b \in blocks : \A a \in DOMAIN b.words : b.words[a] = mem[a]

(* Stale code is not entered: when the dispatcher starts a block, the      *)
(* instructions it is about to run are those in memory, as far as writes   *)
(* reach, even right after a block that overwrote itself (jit_run).        *)
FreshEntry ==
  [][run = NoBlock /\ run' # NoBlock => \A a \in InReach(run') : run'.words[a] = mem[a]]_jitVars
=============================================================================
