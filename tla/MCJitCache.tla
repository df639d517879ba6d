----------------------------- MODULE MCJitCache -----------------------------
(***************************************************************************)
(* Model values for JitCache, and the instructions, operands and starting  *)
(* states over which the translation of single instructions (JitInstr) is  *)
(* compared with the interpreter (Cpu68k).                                 *)
(***************************************************************************)
EXTENDS JitCache, Cpu68k

WordSymmetry == Permutations(Word)

Ip == 2
E0 == [k |-> "Dn", n |-> 0, d |-> 0, x |-> 0, l |-> FALSE]
E(k, n, d) == [E0 EXCEPT !.k = k, !.n = n, !.d = d]
Indexed(k, n, d, x, l) == [k |-> k, n |-> n, d |-> d, x |-> x, l |-> l]

(* Operands: every mode, on a register the other operand may use too, with *)
(* the index the updated register itself.                                  *)
Memory ==
  {E("Ind", 0, 0), E("Inc", 0, 0), E("Inc", 7, 0), E("Dec", 0, 0), E("Dec", 7, 0), E("Disp", 0, 3),
   E("AbsW", 0, 6), Indexed("Idx", 1, 250, 8, FALSE), Indexed("Idx", 0, 2, 1, TRUE)}
Constant1 == {E("PcDisp", 0, 4), Indexed("PcIdx", 0, 1, 8, FALSE), E("AbsL", 0, 9)}
Data == {E("Dn", 0, 0), E("Dn", 1, 0)}
Sources == Memory \cup Constant1 \cup Data \cup {E("An", 0, 0), E("Imm", 0, 173)}
Targets == Memory \cup Data
Counts == {E("Imm", 0, c) : c \in 0 .. 7} \cup {E("Dn", 1, 0)}
Sizes == 0 .. 2

Ins(op) == [op |-> op, src |-> E0, dst |-> E0, sz |-> 2, n |-> 0]
Moves == {[Ins("MOVE") EXCEPT !.src = a, !.dst = b, !.sz = sz] :
            a \in Sources, b \in Targets \cup {E("An", 0, 0)}, sz \in Sizes}
Ones == {[Ins(op) EXCEPT !.dst = b, !.sz = sz] : op \in {"CLR", "TST", "NOT", "NEG"}, b \in Targets, sz \in Sizes}
Smalls ==
  {[Ins(op) EXCEPT !.src = a, !.n = n] : op \in {"LEA", "PEA"}, a \in Sources, n \in {0, 1}}
  \cup {[Ins("MOVEQ") EXCEPT !.src = E("Imm", 0, v)] : v \in 0 .. 3}
  \cup {[Ins(op) EXCEPT !.n = n, !.sz = sz] : op \in {"EXT", "SWAP"}, n \in {0, 1}, sz \in {1, 2}}
Quicks == {[op |-> op, q |-> q, dst |-> b, sz |-> sz, src |-> E0, n |-> 0] :
             op \in {"ADDQ", "SUBQ"}, q \in {0, 1, 7}, b \in Targets \cup {E("An", 0, 0)}, sz \in Sizes}
TwoOps == {"ADD", "SUB", "CMP", "AND", "OR", "EOR"}
Form(form, op, a, b, n, sz) == [form |-> form, op |-> op, src |-> a, dst |-> b, n |-> n, sz |-> sz]
Twos ==
  {Form("imm", op, E("Imm", 0, v), b, 0, sz) : op \in TwoOps, v \in {1, 173}, b \in Targets, sz \in Sizes}
  \cup {Form("reg", op, a, E0, n, sz) : op \in TwoOps \ {"EOR"}, a \in Sources, n \in {0, 1}, sz \in Sizes}
  \cup {Form("mem", op, E0, b, n, sz) : op \in TwoOps \ {"CMP"}, b \in Targets, n \in {0, 1}, sz \in Sizes}
Addrs == {[Ins(op) EXCEPT !.src = a, !.n = n, !.sz = sz] :
            op \in {"ADDA", "SUBA", "CMPA"}, a \in Sources, n \in {0, 1}, sz \in {1, 2}}
Shifts == {[op |-> "SHIFT", ty |-> ty, left |-> left, sz |-> sz, src |-> c, dst |-> E0, n |-> 0] :
             ty \in 0 .. 3, left \in BOOLEAN, sz \in Sizes, c \in Counts}
Bits1 == {[Ins(op) EXCEPT !.src = c, !.dst = b] :
            op \in {"BTST", "BCHG", "BCLR", "BSET"}, c \in {E("Imm", 0, 1), E("Imm", 0, 7), E("Dn", 1, 0)}, b \in Targets}
Links == {[Ins(op) EXCEPT !.n = n, !.src = E("Imm", 0, 250)] : op \in {"LINK", "UNLK"}, n \in {0, 7}}
Movems == {[op |-> op, list |-> list, dst |-> e, sz |-> sz, src |-> E0, n |-> 0] :
             op \in {"STORE", "LOAD"}, list \in {{0, 8}, {1, 8, 9}, {9, 15}}, e \in Memory \cup Constant1, sz \in {1, 2}}
Branches ==
  {[op |-> op, cc |-> cc, words |-> 1, src |-> E("Imm", 0, 9), dst |-> E0, sz |-> 2, n |-> 0] :
     op \in {"Bcc", "DBcc"}, cc \in 0 .. 15}
  \cup {[op |-> "BSR", words |-> w, src |-> E("Imm", 0, 9), dst |-> E0, sz |-> 2, n |-> 0] : w \in {0, 1}}
Jumps == {[Ins(op) EXCEPT !.src = a] : op \in {"JMP", "JSR"}, a \in Sources} \cup {Ins("RTS")}
Instructions ==
  Moves \cup Ones \cup Smalls \cup Quicks \cup Twos \cup Addrs \cup Shifts \cup Bits1 \cup Links
  \cup Movems \cup Branches \cup Jumps

(* Opcodes that are illegal on a 68000 (an address register as a byte, or  *)
(* as the operand of AND and OR): tr_instr translates some of them.        *)
Legal(i) ==
  /\ i.src.k = "An" => i.sz # 0 /\ i.op \notin {"AND", "OR"}

(* Registers that make operands meet: (A0) and (A1) the same or one apart, *)
(* the stack next to them; the values make every flag.                     *)
Regs(d0, d1, a0, a1, sp) ==
  [r \in 0 .. 15 |-> CASE r = 0 -> d0 [] r = 1 -> d1 [] r = 8 -> a0 [] r = 9 -> a1 [] r = 15 -> sp [] OTHER -> 85]
Bad1 == {{}} \cup {{2 * k, 2 * k + 1} : k \in 0 .. 7}
Start(r, f, bad) ==
  [r |-> r, f |-> f, m |-> [x \in 0 .. Top - 1 |-> (x * x + x \div 3 + 1) % 4], bad |-> bad,
   pc |-> 0, a |-> 0, v |-> 0, done |-> FALSE, err |-> NoErr, w |-> [h \in HostRegs |-> Junk]]
Flag(x, n, z, v, c) == [x |-> x, n |-> n, z |-> z, v |-> v, c |-> c]
Starts ==
  UNION {{Start(Regs(176, 5, 20, 20, 24), Flag(TRUE, FALSE, TRUE, FALSE, TRUE), bad),
          Start(Regs(127, 255, 133, 6, 250), Flag(FALSE, TRUE, FALSE, TRUE, FALSE), bad),
          Start(Regs(2, 0, 8, 250, 12), Flag(TRUE, TRUE, FALSE, FALSE, TRUE), bad)} : bad \in Bad1}
AnyFlags == {Start(Regs(d0, 5, 20, 20, 24), Flag(x, n, z, v, c), {}) :
               d0 \in {0, 176}, x, n, z, v, c \in BOOLEAN}

(* Where generated code is known to differ from the interpreter: LINK and  *)
(* UNLK of A7; a load of several registers that fails on the way keeps     *)
(* those it loaded; memory after a write that fails for one half of a long *)
(* word, when that is the first half, or was the source of the move.       *)
KnownApart(i, t) ==
  \/ i.op \in {"LINK", "UNLK"} /\ i.n = 7
  \/ i.op = "LOAD" /\ t.err # NoErr
HalfWritten(i, s, t) ==
  /\ t.err # NoErr /\ i.sz = 2
  /\ t.err[1] = "write"
  /\ ~Fails(s, t.err[2] + 2, 2) \/ (i.op = "MOVE" /\ InMemory(i.src))

Agrees(i, s, t, u) ==
  KnownApart(i, t) \/ (/\ u.r = t.r /\ u.f = t.f /\ u.err = t.err
                       /\ u.pc = t.pc
                       /\ HalfWritten(i, s, t) \/ u.m = t.m)
StartsOf(i) == IF i.op \in {"Bcc", "DBcc", "SHIFT"} THEN Starts \cup AnyFlags ELSE Starts

(* One translation is looked at by itself, in place of the cache.          *)
VARIABLE ins
None == [op |-> "none"]
MCInit == JitInit /\ (ins = None \/ (ins \in Instructions /\ \A a \in WordAddr : mem[a] = mem[0]))
MCNext == ins = None /\ JitNext /\ UNCHANGED ins
MCSpec == MCInit /\ [][MCNext]_<<jitVars, ins>>

(* What the translator makes of an instruction does what the interpreter   *)
(* does with it: the same registers, flags, memory and next address, and   *)
(* when an access fails, wherever it is in the instruction, executing it   *)
(* again finds everything as if it had not been tried (jit_a64.c,          *)
(* tr_instr; emu68k.c, jit_rd8 to jit_wr32).                               *)
TranslationExact ==
  ins # None /\ Legal(ins) /\ tr_instr(ins, Ip) # Refuse => \A s \in StartsOf(ins) :
    Agrees(ins, s, Interpret(ins, Ip, s), Dispatch1(ins, Ip, s))
=============================================================================
