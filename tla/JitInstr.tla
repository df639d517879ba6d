------------------------------ MODULE JitInstr ------------------------------
(***************************************************************************)
(* tr_instr (core/jit_a64.c): the steps the translator emits for one       *)
(* 68000 instruction, or none when it refuses it and the interpreter is    *)
(* to execute it.                                                          *)
(*                                                                         *)
(* An operand is [k, n, d, x, l]: its mode, the number of its register,    *)
(* the displacement, address or data in its extension words, the index     *)
(* register and whether the whole of it counts.  An instruction is a       *)
(* record with its mnemonic as "op"; the opcodes behind it are left out.   *)
(***************************************************************************)
EXTENDS JitSteps

Refuse == <<>>
InMemory(e) == e.k \notin {"Dn", "An", "Imm"}
PcBased(e) == e.k \in {"PcDisp", "PcIdx"}
Alterable(e) == e.k # "Imm" /\ ~PcBased(e)

(* decode_ea: the words an operand takes, and the constants in them with   *)
(* the address they count from added.                                      *)
Words(e, sz) ==
  CASE e.k \in {"Dn", "An", "Ind", "Inc", "Dec"} -> 0
    [] e.k \in {"Disp", "Idx", "AbsW", "PcDisp", "PcIdx"} -> 1
    [] e.k = "AbsL" -> 2
    [] e.k = "Imm" -> IF sz = 2 THEN 2 ELSE 1
decode_ea(e, pc) == IF PcBased(e) THEN [e EXCEPT !.d = (@ + pc) % Long] ELSE e
EaBytes(e, sz) == IF sz = 0 /\ e.n = 7 THEN 2 ELSE Bytes(sz)

(* A register whose update is still to come, and by how much. *)
NoPend == [r |-> -1, d |-> 0]
Pend(e, sz) ==
  CASE e.k = "Inc" -> [r |-> 8 + e.n, d |-> EaBytes(e, sz)]
    [] e.k = "Dec" -> [r |-> 8 + e.n, d |-> - EaBytes(e, sz)]
    [] OTHER -> NoPend

Ld(w, r) == << <<"ld", w, r>> >>
St(w, r, sz) == << <<"st", w, r, sz>> >>
LdPend(w, r, p) == Ld(w, r) \o (IF r = p.r THEN << <<"addi", w, w, p.d>> >> ELSE <<>>)
LdIndex(w, e, p) == LdPend(w, e.x, p) \o (IF e.l THEN <<>> ELSE << <<"sx", w, w, 1>> >>)

\* Mutant: the update still to come of a register is not looked at
ea_addr_MutantStale(e, sz, w, p) ==
  LET base == LdPend(w, 8 + e.n, NoPend)
  IN  CASE e.k \in {"Ind", "Inc"} -> base
        [] e.k = "Dec" -> base \o << <<"addi", w, w, - EaBytes(e, sz)>> >>
        [] e.k = "Disp" -> base \o << <<"imm", 16, e.d>>, <<"add", w, w, 16>> >>
        [] e.k = "Idx" -> base \o LdIndex(16, e, NoPend) \o << <<"add", w, w, 16>>, <<"imm", 16, e.d>>, <<"add", w, w, 16>> >>
        [] e.k \in {"AbsW", "AbsL", "PcDisp"} -> << <<"imm", w, e.d>> >>
        [] e.k = "PcIdx" -> LdIndex(16, e, NoPend) \o << <<"imm", w, e.d>>, <<"add", w, w, 16>> >>
(* ea_addr_p: the address of an operand in host register w.  Address       *)
(* registers are not updated before the last access that can fail, so the  *)
(* pending update p of the source operand is applied on the way.           *)
ea_addr(e, sz, w, p) ==
  LET base == LdPend(w, 8 + e.n, p)
  IN  CASE e.k \in {"Ind", "Inc"} -> base
        [] e.k = "Dec" -> base \o << <<"addi", w, w, - EaBytes(e, sz)>> >>
        [] e.k = "Disp" -> base \o << <<"imm", 16, e.d>>, <<"add", w, w, 16>> >>
        [] e.k = "Idx" -> base \o LdIndex(16, e, p) \o << <<"add", w, w, 16>>, <<"imm", 16, e.d>>, <<"add", w, w, 16>> >>
        [] e.k \in {"AbsW", "AbsL", "PcDisp"} -> << <<"imm", w, e.d>> >>
        [] e.k = "PcIdx" -> LdIndex(16, e, p) \o << <<"imm", w, e.d>>, <<"add", w, w, 16>> >>

ea_commit(e, sz) ==
  IF Pend(e, sz) = NoPend THEN <<>>
  ELSE Ld(16, 8 + e.n) \o << <<"addi", 16, 16, Pend(e, sz).d>> >> \o St(16, 8 + e.n, 2)

Move0(w) == IF w = 0 THEN <<>> ELSE << <<"mov", w, 0>> >>
ea_read(e, sz, w) ==
  CASE e.k = "Dn" -> Ld(w, e.n)
    [] e.k = "An" -> Ld(w, 8 + e.n)
    [] e.k = "Imm" -> << <<"imm", w, e.d>> >>
    [] OTHER -> ea_addr(e, sz, 0, NoPend) \o << <<"rd", sz>> >> \o Move0(w)
ea_write(e, sz, w, p) ==
  CASE e.k = "Dn" -> St(w, e.n, sz)
    [] e.k = "An" -> St(w, 8 + e.n, 2)
    [] OTHER -> ea_addr(e, sz, 0, p) \o << <<"mov", 1, w>>, <<"wr", sz>> >>

(* The operand of a read-modify-write: its address stays in w26. *)
ReadKept(e, sz, w) ==
  IF InMemory(e) THEN ea_addr(e, sz, T1, NoPend) \o << <<"mov", 0, T1>>, <<"rd", sz>> >> \o Move0(w)
  ELSE ea_read(e, sz, w)
WriteKept(e, sz, w) ==
  IF InMemory(e) THEN << <<"mov", 0, T1>>, <<"mov", 1, w>>, <<"wr", sz>> >>
  ELSE ea_write(e, sz, w, NoPend)
Push(w) == Ld(0, 15) \o << <<"addi", 0, 0, -4>>, <<"mov", T1, 0>> >> \o w \o << <<"wr", 2>> >>

-----------------------------------------------------------------------------
(* An instruction at address ip.  The operand after n words of others: *)
At(e, ip, n) == decode_ea(e, ip + 2 + 2 * n)
Next1(ip, n) == (ip + 2 + 2 * n) % Top
Control(e) == e.k \in {"Ind", "Disp", "Idx", "AbsW", "AbsL", "PcDisp", "PcIdx"}

TrMove(i, ip) ==
  LET src == At(i.src, ip, 0)
      p == Pend(src, i.sz)
  IN  IF ~Alterable(i.dst) \/ (i.dst.k = "An" /\ i.sz = 0) THEN Refuse
      ELSE ea_read(src, i.sz, T0) \o
           IF i.dst.k = "An"
           THEN ea_commit(src, i.sz) \o (IF i.sz = 1 THEN << <<"sx", T0, T0, 1>> >> ELSE <<>>) \o St(T0, 8 + i.dst.n, 2)
           ELSE ea_write(i.dst, i.sz, T0, p) \o << <<"logic", T0, i.sz>> >>
                \o ea_commit(src, i.sz) \o ea_commit(i.dst, i.sz)

(* MOVEQ, LEA, PEA, EXT and SWAP *)
TrSmall(i, ip) ==
  LET src == At(i.src, ip, 0)
      n == i.n
  IN  CASE i.op = "MOVEQ" -> << <<"imm", T0, SignExt(i.src.d, 0)>>, <<"logic", T0, 2>> >> \o St(T0, n, 2)
        [] i.op = "LEA" -> IF ~Control(src) THEN Refuse ELSE ea_addr(src, 2, T0, NoPend) \o St(T0, 8 + n, 2)
        [] i.op = "PEA" -> IF ~Control(src) THEN Refuse
             ELSE ea_addr(src, 2, T0, NoPend) \o Push(<< <<"mov", 1, T0>> >>) \o St(T1, 15, 2)
        [] i.op = "EXT" -> Ld(T0, n) \o << <<"sx", T0, T0, i.sz - 1>>, <<"logic", T0, i.sz>> >> \o St(T0, n, i.sz)
        [] i.op = "SWAP" -> Ld(T0, n) \o << <<"ror", T0, T0>>, <<"logic", T0, 2>> >> \o St(T0, n, 2)

(* CLR, TST, NOT and NEG: CLR reads before it writes, and the flags of CLR *)
(* and NOT come after the write, as the interpreter sets them.             *)
TrOne(i, ip) ==
  LET e == i.dst
      logic == << <<"logic", T0, i.sz>> >>
  IN  IF e.k = "An" \/ ~Alterable(e) THEN Refuse
      ELSE IF i.op = "TST" THEN ea_read(e, i.sz, T0) \o ea_commit(e, i.sz) \o logic
      ELSE ReadKept(e, i.sz, T0) \o
           (CASE i.op = "CLR" -> << <<"imm", T0, 0>> >>
              [] i.op = "NOT" -> << <<"not", T0, T0>> >>
              [] i.op = "NEG" -> << <<"imm", 2, 0>>, <<"arith", T0, 2, T0, i.sz, 1>> >>)
           \o WriteKept(e, i.sz, T0) \o (IF i.op = "NEG" THEN <<>> ELSE logic) \o ea_commit(e, i.sz)

(* ADDQ and SUBQ: on an address register all of it, and no flag. *)
TrQuick(i, ip) ==
  LET e == i.dst
      q == IF i.q = 0 THEN 8 ELSE i.q
  IN  IF ~Alterable(e) \/ (e.k = "An" /\ i.sz = 0) THEN Refuse
      ELSE IF e.k = "An"
      THEN Ld(T0, 8 + e.n) \o << <<"addi", T0, T0, IF i.op = "SUBQ" THEN -q ELSE q>> >> \o St(T0, 8 + e.n, 2)
      ELSE ReadKept(e, i.sz, T0)
           \o << <<"imm", 1, q>>, <<"arith", T0, T0, 1, i.sz, IF i.op = "SUBQ" THEN 1 ELSE 0>> >>
           \o WriteKept(e, i.sz, T0) \o ea_commit(e, i.sz)

(* What an operation of two operands does to w and w1, the flags it sets   *)
(* before the result is written and those after.                           *)
Arithmetic == [ADD |-> 0, SUB |-> 1, CMP |-> 2]
Logical == [AND |-> "and", OR |-> "or", EOR |-> "eor"]
Op2(op, sz) ==
  IF op \in DOMAIN Arithmetic THEN << <<"arith", T0, T0, 1, sz, Arithmetic[op]>> >>
  ELSE << <<Logical[op], T0, T0, 1>> >> \o (IF op = "AND" THEN << <<"logic", T0, sz>> >> ELSE <<>>)
Late(op, sz) == IF op \in {"OR", "EOR"} THEN << <<"logic", T0, sz>> >> ELSE <<>>

(* ADDI, SUBI, CMPI, ANDI, ORI and EORI *)
TrImm(i, ip) ==
  LET e == i.dst
  IN  IF e.k = "An" \/ ~Alterable(e) THEN Refuse
      ELSE ReadKept(e, i.sz, T0) \o << <<"imm", 1, i.src.d>> >> \o Op2(i.op, i.sz)
           \o (IF i.op = "CMP" THEN <<>> ELSE WriteKept(e, i.sz, T0) \o Late(i.op, i.sz))
           \o ea_commit(e, i.sz)

(* ADDA, SUBA and CMPA *)
TrAddr(i, ip) ==
  LET src == At(i.src, ip, 0)
  IN  ea_read(src, i.sz, T0) \o ea_commit(src, i.sz)
      \o (IF i.sz = 1 THEN << <<"sx", T0, T0, 1>> >> ELSE <<>>) \o Ld(2, 8 + i.n)
      \o CASE i.op = "CMPA" -> << <<"arith", 3, 2, T0, 2, 2>> >>
           [] i.op = "ADDA" -> << <<"add", 2, 2, T0>> >> \o St(2, 8 + i.n, 2)
           [] i.op = "SUBA" -> << <<"sub", 2, 2, T0>> >> \o St(2, 8 + i.n, 2)

(* ADD, SUB, CMP, AND and OR into Dn *)
TrToReg(i, ip) ==
  LET src == At(i.src, ip, 0)
  IN  IF src.k = "An" /\ i.sz = 0 /\ i.op = "CMP" THEN Refuse
      ELSE ea_read(src, i.sz, T0) \o ea_commit(src, i.sz) \o Ld(2, i.n)
           \o (IF i.op \in DOMAIN Arithmetic THEN << <<"arith", 3, 2, T0, i.sz, Arithmetic[i.op]>> >>
               ELSE << <<Logical[i.op], 3, 2, T0>>, <<"logic", 3, i.sz>> >>)
           \o (IF i.op = "CMP" THEN <<>> ELSE St(3, i.n, i.sz))

(* ADD, SUB, AND and OR of Dn into memory, EOR of Dn into Dm or memory *)
TrToEa(i, ip) ==
  LET e == i.dst
  IN  IF ~Alterable(e) \/ e.k = "An" \/ (e.k = "Dn" /\ i.op # "EOR") THEN Refuse
      ELSE ReadKept(e, i.sz, T0) \o Ld(1, i.n) \o Op2(i.op, i.sz)
           \o WriteKept(e, i.sz, T0) \o Late(i.op, i.sz) \o ea_commit(e, i.sz)

(* Shifts and rotations of Dn, by a constant or by another register *)
TrShift(i, ip) ==
  Ld(0, i.n)
  \o (IF i.src.k = "Dn" THEN Ld(1, i.src.n) \o << <<"imm", 3, 63>>, <<"and", 1, 1, 3>> >>
      ELSE << <<"imm", 1, IF i.src.d = 0 THEN 8 ELSE i.src.d>> >>)
  \o << <<"shift", i.ty, i.left, i.sz>> >> \o St(0, i.n, i.sz)

(* BTST, BCHG, BCLR and BSET: 32 bits of a register, 8 of memory *)
TrBit(i, ip) ==
  LET e == At(i.dst, ip, IF i.src.k = "Imm" THEN 1 ELSE 0)
      sz == IF e.k = "Dn" THEN 2 ELSE 0
  IN  IF \/ i.op # "BTST" /\ ~Alterable(e)
         \/ e.k = "Imm" /\ i.src.k = "Imm"
         \/ e.k = "An" /\ i.src.k = "Dn"
      THEN Refuse
      ELSE ReadKept(e, sz, T0)
           \o (IF i.src.k = "Imm" THEN << <<"imm", 1, i.src.d>> >> ELSE Ld(1, i.src.n))
           \o << <<"bit", 2, 1, Bits(sz)>>, <<"and", 3, T0, 2>>, <<"z", 3>> >>
           \o (CASE i.op = "BTST" -> <<>>
                 [] i.op = "BCHG" -> << <<"eor", T0, T0, 2>> >>
                 [] i.op = "BCLR" -> << <<"not", 2, 2>>, <<"and", T0, T0, 2>> >>
                 [] i.op = "BSET" -> << <<"or", T0, T0, 2>> >>)
           \o (IF i.op = "BTST" THEN <<>> ELSE WriteKept(e, sz, T0)) \o ea_commit(e, sz)

(* LINK and UNLK *)
TrLink(i, ip) ==
  LET an == 8 + i.n
  IN  IF i.op = "LINK"
      THEN Push(Ld(1, an)) \o St(T1, an, 2)
           \o << <<"imm", 1, i.src.d>>, <<"add", T1, T1, 1>> >> \o St(T1, 15, 2)
      ELSE Ld(0, an) \o << <<"mov", T1, 0>>, <<"rd", 2>> >> \o St(0, an, 2)
           \o << <<"addi", T1, T1, 4>> >> \o St(T1, 15, 2)

(* MOVEM: -(An) walks the registers downwards; only -(An) and (An)+ update *)
(* the base.                                                               *)
Ascending(list) == SetToSortSeq(list, <)
TrMovem(i, ip) ==
  LET e == At(i.dst, ip, 1)
      base == St(0, 8 + e.n, 2)
      up == Ascending(i.list)
  IN  IF \/ i.op = "STORE" /\ (e.k = "Inc" \/ ~Alterable(e))
         \/ i.op = "LOAD" /\ e.k = "Dec"
         \/ ~InMemory(e)
      THEN Refuse
      ELSE IF e.k = "Dec" THEN Ld(0, 8 + e.n) \o << <<"store", Reverse(up), i.sz, TRUE>> >> \o base
      ELSE ea_addr(e, i.sz, 0, NoPend)
           \o << IF i.op = "STORE" THEN <<"store", up, i.sz, FALSE>> ELSE <<"load", up, i.sz>> >>
           \o (IF e.k = "Inc" THEN base ELSE <<>>)

(* Bcc, BRA, BSR and DBcc; the displacement is in the opcode or in a word. *)
TrBranch(i, ip) ==
  LET next == Next1(ip, i.words)
      target == (ip + 2 + i.src.d) % Top
  IN  CASE i.op = "BSR" -> Push(<< <<"imm", 1, next>> >>) \o St(T1, 15, 2) \o << <<"exit", target>> >>
        [] i.op = "Bcc" -> << <<"cond", i.cc>>, <<"exitnz", target>>, <<"exit", next>> >>
        [] i.op = "DBcc" ->
             << <<"cond", i.cc>>, <<"exitnz", next>> >> \o Ld(0, i.n) \o << <<"addi", 0, 0, -1>> >> \o St(0, i.n, 1)
             \o << <<"imm", 1, 15>>, <<"and", 0, 0, 1>>, <<"eor", 0, 0, 1>>, <<"exitnz", target>>, <<"exit", next>> >>

(* JMP, JSR and RTS *)
TrJump(i, ip) ==
  LET src == At(i.src, ip, 0)
  IN  CASE i.op = "RTS" -> Ld(0, 15) \o << <<"mov", T1, 0>>, <<"rd", 2>>, <<"addi", T1, T1, 4>> >>
                           \o St(T1, 15, 2) \o << <<"exitw", 0>> >>
        [] i.op # "RTS" /\ ~Control(src) -> Refuse
        [] i.op # "RTS" /\ Control(src) ->
             ea_addr(src, 2, T0, NoPend)
             \o (IF i.op = "JSR" THEN Push(<< <<"imm", 1, Next1(ip, Words(src, 2))>> >>) \o St(T1, 15, 2) ELSE <<>>)
             \o << <<"exitw", T0>> >>

tr_instr(i, ip) ==
  CASE i.op = "MOVE" -> TrMove(i, ip)
    [] i.op \in {"MOVEQ", "LEA", "PEA", "EXT", "SWAP"} -> TrSmall(i, ip)
    [] i.op \in {"CLR", "TST", "NOT", "NEG"} -> TrOne(i, ip)
    [] i.op \in {"ADDQ", "SUBQ"} -> TrQuick(i, ip)
    [] i.op \in {"ADDA", "SUBA", "CMPA"} -> TrAddr(i, ip)
    [] i.op \in {"BTST", "BCHG", "BCLR", "BSET"} -> TrBit(i, ip)
    [] i.op = "SHIFT" -> TrShift(i, ip)
    [] i.op \in {"LINK", "UNLK"} -> TrLink(i, ip)
    [] i.op \in {"STORE", "LOAD"} -> TrMovem(i, ip)
    [] i.op \in {"BSR", "Bcc", "DBcc"} -> TrBranch(i, ip)
    [] i.op \in {"JMP", "JSR", "RTS"} -> TrJump(i, ip)
    [] i.op \in {"ADD", "SUB", "CMP", "AND", "OR", "EOR"} ->
         CASE i.form = "imm" -> TrImm(i, ip)
           [] i.form = "reg" -> TrToReg(i, ip)
           [] i.form = "mem" -> TrToEa(i, ip)
=============================================================================
