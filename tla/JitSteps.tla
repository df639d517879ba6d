------------------------------ MODULE JitSteps ------------------------------
(***************************************************************************)
(* What the code made by the translator does, step by step                 *)
(* (core/jit_a64.c), on the 68000's registers, flags and memory and on the *)
(* host registers a block uses.                                            *)
(*                                                                         *)
(* A memory access is a call of a C helper, which leaves nothing but w25   *)
(* and w26 as they were.  When it ends in a bus error the block is left at *)
(* that point and the interpreter executes the whole instruction again.    *)
(*                                                                         *)
(* Widths are scaled: a byte is 2 bits, a word 4, a long word 8, and the   *)
(* address bus has 4.  Registers are 0 .. 7 for D0 .. D7 and 8 .. 15 for   *)
(* A0 .. A7, as in dar[].                                                  *)
(***************************************************************************)
EXTENDS Integers, Sequences, SequencesExt, Bitwise

Long == 256                              \* values of a register
Top == 16                                \* addresses
Bits(sz) == CASE sz = 0 -> 2 [] sz = 1 -> 4 [] sz = 2 -> 8
Bytes(sz) == CASE sz = 0 -> 1 [] sz = 1 -> 2 [] sz = 2 -> 4
Lo(v, sz) == v % 2^Bits(sz)
Negative(v, sz) == Lo(v, sz) >= 2^(Bits(sz) - 1)
Signed(v, sz) == IF Negative(v, sz) THEN Lo(v, sz) - 2^Bits(sz) ELSE Lo(v, sz)
SignExt(v, sz) == Signed(v, sz) % Long
(* st_reg_sz: the low part of a register is replaced. *)
Put(old, v, sz) == old - Lo(old, sz) + Lo(v, sz)

(* The state an instruction works on: registers, flags, memory by bytes,   *)
(* program counter, the bytes that answer with a bus error, the host       *)
(* registers and the first access that failed, if one did.                 *)
HostRegs == {0, 1, 2, 3, 4, 16, 25, 26}
T0 == 25
T1 == 26
Junk == 165
NoErr == <<>>

-----------------------------------------------------------------------------
(* Memory, as emu68k.c serves it: a long word as two words, high first.    *)
Fails(s, a, n) == \E k \in 0 .. n - 1 : (a + k) % Top \in s.bad
Get(s, a, sz) ==
  FoldLeft(LAMBDA v, k : 4 * v + s.m[(a + k - 1) % Top], 0, [k \in 1 .. Bytes(sz) |-> k])
Set(s, a, v, sz) ==
  LET n == Bytes(sz)
      at(x) == (x - a) % Top
  IN  [s EXCEPT !.m = [x \in 0 .. Top - 1 |->
         IF at(x) < n THEN (v \div 4^(n - 1 - at(x))) % 4 ELSE s.m[x]]]

(* m68k_read_memory_32 and m68k_write_memory_32 go on with the second half *)
(* when the first failed outside the interpreter, which leaves by longjmp. *)
Halves(a, sz) == IF sz = 2 THEN <<a, a + 2>> ELSE <<a>>
HalfSize(sz) == IF sz = 0 THEN 0 ELSE 1
FirstBad(s, a, sz) ==
  LET bad == SelectSeq(Halves(a, sz), LAMBDA h : Fails(s, h, Bytes(HalfSize(sz))))
  IN  IF bad = <<>> THEN <<>> ELSE <<bad[1] % Top>>
ReadErr(s, a, sz) == IF FirstBad(s, a, sz) = <<>> THEN s ELSE [s EXCEPT !.err = <<"read">> \o FirstBad(s, a, sz)]
WriteWord(s, a, v, sz, through) ==
  IF s.err # NoErr /\ ~through THEN s
  ELSE IF Fails(s, a, Bytes(sz)) THEN [s EXCEPT !.err = IF @ = NoErr THEN <<"write", a % Top>> ELSE @]
  ELSE Set(s, a, Lo(v, sz), sz)
WriteMem(s, a, v, sz, through) ==
  IF sz < 2 THEN WriteWord(s, a, v, sz, through)
  ELSE WriteWord(WriteWord(s, a, v \div 16, 1, through), a + 2, v, 1, through)

Flags(s, f) == [s EXCEPT !.f = [x \in DOMAIN s.f |-> IF x \in DOMAIN f THEN f[x] ELSE s.f[x]]]
(* flags_logic *)
LogicFlags(v, sz) == [n |-> Negative(v, sz), z |-> Lo(v, sz) = 0, v |-> FALSE, c |-> FALSE]

-----------------------------------------------------------------------------
(* jit_shift: the four kinds of shift by any count.  Left within the width *)
ShiftLeft(val, c, ty, bits) ==
  [res |-> (val * 2^c) % 2^bits, c |-> ((val \div 2^(bits - c)) % 2) = 1,
   v |-> ty = 0 /\ val \div 2^(bits - c - 1) \notin {0, 2^(c + 1) - 1}]
ShiftRight(val, c, sign, bits) ==
  [res |-> (val \div 2^c) + (IF sign THEN 2^bits - 2^(bits - c) ELSE 0),
   c |-> (val \div 2^(c - 1)) % 2 = 1, v |-> FALSE]
Rotate(val, c, left, bits) ==
  LET r == c % bits
      by == IF left THEN r ELSE (bits - r) % bits
      res == ((val * 2^by) % 2^bits) + (val \div 2^(bits - by))
  IN  [res |-> res, c |-> IF left THEN res % 2 = 1 ELSE res >= 2^(bits - 1), v |-> FALSE]
(* ROXL and ROXR turn the bits and X by one place, count times. *)
RotateX(val, c, left, bits, x) ==
  LET one(p, k) ==
        IF left THEN [res |-> (2 * p.res + p.x) % 2^bits, x |-> p.res \div 2^(bits - 1)]
                ELSE [res |-> (p.res \div 2) + p.x * 2^(bits - 1), x |-> p.res % 2]
      p == FoldLeft(one, [res |-> val, x |-> IF x THEN 1 ELSE 0], [k \in 1 .. c |-> k])
  IN  [res |-> p.res, c |-> p.x = 1, v |-> FALSE]
Gone(val, c, ty, left, bits) ==
  LET sign == ty = 0 /\ ~left /\ val >= 2^(bits - 1)
  IN  [res |-> IF sign THEN 2^bits - 1 ELSE 0,
       c |-> sign \/ (c = bits /\ IF left THEN val % 2 = 1 ELSE val >= 2^(bits - 1)),
       v |-> ty = 0 /\ left /\ val # 0]
jit_shift(v, c, ty, left, sz, x) ==
  LET bits == Bits(sz)
      val == Lo(v, sz)
      q == CASE c = 0 -> [res |-> val, c |-> ty = 2 /\ x, v |-> FALSE]
             [] c > 0 /\ ty = 3 -> Rotate(val, c, left, bits)
             [] c > 0 /\ ty = 2 -> RotateX(val, c, left, bits, x)
             [] c > 0 /\ ty < 2 /\ c >= bits -> Gone(val, c, ty, left, bits)
             [] c > 0 /\ ty < 2 /\ c < bits /\ left -> ShiftLeft(val, c, ty, bits)
             [] c > 0 /\ ty < 2 /\ c < bits /\ ~left ->
                  ShiftRight(val, c, ty = 0 /\ val >= 2^(bits - 1), bits)
  IN  [res |-> q.res, x |-> IF ty = 3 \/ c = 0 THEN x ELSE q.c,
       n |-> Negative(q.res, sz), z |-> q.res = 0, v |-> q.v, c |-> q.c]

(* cond_eval, condition by condition. *)
cond_eval(cc, f) ==
  LET GE == (f.n /\ f.v) \/ ~(f.n \/ f.v)
  IN  CASE cc = 0 -> TRUE          [] cc = 1 -> FALSE
        [] cc = 2 -> ~f.c /\ ~f.z  [] cc = 3 -> f.c \/ f.z
        [] cc = 4 -> ~f.c          [] cc = 5 -> f.c
        [] cc = 6 -> ~f.z          [] cc = 7 -> f.z
        [] cc = 8 -> ~f.v          [] cc = 9 -> f.v
        [] cc = 10 -> ~f.n         [] cc = 11 -> f.n
        [] cc = 12 -> GE           [] cc = 13 -> ~GE
        [] cc = 14 -> GE /\ ~f.z   [] cc = 15 -> ~GE \/ f.z

(* arith: the operands at the top of a register, then adds or subs, whose  *)
(* carry is the opposite of a borrow.  op: 0 add, 1 sub, 2 cmp.            *)
ArithAt(d, v, op) ==
  LET r == IF op = 0 THEN d + v ELSE d - v
      carry == IF op = 0 THEN r >= Long ELSE d >= v
      over == Signed(r, 2) # IF op = 0 THEN Signed(d, 2) + Signed(v, 2) ELSE Signed(d, 2) - Signed(v, 2)
      c == IF op = 0 THEN carry ELSE ~carry
  IN  [res |-> r % Long,
       f |-> [n |-> Negative(r, 2), z |-> r % Long = 0, v |-> over, c |-> c]
               @@ (IF op = 2 THEN <<>> ELSE [x |-> c])]

(* jit_movem_st and jit_movem_ld stop at the access that fails; a load has *)
(* written the registers before it.  Lists are in the order of the walk.   *)
Clobber(s) == [s EXCEPT !.w = [h \in HostRegs |-> IF h \in {T0, T1} THEN s.w[h] ELSE Junk]]
jit_movem_st(s, regs, sz, predec) ==
  LET one(t, r) ==
        IF t.err # NoErr THEN t
        ELSE LET a == IF predec THEN t.w[0] - Bytes(sz) ELSE t.w[0]
                 u == WriteMem(t, a % Long, Lo(t.r[r], sz), sz, TRUE)
             IN  IF u.err # NoErr THEN u
                 ELSE [u EXCEPT !.w[0] = (IF predec THEN a ELSE a + Bytes(sz)) % Long]
  IN  FoldLeft(one, s, regs)
jit_movem_ld(s, regs, sz) ==
  LET one(t, r) ==
        LET u == IF t.err # NoErr THEN t ELSE ReadErr(t, t.w[0], sz)
        IN  IF u.err # NoErr THEN u
            ELSE [u EXCEPT !.r[r] = SignExt(Get(t, t.w[0], sz), sz),
                           !.w[0] = (@ + Bytes(sz)) % Long]
  IN  FoldLeft(one, s, regs)

(* One emitted step.  After a failed access only the way out runs, and     *)
(* after an exit nothing does.                                             *)
Step(s, i) ==
  LET H(k) == s.w[i[k]]
      W(v) == [s EXCEPT !.w[i[2]] = v % Long]
      Called(t) == LET u == Clobber(t) IN [u EXCEPT !.w[0] = t.w[0]]
  IN
  IF s.err # NoErr \/ s.done THEN s ELSE
  CASE i[1] = "ld" -> W(s.r[i[3]])
    [] i[1] = "st" -> [s EXCEPT !.r[i[3]] = Put(@, H(2), i[4])]
    [] i[1] = "imm" -> W(i[3])
    [] i[1] = "mov" -> W(H(3))
    [] i[1] = "addi" -> W(H(3) + i[4])
    [] i[1] = "add" -> W(H(3) + H(4))
    [] i[1] = "sub" -> W(H(3) - H(4))
    [] i[1] = "and" -> W(H(3) & H(4))
    [] i[1] = "or" -> W(H(3) | H(4))
    [] i[1] = "eor" -> W(H(3) ^^ H(4))
    [] i[1] = "not" -> W(Long - 1 - H(3))
    [] i[1] = "bit" -> W(2^(H(3) % i[4]))
    [] i[1] = "sx" -> W(SignExt(H(3), i[4]))
    [] i[1] = "ror" -> W((H(3) \div 16) + 16 * H(3))
    [] i[1] = "logic" -> Flags(s, LogicFlags(H(2), i[3]))
    [] i[1] = "z" -> Flags(s, [z |-> H(2) = 0])
    [] i[1] = "arith" ->
         LET sh == 8 - Bits(i[5])
             q == ArithAt((H(3) * 2^sh) % Long, (H(4) * 2^sh) % Long, i[6])
             used == IF sh > 0 THEN {1, 2, 3, 4} ELSE {3, 4}
             t == Flags([s EXCEPT !.w = [h \in HostRegs |-> IF h \in used THEN Junk ELSE s.w[h]]], q.f)
         IN  IF i[6] = 2 THEN t ELSE [t EXCEPT !.w[i[2]] = q.res \div 2^sh]
    [] i[1] = "rd" -> LET t == Called(ReadErr(s, s.w[0], i[2])) IN [t EXCEPT !.w[0] = Get(s, s.w[0], i[2])]
    [] i[1] = "wr" -> Clobber(WriteMem(s, s.w[0], Lo(s.w[1], i[2]), i[2], TRUE))
    [] i[1] = "shift" ->
         LET q == jit_shift(s.w[0], s.w[1], i[2], i[3], i[4], s.f.x)
             t == Flags(Clobber(s), [x |-> q.x, n |-> q.n, z |-> q.z, v |-> q.v, c |-> q.c])
         IN  [t EXCEPT !.w[0] = q.res]
    [] i[1] = "store" -> Called(jit_movem_st(s, i[2], i[3], i[4]))
    [] i[1] = "load" -> Called(jit_movem_ld(s, i[2], i[3]))
    [] i[1] = "cond" -> [s EXCEPT !.w[0] = IF cond_eval(i[2], s.f) THEN 1 ELSE 0, !.w[1] = Junk]
    [] i[1] = "exit" -> [s EXCEPT !.pc = i[2] % Top, !.done = TRUE]
    [] i[1] = "exitw" -> [s EXCEPT !.pc = H(2) % Top, !.done = TRUE]
    [] i[1] = "exitnz" -> IF s.w[0] # 0 THEN [s EXCEPT !.pc = i[2] % Top, !.done = TRUE] ELSE s
Exec(s, code) == FoldLeft(Step, s, code)
=============================================================================
