------------------------------- MODULE Cpu68k -------------------------------
(***************************************************************************)
(* The 68000 as the interpreter beside the translator carries it out, one  *)
(* whole instruction at a time.  The interpreter is not part of this       *)
(* repository: this is what jit_a64.c and its differential test take from  *)
(* it.  A bus error gives the registers back as they were before the       *)
(* instruction; the flags it finds are those of the write order the        *)
(* comments of tr_instr name.                                              *)
(***************************************************************************)
EXTENDS JitInstr

Then(s, Op(_)) == IF s.err # NoErr THEN s ELSE Op(s)

(* The address of an operand, registers updated at once. *)
Index(s, e) == IF e.l THEN s.r[e.x] ELSE Signed(s.r[e.x], 1)
EaOf(s, e, sz, ext) ==
  LET an == 8 + e.n
      step == EaBytes(e, sz)
      addr == CASE e.k \in {"Ind", "Inc"} -> s.r[an]
                [] e.k = "Dec" -> s.r[an] - step
                [] e.k = "Disp" -> s.r[an] + e.d
                [] e.k = "Idx" -> s.r[an] + e.d + Index(s, e)
                [] e.k \in {"AbsW", "AbsL"} -> e.d
                [] e.k = "PcDisp" -> ext + e.d
                [] e.k = "PcIdx" -> ext + e.d + Index(s, e)
      t == [s EXCEPT !.a = addr % Long]
  IN  CASE e.k = "Inc" -> [t EXCEPT !.r[an] = (@ + step) % Long]
        [] e.k = "Dec" -> [t EXCEPT !.r[an] = (@ - step) % Long]
        [] OTHER -> t
ReadAt(s, sz) ==
  Then(s, LAMBDA t : Then(ReadErr(t, t.a, sz), LAMBDA u : [u EXCEPT !.v = Get(u, u.a, sz)]))
Operand(s, e, sz, ext) ==
  CASE e.k = "Dn" -> [s EXCEPT !.v = Lo(s.r[e.n], sz)]
    [] e.k = "An" -> [s EXCEPT !.v = Lo(s.r[8 + e.n], sz)]
    [] e.k = "Imm" -> [s EXCEPT !.v = Lo(e.d, sz)]
    [] OTHER -> ReadAt(EaOf(s, e, sz, ext), sz)
Store(s, e, sz, v) ==
  Then(s, LAMBDA t :
    CASE e.k = "Dn" -> [t EXCEPT !.r[e.n] = Put(@, v, sz)]
      [] e.k = "An" -> [t EXCEPT !.r[8 + e.n] = SignExt(v, sz)]
      [] OTHER -> WriteMem(t, t.a, Lo(v, sz), sz, FALSE))
PushLong(s, v) ==
  LET sp == (s.r[15] - 4) % Long
  IN  WriteMem([s EXCEPT !.r[15] = sp], sp, v % Long, 2, FALSE)
Jump(s, pc) == Then(s, LAMBDA t : [t EXCEPT !.pc = pc % Top])

(* Sum and difference with the carry, the borrow and the overflow of their *)
(* width.                                                                  *)
Sum(d, v, sz) ==
  LET r == Lo(d, sz) + Lo(v, sz)
      c == r >= 2^Bits(sz)
  IN  [res |-> Lo(r, sz), f |-> [n |-> Negative(r, sz), z |-> Lo(r, sz) = 0, c |-> c, x |-> c,
       v |-> Signed(r, sz) # Signed(d, sz) + Signed(v, sz)]]
Difference(d, v, sz) ==
  LET r == Lo(d, sz) - Lo(v, sz)
      c == r < 0
  IN  [res |-> Lo(r, sz), f |-> [n |-> Negative(r, sz), z |-> Lo(r, sz) = 0, c |-> c, x |-> c,
       v |-> Signed(r, sz) # Signed(d, sz) - Signed(v, sz)]]
Compare(d, v, sz) ==
  [Difference(d, v, sz) EXCEPT !.f = [k \in {"n", "z", "c", "v"} |-> @[k]]]
Plain(res, sz) == [res |-> Lo(res, sz), f |-> LogicFlags(res, sz)]
Result(op, d, v, sz) ==
  CASE op \in {"ADD", "ADDQ"} -> Sum(d, v, sz)
    [] op \in {"SUB", "SUBQ"} -> Difference(d, v, sz)
    [] op \in {"CMP", "CMPA"} -> Compare(d, v, sz)
    [] op = "NEG" -> Difference(0, d, sz)
    [] op = "AND" -> Plain(d & v, sz)
    [] op = "OR" -> Plain(d | v, sz)
    [] op = "EOR" -> Plain(d ^^ v, sz)
    [] op = "CLR" -> Plain(0, sz)
    [] op = "NOT" -> Plain(Long - 1 - d, sz)
    [] op = "TST" -> Plain(d, sz)
FlagsFirst == {"ADD", "ADDQ", "SUB", "SUBQ", "NEG", "AND"}

(* Read, work out and write back one operand. *)
Modify(s, op, e, v, sz, ext) ==
  Then(Operand(s, e, sz, ext), LAMBDA t :
    LET q == Result(op, t.v, v, sz)
    IN  IF op \in {"CMP", "TST"} THEN Flags(t, q.f)
        ELSE IF op \in FlagsFirst THEN Store(Flags(t, q.f), e, sz, q.res)
        ELSE Then(Store(t, e, sz, q.res), LAMBDA u : Flags(u, q.f)))

(* A shift by one place, as often as the count says; V says whether the    *)
(* sign of an arithmetic shift to the left ever changed.                   *)
ShiftOnce(q, ty, left, bits) ==
  LET top == q.res \div 2^(bits - 1)
      low == q.res % 2
      out == IF left THEN top ELSE low
      in == CASE ty = 0 -> IF left THEN 0 ELSE top
              [] ty = 1 -> 0
              [] ty = 2 -> q.x
              [] ty = 3 -> out
      res == IF left THEN (2 * q.res + in) % 2^bits ELSE (q.res \div 2) + in * 2^(bits - 1)
  IN  [res |-> res, c |-> out, x |-> IF ty = 3 THEN q.x ELSE out,
       v |-> q.v \/ (ty = 0 /\ left /\ res \div 2^(bits - 1) # top)]
ShiftBy(v, c, ty, left, sz, x) ==
  LET x0 == IF x THEN 1 ELSE 0
      q == FoldLeft(LAMBDA p, k : ShiftOnce(p, ty, left, Bits(sz)),
                    [res |-> Lo(v, sz), c |-> IF ty = 2 THEN x0 ELSE 0, x |-> x0, v |-> FALSE],
                    [k \in 1 .. c |-> k])
  IN  [res |-> q.res, x |-> q.x = 1, n |-> Negative(q.res, sz), z |-> q.res = 0, v |-> q.v, c |-> q.c = 1]

(* The conditions, by the comparison they stand for. *)
Holds(cc, f) ==
  LET if(k) == CASE k = 0 -> TRUE [] k = 1 -> ~(f.c \/ f.z) [] k = 2 -> ~f.c [] k = 3 -> ~f.z
                 [] k = 4 -> ~f.v [] k = 5 -> ~f.n [] k = 6 -> f.n = f.v [] k = 7 -> f.n = f.v /\ ~f.z
  IN  if(cc \div 2) = (cc % 2 = 0)

(* MOVEM: the registers of the list in ascending order from the address    *)
(* on, or in descending order below it.                                    *)
StoreAll(s, list, sz) ==
  FoldLeft(LAMBDA t, r : LET u == WriteMem(t, t.a, Lo(s.r[r], sz), sz, FALSE)
                         IN  Then(u, LAMBDA w : [w EXCEPT !.a = (@ + Bytes(sz)) % Long]), s, list)
StoreDown(s, list, sz) ==
  FoldLeft(LAMBDA t, r : Then(t, LAMBDA u :
             LET a == (u.a - Bytes(sz)) % Long
             IN  WriteMem([u EXCEPT !.a = a], a, Lo(s.r[r], sz), sz, FALSE)), s, list)
LoadAll(s, list, sz) ==
  FoldLeft(LAMBDA t, r : Then(ReadAt(t, sz), LAMBDA u :
             [u EXCEPT !.r[r] = SignExt(u.v, sz), !.a = (@ + Bytes(sz)) % Long]), s, list)

One(i, ip, s) ==
  LET ext == ip + 2
      src == Operand(s, i.src, i.sz, ext)
      addr == EaOf(s, i.src, 2, ext).a
      an == 8 + i.n
  IN
  CASE i.op = "MOVE" ->
         Then(src, LAMBDA t :
           LET u == IF InMemory(i.dst) THEN EaOf(t, i.dst, i.sz, ext) ELSE t
           IN  Then(Store(u, i.dst, i.sz, t.v), LAMBDA w :
                 IF i.dst.k = "An" THEN w ELSE Flags(w, LogicFlags(t.v, i.sz))))
    [] i.op = "MOVEQ" -> Flags([s EXCEPT !.r[i.n] = SignExt(i.src.d, 0)], LogicFlags(SignExt(i.src.d, 0), 2))
    [] i.op = "LEA" -> [s EXCEPT !.r[an] = addr]
    [] i.op = "PEA" -> PushLong(s, addr)
    [] i.op = "EXT" -> LET v == SignExt(s.r[i.n], i.sz - 1)
                       IN  Flags([s EXCEPT !.r[i.n] = Put(@, v, i.sz)], LogicFlags(v, i.sz))
    [] i.op = "SWAP" -> LET v == (s.r[i.n] \div 16) + 16 * (s.r[i.n] % 16)
                        IN  Flags([s EXCEPT !.r[i.n] = v], LogicFlags(v, 2))
    [] i.op \in {"CLR", "TST", "NOT", "NEG"} -> Modify(s, i.op, i.dst, 0, i.sz, ext)
    [] i.op \in {"ADDQ", "SUBQ"} ->
         LET q == IF i.q = 0 THEN 8 ELSE i.q
         IN  IF i.dst.k = "An"
             THEN [s EXCEPT !.r[8 + i.dst.n] = (IF i.op = "ADDQ" THEN @ + q ELSE @ - q) % Long]
             ELSE Modify(s, i.op, i.dst, q, i.sz, ext)
    [] i.op \in {"ADDA", "SUBA", "CMPA"} ->
         Then(src, LAMBDA t :
           LET v == SignExt(t.v, i.sz)
               a == t.r[an]
           IN  IF i.op = "CMPA" THEN Flags(t, Compare(a, v, 2).f)
               ELSE [t EXCEPT !.r[an] = (IF i.op = "ADDA" THEN a + v ELSE a - v) % Long])
    [] i.op \in {"ADD", "SUB", "CMP", "AND", "OR", "EOR"} /\ i.form = "imm" -> Modify(s, i.op, i.dst, i.src.d, i.sz, ext)
    [] i.op \in {"ADD", "SUB", "CMP", "AND", "OR", "EOR"} /\ i.form = "mem" -> Modify(s, i.op, i.dst, s.r[i.n], i.sz, ext)
    [] i.op \in {"ADD", "SUB", "CMP", "AND", "OR", "EOR"} /\ i.form = "reg" ->
         Then(src, LAMBDA t :
           LET q == Result(i.op, t.r[i.n], t.v, i.sz)
           IN  IF i.op = "CMP" THEN Flags(t, q.f) ELSE Flags([t EXCEPT !.r[i.n] = Put(@, q.res, i.sz)], q.f))
    [] i.op = "SHIFT" ->
         LET c == IF i.src.k = "Dn" THEN s.r[i.src.n] % 64 ELSE IF i.src.d = 0 THEN 8 ELSE i.src.d
             q == ShiftBy(s.r[i.n], c, i.ty, i.left, i.sz, s.f.x)
         IN  Flags([s EXCEPT !.r[i.n] = Put(@, q.res, i.sz)], q)
    [] i.op \in {"BTST", "BCHG", "BCLR", "BSET"} ->
         LET sz == IF i.dst.k = "Dn" THEN 2 ELSE 0
             b == 2^((IF i.src.k = "Imm" THEN i.src.d ELSE s.r[i.src.n]) % Bits(sz))
         IN  Then(Operand(s, i.dst, sz, IF i.src.k = "Imm" THEN ext + 2 ELSE ext), LAMBDA t :
               LET on == (t.v \div b) % 2 = 1
                   v == CASE i.op = "BCHG" -> IF on THEN t.v - b ELSE t.v + b
                          [] i.op = "BCLR" -> IF on THEN t.v - b ELSE t.v
                          [] i.op \in {"BSET", "BTST"} -> IF on THEN t.v ELSE t.v + b
                   u == Flags(t, [z |-> ~on])
               IN  IF i.op = "BTST" THEN u ELSE Store(u, i.dst, sz, v))
    [] i.op = "LINK" ->
         LET t == PushLong(s, s.r[an])
             sp == t.r[15]
         IN  [t EXCEPT !.r = [@ EXCEPT ![an] = sp, ![15] = (sp + i.src.d) % Long]]
    [] i.op = "UNLK" ->
         Then(ReadAt([s EXCEPT !.a = s.r[an]], 2), LAMBDA t :
           [t EXCEPT !.r = [@ EXCEPT ![15] = (s.r[an] + 4) % Long, ![an] = t.v]])
    [] i.op = "STORE" /\ i.dst.k = "Dec" ->
         LET t == StoreDown([s EXCEPT !.a = s.r[8 + i.dst.n]], Reverse(Ascending(i.list)), i.sz)
         IN  [t EXCEPT !.r[8 + i.dst.n] = t.a]
    [] i.op = "STORE" /\ i.dst.k # "Dec" -> StoreAll(EaOf(s, i.dst, i.sz, ext + 2), Ascending(i.list), i.sz)
    [] i.op = "LOAD" ->
         LET a == IF i.dst.k = "Inc" THEN s.r[8 + i.dst.n] ELSE EaOf(s, i.dst, i.sz, ext + 2).a
             t == LoadAll([s EXCEPT !.a = a], Ascending(i.list), i.sz)
         IN  IF i.dst.k = "Inc" THEN [t EXCEPT !.r[8 + i.dst.n] = t.a] ELSE t
    [] i.op = "BSR" -> Jump(PushLong(s, Next1(ip, i.words)), ip + 2 + i.src.d)
    [] i.op = "Bcc" -> Jump(s, IF Holds(i.cc, s.f) THEN ip + 2 + i.src.d ELSE ext + 2 * i.words)
    [] i.op = "DBcc" ->
         LET c == (s.r[i.n] - 1) % 16
         IN  IF Holds(i.cc, s.f) THEN Jump(s, ext + 2)
             ELSE Jump([s EXCEPT !.r[i.n] = Put(@, c, 1)], IF c = 15 THEN ext + 2 ELSE ext + i.src.d)
    [] i.op = "JMP" -> Jump(s, addr)
    [] i.op = "JSR" -> Jump(PushLong(s, Next1(ip, Words(i.src, 2))), addr)
    [] i.op = "RTS" ->
         Then(ReadAt([s EXCEPT !.a = s.r[15]], 2), LAMBDA t :
           [t EXCEPT !.r[15] = (@ + 4) % Long, !.pc = t.v % Top])

(* The interpreter's instruction: a bus error restores the registers. *)
Restored(s, t) == IF t.err = NoErr THEN t ELSE [t EXCEPT !.r = s.r]
Interpret(i, ip, s) == Restored(s, One(i, ip, s))

(* The dispatcher's: generated code, and the interpreter after EXIT_FAULT. *)
AfterBlock(i, ip, t) ==
  IF t.err = NoErr THEN t ELSE Interpret(i, ip, [t EXCEPT !.err = NoErr])
Dispatch1(i, ip, s) == AfterBlock(i, ip, Exec(s, tr_instr(i, ip)))
=============================================================================
