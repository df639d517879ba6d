-------------------------- MODULE RegisterPortProofs --------------------------
(***************************************************************************)
(* Theorems about the register port (BusPort) and the snoop stream that is *)
(* read through it (SnoopStream), for every value of their constants.      *)
(*                                                                         *)
(* 1. Addresses: the only place where % and \div are looked at.            *)
(* 2. The host's images agree with the FPGA, so the strobes a call leaves  *)
(*    out start nothing but the command it asked for.                      *)
(* 3. The commands on their way: the last may be waited for, the others    *)
(*    are posted writes, one for each write that is due; the line is high  *)
(*    once the command a call waits for has arrived.                       *)
(* 4. The faults, and the room of the prefetch FIFO.                       *)
(* 5. The words of the stream, and what a read returns.                    *)
(* 6. The snoop stream keeps its framing, its continuations decode to the  *)
(*    addresses on the bus, and it implements SnoopContract.               *)
(***************************************************************************)
EXTENDS BusPort, SnoopStream, SequenceTheorems, TLAPS

-----------------------------------------------------------------------------
(***************************************************************************)
(* 1. Addresses.                                                           *)
(***************************************************************************)
Space == Block * Blocks

LEMMA ModRange ==
  ASSUME NEW m \in Nat \ {0}, NEW x \in Int
  PROVE  x % m \in 0..(m - 1)
  BY Z3

LEMMA Division ==
  ASSUME NEW m \in Nat \ {0}, NEW x \in Int
  PROVE  x = m * (x \div m) + (x % m) /\ x \div m \in Int
  BY Z3

LEMMA Monotone ==
  ASSUME NEW m \in Nat, NEW a \in Int, NEW b \in Int, a <= b
  PROVE  m * a <= m * b
  BY Z3

\* Halves: what is said of even numbers below, said without %.
LEMMA Halves == \A x \in Int : /\ x % 2 = 0 => (x + 2) % 2 = 0
                               /\ x % 2 \in {0, 1} /\ (x - (x % 2)) % 2 = 0
  BY Z3

LEMMA Doubled == ASSUME NEW k \in Int PROVE (2 * k) % 2 = 0
  BY Z3

LEMMA EvenProduct ==
  ASSUME NEW a \in Nat, NEW b \in Nat, a % 2 = 0
  PROVE  (a * b) % 2 = 0
  <1>1. PICK k \in Int : a = 2 * k
    BY Division
  <1>2. a * b = 2 * (k * b)
    BY <1>1, Z3
  <1>3. k * b \in Int
    BY Z3
  <1>4. (2 * (k * b)) % 2 = 0
    BY <1>3, Doubled
  <1>5. QED
    BY <1>2, <1>4

LEMMA SpaceIs ==
  /\ Space \in Nat \ {0} /\ Space % 2 = 0 /\ Space >= 2
  /\ Block \in Nat \ {0} /\ Block % 2 = 0 /\ Blocks \in Nat \ {0}
  /\ Addrs = 0..(Space - 1) /\ Top = Space - 1
  <1>1. Block \in Nat \ {0} /\ Block % 2 = 0 /\ Blocks \in Nat \ {0}
    BY BusPortAssumption
  <1>2. Space \in Nat \ {0}
    BY <1>1, Z3 DEF Space
  <1>3. Space % 2 = 0
    BY <1>1, EvenProduct DEF Space
  <1>4. Space >= 2
    BY <1>2, <1>3
  <1>5. QED
    BY <1>1, <1>2, <1>3, <1>4 DEF Space, Addrs, Top

LEMMA Wrapped == \A x \in Int : x % (Block * Blocks) \in Addrs
  BY SpaceIs, ModRange DEF Space

\* CTRL[7:0] and ADDR_LO say the same as the address.
LEMMA Split ==
  ASSUME NEW a \in Addrs
  PROVE  /\ Hi(a) \in 0..(Blocks - 1) /\ Lo(a) \in 0..(Block - 1)
         /\ Hi(a) * Block + Lo(a) = a
  <1>1. a = Block * Hi(a) + Lo(a) /\ Hi(a) \in Int /\ Lo(a) \in 0..(Block - 1)
    BY SpaceIs, Division, ModRange DEF Hi, Lo
  <1>2. a \in Int /\ a >= 0 /\ a < Block * Blocks
    BY SpaceIs DEF Space
  <1>3. Hi(a) >= 0
    <2>1. ASSUME Hi(a) <= -1 PROVE FALSE
      <3>1. Block * Hi(a) <= Block * (-1)
        BY <1>1, <2>1, SpaceIs, Monotone
      <3>2. QED
        BY <1>1, <1>2, <3>1, SpaceIs
    <2>2. QED
      BY <1>1, <2>1
  <1>4. Hi(a) < Blocks
    <2>1. ASSUME Blocks <= Hi(a) PROVE FALSE
      <3>1. Block * Blocks <= Block * Hi(a)
        <4>1. Block \in Nat /\ Blocks \in Int /\ Hi(a) \in Int
          BY <1>1, SpaceIs
        <4>2. QED
          BY <4>1, <2>1, Monotone
      <3>2. QED
        BY <1>1, <1>2, <3>1, SpaceIs
    <2>2. QED
      BY <1>1, <2>1, SpaceIs
  <1>5. Hi(a) * Block = Block * Hi(a)
    BY <1>1, SpaceIs, Z3
  <1>6. QED
    BY <1>1, <1>3, <1>4, <1>5, SpaceIs

LEMMA Joined ==
  ASSUME NEW h \in 0..(Blocks - 1), NEW l \in 0..(Block - 1)
  PROVE  h * Block + l \in Addrs
  <1>1. h * Block = Block * h /\ Block * h <= Block * (Blocks - 1) /\ Block * h >= 0
    <2>1. h \in Int /\ Blocks - 1 \in Int /\ h <= Blocks - 1
      BY SpaceIs
    <2>2. Block * h >= Block * 0
      BY SpaceIs, Monotone
    <2>3. QED
      BY <2>1, <2>2, SpaceIs, Monotone, Z3
  <1>2. Block * (Blocks - 1) = Space - Block
    BY SpaceIs, Z3 DEF Space
  <1>3. Block * h \in Int
    BY SpaceIs, Z3
  <1>4. QED
    BY <1>1, <1>2, <1>3, SpaceIs

LEMMA EvenIs ==
  ASSUME NEW a \in Addrs
  PROVE  Even(a) \in Words /\ (a % 2 = 0 => Even(a) = a)
  <1>1. a % 2 \in {0, 1} /\ a \in Nat /\ (a - (a % 2)) % 2 = 0
    BY SpaceIs, Halves
  <1>2. a % 2 = 1 => a >= 1
    BY <1>1, SMT
  <1>3. a - (a % 2) \in 0..(Space - 1)
    BY <1>1, <1>2, SpaceIs
  <1>4. QED
    BY <1>1, <1>3, SpaceIs DEF Even, Words

\* The stream stays inside its block, so it stays on the bus.
LEMMA NextWord ==
  ASSUME NEW w \in Words
  PROVE  /\ w \in Addrs /\ w % 2 = 0 /\ w + 2 \in 2..(Top + 1) /\ (w + 2) % 2 = 0
         /\ Even(w) = w
         /\ Lo(w) + 2 # Block => w + 2 \in Words
  <1>1. w \in 0..(Space - 1) /\ w % 2 = 0 /\ (w + 2) % 2 = 0
    BY SpaceIs, Halves DEF Words
  <1>2. w + 2 <= Space
    <2>1. w # Space - 1
      BY SpaceIs, <1>1
    <2>2. QED
      BY <1>1, <2>1, SpaceIs
  <1>3. ASSUME Lo(w) + 2 # Block PROVE w + 2 \in Words
    <2>1. w + 2 # Space
      <3>1. SUFFICES ASSUME w + 2 = Space PROVE Lo(w) + 2 = Block
        BY <1>3
      <3>2. w = Block * Hi(w) + Lo(w) /\ Hi(w) \in 0..(Blocks - 1) /\ Lo(w) \in 0..(Block - 1)
        <4>1. w \in Addrs
          BY <1>1, SpaceIs
        <4>2. Hi(w) \in Int
          BY <4>1, Split
        <4>3. Hi(w) * Block = Block * Hi(w)
          BY <4>2, SpaceIs, Z3
        <4>4. QED
          BY <4>1, <4>3, Split
      <3>3. Block * Hi(w) <= Block * (Blocks - 1) /\ Block * (Blocks - 1) = Space - Block
        <4>1. Hi(w) \in Int /\ Blocks - 1 \in Int /\ Hi(w) <= Blocks - 1
          BY <3>2, SpaceIs
        <4>2. Block * (Blocks - 1) = Space - Block
          BY SpaceIs, Z3 DEF Space
        <4>3. QED
          BY <4>1, <4>2, SpaceIs, Monotone
      <3>4. Block * Hi(w) \in Int
        BY <3>2, SpaceIs, Z3
      <3>5. Lo(w) >= Block - 2
        BY <3>1, <3>2, <3>3, <3>4, SpaceIs
      <3>6. Lo(w) # Block - 1
        <4>1. (Block * Hi(w)) % 2 = 0
          <5>1. Hi(w) \in Nat /\ Block \in Nat /\ Block % 2 = 0
            BY <3>2, SpaceIs
          <5>2. QED
            BY <5>1, EvenProduct
        <4>2. Lo(w) = w - Block * Hi(w)
          BY <1>1, <3>2, <3>4, SpaceIs
        <4>3. Lo(w) % 2 = 0
          BY <1>1, <3>4, <4>1, <4>2, SpaceIs
        <4>4. QED
          BY <4>3, SpaceIs
      <3>7. QED
        BY <3>2, <3>5, <3>6, SpaceIs
    <2>2. w + 2 \in 0..(Space - 1)
      BY <1>1, <1>2, <2>1, SpaceIs
    <2>3. QED
      BY <1>1, <2>2, SpaceIs DEF Words
  <1>4. w + 2 \in 2..(Top + 1)
    BY <1>1, <1>2, SpaceIs
  <1>5. QED
    BY <1>1, <1>3, <1>4, SpaceIs DEF Even

-----------------------------------------------------------------------------
(***************************************************************************)
(* 2. The host's images.                                                   *)
(***************************************************************************)
Sizes == {1, 2}
CtrlWords == [fc : {0, 5, 7}, rw : BOOLEAN, size : Sizes, pf : BOOLEAN, wt : BOOLEAN, ai : BOOLEAN,
              hi : 0..(Blocks - 1)]
PortRecords == [ctrl : CtrlWords, lo : 0..(Block - 1), data : Int, auto : BOOLEAN, busyIrq : BOOLEAN]
ModeRecords == [auto : BOOLEAN, bi : BOOLEAN, ai : BOOLEAN, pf : BOOLEAN]
Commands == [rw : BOOLEAN, addr : Addrs, size : Sizes, data : Int, pf : BOOLEAN, wt : BOOLEAN, fc : {0, 5, 7}]

Ports == /\ port \in PortRecords /\ mode \in ModeRecords /\ ai_ok \in BOOLEAN
         /\ port.auto = mode.auto /\ port.busyIrq = mode.bi /\ (mode.ai => ai_ok)
CtrlImage == lastCtrl # NoImage => mode.auto /\ lastCtrl = port.ctrl
DataImage == lastData # NoData => lastData = port.data
StepImage == wr # NoImage => wr.fpga = Address(port) /\ wr.fpga \in Addrs /\ wr.last \in Addrs
\* A port that is set to ai writes is one the host knows to be.
AiOnly == AiWrite(port) => AiOn
ImageInv == Ports /\ CtrlImage /\ DataImage /\ StepImage /\ AiOnly

\* An image that is kept is not the one that says nothing is known.
LEMMA Images ==
  /\ \A c \in CtrlWords : c # NoImage
  /\ \A x, y : [fpga |-> x, last |-> y] # NoImage
  /\ \A x, y : [next |-> x, have |-> y] # NoImage
  <1>1. \A f, g : f = g => DOMAIN f = DOMAIN g
    OBVIOUS
  <1>2. DOMAIN NoImage = {"none"}
    BY DEF NoImage
  <1>3. \A c \in CtrlWords : "fc" \in DOMAIN c
    BY DEF CtrlWords
  <1>4. \A x, y : "fpga" \in DOMAIN [fpga |-> x, last |-> y]
    OBVIOUS
  <1>5. \A x, y : "next" \in DOMAIN [next |-> x, have |-> y]
    OBVIOUS
  <1>6. "fc" # "none" /\ "fpga" # "none" /\ "next" # "none"
    OBVIOUS
  <1>7. ASSUME NEW c \in CtrlWords PROVE c # NoImage
    BY <1>1, <1>2, <1>3, <1>6
  <1>8. ASSUME NEW x, NEW y PROVE [fpga |-> x, last |-> y] # NoImage
    BY <1>1, <1>2, <1>4, <1>6
  <1>9. ASSUME NEW x, NEW y PROVE [next |-> x, have |-> y] # NoImage
    BY <1>1, <1>2, <1>5, <1>6
  <1>10. QED
    BY <1>7, <1>8, <1>9

LEMMA Addressed == ASSUME NEW p \in PortRecords PROVE Address(p) \in Addrs
  <1>1. p.ctrl.hi \in 0..(Blocks - 1) /\ p.lo \in 0..(Block - 1)
    BY DEF PortRecords, CtrlWords
  <1>2. QED
    BY <1>1, Joined DEF Address

LEMMA CtrlType ==
  ASSUME NEW fc \in {0, 5, 7}, NEW rw \in BOOLEAN, NEW size \in Sizes, NEW p \in BOOLEAN,
         NEW wt \in BOOLEAN, NEW ai \in BOOLEAN, NEW a \in Addrs
  PROVE  Ctrl(fc, rw, size, p, wt, ai, Hi(a)) \in CtrlWords
  BY Split DEF Ctrl, CtrlWords

\* What a command is made of: the fields c, the address a and the data d.
Made(c, a, d) == [rw |-> c.rw, addr |-> a, size |-> c.size, data |-> d,
                  pf |-> c.pf /\ c.rw, wt |-> c.wt, fc |-> c.fc]
\* The port after that.
Loaded(p, c, a, d) == [ctrl |-> c, lo |-> Lo(a), data |-> d, auto |-> p.auto, busyIrq |-> p.busyIrq]

LEMMA LoadedType ==
  ASSUME NEW p \in PortRecords, NEW c \in CtrlWords, NEW a \in Addrs, NEW d \in Int, c.hi = Hi(a)
  PROVE  /\ Loaded(p, c, a, d) \in PortRecords /\ Made(c, a, d) \in Commands
         /\ Command(Loaded(p, c, a, d)) = Made(c, a, d)
         /\ Address(Loaded(p, c, a, d)) = a
         /\ AiWrite(Loaded(p, c, a, d)) = (c.ai /\ ~c.rw)
  <1>1. Address(Loaded(p, c, a, d)) = a
    BY Split DEF Loaded, Address
  <1>2. Loaded(p, c, a, d) \in PortRecords
    BY Split DEF Loaded, PortRecords
  <1>3. Made(c, a, d) \in Commands
    BY DEF Made, Commands, CtrlWords
  <1>4. Command(Loaded(p, c, a, d)) = Made(c, a, d)
    BY <1>1 DEF Loaded, Command, Made
  <1>5. AiWrite(Loaded(p, c, a, d)) = (c.ai /\ ~c.rw)
    BY DEF AiWrite, Loaded
  <1>6. QED
    BY <1>1, <1>2, <1>3, <1>4, <1>5


\* A port with its fields in sight.
PortOf(c, l, d) == [ctrl |-> c, lo |-> l, data |-> d, auto |-> port.auto, busyIrq |-> port.busyIrq]
At(p, go) == [port |-> p, go |-> go]

LEMMA PortFields ==
  ASSUME Ports
  PROVE  port = PortOf(port.ctrl, port.lo, port.data)
  BY DEF Ports, PortRecords, PortOf

\* A strobe changes one field.
LEMMA Edits ==
  ASSUME NEW c, NEW l, NEW d, NEW k
  PROVE  /\ [PortOf(c, l, d) EXCEPT !.ctrl = k] = PortOf(k, l, d)
         /\ [PortOf(c, l, d) EXCEPT !.lo = k] = PortOf(c, k, d)
         /\ [PortOf(c, l, d) EXCEPT !.data = k] = PortOf(c, l, k)
  BY DEF PortOf

LEMMA LoadedIs == \A c, a, d : PortOf(c, Lo(a), d) = Loaded(port, c, a, d)
  BY DEF PortOf, Loaded

LEMMA OfPort ==
  ASSUME NEW c, NEW l, NEW d
  PROVE  /\ PortOf(c, l, d).auto = port.auto /\ AiWrite(PortOf(c, l, d)) = (c.ai /\ ~c.rw)
  BY DEF PortOf, AiWrite

\* The strobes one by one.
LEMMA DataStrobe ==
  ASSUME NEW c, NEW l, NEW d, NEW v, NEW go
  PROVE  LET s == At(PortOf(c, l, d), go)
             p == PortOf(c, l, v)
         IN  Strobe(s, ToData(v)) = IF AiWrite(p) THEN Started(s, p) ELSE Quiet(s, p)
  <1>1. At(PortOf(c, l, d), go).port = PortOf(c, l, d)
    BY DEF At
  <1>2. ToData(v).reg = "data" /\ ToData(v).v = v
    BY DEF ToData
  <1>3. QED
    BY <1>1, <1>2, Edits DEF Strobe

LEMMA AddrStrobe ==
  ASSUME NEW c, NEW l, NEW d, NEW a, NEW go
  PROVE  LET s == At(PortOf(c, l, d), go)
             p == PortOf(c, Lo(a), d)
         IN  Strobe(s, ToAddr(a)) = IF p.auto /\ ~AiWrite(p) THEN Started(s, p) ELSE Quiet(s, p)
  <1>1. At(PortOf(c, l, d), go).port = PortOf(c, l, d)
    BY DEF At
  <1>2. ToAddr(a).reg = "addr" /\ ToAddr(a).v = Lo(a)
    BY DEF ToAddr
  <1>3. \A s : Strobe(s, ToAddr(a)) =
              IF [s.port EXCEPT !.lo = Lo(a)].auto /\ ~AiWrite([s.port EXCEPT !.lo = Lo(a)])
              THEN Started(s, [s.port EXCEPT !.lo = Lo(a)]) ELSE Quiet(s, [s.port EXCEPT !.lo = Lo(a)])
    BY <1>2 DEF Strobe
  <1> DEFINE s == At(PortOf(c, l, d), go)
  <1>4. [s.port EXCEPT !.lo = Lo(a)] = PortOf(c, Lo(a), d)
    BY <1>1, Edits
  <1> HIDE DEF s
  <1>5. QED
    BY <1>3, <1>4 DEF s

LEMMA CtrlStrobe ==
  ASSUME NEW c, NEW l, NEW d, NEW k, NEW go
  PROVE  LET s == At(PortOf(c, l, d), go)
             p == PortOf(k, l, d)
         IN  Strobe(s, ToCtrl(k)) = IF p.auto THEN Quiet(s, p) ELSE Started(s, p)
  <1>1. At(PortOf(c, l, d), go).port = PortOf(c, l, d)
    BY DEF At
  <1>2. ToCtrl(k).reg = "ctrl" /\ ToCtrl(k).v = k
    BY DEF ToCtrl
  <1>3. \A s : Strobe(s, ToCtrl(k)) =
              IF [s.port EXCEPT !.ctrl = k].auto THEN Quiet(s, [s.port EXCEPT !.ctrl = k])
              ELSE Started(s, [s.port EXCEPT !.ctrl = k])
    BY <1>2 DEF Strobe
  <1> DEFINE s == At(PortOf(c, l, d), go)
  <1>4. [s.port EXCEPT !.ctrl = k] = PortOf(k, l, d)
    BY <1>1, Edits
  <1> HIDE DEF s
  <1>5. QED
    BY <1>3, <1>4 DEF s

LEMMA NoStrobeAtAll == \A s : Strobe(s, LeftOut) = s
  BY DEF Strobe, LeftOut

LEMMA OnData ==
  ASSUME NEW c, NEW l, NEW d, NEW v, ~(c.ai /\ ~c.rw)
  PROVE  Strobe(At(PortOf(c, l, d), <<>>), ToData(v)) = At(PortOf(c, l, v), <<>>)
  <1>1. ~AiWrite(PortOf(c, l, v))
    BY OfPort
  <1>2. Strobe(At(PortOf(c, l, d), <<>>), ToData(v)) = Quiet(At(PortOf(c, l, d), <<>>), PortOf(c, l, v))
    BY <1>1, DataStrobe
  <1>3. QED
    BY <1>2 DEF Quiet, At

LEMMA OnCtrlAuto ==
  ASSUME NEW c, NEW l, NEW d, NEW k, port.auto
  PROVE  Strobe(At(PortOf(c, l, d), <<>>), ToCtrl(k)) = At(PortOf(k, l, d), <<>>)
  <1>1. PortOf(k, l, d).auto
    BY OfPort
  <1>2. Strobe(At(PortOf(c, l, d), <<>>), ToCtrl(k)) = Quiet(At(PortOf(c, l, d), <<>>), PortOf(k, l, d))
    BY <1>1, CtrlStrobe
  <1>3. QED
    BY <1>2 DEF Quiet, At

LEMMA OnAddrQuiet ==
  ASSUME NEW c, NEW l, NEW d, NEW a, ~port.auto \/ (c.ai /\ ~c.rw)
  PROVE  Strobe(At(PortOf(c, l, d), <<>>), ToAddr(a)) = At(PortOf(c, Lo(a), d), <<>>)
  <1>1. ~(PortOf(c, Lo(a), d).auto /\ ~AiWrite(PortOf(c, Lo(a), d)))
    BY OfPort
  <1>2. Strobe(At(PortOf(c, l, d), <<>>), ToAddr(a)) = Quiet(At(PortOf(c, l, d), <<>>), PortOf(c, Lo(a), d))
    BY <1>1, AddrStrobe
  <1>3. QED
    BY <1>2 DEF Quiet, At

\* The start of a command with the fields loaded.
LEMMA Starts ==
  ASSUME Ports, NEW c \in CtrlWords, NEW s, NEW d \in Int, NEW a \in Addrs,
         c.hi = Hi(a), ~(c.ai /\ ~c.rw), s.go = <<>>
  PROVE  /\ ~AiWrite(PortOf(c, Lo(a), d))
         /\ Started(s, PortOf(c, Lo(a), d)) = At(Loaded(port, c, a, d), <<Made(c, a, d)>>)
  <1> DEFINE q == Loaded(port, c, a, d)
  <1>1. port \in PortRecords
    BY DEF Ports
  <1>2. Command(q) = Made(c, a, d) /\ AiWrite(q) = (c.ai /\ ~c.rw)
    BY <1>1, LoadedType
  <1>3. ~AiWrite(q)
    BY <1>2
  <1>4. Started(s, q) = At(q, Append(<<>>, Command(q)))
    BY <1>3 DEF Started, At
  <1>5. Append(<<>>, Made(c, a, d)) = <<Made(c, a, d)>>
    OBVIOUS
  <1>6. PortOf(c, Lo(a), d) = q
    BY LoadedIs
  <1> HIDE DEF q
  <1>7. QED
    BY <1>2, <1>3, <1>4, <1>5, <1>6 DEF q

LEMMA OnAddrStarts ==
  ASSUME Ports, NEW c \in CtrlWords, NEW l, NEW d \in Int, NEW a \in Addrs,
         c.hi = Hi(a), port.auto, ~(c.ai /\ ~c.rw)
  PROVE  Strobe(At(PortOf(c, l, d), <<>>), ToAddr(a)) = At(Loaded(port, c, a, d), <<Made(c, a, d)>>)
  <1> DEFINE s == At(PortOf(c, l, d), <<>>)
             p == PortOf(c, Lo(a), d)
  <1>1. s.go = <<>>
    BY DEF At
  <1>2. ~AiWrite(p) /\ Started(s, p) = At(Loaded(port, c, a, d), <<Made(c, a, d)>>)
    BY <1>1, Starts
  <1>3. p.auto
    BY OfPort
  <1>4. QED
    BY <1>2, <1>3, AddrStrobe

LEMMA OnCtrlStarts ==
  ASSUME Ports, NEW c \in CtrlWords, NEW k, NEW d \in Int, NEW a \in Addrs,
         c.hi = Hi(a), ~port.auto, ~(c.ai /\ ~c.rw)
  PROVE  Strobe(At(PortOf(k, Lo(a), d), <<>>), ToCtrl(c)) = At(Loaded(port, c, a, d), <<Made(c, a, d)>>)
  <1> DEFINE s == At(PortOf(k, Lo(a), d), <<>>)
             p == PortOf(c, Lo(a), d)
  <1>1. s.go = <<>>
    BY DEF At
  <1>2. Started(s, p) = At(Loaded(port, c, a, d), <<Made(c, a, d)>>)
    BY <1>1, Starts
  <1>3. ~p.auto
    BY OfPort
  <1>4. QED
    BY <1>2, <1>3, CtrlStrobe

\* The CTRL strobe that is left out would have changed nothing.
LEMMA CtrlKept ==
  ASSUME ImageInv, NEW c \in CtrlWords, NEW d, mode.auto
  PROVE  Strobe(At(PortOf(port.ctrl, port.lo, d), <<>>), set_ctrl(c)) = At(PortOf(c, port.lo, d), <<>>)
  <1>1. CASE lastCtrl = c
    <2>1. c = port.ctrl
      BY <1>1, Images DEF ImageInv, CtrlImage
    <2>2. set_ctrl(c) = LeftOut
      BY <1>1 DEF set_ctrl
    <2>3. QED
      BY <2>1, <2>2, NoStrobeAtAll
  <1>2. CASE lastCtrl # c
    <2>1. set_ctrl(c) = ToCtrl(c) /\ port.auto
      BY <1>2 DEF set_ctrl, ImageInv, Ports
    <2>2. QED
      BY <2>1, OnCtrlAuto
  <1>3. QED
    BY <1>1, <1>2

\* However it is given, a command that is no ai write starts once, as asked.
LEMMA Given ==
  ASSUME ImageInv, NEW c \in CtrlWords, NEW a \in Addrs, NEW data, NEW d \in Int,
         c.hi = Hi(a), ~c.ai,
         Strobe(At(port, <<>>), data) = At(PortOf(port.ctrl, port.lo, d), <<>>)
  PROVE  Strobes(Give(data, c, a)) = At(Loaded(port, c, a, d), <<Made(c, a, d)>>)
  <1>0. Ports /\ port.auto = mode.auto /\ mode.auto \in BOOLEAN
    BY DEF ImageInv, Ports, ModeRecords
  <1> DEFINE s == At(PortOf(port.ctrl, port.lo, d), <<>>)
  <1>1. CASE mode.auto
    <2>1. Strobes(Give(data, c, a)) = Strobe(Strobe(Strobe(At(port, <<>>), data), set_ctrl(c)), ToAddr(a))
      BY <1>1 DEF Strobes, Give, At
    <2>2. Strobe(s, set_ctrl(c)) = At(PortOf(c, port.lo, d), <<>>)
      BY <1>1, CtrlKept
    <2>3. QED
      BY <1>0, <1>1, <2>1, <2>2, OnAddrStarts
  <1>2. CASE ~mode.auto
    <2>1. Strobes(Give(data, c, a)) = Strobe(Strobe(Strobe(At(port, <<>>), data), ToAddr(a)), ToCtrl(c))
      BY <1>2 DEF Strobes, Give, At
    <2>2. Strobe(s, ToAddr(a)) = At(PortOf(port.ctrl, Lo(a), d), <<>>)
      BY <1>0, <1>2, OnAddrQuiet
    <2>3. QED
      BY <1>0, <1>2, <2>1, <2>2, OnCtrlStarts
  <1>3. QED
    BY <1>1, <1>2

LEMMA SendIs ==
  ASSUME NEW xs, NEW p, NEW c, Send(xs), Strobes(xs) = At(p, <<c>>), wire \in Seq(Commands), c \in Commands
  PROVE  port' = p /\ wire' = Append(wire, c)
  <1>1. port' = p /\ wire' = wire \o <<c>>
    BY DEF Send, At
  <1>2. QED
    BY <1>1

\* The images after a command that is no ai write.
LEMMA ImagesAfter ==
  ASSUME ImageInv, NEW c \in CtrlWords, NEW a \in Addrs, NEW d \in Int, c.hi = Hi(a), ~c.ai,
         port' = Loaded(port, c, a, d), lastCtrl' \in {CtrlAfter(c), NoImage}, wr' = NoImage,
         mode' = mode, ai_ok' = ai_ok, lastData' # NoData => lastData' = d
  PROVE  ImageInv'
  <1>0. port \in PortRecords /\ Ports /\ CtrlImage
    BY DEF ImageInv, Ports
  <1>1. /\ port' \in PortRecords /\ AiWrite(port') = (c.ai /\ ~c.rw)
        /\ port'.auto = port.auto /\ port'.busyIrq = port.busyIrq /\ port'.ctrl = c /\ port'.data = d
    <2>1. Loaded(port, c, a, d) \in PortRecords /\ AiWrite(Loaded(port, c, a, d)) = (c.ai /\ ~c.rw)
      BY <1>0, LoadedType
    <2>2. QED
      BY <2>1 DEF Loaded
  <1>2. Ports'
    BY <1>0, <1>1 DEF Ports
  <1>3. CtrlImage'
    <2>1. ASSUME lastCtrl' # NoImage PROVE mode'.auto /\ lastCtrl' = port'.ctrl
      <3>1. lastCtrl' = CtrlAfter(c)
        BY <2>1
      <3>2. CASE mode.auto
        BY <3>1, <3>2, <1>1 DEF CtrlAfter
      <3>3. CASE ~mode.auto
        <4>1. lastCtrl' = lastCtrl
          BY <3>1, <3>3 DEF CtrlAfter
        <4>2. QED
          BY <2>1, <3>3, <4>1, <1>0 DEF CtrlImage
      <3>4. QED
        BY <3>2, <3>3
    <2>2. QED
      BY <2>1 DEF CtrlImage
  <1>4. DataImage'
    BY <1>1 DEF DataImage
  <1>5. StepImage'
    BY DEF StepImage
  <1>6. AiOnly'
    <2>1. ~AiWrite(port')
      BY <1>1
    <2>2. QED
      BY <2>1 DEF AiOnly, AiWrite
  <1>7. QED
    BY <1>2, <1>3, <1>4, <1>5, <1>6 DEF ImageInv

\* A read, whatever its fields.
LEMMA GivenRead ==
  ASSUME ImageInv, wire \in Seq(Commands), NEW k \in CtrlWords, NEW a \in Addrs,
         k.hi = Hi(a), ~k.ai, k.rw,
         Send(Give(LeftOut, k, a)), lastCtrl' = CtrlAfter(k),
         wr' = NoImage, UNCHANGED <<mode, lastData, ai_ok>>
  PROVE  /\ ImageInv'
         /\ \E c \in Commands : /\ wire' = Append(wire, c)
                                /\ c.rw /\ c.addr = a /\ c.fc = k.fc /\ (c.pf <=> k.pf) /\ c.wt = k.wt
  <1> DEFINE c == Made(k, a, port.data)
             q == Loaded(port, k, a, port.data)
  <1>0. Ports /\ port \in PortRecords /\ port.data \in Int
    BY DEF ImageInv, Ports, PortRecords
  <1>1. c \in Commands
    BY <1>0, LoadedType
  <1>2. c.rw /\ c.addr = a /\ c.fc = k.fc /\ (c.pf <=> k.pf) /\ c.wt = k.wt
    BY DEF Made, CtrlWords
  <1>3. Strobe(At(port, <<>>), LeftOut) = At(PortOf(port.ctrl, port.lo, port.data), <<>>)
    BY <1>0, PortFields, NoStrobeAtAll
  <1>4. Strobes(Give(LeftOut, k, a)) = At(q, <<c>>)
    BY <1>0, <1>3, Given
  <1>5. port' = q /\ wire' = Append(wire, c)
    <2> HIDE DEF q, c
    <2>1. QED
      BY <1>1, <1>4, SendIs
  <1>6. ImageInv'
    <2>1. lastCtrl' \in {CtrlAfter(k), NoImage} /\ mode' = mode /\ ai_ok' = ai_ok /\ lastData' = lastData
      OBVIOUS
    <2>2. lastData' # NoData => lastData' = port.data
      BY <2>1 DEF ImageInv, DataImage
    <2>3. QED
      BY <1>0, <1>5, <2>1, <2>2, ImagesAfter
  <1> HIDE DEF c
  <1>7. QED
    BY <1>1, <1>2, <1>5, <1>6

\* The data strobe that is left out would have changed nothing, either.
LEMMA DataKept ==
  ASSUME ImageInv, NEW d \in Int, d # NoData, ~AiOn
  PROVE  Strobe(At(port, <<>>), PutData(d)) = At(PortOf(port.ctrl, port.lo, d), <<>>)
  <1>0. port = PortOf(port.ctrl, port.lo, port.data)
    BY PortFields DEF ImageInv
  <1>1. CASE lastData = d
    <2>1. d = port.data
      BY <1>1 DEF ImageInv, DataImage
    <2>2. PutData(d) = LeftOut
      BY <1>1 DEF PutData
    <2>3. QED
      BY <1>0, <2>1, <2>2, NoStrobeAtAll
  <1>2. CASE lastData # d
    <2>1. PutData(d) = ToData(d)
      BY <1>2 DEF PutData
    <2>2. ~(port.ctrl.ai /\ ~port.ctrl.rw)
      BY DEF ImageInv, AiOnly, AiWrite
    <2>3. QED
      BY <1>0, <2>1, <2>2, OnData
  <1>3. QED
    BY <1>1, <1>2

\* The port steps to the address of the access that follows.
Onward(dec, a, size) == (IF dec THEN a - size ELSE a + size) % (Block * Blocks)

LEMMA OnwardType ==
  ASSUME NEW dec \in BOOLEAN, NEW a \in Addrs, NEW size \in Sizes
  PROVE  Onward(dec, a, size) \in Addrs
  <1>1. (IF dec THEN a - size ELSE a + size) \in Int
    BY SpaceIs DEF Sizes
  <1>2. QED
    BY <1>1, Wrapped DEF Onward

MovedTo(p, h, l) == [p EXCEPT !.ctrl.hi = h, !.lo = l]

LEMMA Moved ==
  ASSUME NEW c, NEW l, NEW d, NEW h, NEW m
  PROVE  MovedTo(PortOf(c, l, d), h, m) = PortOf([c EXCEPT !.hi = h], m, d)
  <1> DEFINE q == PortOf(c, l, d)
  <1> DEFINE k == [c EXCEPT !.hi = h]
  <1>1. q.ctrl = c
    BY DEF PortOf
  <1>2. [q EXCEPT !.ctrl.hi = h, !.lo = m] = [[q EXCEPT !.ctrl = [q.ctrl EXCEPT !.hi = h]] EXCEPT !.lo = m]
    OBVIOUS
  <1>3. [q.ctrl EXCEPT !.hi = h] = k
    BY <1>1
  <1> HIDE DEF k
  <1>4. [q EXCEPT !.ctrl = k] = PortOf(k, l, d)
    BY DEF PortOf
  <1>5. [PortOf(k, l, d) EXCEPT !.lo = m] = PortOf(k, m, d)
    BY DEF PortOf
  <1>6. [[q EXCEPT !.ctrl = [q.ctrl EXCEPT !.hi = h]] EXCEPT !.lo = m] = PortOf(k, m, d)
    BY <1>3, <1>4, <1>5
  <1>7. QED
    BY <1>2, <1>6 DEF k, MovedTo

LEMMA SteppedIs ==
  ASSUME NEW c \in CtrlWords, NEW a \in Addrs, NEW d \in Int, Ports, c.hi = Hi(a)
  PROVE  LET f == Onward(c.pf, a, c.size)
         IN  Stepped(Loaded(port, c, a, d)) = Loaded(port, [c EXCEPT !.hi = Hi(f)], f, d)
  <1> DEFINE q == Loaded(port, c, a, d)
             f == Onward(c.pf, a, c.size)
  <1>1. Address(q) = a
    BY LoadedType DEF Ports
  <1>2. q.ctrl = c
    BY DEF Loaded
  <1>3. (Address(q) + (IF q.ctrl.pf THEN 0 - q.ctrl.size ELSE q.ctrl.size)) % (Block * Blocks) = f
    <2>1. c.pf \in BOOLEAN /\ c.size \in Int /\ a \in Int
      BY SpaceIs DEF CtrlWords, Sizes
    <2>2. a + (0 - c.size) = a - c.size
      BY <2>1
    <2>3. QED
      BY <1>1, <1>2, <2>1, <2>2 DEF Onward
  <1>4. Stepped(q) = MovedTo(q, Hi(f), Lo(f))
    BY <1>3 DEF Stepped, MovedTo
  <1>5. q = PortOf(c, Lo(a), d) /\ Loaded(port, [c EXCEPT !.hi = Hi(f)], f, d) = PortOf([c EXCEPT !.hi = Hi(f)], Lo(f), d)
    BY LoadedIs
  <1> HIDE DEF f, q
  <1>6. QED
    BY <1>4, <1>5, Moved DEF f, q

LEMMA AiStarts ==
  ASSUME Ports, NEW c \in CtrlWords, NEW e, NEW a \in Addrs, NEW d \in Int, c.hi = Hi(a), c.ai, ~c.rw
  PROVE  LET f == Onward(c.pf, a, c.size)
         IN  Strobe(At(PortOf(c, Lo(a), e), <<>>), ToData(d))
               = At(Loaded(port, [c EXCEPT !.hi = Hi(f)], f, d), <<Made(c, a, d)>>)
  <1> DEFINE q == Loaded(port, c, a, d)
             s == At(PortOf(c, Lo(a), e), <<>>)
             f == Onward(c.pf, a, c.size)
             n == Loaded(port, [c EXCEPT !.hi = Hi(f)], f, d)
  <1>1. port \in PortRecords
    BY DEF Ports
  <1>2. Command(q) = Made(c, a, d) /\ AiWrite(q)
    BY <1>1, LoadedType
  <1>3. PortOf(c, Lo(a), d) = q
    BY LoadedIs
  <1>4. Strobe(s, ToData(d)) = Started(s, q)
    <2> HIDE DEF q
    <2>1. QED
      BY <1>2, <1>3, DataStrobe
  <1>5. Stepped(q) = n
    BY SteppedIs
  <1>6. s.go = <<>>
    BY DEF At
  <1>7. Started(s, q) = At(n, Append(<<>>, Made(c, a, d)))
    <2> HIDE DEF q, n, s
    <2>1. QED
      BY <1>2, <1>5, <1>6 DEF Started, At
  <1>8. Append(<<>>, Made(c, a, d)) = <<Made(c, a, d)>>
    OBVIOUS
  <1> HIDE DEF n, s
  <1>9. QED
    BY <1>4, <1>7, <1>8 DEF n, s

\* An ai write: with the address in the port the DATA strobe alone, else all three.
LEMMA AiGiven ==
  ASSUME ImageInv, AiOn, NEW a \in Addrs, NEW size \in Sizes, NEW d \in Int, NEW wt \in BOOLEAN
  PROVE  LET w == AiStrobes(a, size, d, wt)
             f == Onward(w.c.pf, a, size)
         IN  /\ w.c \in CtrlWords /\ w.c.hi = Hi(a) /\ w.c.ai /\ ~w.c.rw
             /\ w.c.fc = 5 /\ w.c.size = size /\ w.c.wt = wt
             /\ Strobes(w.xs) = At(Loaded(port, [w.c EXCEPT !.hi = Hi(f)], f, d), <<Made(w.c, a, d)>>)
  <1> DEFINE w == AiStrobes(a, size, d, wt)
             at(dec) == Ctrl(5, FALSE, size, dec, wt, TRUE, Hi(a))
             kept == at(lastCtrl = NoImage \/ lastCtrl.pf)
             turned == at(Direction(a, size))
  <1>0. Ports /\ port = PortOf(port.ctrl, port.lo, port.data) /\ mode.auto /\ port.auto
    BY PortFields DEF ImageInv, Ports, AiOn
  <1>1. \A dec \in BOOLEAN : /\ at(dec) \in CtrlWords /\ at(dec).hi = Hi(a) /\ at(dec).ai /\ ~at(dec).rw
                             /\ at(dec).fc = 5 /\ at(dec).size = size /\ at(dec).wt = wt
    <2> TAKE dec \in BOOLEAN
    <2>1. at(dec) \in CtrlWords
      BY CtrlType
    <2>2. QED
      BY <2>1 DEF Ctrl
  <1>2. Direction(a, size) \in BOOLEAN
    BY DEF Direction
  <1>3. (lastCtrl = NoImage \/ lastCtrl.pf) \in BOOLEAN
    OBVIOUS
  <1>4. w.c \in {kept, turned}
    BY DEF AiStrobes
  <1>5. /\ w.c \in CtrlWords /\ w.c.hi = Hi(a) /\ w.c.ai /\ ~w.c.rw
        /\ w.c.fc = 5 /\ w.c.size = size /\ w.c.wt = wt
    <2> HIDE DEF at, w
    <2>1. QED
      BY <1>1, <1>2, <1>3, <1>4
  <1> DEFINE f == Onward(w.c.pf, a, size)
             n == Loaded(port, [w.c EXCEPT !.hi = Hi(f)], f, d)
  <1>6. \A e : Strobe(At(PortOf(w.c, Lo(a), e), <<>>), ToData(d)) = At(n, <<Made(w.c, a, d)>>)
    <2> HIDE DEF w
    <2>1. QED
      BY <1>0, <1>5, AiStarts
  <1>7. CASE Follows(a, kept)
    <2>1. w = [c |-> kept, xs |-> <<LeftOut, LeftOut, ToData(d)>>]
      BY <1>7 DEF AiStrobes
    <2>2. w.c = kept /\ Strobes(w.xs) = Strobe(Strobe(Strobe(At(port, <<>>), LeftOut), LeftOut), ToData(d))
      <3> HIDE DEF kept
      <3>1. QED
        BY <2>1 DEF Strobes, At
    <2>3. port.ctrl = kept
      <3>1. kept \in CtrlWords
        BY <1>1, <1>3
      <3>2. lastCtrl = kept
        BY <1>7 DEF Follows
      <3> HIDE DEF kept
      <3>3. QED
        BY <3>1, <3>2, Images DEF ImageInv, CtrlImage
    <2>4. port.lo = Lo(a)
      <3>1. port.ctrl.hi = Hi(a)
        BY <2>2, <2>3, <1>5
      <3>2. Address(port) = a
        BY <1>7 DEF Follows, ImageInv, StepImage
      <3>3. Hi(a) * Block + port.lo = a
        BY <3>1, <3>2 DEF Address
      <3>4. Hi(a) * Block \in Int /\ port.lo \in Int
        <4>1. Hi(a) \in Int /\ Block \in Int
          BY Split, SpaceIs
        <4>2. Hi(a) * Block \in Int
          BY <4>1, Z3
        <4>3. QED
          BY <1>0, <4>2 DEF Ports, PortRecords
      <3>5. Hi(a) * Block + Lo(a) = a /\ Lo(a) \in Int
        BY Split
      <3>6. \A x, y, z \in Int : x + y = a /\ x + z = a => y = z
        BY Z3
      <3>7. QED
        BY <3>3, <3>4, <3>5, <3>6
    <2>5. Strobe(Strobe(At(port, <<>>), LeftOut), LeftOut) = At(PortOf(w.c, Lo(a), port.data), <<>>)
      <3> HIDE DEF w, kept
      <3>1. QED
        BY <1>0, <2>2, <2>3, <2>4, NoStrobeAtAll
    <2>6. Strobes(w.xs) = At(n, <<Made(w.c, a, d)>>)
      <3> HIDE DEF w, n
      <3>1. QED
        BY <1>6, <2>2, <2>5
    <2>7. QED
      BY <1>5, <2>6
  <1>8. CASE ~Follows(a, kept)
    <2>1. w = [c |-> turned, xs |-> <<set_ctrl(turned), ToAddr(a), ToData(d)>>]
      BY <1>8 DEF AiStrobes
    <2>2. /\ w.c = turned
          /\ Strobes(w.xs) = Strobe(Strobe(Strobe(At(port, <<>>), set_ctrl(w.c)), ToAddr(a)), ToData(d))
      <3> HIDE DEF turned
      <3>1. QED
        BY <2>1 DEF Strobes, At
    <2> HIDE DEF w, n
    <2>3. Strobe(At(port, <<>>), set_ctrl(w.c)) = At(PortOf(w.c, port.lo, port.data), <<>>)
      <3>1. Strobe(At(PortOf(port.ctrl, port.lo, port.data), <<>>), set_ctrl(w.c))
              = At(PortOf(w.c, port.lo, port.data), <<>>)
        BY <1>0, <1>5, CtrlKept
      <3>2. QED
        BY <1>0, <3>1
    <2>4. Strobe(At(PortOf(w.c, port.lo, port.data), <<>>), ToAddr(a)) = At(PortOf(w.c, Lo(a), port.data), <<>>)
      BY <1>5, OnAddrQuiet
    <2>5. Strobes(w.xs) = At(n, <<Made(w.c, a, d)>>)
      BY <1>6, <2>2, <2>3, <2>4
    <2>6. QED
      BY <1>5, <2>5 DEF w, n
  <1>9. QED
    BY <1>7, <1>8

\* A write of the host, however it is given.
LEMMA GivenWrite ==
  ASSUME ImageInv, wire \in Seq(Commands), NEW a \in Addrs, NEW size \in Sizes, NEW d \in Nat,
         NEW wt \in BOOLEAN, issue_write(a, size, d, wt), ai_ok' = ai_ok
  PROVE  /\ ImageInv'
         /\ \E c \in Commands :
               /\ wire' = Append(wire, c)
               /\ ~c.rw /\ c.fc = 5 /\ c.addr = a /\ c.size = size /\ c.data = d /\ c.wt = wt
  <1>0. /\ Ports /\ port \in PortRecords /\ mode' = mode /\ lastData' = d /\ d \in Int /\ d # NoData
    BY DEF issue_write, ImageInv, Ports, NoData
  <1>1. CASE AiOn
    <2> DEFINE w == AiStrobes(a, size, d, wt)
               f == Onward(w.c.pf, a, size)
               k == [w.c EXCEPT !.hi = Hi(f)]
               n == Loaded(port, k, f, d)
               c == Made(w.c, a, d)
    <2>1. /\ w.c \in CtrlWords /\ w.c.hi = Hi(a) /\ w.c.ai /\ ~w.c.rw
          /\ w.c.fc = 5 /\ w.c.size = size /\ w.c.wt = wt
          /\ Strobes(w.xs) = At(n, <<c>>)
      BY <1>0, <1>1, AiGiven
    <2>2. Send(w.xs) /\ wr' = [fpga |-> f, last |-> a] /\ lastCtrl' = k
      BY <1>1 DEF issue_write, Onward
    <2> HIDE DEF w
    <2>3. c \in Commands
      BY <1>0, <2>1, LoadedType
    <2>4. f \in Addrs
      <3>1. w.c.pf \in BOOLEAN
        BY <2>1 DEF CtrlWords
      <3>2. QED
        BY <3>1, OnwardType
    <2>5. k \in CtrlWords /\ k.hi = Hi(f) /\ k.ai /\ ~k.rw
      BY <2>1, <2>4, Split DEF CtrlWords
    <2>6. port' = n /\ wire' = Append(wire, c)
      <3> HIDE DEF n, c
      <3>1. QED
        BY <2>1, <2>2, <2>3, SendIs
    <2>7. ~c.rw /\ c.fc = 5 /\ c.addr = a /\ c.size = size /\ c.data = d /\ c.wt = wt
      BY <2>1 DEF Made
    <2>8. ImageInv'
      <3> HIDE DEF k, f
      <3>1. n \in PortRecords /\ Address(n) = f
        BY <1>0, <2>4, <2>5, LoadedType
      <3>2. n.ctrl = k /\ n.data = d /\ n.auto = port.auto /\ n.busyIrq = port.busyIrq
        BY DEF Loaded
      <3> HIDE DEF n
      <3>3. Ports'
        BY <1>0, <2>6, <3>1, <3>2 DEF Ports
      <3>4. CtrlImage' /\ DataImage'
        BY <1>0, <1>1, <2>2, <2>6, <3>2 DEF CtrlImage, DataImage, AiOn
      <3>5. StepImage'
        <4>1. wr'.fpga = f /\ wr'.last = a
          BY <2>2
        <4>2. QED
          BY <2>4, <2>6, <3>1, <4>1 DEF StepImage
      <3>6. AiOnly'
        BY <1>0, <1>1 DEF AiOnly, AiOn
      <3>7. QED
        BY <3>3, <3>4, <3>5, <3>6 DEF ImageInv
    <2> HIDE DEF c
    <2>9. QED
      BY <2>3, <2>6, <2>7, <2>8
  <1>2. CASE ~AiOn
    <2> DEFINE k == Ctrl(5, FALSE, size, FALSE, wt, FALSE, Hi(a))
               n == Loaded(port, k, a, d)
               c == Made(k, a, d)
    <2>1. Send(Give(PutData(d), k, a)) /\ lastCtrl' = CtrlAfter(k) /\ wr' = NoImage
      BY <1>2 DEF issue_write
    <2>2. k \in CtrlWords
      BY CtrlType
    <2>3. k.hi = Hi(a) /\ ~k.ai /\ ~k.rw /\ k.fc = 5 /\ k.size = size /\ k.wt = wt
      BY DEF Ctrl
    <2> HIDE DEF k
    <2>4. Strobe(At(port, <<>>), PutData(d)) = At(PortOf(port.ctrl, port.lo, d), <<>>)
      BY <1>0, <1>2, DataKept
    <2>5. Strobes(Give(PutData(d), k, a)) = At(n, <<c>>)
      BY <1>0, <2>2, <2>3, <2>4, Given
    <2>6. c \in Commands
      BY <1>0, <2>2, <2>3, LoadedType
    <2>7. port' = n /\ wire' = Append(wire, c)
      <3> HIDE DEF n, c
      <3>1. QED
        BY <2>1, <2>5, <2>6, SendIs
    <2>8. ImageInv'
      BY <1>0, <2>1, <2>2, <2>3, <2>7, ImagesAfter
    <2>9. ~c.rw /\ c.fc = 5 /\ c.addr = a /\ c.size = size /\ c.data = d /\ c.wt = wt
      BY <2>3 DEF Made
    <2> HIDE DEF c
    <2>10. QED
      BY <2>6, <2>7, <2>8, <2>9
  <1>3. QED
    BY <1>1, <1>2

LEMMA HiZero == 0 \in Addrs /\ Hi(0) = 0
  <1>1. 0 \in Addrs
    BY SpaceIs
  <1>2. Hi(0) \in 0..(Blocks - 1) /\ Lo(0) \in 0..(Block - 1) /\ Hi(0) * Block + Lo(0) = 0
    BY <1>1, Split
  <1>3. Hi(0) * Block = Block * Hi(0) /\ Block * Hi(0) \in Int
    BY <1>2, SpaceIs, Z3
  <1>4. ASSUME Hi(0) >= 1 PROVE FALSE
    <2>1. Block * 1 <= Block * Hi(0)
      <3>1. Block \in Nat /\ 1 \in Int /\ Hi(0) \in Int /\ 1 <= Hi(0)
        BY <1>2, <1>4, SpaceIs
      <3>2. QED
        BY <3>1, Monotone
    <2>2. QED
      BY <1>2, <1>3, <2>1, SpaceIs
  <1>5. QED
    BY <1>1, <1>2, <1>4, SpaceIs

\* The engine's configuration port.
LEMMA GivenConfiguration ==
  ASSUME ImageInv, wire \in Seq(Commands), NEW k, Configure(k), ~LateModes
  PROVE  /\ ImageInv'
         /\ \E c \in Commands : wire' = Append(wire, c) /\ ~c.rw /\ c.fc = 7 /\ c.wt = mode.bi
  <1> DEFINE w == Ctrl(7, FALSE, 2, FALSE, mode.bi, FALSE, 0)
             n == Loaded(port, w, 0, NoData)
             c == Made(w, 0, NoData)
  <1>0. /\ Ports /\ port \in PortRecords /\ port.auto = mode.auto /\ mode.auto \in BOOLEAN /\ mode.bi \in BOOLEAN
        /\ port = PortOf(port.ctrl, port.lo, port.data) /\ NoData \in Int
    BY PortFields DEF ImageInv, Ports, ModeRecords, NoData
  <1>1. w \in CtrlWords
    BY <1>0, HiZero, CtrlType DEF Sizes
  <1>2. w.hi = Hi(0) /\ ~w.ai /\ ~w.rw /\ w.fc = 7 /\ w.wt = mode.bi
    BY HiZero DEF Ctrl
  <1>3. Send(CfgStrobes(w)) /\ ~AiWrite(port)
    BY DEF Configure
  <1>4. /\ lastCtrl' = NoImage /\ lastData' = NoData /\ wr' = NoImage /\ mode' = mode /\ ai_ok' = ai_ok
    BY DEF Configure, MayBegin
  <1> HIDE DEF w
  <1>5. Strobes(CfgStrobes(w)) = At(n, <<c>>)
    <2>1. Strobe(At(PortOf(port.ctrl, port.lo, port.data), <<>>), ToData(NoData))
            = At(PortOf(port.ctrl, port.lo, NoData), <<>>)
      BY <1>3, OnData DEF AiWrite
    <2>2. CASE mode.auto
      <3>1. Strobe(At(PortOf(port.ctrl, port.lo, NoData), <<>>), ToCtrl(w)) = At(PortOf(w, port.lo, NoData), <<>>)
        BY <1>0, <2>2, OnCtrlAuto
      <3>2. Strobe(At(PortOf(w, port.lo, NoData), <<>>), ToAddr(0)) = At(n, <<c>>)
        BY <1>0, <1>1, <1>2, <2>2, HiZero, OnAddrStarts
      <3>3. Strobes(CfgStrobes(w)) = Strobe(Strobe(Strobe(At(port, <<>>), ToData(NoData)), ToCtrl(w)), ToAddr(0))
        BY <2>2 DEF Strobes, CfgStrobes, At
      <3>4. QED
        BY <1>0, <2>1, <3>1, <3>2, <3>3
    <2>3. CASE ~mode.auto
      <3>1. Strobe(At(PortOf(port.ctrl, port.lo, NoData), <<>>), ToAddr(0)) = At(PortOf(port.ctrl, Lo(0), NoData), <<>>)
        BY <1>0, <2>3, OnAddrQuiet
      <3>2. Strobe(At(PortOf(port.ctrl, Lo(0), NoData), <<>>), ToCtrl(w)) = At(n, <<c>>)
        BY <1>0, <1>1, <1>2, <2>3, HiZero, OnCtrlStarts
      <3>3. Strobes(CfgStrobes(w)) = Strobe(Strobe(Strobe(At(port, <<>>), ToData(NoData)), ToAddr(0)), ToCtrl(w))
        BY <2>3 DEF Strobes, CfgStrobes, At
      <3>4. QED
        BY <1>0, <2>1, <3>1, <3>2, <3>3
    <2>4. QED
      BY <1>0, <2>2, <2>3
  <1>6. c \in Commands /\ ~c.rw /\ c.fc = 7 /\ c.wt = mode.bi
    <2>1. c \in Commands
      BY <1>0, <1>1, <1>2, HiZero, LoadedType
    <2>2. QED
      BY <1>2, <2>1 DEF Made
  <1>7. port' = n /\ wire' = Append(wire, c)
    <2> HIDE DEF n, c
    <2>1. QED
      BY <1>3, <1>5, <1>6, SendIs
  <1>8. ImageInv'
    BY <1>0, <1>1, <1>2, <1>4, <1>7, HiZero, ImagesAfter
  <1> HIDE DEF c
  <1>9. QED
    BY <1>6, <1>7, <1>8

-----------------------------------------------------------------------------
(***************************************************************************)
(* 3. The commands on their way.                                           *)
(***************************************************************************)
\* The places where a call waits for its own command, those of them where it
\* looks at the line, and the others.
Awaiting == {"status", "up", "holdup", "down", "holddown", "done", "pfstatus"}
LineLooks == {"up", "holdup", "down", "holddown"}
Places == Awaiting \cup {"idle", "hit", "data", "drain", "room", "pfdata", "ret"}

Asked == [addr : Addrs, size : Sizes, data : Int]
AskedBy(c) == [addr |-> c.addr, size |-> c.size, data |-> c.data]

\* A cycle of the engine: one that the host asked for is no configuration, one
\* ahead of the host reads a word.
AheadRead(c) == c.rw /\ ~c.pf /\ c.fc = 5
Cycle(e) == /\ e.on \in BOOLEAN /\ (e.on => e.spec \in BOOLEAN /\ e.c \in Commands)
            /\ (e.on /\ ~e.spec => ~Consumed(e.c)) /\ (e.on /\ e.spec => AheadRead(e.c))

Shapes ==
    /\ menu \in Menus /\ pc \in Places /\ (pc # "idle" => call \in Calls)
    /\ cmds \in Seq(Commands) /\ wire \in Seq(Commands) /\ due \in Seq(Asked)
    /\ Cycle(eng) /\ pend \in BOOLEAN /\ fault \in BOOLEAN /\ other \in BOOLEAN /\ mine \in BOOLEAN
    /\ pfSeq \in 0..2 /\ writes \in Nat /\ foreign \in Nat
    /\ pfRun \in BOOLEAN /\ (pfRun = TRUE => pfA \in Words)

\* Which call is where.
Ways ==
    /\ reloaded => pc = "idle"
    /\ pc # "idle" =>
        /\ call.op \in {"read", "plain"}
             => pc \in {"hit", "status", "holdup", "holddown", "data", "pfstatus", "pfdata", "ret"}
        /\ pc \in {"hit", "pfstatus", "pfdata"} => call.op = "read"
        /\ pc = "room" => call.op = "write"
        /\ pc = "drain" => call.op = "iack"
        /\ call.op = "write" => pc \in {"room", "ret"}
        /\ call.op \in {"sync", "cfg"} => pc \in {"up", "down", "done", "ret"}
        /\ call.op = "iack" => pc \in {"drain", "status", "data", "ret"}
    /\ pc \in LineLooks => mode.bi

\* The words of the bus.
Pairs == Int \X Int
DataShapes == mem \in [Words -> Pairs] /\ pfFifo \in Seq(Pairs)

BaseInv == ImageInv /\ Shapes /\ DataShapes /\ Ways

\* A posted write, and the command that a call k waits for at a place.
PostedWrite(c) == IsWrite(c) /\ ~c.wt
Expected(c, k, where) ==
    /\ k.op \in {"read", "plain"} => c.rw /\ c.addr = k.addr /\ c.fc = 5 /\ (c.pf <=> where = "pfstatus")
    /\ k.op = "iack" => c.rw /\ c.fc = 7 /\ ~c.pf
    /\ where \in LineLooks => c.wt

\* What every step that gives a command does.
Gives(c) ==
    /\ c \in Commands /\ wire' = Append(wire, c) /\ ImageInv'
    /\ pc \in {"idle", "hit", "drain", "room"} /\ pc' \in Awaiting \cup {"ret"}
    /\ pc' \notin {"down", "holddown"}
    /\ pc' = "ret" => call'.op = "write" /\ PostedWrite(c)
    /\ pc' \in Awaiting => Expected(c, call', pc')
    /\ due' = (IF IsWrite(c) THEN Append(due, AskedBy(c)) ELSE due)
    /\ \/ pc' # "ret" /\ posted' \in {0, posted}
       \/ pc' = "ret" /\ pc = "idle" /\ posted < PostedMax /\ posted' = posted + 1
       \/ pc' = "ret" /\ pc = "room" /\ posted' = 1
    /\ pc \in {"drain", "room"} => ~Busy /\ wire = <<>>
    /\ call'.op = "iack" => pc = "drain" /\ (pc' = "status" => ~fault')
    /\ Ways' /\ call' \in Calls /\ pfSeq' \in 0..2 /\ writes' \in Nat
    /\ pf' = NoImage /\ Fresh /\ reloaded' = FALSE /\ mode' = mode
    /\ fault' \in {fault, FALSE}
    /\ UNCHANGED <<menu, cmds, eng, pend, other, mem, rdata, pfFifo, pfRun, pfA, foreign>>

LEMMA Cycles ==
  /\ Cycle(NoCycle)
  /\ \A c \in Commands : /\ ~Consumed(c) => Cycle([on |-> TRUE, spec |-> FALSE, c |-> c])
                         /\ AheadRead(c) => Cycle([on |-> TRUE, spec |-> TRUE, c |-> c])
  BY DEF Cycle, NoCycle

LEMMA BeginsCall ==
  ASSUME BaseInv, NEW k \in menu.calls \cup {BootRead}
  PROVE  /\ k \in Calls /\ k.addr \in Addrs /\ k.size \in Sizes /\ (k.op = "read" => k.addr \in Words)
         /\ MayBegin(k) => call' \in Calls /\ (reloaded => k.op = "read" /\ k.addr = 0)
  <1>1. BootRead \in Calls
    <2>1. 0 % 2 = 0 /\ 0 \in Addrs
      BY SpaceIs
    <2>2. QED
      BY <2>1 DEF BootRead, Calls
  <1>2. k \in Calls
    BY <1>1, BusPortAssumption DEF BaseInv, Shapes
  <1>3. QED
    BY <1>2 DEF Calls, Sizes, Words, MayBegin, BootRead

LEMMA ReadFc ==
  ASSUME BaseInv, NEW a \in Addrs, NEW size \in Sizes, NEW fc \in {5, 7}, bus_read_fc(a, size, fc),
         ai_ok' = ai_ok
  PROVE  /\ ImageInv' /\ pf' = NoImage /\ Fresh /\ mode' = mode /\ pfSeq' = pfSeq
         /\ pc' \in {"holdup", "status"} /\ (pc' = "holdup" => mode.bi /\ fc = 5)
         /\ \E c \in Commands : /\ wire' = Append(wire, c)
                                /\ c.rw /\ c.addr = a /\ c.fc = fc /\ ~c.pf /\ c.wt = mode.bi
  <1> DEFINE k == Ctrl(fc, TRUE, size, FALSE, mode.bi, FALSE, Hi(a))
  <1>1. /\ Send(Give(LeftOut, k, a)) /\ lastCtrl' = CtrlAfter(k) /\ wr' = NoImage
        /\ UNCHANGED <<mode, lastData, ai_ok>>
    BY DEF bus_read_fc
  <1>2. /\ k \in CtrlWords /\ k.hi = Hi(a) /\ ~k.ai /\ k.rw /\ k.fc = fc /\ ~k.pf /\ k.wt = mode.bi
        /\ ImageInv /\ wire \in Seq(Commands)
    <2>1. ImageInv /\ wire \in Seq(Commands) /\ mode.bi \in BOOLEAN
      BY DEF BaseInv, Shapes, ImageInv, Ports, ModeRecords
    <2>2. k \in CtrlWords
      BY <2>1, CtrlType
    <2>3. QED
      BY <2>1, <2>2 DEF Ctrl
  <1>3. /\ ImageInv'
        /\ \E c \in Commands : /\ wire' = Append(wire, c)
                               /\ c.rw /\ c.addr = a /\ c.fc = fc /\ ~c.pf /\ c.wt = mode.bi
    <2> HIDE DEF k
    <2>1. QED
      BY <1>1, <1>2, GivenRead
  <1>4. pc' \in {"holdup", "status"} /\ (pc' = "holdup" => mode.bi /\ fc = 5)
    BY DEF bus_read_fc, WaitRead, Go
  <1>5. QED
    BY <1>3, <1>4 DEF bus_read_fc

LEMMA RestartIs ==
  ASSUME BaseInv, NEW a \in Addrs, NEW held, Restart(a, held), ai_ok' = ai_ok
  PROVE  /\ ImageInv' /\ pf' = NoImage /\ Fresh /\ mode' = mode /\ pfSeq' \in 0..2
         /\ pc' \in {"holdup", "status", "pfstatus"} /\ (pc' = "holdup" => mode.bi)
         /\ \E c \in Commands : /\ wire' = Append(wire, c)
                                /\ c.rw /\ c.addr = a /\ c.fc = 5 /\ (c.pf <=> pc' = "pfstatus")
                                /\ c.wt = mode.bi
  <1> DEFINE seq == IF a = pfLast + 2 THEN Smaller(pfSeq + 1, 2) ELSE 0
             k == Ctrl(5, TRUE, 2, seq >= 2, mode.bi, FALSE, Hi(a))
  <1>1. /\ Send(Give(LeftOut, k, a)) /\ lastCtrl' = CtrlAfter(k) /\ wr' = NoImage
        /\ UNCHANGED <<mode, lastData, ai_ok>>
    BY DEF Restart
  <1>2. /\ k \in CtrlWords /\ k.hi = Hi(a) /\ ~k.ai /\ k.rw /\ k.fc = 5 /\ (k.pf <=> seq >= 2) /\ k.wt = mode.bi
        /\ ImageInv /\ wire \in Seq(Commands)
    <2> HIDE DEF seq
    <2>1. ImageInv /\ wire \in Seq(Commands) /\ mode.bi \in BOOLEAN
      BY DEF BaseInv, Shapes, ImageInv, Ports, ModeRecords
    <2>2. k \in CtrlWords
      BY <2>1, Split DEF Ctrl, CtrlWords, Sizes
    <2>3. QED
      BY <2>1, <2>2 DEF Ctrl
  <1>3. pfSeq' = seq /\ seq \in 0..2
    BY DEF Restart, BaseInv, Shapes, Smaller
  <1>4. /\ pc' \in {"holdup", "status", "pfstatus"} /\ (pc' = "holdup" => mode.bi)
        /\ (seq >= 2 <=> pc' = "pfstatus")
    BY DEF Restart, WaitStream, Go
  <1>5. pf' = NoImage /\ Fresh /\ mode' = mode
    BY DEF Restart
  <1> HIDE DEF seq
  <1>6. /\ ImageInv'
        /\ \E c \in Commands : /\ wire' = Append(wire, c)
                               /\ c.rw /\ c.addr = a /\ c.fc = 5 /\ (c.pf <=> seq >= 2) /\ c.wt = mode.bi
    <2> HIDE DEF k
    <2>1. QED
      BY <1>1, <1>2, GivenRead
  <1>7. QED
    BY <1>3, <1>4, <1>5, <1>6

LEMMA IssuedWrite ==
  ASSUME BaseInv, NEW a \in Addrs, NEW size \in Sizes, NEW d \in Nat, NEW wt \in BOOLEAN,
         issue_write(a, size, d, wt), ai_ok' = ai_ok
  PROVE  /\ ImageInv' /\ pf' = NoImage /\ Fresh /\ mode' = mode /\ pfSeq' = pfSeq
         /\ \E c \in Commands :
               /\ wire' = Append(wire, c) /\ IsWrite(c) /\ c.wt = wt /\ due' = Append(due, AskedBy(c))
  <1>1. wire \in Seq(Commands) /\ ImageInv
    BY DEF BaseInv, Shapes
  <1>2. /\ ImageInv'
        /\ \E c \in Commands :
               /\ wire' = Append(wire, c)
               /\ ~c.rw /\ c.fc = 5 /\ c.addr = a /\ c.size = size /\ c.data = d /\ c.wt = wt
    BY <1>1, GivenWrite
  <1>3. /\ pf' = NoImage /\ Fresh /\ mode' = mode /\ pfSeq' = pfSeq
        /\ due' = Append(due, [addr |-> a, size |-> size, data |-> d])
    BY DEF issue_write
  <1>4. QED
    BY <1>2, <1>3 DEF IsWrite, AskedBy

LEMMA ReadGives ==
  ASSUME BaseInv, NEW k \in menu.calls \cup {BootRead}, Read(k), ~Hits(k.addr)
  PROVE  \E c : Gives(c)
  <1>1. /\ k \in Calls /\ k.addr \in Addrs /\ k.op = "read" /\ call' = k /\ pc = "idle" /\ reloaded' = FALSE
        /\ ai_ok' = ai_ok /\ due' = due /\ posted' = 0 /\ writes' = writes /\ fault' = fault
        /\ UNCHANGED <<menu, cmds, eng, pend, other, mem, rdata, pfFifo, pfRun, pfA, foreign>>
    BY BeginsCall DEF Read, MayBegin, engine
  <1>2. /\ ImageInv' /\ pf' = NoImage /\ Fresh /\ mode' = mode /\ pfSeq' \in 0..2
        /\ pc' \in {"holdup", "status", "pfstatus"} /\ (pc' = "holdup" => mode.bi)
        /\ \E c \in Commands : /\ wire' = Append(wire, c)
                               /\ c.rw /\ c.addr = k.addr /\ c.fc = 5 /\ (c.pf <=> pc' = "pfstatus")
                               /\ c.wt = mode.bi
    <2>1. CASE mode.pf
      <3>1. Restart(k.addr, lineHeld)
        BY <2>1 DEF Read
      <3>2. QED
        BY <1>1, <3>1, RestartIs
    <2>2. CASE ~mode.pf
      <3>1. bus_read_fc(k.addr, 2, 5) /\ 2 \in Sizes /\ 5 \in {5, 7}
        BY <2>2 DEF Read, Sizes
      <3>2. /\ ImageInv' /\ pf' = NoImage /\ Fresh /\ mode' = mode /\ pfSeq' = pfSeq
            /\ pc' \in {"holdup", "status"} /\ (pc' = "holdup" => mode.bi)
            /\ \E c \in Commands : /\ wire' = Append(wire, c)
                                   /\ c.rw /\ c.addr = k.addr /\ c.fc = 5 /\ ~c.pf /\ c.wt = mode.bi
        BY <1>1, <3>1, ReadFc
      <3>3. pfSeq \in 0..2
        BY DEF BaseInv, Shapes
      <3>4. QED
        BY <3>2, <3>3
    <2>3. QED
      BY <2>1, <2>2
  <1>3. PICK c \in Commands : /\ wire' = Append(wire, c)
                              /\ c.rw /\ c.addr = k.addr /\ c.fc = 5 /\ (c.pf <=> pc' = "pfstatus")
                              /\ c.wt = mode.bi
    BY <1>2
  <1>4. Ways'
    BY <1>1, <1>2 DEF Ways, LineLooks
  <1>5. Expected(c, call', pc')
    BY <1>1, <1>2, <1>3 DEF Expected, LineLooks
  <1>6. ~IsWrite(c) /\ writes' \in Nat
    BY <1>1, <1>3 DEF IsWrite, BaseInv, Shapes
  <1>7. Gives(c)
    BY <1>1, <1>2, <1>3, <1>4, <1>5, <1>6 DEF Gives, Awaiting
  <1>8. QED
    BY <1>7

LEMMA ReadPlainGives ==
  ASSUME BaseInv, NEW k \in menu.calls \cup {BootRead}, ReadPlain(k)
  PROVE  \E c : Gives(c)
  <1>1. /\ k \in Calls /\ k.addr \in Addrs /\ k.size \in Sizes
        /\ k.op = "plain" /\ call' = k /\ pc = "idle" /\ reloaded' = FALSE
        /\ ai_ok' = ai_ok /\ due' = due /\ posted' = 0 /\ writes' = writes /\ fault' = fault
        /\ UNCHANGED <<menu, cmds, eng, pend, other, mem, rdata, pfFifo, pfRun, pfA, foreign>>
    BY BeginsCall DEF ReadPlain, MayBegin, engine
  <1>2. bus_read_fc(k.addr, k.size, 5) /\ 5 \in {5, 7}
    BY DEF ReadPlain
  <1>3. /\ ImageInv' /\ pf' = NoImage /\ Fresh /\ mode' = mode /\ pfSeq' = pfSeq
        /\ pc' \in {"holdup", "status"} /\ (pc' = "holdup" => mode.bi)
        /\ \E c \in Commands : /\ wire' = Append(wire, c)
                               /\ c.rw /\ c.addr = k.addr /\ c.fc = 5 /\ ~c.pf /\ c.wt = mode.bi
    BY <1>1, <1>2, ReadFc
  <1>4. PICK c \in Commands : /\ wire' = Append(wire, c)
                              /\ c.rw /\ c.addr = k.addr /\ c.fc = 5 /\ ~c.pf /\ c.wt = mode.bi
    BY <1>3
  <1>5. Ways'
    BY <1>1, <1>3 DEF Ways, LineLooks
  <1>6. Expected(c, call', pc')
    BY <1>1, <1>3, <1>4 DEF Expected, LineLooks
  <1>7. ~IsWrite(c) /\ writes' \in Nat /\ pfSeq' \in 0..2
    BY <1>1, <1>3, <1>4 DEF IsWrite, BaseInv, Shapes
  <1>8. Gives(c)
    BY <1>1, <1>3, <1>4, <1>5, <1>6, <1>7 DEF Gives, Awaiting
  <1>9. QED
    BY <1>8

LEMMA HitPollGives ==
  ASSUME BaseInv, HitPoll, Restart(call.addr, Held), UNCHANGED <<posted, due>>
  PROVE  \E c : Gives(c)
  <1>1. /\ pc = "hit" /\ call' = call /\ reloaded' = reloaded /\ writes' = writes /\ ai_ok' = ai_ok
        /\ fault' = fault
        /\ UNCHANGED <<menu, cmds, eng, pend, other, mem, rdata, pfFifo, pfRun, pfA, foreign>>
    BY DEF HitPoll, Elsewhere, EngineStays, engine
  <1>2. call \in Calls /\ call.addr \in Addrs /\ call.op = "read" /\ reloaded = FALSE
    BY <1>1 DEF BaseInv, Shapes, Ways, Calls, MayBegin
  <1>3. /\ ImageInv' /\ pf' = NoImage /\ Fresh /\ mode' = mode /\ pfSeq' \in 0..2
        /\ pc' \in {"holdup", "status", "pfstatus"} /\ (pc' = "holdup" => mode.bi)
        /\ \E c \in Commands : /\ wire' = Append(wire, c)
                               /\ c.rw /\ c.addr = call.addr /\ c.fc = 5 /\ (c.pf <=> pc' = "pfstatus")
                               /\ c.wt = mode.bi
    BY <1>1, <1>2, RestartIs
  <1>4. PICK c \in Commands : /\ wire' = Append(wire, c)
                              /\ c.rw /\ c.addr = call.addr /\ c.fc = 5 /\ (c.pf <=> pc' = "pfstatus")
                              /\ c.wt = mode.bi
    BY <1>3
  <1>5. Ways'
    BY <1>1, <1>2, <1>3 DEF Ways, LineLooks
  <1>6. Expected(c, call', pc')
    BY <1>1, <1>2, <1>3, <1>4 DEF Expected, LineLooks
  <1>7. ~IsWrite(c) /\ writes' \in Nat
    BY <1>1, <1>4 DEF IsWrite, BaseInv, Shapes
  <1>8. Gives(c)
    BY <1>1, <1>2, <1>3, <1>4, <1>5, <1>6, <1>7 DEF Gives, Awaiting
  <1>9. QED
    BY <1>8

LEMMA BusWriteGives ==
  ASSUME BaseInv, posted \in 0..PostedMax, NEW k \in menu.calls \cup {BootRead}, BusWrite(k), ~Full
  PROVE  \E c : Gives(c)
  <1>1. /\ k \in Calls /\ k.addr \in Addrs /\ k.size \in Sizes
        /\ k.op = "write" /\ call' = k /\ pc = "idle" /\ reloaded' = FALSE /\ ai_ok' = ai_ok
        /\ writes' = writes + 1 /\ fault' = fault /\ pc' = "ret" /\ posted' = posted + 1
        /\ issue_write(k.addr, k.size, writes', FALSE)
        /\ UNCHANGED <<menu, cmds, eng, pend, other, mem, rdata, pfFifo, pfRun, pfA, foreign>>
    BY BeginsCall DEF BusWrite, MayBegin, engine
  <1>2. writes' \in Nat /\ FALSE \in BOOLEAN /\ posted < PostedMax
    BY <1>1, BusPortAssumption DEF BaseInv, Shapes, Full
  <1>3. /\ ImageInv' /\ pf' = NoImage /\ Fresh /\ mode' = mode /\ pfSeq' = pfSeq
        /\ \E c \in Commands :
               /\ wire' = Append(wire, c) /\ IsWrite(c) /\ c.wt = FALSE /\ due' = Append(due, AskedBy(c))
    BY <1>1, <1>2, IssuedWrite
  <1>4. PICK c \in Commands :
               /\ wire' = Append(wire, c) /\ IsWrite(c) /\ c.wt = FALSE /\ due' = Append(due, AskedBy(c))
    BY <1>3
  <1>5. Ways' /\ PostedWrite(c)
    BY <1>1, <1>4 DEF Ways, LineLooks, PostedWrite
  <1>6. pfSeq' \in 0..2
    BY <1>3 DEF BaseInv, Shapes
  <1>7. Gives(c)
    BY <1>1, <1>2, <1>3, <1>4, <1>5, <1>6 DEF Gives, Awaiting
  <1>8. QED
    BY <1>7

LEMMA RoomGives ==
  ASSUME BaseInv, RoomMade, ~fault
  PROVE  \E c : Gives(c)
  <1>1. /\ pc = "room" /\ call' = call /\ reloaded' = reloaded /\ ai_ok' = ai_ok /\ ~Busy /\ wire = <<>>
        /\ writes' = writes /\ fault' = fault /\ pc' = "ret" /\ posted' = 1
        /\ issue_write(call.addr, call.size, writes, FALSE)
        /\ UNCHANGED <<menu, cmds, eng, pend, other, mem, rdata, pfFifo, pfRun, pfA, foreign>>
    BY DEF RoomMade, NotBusy, Elsewhere, EngineStays, engine
  <1>2. /\ call \in Calls /\ call.addr \in Addrs /\ call.size \in Sizes /\ call.op = "write"
        /\ reloaded = FALSE /\ writes \in Nat /\ FALSE \in BOOLEAN /\ pfSeq \in 0..2
    BY <1>1 DEF BaseInv, Shapes, Ways, Calls, Sizes, MayBegin
  <1>3. /\ ImageInv' /\ pf' = NoImage /\ Fresh /\ mode' = mode /\ pfSeq' = pfSeq
        /\ \E c \in Commands :
               /\ wire' = Append(wire, c) /\ IsWrite(c) /\ c.wt = FALSE /\ due' = Append(due, AskedBy(c))
    BY <1>1, <1>2, IssuedWrite
  <1>4. PICK c \in Commands :
               /\ wire' = Append(wire, c) /\ IsWrite(c) /\ c.wt = FALSE /\ due' = Append(due, AskedBy(c))
    BY <1>3
  <1>5. Ways' /\ PostedWrite(c)
    BY <1>1, <1>2, <1>4 DEF Ways, LineLooks, PostedWrite
  <1>6. Gives(c)
    BY <1>1, <1>2, <1>3, <1>4, <1>5 DEF Gives, Awaiting
  <1>7. QED
    BY <1>6

LEMMA WriteSyncGives ==
  ASSUME BaseInv, NEW k \in menu.calls \cup {BootRead}, WriteSync(k)
  PROVE  \E c : Gives(c)
  <1>1. /\ k \in Calls /\ k.addr \in Addrs /\ k.size \in Sizes
        /\ k.op = "sync" /\ call' = k /\ pc = "idle" /\ reloaded' = FALSE /\ ai_ok' = ai_ok
        /\ writes' = writes + 1 /\ fault' = fault /\ posted' = 0
        /\ issue_write(k.addr, k.size, writes', mode.bi)
        /\ UNCHANGED <<menu, cmds, eng, pend, other, mem, rdata, pfFifo, pfRun, pfA, foreign>>
    BY BeginsCall DEF WriteSync, MayBegin, engine
  <1>2. writes' \in Nat /\ mode.bi \in BOOLEAN
    BY <1>1 DEF BaseInv, Shapes, ImageInv, Ports, ModeRecords
  <1>3. pc' \in {"up", "done"} /\ (pc' = "up" => mode.bi)
    BY DEF WriteSync, WaitDone, Go
  <1>4. /\ ImageInv' /\ pf' = NoImage /\ Fresh /\ mode' = mode /\ pfSeq' = pfSeq
        /\ \E c \in Commands :
               /\ wire' = Append(wire, c) /\ IsWrite(c) /\ c.wt = mode.bi /\ due' = Append(due, AskedBy(c))
    BY <1>1, <1>2, IssuedWrite
  <1>5. PICK c \in Commands :
               /\ wire' = Append(wire, c) /\ IsWrite(c) /\ c.wt = mode.bi /\ due' = Append(due, AskedBy(c))
    BY <1>4
  <1>6. Ways'
    BY <1>1, <1>3, <1>4 DEF Ways, LineLooks
  <1>7. Expected(c, call', pc')
    BY <1>1, <1>3, <1>5 DEF Expected, LineLooks
  <1>8. pfSeq' \in 0..2
    BY <1>4 DEF BaseInv, Shapes
  <1>9. Gives(c)
    BY <1>1, <1>2, <1>3, <1>4, <1>5, <1>6, <1>7, <1>8 DEF Gives, Awaiting
  <1>10. QED
    BY <1>9

LEMMA ConfigureGives ==
  ASSUME BaseInv, ~LateModes, NEW k \in menu.calls \cup {BootRead}, Configure(k)
  PROVE  \E c : Gives(c)
  <1>1. /\ k \in Calls /\ k.op = "cfg" /\ call' = k /\ pc = "idle" /\ reloaded' = FALSE
        /\ writes' = writes /\ fault' = fault /\ posted' = 0 /\ due' = due /\ pfSeq' = pfSeq
        /\ pf' = NoImage /\ Fresh /\ mode' = mode
        /\ UNCHANGED <<menu, cmds, eng, pend, other, mem, rdata, pfFifo, pfRun, pfA, foreign>>
    BY BeginsCall DEF Configure, MayBegin, engine
  <1>2. ImageInv /\ wire \in Seq(Commands) /\ writes' \in Nat /\ pfSeq' \in 0..2
    BY <1>1 DEF BaseInv, Shapes
  <1>3. pc' \in {"up", "done"} /\ (pc' = "up" => mode.bi)
    BY DEF Configure, WaitDone, Go
  <1>4. /\ ImageInv'
        /\ \E c \in Commands : wire' = Append(wire, c) /\ ~c.rw /\ c.fc = 7 /\ c.wt = mode.bi
    BY <1>2, GivenConfiguration
  <1>5. PICK c \in Commands : wire' = Append(wire, c) /\ ~c.rw /\ c.fc = 7 /\ c.wt = mode.bi
    BY <1>4
  <1>6. Ways'
    BY <1>1, <1>3 DEF Ways, LineLooks
  <1>7. Expected(c, call', pc') /\ ~IsWrite(c)
    BY <1>1, <1>3, <1>5 DEF Expected, LineLooks, IsWrite
  <1>8. Gives(c)
    BY <1>1, <1>2, <1>3, <1>4, <1>5, <1>6, <1>7 DEF Gives, Awaiting
  <1>9. QED
    BY <1>8

LEMMA AcknowledgeGives ==
  ASSUME BaseInv, Acknowledge
  PROVE  \E c : Gives(c)
  <1>1. /\ pc = "drain" /\ call' = call /\ reloaded' = reloaded /\ ai_ok' = ai_ok /\ ~Busy /\ wire = <<>>
        /\ writes' = writes /\ fault' = FALSE /\ posted' = posted /\ due' = due
        /\ UNCHANGED <<menu, cmds, eng, pend, other, mem, rdata, pfFifo, pfRun, pfA, foreign>>
    BY DEF Acknowledge, NotBusy, Elsewhere, Clean
  <1>2. bus_read_fc(Top, 1, 7) /\ 7 \in {5, 7} /\ 1 \in Sizes /\ Top \in Addrs
    BY SpaceIs DEF Acknowledge, Sizes
  <1>3. call \in Calls /\ call.op = "iack" /\ reloaded = FALSE /\ writes \in Nat /\ pfSeq \in 0..2
    BY <1>1 DEF BaseInv, Shapes, Ways, Calls, MayBegin
  <1>4. /\ ImageInv' /\ pf' = NoImage /\ Fresh /\ mode' = mode /\ pfSeq' = pfSeq
        /\ pc' = "status"
        /\ \E c \in Commands : /\ wire' = Append(wire, c)
                               /\ c.rw /\ c.addr = Top /\ c.fc = 7 /\ ~c.pf /\ c.wt = mode.bi
    BY <1>1, <1>2, ReadFc
  <1>5. PICK c \in Commands : /\ wire' = Append(wire, c)
                              /\ c.rw /\ c.addr = Top /\ c.fc = 7 /\ ~c.pf /\ c.wt = mode.bi
    BY <1>4
  <1>6. Ways'
    BY <1>1, <1>3, <1>4 DEF Ways, LineLooks
  <1>7. Expected(c, call', pc') /\ ~IsWrite(c)
    BY <1>1, <1>3, <1>4, <1>5 DEF Expected, LineLooks, IsWrite
  <1>8. Gives(c)
    BY <1>1, <1>3, <1>4, <1>5, <1>6, <1>7 DEF Gives, Awaiting
  <1>9. QED
    BY <1>8

\* The steps that give a command, and the ways in which the others go on.
Commanded(k) ==
    \/ Read(k) /\ ~Hits(k.addr)
    \/ ReadPlain(k)
    \/ BusWrite(k) /\ ~Full
    \/ WriteSync(k)
    \/ Configure(k)
CommandStep ==
    \/ \E k \in menu.calls \cup {BootRead} : Commanded(k)
    \/ HitPoll /\ Restart(call.addr, Held) /\ UNCHANGED <<posted, due>>
    \/ RoomMade /\ ~fault
    \/ Acknowledge

LEMMA StepsGive ==
  ASSUME BaseInv, posted \in 0..PostedMax, ~LateModes, CommandStep
  PROVE  \E c : Gives(c)
  BY ReadGives, ReadPlainGives, BusWriteGives, WriteSyncGives, ConfigureGives, HitPollGives, RoomGives,
     AcknowledgeGives DEF CommandStep, Commanded

\* The count of the FIFO is noted, and the hit goes on.
HitCounts ==
    /\ pc = "hit" /\ pf.have = 0 /\ wire = <<>> /\ NoteLine /\ (Count > 0 \/ pfRun)
    /\ pf' = [pf EXCEPT !.have = Count] /\ pc' = pc /\ NoStrobe
    /\ UNCHANGED <<res, st>> /\ EngineStays /\ Elsewhere
Begun(k) ==
    \/ Read(k) /\ Hits(k.addr)
    \/ BusWrite(k) /\ Full
    \/ Iack(k)
QuietStep ==
    \/ \E k \in menu.calls \cup {BootRead} : Begun(k)
    \/ HitCounts \/ HitTake \/ LineHigh \/ LineLow \/ LineGivesUp \/ BusyPoll
    \/ StatusDone \/ TakeData \/ WriteDone \/ StreamStatus \/ StreamData
    \/ (RoomMade /\ fault) \/ Return

LEMMA HostSplit == ASSUME HostStep PROVE CommandStep \/ QuietStep
  <1>1. ASSUME NEW k \in menu.calls \cup {BootRead},
               Read(k) \/ ReadPlain(k) \/ BusWrite(k) \/ WriteSync(k) \/ Iack(k) \/ Configure(k)
        PROVE  CommandStep \/ QuietStep
    <2>1. Commanded(k) \/ Begun(k)
      BY <1>1 DEF Commanded, Begun
    <2>2. QED
      BY <2>1 DEF CommandStep, QuietStep
  <1>2. ASSUME HitPoll PROVE CommandStep \/ QuietStep
    <2>1. CASE Restart(call.addr, Held) /\ UNCHANGED <<posted, due>>
      BY <1>2, <2>1 DEF CommandStep
    <2>2. CASE ~(Restart(call.addr, Held) /\ UNCHANGED <<posted, due>>)
      <3>1. HitCounts
        BY <1>2, <2>2 DEF HitPoll, HitCounts
      <3>2. QED
        BY <3>1 DEF QuietStep
    <2>3. QED
      BY <2>1, <2>2
  <1>3. ASSUME RoomMade \/ Acknowledge PROVE CommandStep \/ QuietStep
    BY <1>3 DEF CommandStep, QuietStep
  <1>4. QED
    BY <1>1, <1>2, <1>3 DEF HostStep, QuietStep

\* What these steps leave alone.
Still ==
    /\ UNCHANGED <<menu, wire, cmds, eng, pend, due, port, mode, lastCtrl, lastData, wr, ai_ok,
                   mem, past, other, rdata, pfRun, pfA, foreign, pfSeq>>
    /\ fault' \in {fault, FALSE} /\ (pc' # "idle" => fault' = fault) /\ mine' \in {mine, FALSE}

LEMMA BegunStill == ASSUME NEW k, Begun(k) PROVE Still
  BY DEF Begun, Read, BusWrite, Iack, MayBegin, Still, engine

LEMMA QuietStill == ASSUME BaseInv, QuietStep PROVE Still
  <1> USE DEF Still, NoStrobe, EngineStays, EngineStaysButFifo, Elsewhere, engine
  <1>1. ASSUME NEW k, Begun(k) PROVE Still
    BY <1>1, BegunStill
  <1>2. ASSUME HitCounts PROVE Still
    BY <1>2 DEF HitCounts
  <1>3. ASSUME HitTake PROVE Still
    BY <1>3 DEF HitTake
  <1>4. ASSUME LineHigh \/ LineLow \/ LineGivesUp \/ BusyPoll PROVE Still
    BY <1>4 DEF LineHigh, LineLow, LineGivesUp, BusyPoll
  <1>5. ASSUME StatusDone \/ TakeData \/ WriteDone PROVE Still
    BY <1>5 DEF StatusDone, TakeData, WriteDone
  <1>6. ASSUME StreamStatus \/ StreamData PROVE Still
    BY <1>6 DEF StreamStatus, StreamData
  <1>7. ASSUME RoomMade, fault PROVE Still
    <2>1. UNCHANGED <<pf, host, port, wire, past, mine, due>>
      BY <1>7 DEF RoomMade
    <2>2. EngineStays /\ Elsewhere
      BY <1>7 DEF RoomMade
    <2>3. QED
      BY <2>1, <2>2 DEF host
  <1>8. ASSUME Return PROVE Still
    <2>1. fault \in BOOLEAN
      BY DEF BaseInv, Shapes
    <2>2. fault' \in {fault, FALSE} /\ pc' = "idle"
      BY <1>8, <2>1 DEF Return
    <2>3. NoStrobe /\ UNCHANGED <<menu, ai_ok, other, bounds, cmds, eng, rdata, pfRun, pfA, mem, pend>>
      BY <1>8 DEF Return
    <2>4. QED
      BY <2>2, <2>3 DEF bounds
  <1> HIDE DEF Still
  <1>9. QED
    BY <1>1, <1>2, <1>3, <1>4, <1>5, <1>6, <1>7, <1>8 DEF QuietStep

\* Where they lead.
LEMMA QuietMoves ==
  ASSUME BaseInv, QuietStep
  PROVE  Ways' /\ pc' \in Places /\ (pc' # "idle" => call' \in Calls) /\ writes' \in Nat
  <1> DEFINE Goal == Ways' /\ pc' \in Places /\ (pc' # "idle" => call' \in Calls) /\ writes' \in Nat
  <1>0. /\ Ways /\ pc \in Places /\ (pc # "idle" => call \in Calls) /\ writes \in Nat /\ mode' = mode
    BY QuietStill DEF BaseInv, Shapes, Still
  <1>1. ASSUME NEW k \in menu.calls \cup {BootRead}, Begun(k) PROVE Goal
    <2>1. /\ pc = "idle" /\ call' = k /\ k \in Calls /\ reloaded' = FALSE
          /\ writes' \in {writes, writes + 1}
          /\ \/ k.op = "read" /\ pc' = "hit"
             \/ k.op = "write" /\ pc' = "room"
             \/ k.op = "iack" /\ pc' = "drain"
      BY <1>1, BeginsCall DEF Begun, Read, BusWrite, Iack, MayBegin
    <2>2. QED
      BY <1>0, <2>1 DEF Ways, Places, Awaiting, LineLooks
  <1>2. ASSUME HitCounts \/ HitTake PROVE Goal
    BY <1>0, <1>2 DEF HitCounts, HitTake, Elsewhere, Ways, Places, LineLooks
  <1>3. ASSUME LineHigh \/ LineLow \/ LineGivesUp \/ BusyPoll PROVE Goal
    BY <1>0, <1>3 DEF LineHigh, LineLow, LineGivesUp, BusyPoll, Elsewhere, Ways, Places, Awaiting, LineLooks
  <1>4. ASSUME StatusDone \/ TakeData \/ WriteDone PROVE Goal
    BY <1>0, <1>4 DEF StatusDone, TakeData, WriteDone, NotBusy, Elsewhere, Ways, Places, LineLooks
  <1>5. ASSUME StreamStatus \/ StreamData PROVE Goal
    BY <1>0, <1>5 DEF StreamStatus, StreamReady, NotBusy, StreamData, Elsewhere, Ways, Places, LineLooks
  <1>6. ASSUME RoomMade, fault PROVE Goal
    BY <1>0, <1>6 DEF RoomMade, NotBusy, Elsewhere, Ways, Places, LineLooks
  <1>7. ASSUME Return PROVE Goal
    BY <1>0, <1>7 DEF Return, Ways, Places, LineLooks, bounds
  <1>8. QED
    BY <1>1, <1>2, <1>3, <1>4, <1>5, <1>6, <1>7 DEF QuietStep

\* The images.
LEMMA ImagesKept ==
  ASSUME ImageInv, UNCHANGED <<port, mode, ai_ok, lastCtrl, lastData, wr>>
  PROVE  ImageInv'
  BY DEF ImageInv, Ports, CtrlImage, DataImage, StepImage, AiOnly, AiOn, AiWrite, Address

\* A step takes a word from the FIFO, or leaves it alone.
LEMMA QuietFifo == ASSUME QuietStep PROVE pfFifo' \in {pfFifo, Popped}
  <1> USE DEF EngineStays, engine
  <1>1. ASSUME NEW k, Begun(k) PROVE pfFifo' = pfFifo
    BY <1>1 DEF Begun, Read, BusWrite, Iack, MayBegin
  <1>2. ASSUME HitCounts \/ LineHigh \/ LineLow \/ LineGivesUp \/ BusyPoll PROVE pfFifo' = pfFifo
    BY <1>2 DEF HitCounts, LineHigh, LineLow, LineGivesUp, BusyPoll
  <1>3. ASSUME StatusDone \/ WriteDone \/ StreamStatus PROVE pfFifo' = pfFifo
    BY <1>3 DEF StatusDone, WriteDone, StreamStatus
  <1>4. ASSUME RoomMade \/ Return PROVE pfFifo' = pfFifo
    BY <1>4 DEF RoomMade, Return
  <1>5. ASSUME HitTake \/ TakeData \/ StreamData PROVE pfFifo' = Popped
    BY <1>5 DEF HitTake, TakeData, StreamData, TakeWord
  <1>6. QED
    BY <1>1, <1>2, <1>3, <1>4, <1>5 DEF QuietStep

LEMMA QuietBase == ASSUME BaseInv, QuietStep PROVE BaseInv'
  <1>1. ImageInv'
    BY QuietStill, ImagesKept DEF BaseInv, Still
  <1>2. Shapes'
    <2>1. menu' \in Menus /\ pc' \in Places /\ (pc' # "idle" => call' \in Calls) /\ writes' \in Nat
      BY QuietStill, QuietMoves DEF BaseInv, Shapes, Still
    <2>2. /\ cmds' \in Seq(Commands) /\ wire' \in Seq(Commands) /\ due' \in Seq(Asked)
          /\ pend' \in BOOLEAN /\ other' \in BOOLEAN /\ pfSeq' \in 0..2 /\ foreign' \in Nat
          /\ pfRun' \in BOOLEAN /\ (pfRun' = TRUE => pfA' \in Words)
      <3>1. UNCHANGED <<cmds, wire, due, pend, other, pfSeq, foreign, pfRun, pfA>>
        BY QuietStill DEF Still
      <3>2. QED
        BY <3>1 DEF BaseInv, Shapes
    <2>3. Cycle(eng')
      BY QuietStill DEF BaseInv, Shapes, Still
    <2>4. fault' \in BOOLEAN /\ mine' \in BOOLEAN
      BY QuietStill DEF BaseInv, Shapes, Still
    <2>5. QED
      BY <2>1, <2>2, <2>3, <2>4 DEF Shapes
  <1>3. DataShapes'
    <2>1. mem \in [Words -> Pairs] /\ pfFifo \in Seq(Pairs) /\ mem' = mem
      BY QuietStill DEF BaseInv, DataShapes, Still
    <2>2. pfFifo' \in {pfFifo, Popped}
      BY QuietFifo
    <2>3. Popped \in Seq(Pairs)
      BY <2>1 DEF Popped
    <2>4. QED
      BY <2>1, <2>2, <2>3 DEF DataShapes
  <1>4. QED
    BY <1>1, <1>2, <1>3, QuietMoves DEF BaseInv

LEMMA GivesBase == ASSUME BaseInv, NEW c, Gives(c) PROVE BaseInv'
  <1>1. AskedBy(c) \in Asked
    BY DEF Gives, Commands, Asked, AskedBy
  <1>2. wire' \in Seq(Commands) /\ due' \in Seq(Asked)
    BY <1>1 DEF Gives, BaseInv, Shapes
  <1>3. pc' \in Places /\ (pc' # "idle" => call' \in Calls) /\ mine' = FALSE
    BY DEF Gives, Places, Awaiting, Fresh
  <1>4. Shapes'
    BY <1>2, <1>3 DEF Gives, BaseInv, Shapes
  <1>5. DataShapes'
    BY DEF Gives, BaseInv, DataShapes
  <1>6. QED
    BY <1>4, <1>5 DEF Gives, BaseInv

\* Between two calls.
LEMMA ModesFrame ==
  ASSUME Modes
  PROVE  /\ pc = "idle" /\ pc' = "idle" /\ reloaded = FALSE
         /\ UNCHANGED <<menu, call, res, st, pfSeq, pfLast, posted, wire, other, past, mine, writes, foreign, mem>>
         /\ pf' \in {pf, NoImage}
         /\ \/ hw_reinit
            \/ /\ UNCHANGED <<cmds, eng, rdata, pfFifo, pfRun, pfA, pend, due, reloaded>>
               /\ fault' \in {fault, FALSE}
  <1> USE DEF MaySet, SetUnchanged, EngineStays, engine
  <1>1. ASSUME NEW on \in BOOLEAN, hw_set_autostart(on) \/ hw_set_busy_irq(on)
        PROVE  /\ pc = "idle" /\ pc' = "idle" /\ reloaded = FALSE
               /\ UNCHANGED <<menu, call, res, st, pfSeq, pfLast, posted, wire, other, past, mine, writes, foreign, mem>>
               /\ pf' = pf
               /\ UNCHANGED <<cmds, eng, rdata, pfFifo, pfRun, pfA, pend, due, reloaded, fault>>
    BY <1>1 DEF hw_set_autostart, hw_set_busy_irq
  <1>2. ASSUME NEW on \in BOOLEAN, hw_set_wr_ai(on) \/ vmpu68_pf_enable(on)
        PROVE  /\ pc = "idle" /\ pc' = "idle" /\ reloaded = FALSE
               /\ UNCHANGED <<menu, call, res, st, pfSeq, pfLast, posted, wire, other, past, mine, writes, foreign, mem>>
               /\ pf' \in {pf, NoImage}
               /\ UNCHANGED <<cmds, eng, rdata, pfFifo, pfRun, pfA, pend, due, reloaded, fault>>
    BY <1>2 DEF hw_set_wr_ai, vmpu68_pf_enable
  <1>3. ASSUME hw_clear_fault
        PROVE  /\ pc = "idle" /\ pc' = "idle" /\ reloaded = FALSE
               /\ UNCHANGED <<menu, call, res, st, pfSeq, pfLast, posted, wire, other, past, mine, writes, foreign, mem>>
               /\ pf' = pf /\ fault' = FALSE
               /\ UNCHANGED <<cmds, eng, rdata, pfFifo, pfRun, pfA, pend, due, reloaded>>
    BY <1>3 DEF hw_clear_fault
  <1>4. ASSUME hw_reinit
        PROVE  /\ pc = "idle" /\ pc' = "idle" /\ reloaded = FALSE
               /\ UNCHANGED <<menu, call, res, st, pfSeq, pfLast, posted, wire, other, past, mine, writes, foreign, mem>>
               /\ pf' = pf
    BY <1>4 DEF hw_reinit
  <1>5. QED
    BY <1>1, <1>2, <1>3, <1>4 DEF Modes

LEMMA ModesImages == ASSUME ImageInv, ~LateModes, Modes PROVE ImageInv'
  <1>0. /\ port \in PortRecords /\ mode \in ModeRecords /\ ai_ok \in BOOLEAN
        /\ port.auto = mode.auto /\ port.busyIrq = mode.bi /\ (mode.ai => ai_ok)
        /\ CtrlImage /\ DataImage /\ StepImage /\ AiOnly
    BY DEF ImageInv, Ports
  <1>1. ASSUME NEW on \in BOOLEAN, hw_set_autostart(on) PROVE ImageInv'
    <2>1. /\ port' = [port EXCEPT !.auto = on] /\ mode' = [mode EXCEPT !.auto = on]
          /\ lastCtrl' = NoImage /\ UNCHANGED <<lastData, wr, ai_ok>> /\ (on \/ ~AiWrite(port))
      BY <1>1 DEF hw_set_autostart, Calm
    <2>2. /\ port'.ctrl = port.ctrl /\ port'.lo = port.lo /\ port'.data = port.data /\ port'.auto = on
          /\ port'.busyIrq = port.busyIrq /\ port' \in PortRecords
      BY <1>0, <2>1 DEF PortRecords
    <2>3. mode'.auto = on /\ mode'.bi = mode.bi /\ mode'.ai = mode.ai /\ mode' \in ModeRecords
      BY <1>0, <2>1 DEF ModeRecords
    <2>4. Ports'
      BY <1>0, <2>1, <2>2, <2>3 DEF Ports
    <2>5. CtrlImage' /\ DataImage' /\ StepImage'
      BY <1>0, <2>1, <2>2, <2>3 DEF CtrlImage, DataImage, StepImage, Address
    <2>6. AiOnly'
      BY <1>0, <2>1, <2>2, <2>3 DEF AiOnly, AiOn, AiWrite
    <2>7. QED
      BY <2>4, <2>5, <2>6 DEF ImageInv
  <1>2. ASSUME NEW on \in BOOLEAN, hw_set_busy_irq(on) PROVE ImageInv'
    <2>1. /\ port' = [port EXCEPT !.busyIrq = on] /\ mode' = [mode EXCEPT !.bi = on]
          /\ lastCtrl' = NoImage /\ UNCHANGED <<lastData, wr, ai_ok>>
      BY <1>2 DEF hw_set_busy_irq
    <2>2. /\ port'.ctrl = port.ctrl /\ port'.lo = port.lo /\ port'.data = port.data /\ port'.auto = port.auto
          /\ port'.busyIrq = on /\ port' \in PortRecords
      BY <1>0, <2>1 DEF PortRecords
    <2>3. mode'.auto = mode.auto /\ mode'.bi = on /\ mode'.ai = mode.ai /\ mode' \in ModeRecords
      BY <1>0, <2>1 DEF ModeRecords
    <2>4. Ports'
      BY <1>0, <2>1, <2>2, <2>3 DEF Ports
    <2>5. CtrlImage' /\ DataImage' /\ StepImage'
      BY <1>0, <2>1, <2>2, <2>3 DEF CtrlImage, DataImage, StepImage, Address
    <2>6. AiOnly'
      BY <1>0, <2>1, <2>2, <2>3 DEF AiOnly, AiOn, AiWrite
    <2>7. QED
      BY <2>4, <2>5, <2>6 DEF ImageInv
  <1>3. ASSUME NEW on \in BOOLEAN, hw_set_wr_ai(on) PROVE ImageInv'
    <2>1. /\ mode' = [mode EXCEPT !.ai = on /\ ai_ok /\ mode.auto] /\ (on \/ ~AiWrite(port))
          /\ lastCtrl' = NoImage /\ wr' = NoImage /\ UNCHANGED <<lastData, port, ai_ok>>
      BY <1>3 DEF hw_set_wr_ai, Calm
    <2>2. mode.auto \in BOOLEAN /\ (on /\ ai_ok /\ mode.auto) \in BOOLEAN
      BY <1>0 DEF ModeRecords
    <2>3. /\ mode'.auto = mode.auto /\ mode'.bi = mode.bi /\ mode'.ai = (on /\ ai_ok /\ mode.auto)
          /\ mode' \in ModeRecords
      BY <1>0, <2>1, <2>2 DEF ModeRecords
    <2>4. Ports'
      BY <1>0, <2>1, <2>3 DEF Ports
    <2>5. CtrlImage' /\ DataImage' /\ StepImage'
      BY <1>0, <2>1, <2>3 DEF CtrlImage, DataImage, StepImage
    <2>6. AiOnly'
      BY <1>0, <2>1, <2>3 DEF AiOnly, AiOn, AiWrite
    <2>7. QED
      BY <2>4, <2>5, <2>6 DEF ImageInv
  <1>4. ASSUME NEW on \in BOOLEAN, vmpu68_pf_enable(on) PROVE ImageInv'
    <2>1. mode' = [mode EXCEPT !.pf = on] /\ UNCHANGED <<lastCtrl, lastData, wr, port, ai_ok>>
      BY <1>4 DEF vmpu68_pf_enable
    <2>2. mode'.auto = mode.auto /\ mode'.bi = mode.bi /\ mode'.ai = mode.ai /\ mode' \in ModeRecords
      BY <1>0, <2>1 DEF ModeRecords
    <2>3. QED
      BY <1>0, <2>1, <2>2 DEF ImageInv, Ports, CtrlImage, DataImage, StepImage, AiOnly, AiOn, AiWrite, Address
  <1>5. ASSUME hw_clear_fault PROVE ImageInv'
    BY <1>5, ImagesKept DEF hw_clear_fault
  <1>6. ASSUME hw_reinit PROVE ImageInv'
    <2>1. /\ mode' = [mode EXCEPT !.ai = mode.ai /\ ai_ok' /\ mode.auto] /\ ai_ok' \in BOOLEAN
          /\ port' = [ctrl |-> NoCtrl, lo |-> 0, data |-> 0, auto |-> mode.auto, busyIrq |-> mode.bi]
          /\ lastCtrl' = NoImage /\ lastData' = NoData /\ wr' = NoImage
      BY <1>6 DEF hw_reinit
    <2>2. mode.auto \in BOOLEAN /\ mode.bi \in BOOLEAN /\ (mode.ai /\ ai_ok' /\ mode.auto) \in BOOLEAN
      BY <1>0 DEF ModeRecords
    <2>3. /\ mode'.auto = mode.auto /\ mode'.bi = mode.bi /\ mode'.ai = (mode.ai /\ ai_ok' /\ mode.auto)
          /\ mode' \in ModeRecords
      BY <1>0, <2>1, <2>2 DEF ModeRecords
    <2>4. NoCtrl \in CtrlWords /\ ~NoCtrl.ai
      BY SpaceIs DEF NoCtrl, Ctrl, CtrlWords, Sizes
    <2>5. /\ port' \in PortRecords /\ port'.auto = mode.auto /\ port'.busyIrq = mode.bi /\ port'.ctrl = NoCtrl
      BY <2>1, <2>2, <2>4, SpaceIs DEF PortRecords
    <2>6. Ports'
      BY <2>1, <2>3, <2>5 DEF Ports
    <2>7. CtrlImage' /\ DataImage' /\ StepImage' /\ AiOnly'
      BY <2>1, <2>4, <2>5 DEF CtrlImage, DataImage, StepImage, AiOnly, AiWrite
    <2>8. QED
      BY <2>6, <2>7 DEF ImageInv
  <1>7. QED
    BY <1>1, <1>2, <1>3, <1>4, <1>5, <1>6 DEF Modes

LEMMA ModesBase == ASSUME BaseInv, ~LateModes, Modes PROVE BaseInv'
  <1>1. ImageInv'
    BY ModesImages DEF BaseInv
  <1>2. Ways'
    BY ModesFrame DEF Ways, LineLooks
  <1>3. /\ pc = "idle" /\ pc' = "idle"
        /\ UNCHANGED <<menu, call, pfSeq, wire, other, mine, writes, foreign>>
    BY ModesFrame
  <1>4. Shapes'
    <2>1. CASE hw_reinit
      <3>1. /\ cmds' = <<>> /\ eng' = NoCycle /\ due' = <<>> /\ pend' = FALSE /\ fault' = FALSE /\ pfRun' = FALSE
        BY <2>1 DEF hw_reinit
      <3>2. pfRun' \in BOOLEAN /\ pfRun' # TRUE
        BY <3>1
      <3>3. Cycle(eng')
        BY <3>1, Cycles
      <3>4. cmds' \in Seq(Commands) /\ due' \in Seq(Asked)
        <4>1. cmds' = <<>> /\ due' = <<>>
          BY <3>1
        <4>2. QED
          BY <4>1
      <3>5. pend' \in BOOLEAN /\ fault' \in BOOLEAN
        BY <3>1
      <3>6. QED
        BY <1>3, <3>2, <3>3, <3>4, <3>5 DEF BaseInv, Shapes
    <2>2. CASE ~hw_reinit
      <3>1. UNCHANGED <<cmds, eng, pfRun, pfA, pend, due>> /\ fault' \in {fault, FALSE}
        BY <2>2, ModesFrame
      <3>2. QED
        BY <1>3, <3>1 DEF BaseInv, Shapes
    <2>3. QED
      BY <2>1, <2>2
  <1>5. DataShapes'
    <2>1. mem' = mem /\ pfFifo' \in {pfFifo, <<>>}
      BY ModesFrame DEF hw_reinit
    <2>2. mem \in [Words -> Pairs] /\ pfFifo \in Seq(Pairs) /\ <<>> \in Seq(Pairs)
      BY DEF BaseInv, DataShapes
    <2>3. pfFifo' \in Seq(Pairs)
      BY <2>1, <2>2
    <2>4. QED
      BY <2>1, <2>2, <2>3 DEF DataShapes
  <1>6. QED
    BY <1>1, <1>2, <1>4, <1>5 DEF BaseInv

\* The FPGA leaves the host alone.
LEMMA MachineFrame ==
  ASSUME Machine
  PROVE  UNCHANGED <<menu, pc, call, res, st, mode, lastCtrl, lastData, wr, pf, pfSeq, pfLast, posted,
                     port, ai_ok, writes, reloaded>>
  <1>1. AtHost
    BY DEF Machine, Land, dispatch, FetchAhead, CycleEnds, Foreign, Request
  <1>2. QED
    BY <1>1 DEF AtHost, host

LEMMA StoredType ==
  ASSUME NEW w \in Pairs, NEW a \in Addrs, NEW size, NEW d \in Int
  PROVE  Stored(w, a, size, d) \in Pairs
  BY DEF Stored, Pairs

\* The words a cycle may bring.
LEMMA CycleWord ==
  ASSUME BaseInv, eng.on
  PROVE  /\ Even(eng.c.addr) \in Words /\ mem[Even(eng.c.addr)] \in Pairs /\ Floating \in Pairs
         /\ Stored(mem[Even(eng.c.addr)], eng.c.addr, eng.c.size, eng.c.data) \in Pairs
  <1>1. eng.c.addr \in Addrs /\ eng.c.data \in Int
    BY DEF BaseInv, Shapes, Cycle, Commands
  <1>2. Even(eng.c.addr) \in Words
    BY <1>1, EvenIs
  <1>3. mem[Even(eng.c.addr)] \in Pairs
    BY <1>2 DEF BaseInv, DataShapes
  <1>4. QED
    BY <1>1, <1>2, <1>3, StoredType DEF Floating, Pairs

LEMMA MachineData == ASSUME BaseInv, Machine PROVE DataShapes'
  <1>0. mem \in [Words -> Pairs] /\ pfFifo \in Seq(Pairs)
    BY DEF BaseInv, DataShapes
  <1>1. ASSUME Land \/ FetchAhead \/ Request PROVE DataShapes'
    BY <1>0, <1>1 DEF Land, FetchAhead, Request, engine, DataShapes
  <1>2. ASSUME dispatch PROVE DataShapes'
    <2>1. mem' = mem /\ pfFifo' \in {pfFifo, <<>>}
      BY <1>2 DEF dispatch
    <2>2. <<>> \in Seq(Pairs)
      OBVIOUS
    <2>3. pfFifo' \in Seq(Pairs)
      BY <1>0, <2>1, <2>2
    <2>4. QED
      BY <1>0, <2>1, <2>3 DEF DataShapes
  <1>3. ASSUME NEW x \in {"dtack", "vector", "vpa", "none"}, CycleEnds(x) PROVE DataShapes'
    <2> DEFINE w == Even(eng.c.addr)
               s == Stored(mem[w], eng.c.addr, eng.c.size, eng.c.data)
               held == IF eng.c.fc = 7 \/ x = "none" THEN Floating ELSE mem[w]
    <2>1. eng.on
      BY <1>3 DEF CycleEnds
    <2>2. w \in Words /\ held \in Pairs /\ s \in Pairs
      BY <2>1, CycleWord
    <2>3. mem' \in {mem, [mem EXCEPT ![w] = s]} /\ pfFifo' \in {pfFifo, Append(pfFifo, held)}
      BY <1>3 DEF CycleEnds
    <2> HIDE DEF w, s, held
    <2>4. [mem EXCEPT ![w] = s] \in [Words -> Pairs] /\ Append(pfFifo, held) \in Seq(Pairs)
      BY <1>0, <2>2
    <2>5. QED
      BY <1>0, <2>3, <2>4 DEF DataShapes
  <1>4. ASSUME NEW w \in menu.shared, Foreign(w) PROVE DataShapes'
    <2>1. /\ pfFifo' = pfFifo
          /\ mem' = [mem EXCEPT ![w] = <<0 - 10 - foreign, 0 - 10 - foreign>>]
      BY <1>4 DEF Foreign
    <2>2. <<0 - 10 - foreign, 0 - 10 - foreign>> \in Pairs
      BY DEF BaseInv, Shapes, Pairs
    <2>3. mem' \in [Words -> Pairs]
      BY <1>0, <2>1, <2>2
    <2>4. QED
      BY <1>0, <2>1, <2>3 DEF DataShapes
  <1>5. QED
    BY <1>1, <1>2, <1>3, <1>4 DEF Machine

LEMMA MachineBase == ASSUME BaseInv, Machine PROVE BaseInv'
  <1>0. /\ UNCHANGED <<menu, pc, call, pfSeq, writes>> /\ Shapes
        /\ UNCHANGED <<port, mode, ai_ok, lastCtrl, lastData, wr>>
    BY MachineFrame DEF BaseInv
  <1>1. ImageInv' /\ Ways'
    BY MachineFrame, ImagesKept DEF BaseInv, Ways
  <1>2. ASSUME Land PROVE Shapes'
    <2>1. /\ wire # <<>> /\ cmds' = Append(cmds, Head(wire)) /\ wire' = Tail(wire)
          /\ pend' = (pend \/ Head(wire).wt)
          /\ UNCHANGED <<eng, pfRun, pfA, fault, other, due, mine, foreign>>
      BY <1>2 DEF Land
    <2>2. wire \in Seq(Commands) /\ cmds \in Seq(Commands)
      BY <1>0 DEF Shapes
    <2>3. Head(wire) \in Commands /\ cmds' \in Seq(Commands) /\ wire' \in Seq(Commands)
      BY <2>1, <2>2
    <2>4. pend' \in BOOLEAN
      BY <2>1
    <2>5. QED
      BY <1>0, <2>1, <2>3, <2>4 DEF Shapes
  <1>3. ASSUME dispatch PROVE Shapes'
    <2>1. /\ ~eng.on /\ cmds # <<>> /\ cmds' = Tail(cmds)
          /\ UNCHANGED <<pfA, fault, wire, other, due, mine, foreign>>
          /\ \/ eng' = eng /\ pfRun' = pfRun /\ pend' = StillPending
             \/ /\ eng' = [on |-> TRUE, spec |-> FALSE, c |-> Head(cmds)] /\ ~Consumed(Head(cmds))
                /\ pfRun' = FALSE /\ pend' = pend
      BY <1>3 DEF dispatch
    <2>2. Head(cmds) \in Commands /\ cmds' \in Seq(Commands) /\ wire' \in Seq(Commands)
      BY <1>0, <2>1 DEF Shapes
    <2>3. pend' \in BOOLEAN
      BY <1>0, <2>1 DEF StillPending, Shapes
    <2>4. Cycle(eng')
      BY <1>0, <2>1, <2>2, Cycles DEF Shapes
    <2>5. pfRun' \in BOOLEAN /\ (pfRun' = TRUE => pfA' \in Words)
      <3>1. pfRun' \in {pfRun, FALSE} /\ pfA' = pfA
        BY <1>3 DEF dispatch
      <3>2. QED
        BY <1>0, <3>1 DEF Shapes
    <2>6. QED
      BY <1>0, <2>1, <2>2, <2>3, <2>4, <2>5 DEF Shapes
  <1>4. ASSUME FetchAhead PROVE Shapes'
    <2> DEFINE c == [Command(port) EXCEPT !.rw = TRUE, !.addr = pfA, !.size = 2, !.pf = FALSE, !.fc = 5]
    <2>1. /\ pfRun /\ eng' = [on |-> TRUE, spec |-> TRUE, c |-> c]
          /\ UNCHANGED <<cmds, pfRun, pfA, fault, pend, wire, other, due, mine, foreign>>
      BY <1>4 DEF FetchAhead
    <2>2. c \in Commands /\ AheadRead(c)
      <3>1. pfA \in Addrs
        BY <1>0, <2>1 DEF Shapes, Words
      <3>2. Command(port) \in Commands
        <4>1. port \in PortRecords /\ Address(port) \in Addrs
          BY Addressed DEF BaseInv, ImageInv, Ports
        <4>2. QED
          BY <4>1 DEF Command, Commands, PortRecords, CtrlWords
      <3>3. c \in Commands
        BY <3>1, <3>2 DEF Commands, Sizes
      <3>4. c.rw = TRUE /\ c.pf = FALSE /\ c.fc = 5
        BY DEF Command
      <3>5. QED
        BY <3>3, <3>4 DEF AheadRead
    <2> HIDE DEF c
    <2>3. QED
      BY <1>0, <2>1, <2>2, Cycles DEF Shapes
  <1>5. ASSUME NEW x \in {"dtack", "vector", "vpa", "none"}, CycleEnds(x) PROVE Shapes'
    <2> DEFINE w == Even(eng.c.addr)
    <2>1. /\ eng.on /\ eng' = NoCycle /\ UNCHANGED <<cmds, wire, other, foreign>>
          /\ fault' = (fault \/ (x = "none" /\ ~eng.spec)) /\ mine' = (mine \/ (x = "none" /\ Awaited))
          /\ pend' = StillPending /\ due' \in {due, Tail(due)} /\ (due = <<>> => due' = due)
      BY <1>5 DEF CycleEnds
    <2>2. /\ pfRun' \in BOOLEAN
          /\ \/ pfRun' = pfRun /\ pfA' = pfA
             \/ (pfRun' => Lo(w) + 2 # Block) /\ pfA' = w + 2
      BY <1>0, <1>5 DEF CycleEnds, Shapes
    <2>3. w \in Words
      BY <1>0, <2>1, EvenIs DEF Shapes, Commands, Cycle
    <2>4. pfRun' = TRUE => pfA' \in Words
      BY <1>0, <2>2, <2>3, NextWord DEF Shapes
    <2>5. due' \in Seq(Asked)
      <3>1. due \in Seq(Asked)
        BY <1>0 DEF Shapes
      <3>2. CASE due = <<>>
        BY <2>1, <3>1, <3>2
      <3>3. CASE due # <<>>
        <4>1. Tail(due) \in Seq(Asked)
          BY <3>1, <3>3
        <4>2. QED
          BY <2>1, <3>1, <4>1
      <3>4. QED
        BY <3>2, <3>3
    <2>6. pend' \in BOOLEAN /\ fault' \in BOOLEAN /\ mine' \in BOOLEAN
      BY <2>1 DEF StillPending
    <2>7. QED
      BY <1>0, <2>1, <2>2, <2>4, <2>5, <2>6, Cycles DEF Shapes
  <1>6. ASSUME NEW w, Foreign(w) PROVE Shapes'
    <2>1. /\ UNCHANGED <<cmds, eng, pfA, fault, pend, wire, other, due, mine>>
          /\ pfRun' = FALSE /\ foreign' = foreign + 1
      BY <1>6 DEF Foreign
    <2>2. pfRun' \in BOOLEAN /\ pfRun' # TRUE
      BY <2>1
    <2>3. foreign' \in Nat /\ Cycle(eng')
      BY <1>0, <2>1 DEF Shapes
    <2>4. UNCHANGED <<cmds, fault, pend, wire, other, due, mine>>
      BY <2>1
    <2>5. QED
      BY <1>0, <2>2, <2>3, <2>4 DEF Shapes
  <1>7. ASSUME Request PROVE Shapes'
    <2>1. /\ UNCHANGED <<cmds, eng, pfRun, pfA, fault, pend, wire, due, mine, foreign>> /\ other' = ~other
      BY <1>7 DEF Request, engine
    <2>2. QED
      BY <1>0, <2>1 DEF Shapes
  <1>8. QED
    BY <1>1, <1>2, <1>3, <1>4, <1>5, <1>6, <1>7, MachineData DEF Machine, BaseInv

LEMMA InitBase == ASSUME Init PROVE BaseInv
  <1>1. /\ port = [ctrl |-> NoCtrl, lo |-> 0, data |-> 0, auto |-> TRUE, busyIrq |-> TRUE]
        /\ mode = [auto |-> TRUE, bi |-> TRUE, ai |-> TRUE, pf |-> TRUE] /\ ai_ok = TRUE
        /\ lastCtrl = NoImage /\ lastData = NoData /\ wr = NoImage
    BY DEF Init
  <1>2. NoCtrl \in CtrlWords /\ ~NoCtrl.ai
    BY SpaceIs DEF NoCtrl, Ctrl, CtrlWords, Sizes
  <1>3. Ports
    BY <1>1, <1>2, SpaceIs DEF Ports, PortRecords, ModeRecords
  <1>4. ImageInv
    BY <1>1, <1>2, <1>3 DEF ImageInv, CtrlImage, DataImage, StepImage, AiOnly, AiWrite
  <1>5. Shapes
    <2>1. cmds \in Seq(Commands) /\ wire \in Seq(Commands) /\ due \in Seq(Asked)
      BY DEF Init
    <2>2. menu \in Menus /\ pc = "idle" /\ eng = NoCycle /\ "idle" \in Places
      BY DEF Init, Places
    <2>3. /\ pend = FALSE /\ fault = FALSE /\ other = FALSE /\ mine = FALSE /\ pfRun = FALSE
          /\ pfSeq = 0 /\ writes = 0 /\ foreign = 0
      BY DEF Init
    <2>4. /\ pend \in BOOLEAN /\ fault \in BOOLEAN /\ other \in BOOLEAN /\ mine \in BOOLEAN
          /\ pfRun \in BOOLEAN /\ pfRun # TRUE /\ Cycle(eng) /\ menu \in Menus /\ pc \in Places
      BY <2>2, <2>3, Cycles
    <2>5. pfSeq \in 0..2 /\ writes \in Nat /\ foreign \in Nat /\ pc = "idle"
      BY <2>2, <2>3
    <2>6. QED
      BY <2>1, <2>4, <2>5 DEF Shapes
  <1>6. Ways
    BY DEF Init, Ways, LineLooks
  <1>7. DataShapes
    <2>1. \A w \in Words : <<0 - 100 - w, 0 - 100 - w>> \in Pairs
      BY SpaceIs DEF Words, Pairs
    <2>2. QED
      BY <2>1 DEF Init, DataShapes
  <1>8. QED
    BY <1>4, <1>5, <1>6, <1>7 DEF BaseInv

\* How a step of the queue changes the commands on their way.
LEMMA UnderwayType == ASSUME BaseInv PROVE Underway \in Seq(Commands)
  <1>1. cmds \in Seq(Commands) /\ wire \in Seq(Commands)
    BY DEF BaseInv, Shapes
  <1>2. (IF eng.on /\ ~eng.spec THEN <<eng.c>> ELSE <<>>) \in Seq(Commands)
    BY DEF BaseInv, Shapes, Cycle
  <1> DEFINE x == IF eng.on /\ ~eng.spec THEN <<eng.c>> ELSE <<>>
  <1> HIDE DEF x
  <1>3. x \o cmds \o wire \in Seq(Commands)
    BY <1>1, <1>2 DEF x
  <1>4. QED
    BY <1>3 DEF Underway, x

LEMMA UnderwaySame == ASSUME UNCHANGED <<eng, cmds, wire>> PROVE Underway' = Underway
  BY DEF Underway

LEMMA UnderwayGrows ==
  ASSUME BaseInv, NEW c \in Commands, wire' = Append(wire, c), UNCHANGED <<cmds, eng>>
  PROVE  Underway' = Append(Underway, c)
  <1> DEFINE x == IF eng.on /\ ~eng.spec THEN <<eng.c>> ELSE <<>>
  <1>1. cmds \in Seq(Commands) /\ wire \in Seq(Commands)
    BY DEF BaseInv, Shapes
  <1>2. x \in Seq(Commands)
    BY DEF BaseInv, Shapes, Cycle
  <1>3. Underway' = x \o cmds \o Append(wire, c) /\ Underway = x \o cmds \o wire
    BY DEF Underway
  <1> HIDE DEF x
  <1> DEFINE y == x \o cmds
  <1>4. y \in Seq(Commands)
    BY <1>1, <1>2
  <1> HIDE DEF y
  <1>5. y \o Append(wire, c) = Append(y \o wire, c)
    BY <1>1, <1>4
  <1>6. QED
    BY <1>3, <1>5 DEF y

\* a command goes from the wire to the FIFO
LEMMA UnderwayLands ==
  ASSUME BaseInv, wire # <<>>, cmds' = Append(cmds, Head(wire)), wire' = Tail(wire), eng' = eng
  PROVE  Underway' = Underway
  <1> DEFINE x == IF eng.on /\ ~eng.spec THEN <<eng.c>> ELSE <<>>
  <1>1. cmds \in Seq(Commands) /\ wire \in Seq(Commands)
    BY DEF BaseInv, Shapes
  <1>2. x \in Seq(Commands)
    BY DEF BaseInv, Shapes, Cycle
  <1>3. Underway' = x \o Append(cmds, Head(wire)) \o Tail(wire) /\ Underway = x \o cmds \o wire
    BY DEF Underway
  <1> HIDE DEF x
  <1> DEFINE y == x \o cmds
  <1>4. y \in Seq(Commands) /\ Head(wire) \in Commands /\ Tail(wire) \in Seq(Commands)
    BY <1>1, <1>2
  <1>5. x \o Append(cmds, Head(wire)) = Append(y, Head(wire))
    BY <1>1, <1>2, <1>4
  <1> HIDE DEF y
  <1>6. Append(y, Head(wire)) \o Tail(wire) = y \o wire
    BY <1>1, <1>4
  <1>7. QED
    BY <1>3, <1>5, <1>6 DEF y

\* a command goes from the FIFO to the bus
LEMMA UnderwayStarts ==
  ASSUME BaseInv, ~eng.on, cmds # <<>>, cmds' = Tail(cmds), wire' = wire,
         eng' = [on |-> TRUE, spec |-> FALSE, c |-> Head(cmds)]
  PROVE  Underway' = Underway
  <1>1. cmds \in Seq(Commands) /\ wire \in Seq(Commands)
    BY DEF BaseInv, Shapes
  <1>2. Underway' = <<Head(cmds)>> \o Tail(cmds) \o wire /\ Underway = <<>> \o cmds \o wire
    BY DEF Underway
  <1>3. <<Head(cmds)>> \o Tail(cmds) = cmds /\ <<>> \o cmds = cmds
    BY <1>1
  <1>4. QED
    BY <1>2, <1>3

\* a command that runs no cycle leaves the FIFO
LEMMA UnderwayConsumes ==
  ASSUME BaseInv, ~eng.on, cmds # <<>>, cmds' = Tail(cmds), wire' = wire, eng' = eng
  PROVE  Underway # <<>> /\ Head(Underway) = Head(cmds) /\ Underway' = Tail(Underway)
  <1>1. cmds \in Seq(Commands) /\ wire \in Seq(Commands)
    BY DEF BaseInv, Shapes
  <1>2. Underway' = <<>> \o Tail(cmds) \o wire /\ Underway = <<>> \o cmds \o wire
    BY DEF Underway
  <1>3. <<>> \o Tail(cmds) = Tail(cmds) /\ <<>> \o cmds = cmds
    BY <1>1
  <1>4. cmds \o wire # <<>> /\ Head(cmds \o wire) = Head(cmds) /\ Tail(cmds \o wire) = Tail(cmds) \o wire
    BY <1>1
  <1>5. QED
    BY <1>2, <1>3, <1>4

\* a command leaves the bus
LEMMA UnderwayEnds ==
  ASSUME BaseInv, eng.on, ~eng.spec, eng' = NoCycle, UNCHANGED <<cmds, wire>>
  PROVE  Underway # <<>> /\ Head(Underway) = eng.c /\ Underway' = Tail(Underway)
  <1>1. cmds \in Seq(Commands) /\ wire \in Seq(Commands) /\ eng.c \in Commands
    BY DEF BaseInv, Shapes, Cycle
  <1>2. Underway' = <<>> \o cmds \o wire /\ Underway = <<eng.c>> \o cmds \o wire
    BY DEF Underway, NoCycle
  <1> DEFINE y == cmds \o wire
  <1>3. y \in Seq(Commands) /\ <<>> \o cmds \o wire = y /\ <<eng.c>> \o cmds \o wire = <<eng.c>> \o y
    BY <1>1
  <1> HIDE DEF y
  <1>4. <<eng.c>> \o y # <<>> /\ Head(<<eng.c>> \o y) = eng.c /\ Tail(<<eng.c>> \o y) = y
    BY <1>1, <1>3
  <1>5. QED
    BY <1>2, <1>3, <1>4

LastOneOf(s) == s[Len(s)]

LEMMA UnderwayParts ==
  ASSUME BaseInv
  PROVE  /\ Underway = <<>> <=> ~Busy /\ wire = <<>>
         /\ wire # <<>> => LastOneOf(Underway) = LastOneOf(wire)
         /\ cmds = <<>> /\ wire = <<>> /\ eng.on /\ ~eng.spec => Underway = <<eng.c>>
         /\ cmds = <<>> /\ wire = <<>> /\ ~(eng.on /\ ~eng.spec) => Underway = <<>>
         /\ Len(cmds) + Len(wire) <= Len(Underway)
  <1> DEFINE x == IF eng.on /\ ~eng.spec THEN <<eng.c>> ELSE <<>>
  <1>1. cmds \in Seq(Commands) /\ wire \in Seq(Commands)
    BY DEF BaseInv, Shapes
  <1>2. x \in Seq(Commands) /\ (x = <<>> <=> ~(eng.on /\ ~eng.spec))
    BY DEF BaseInv, Shapes, Cycle
  <1>3. eng.on /\ ~eng.spec => x = <<eng.c>>
    OBVIOUS
  <1>4. Underway = x \o cmds \o wire
    BY DEF Underway
  <1> HIDE DEF x
  <1> DEFINE y == x \o cmds
  <1>5. y \in Seq(Commands) /\ Len(y) = Len(x) + Len(cmds) /\ (y = <<>> <=> x = <<>> /\ cmds = <<>>)
    BY <1>1, <1>2
  <1>6. cmds = <<>> => y = x
    BY <1>1, <1>2
  <1> HIDE DEF y
  <1>7. Len(y \o wire) = Len(y) + Len(wire) /\ (y \o wire = <<>> <=> y = <<>> /\ wire = <<>>)
    BY <1>1, <1>5
  <1>8. wire # <<>> => (y \o wire)[Len(y \o wire)] = wire[Len(wire)]
    BY <1>1, <1>5, <1>7
  <1>9. wire = <<>> => y \o wire = y
    BY <1>1, <1>5
  <1>10. Underway = y \o wire
    BY <1>4 DEF y
  <1>11. Underway = <<>> <=> ~Busy /\ wire = <<>>
    BY <1>2, <1>5, <1>7, <1>10 DEF Busy
  <1>12. Len(cmds) + Len(wire) <= Len(Underway)
    BY <1>1, <1>2, <1>5, <1>7, <1>10
  <1>13. QED
    BY <1>2, <1>3, <1>6, <1>8, <1>9, <1>10, <1>11, <1>12 DEF LastOneOf

\* Only the last command is waited for; the others are posted writes.
PostedOrder ==
    /\ \A i \in 1..Len(Underway) : i < Len(Underway) \/ pc \notin Awaiting => PostedWrite(Underway[i])
    /\ pc \in {"data", "pfdata"} => Underway = <<>>
    /\ pc = "ret" /\ call.op # "write" => Underway = <<>>
    /\ pc \in Awaiting /\ call.op = "iack" => Len(Underway) <= 1
LastWaited == pc \in Awaiting /\ Underway # <<>> => Expected(LastOneOf(Underway), call, pc)

\* The stream's mirror is trusted only while nothing is on its way.
Heads == [next : {n \in 2..(Top + 1) : n % 2 = 0}, have : Nat]
MirrorIdle ==
    /\ pf # NoImage => pf \in Heads /\ Underway = <<>>
    /\ pc \in Awaiting \cup {"data"} => pf = NoImage
    /\ pc \in {"hit", "pfdata"} => pf # NoImage

RoomInv ==
    /\ posted \in 0..PostedMax /\ Len(Underway) <= PostedMax + 1
    /\ pc \in {"idle", "ret"} => Len(Underway) <= posted
    /\ pc \in {"hit", "drain", "room"} => Len(Underway) <= PostedMax

\* One posted write or synchronous write for each that is due.
DueInv ==
    /\ Len(due) <= Len(Underway)
    /\ \A i \in 1..Len(due) : AsAsked(Underway[i], due[i])
    /\ \A i \in 1..Len(Underway) : IsWrite(Underway[i]) => i <= Len(due)

\* The line is high on account of the last command, once it has arrived.
LineInv ==
    /\ pend => wire = <<>> /\ Underway # <<>> /\ LastOneOf(Underway).wt
    /\ pc \in Awaiting /\ wire = <<>> /\ Underway # <<>> /\ LastOneOf(Underway).wt => pend
    /\ pc \in {"down", "holddown"} => wire = <<>> \/ other \/ fault

OrderInv == PostedOrder /\ LastWaited /\ MirrorIdle
QueueInv == OrderInv /\ RoomInv /\ DueInv /\ LineInv

LEMMA HeadsAreNot == \A h \in Heads : h # NoImage
  <1>1. \A h \in Heads : h = [next |-> h.next, have |-> h.have]
    BY DEF Heads
  <1>2. QED
    BY <1>1, Images

LEMMA GivesOrder ==
  ASSUME BaseInv, QueueInv, NEW c, Gives(c)
  PROVE  OrderInv'
  <1>1. /\ c \in Commands /\ Underway \in Seq(Commands) /\ Underway' = Append(Underway, c)
        /\ pc \in {"idle", "hit", "drain", "room"} /\ pc' \in Awaiting \cup {"ret"}
        /\ (pc' = "ret" => call'.op = "write" /\ PostedWrite(c)) /\ pf' = NoImage
        /\ (pc' \in Awaiting => Expected(c, call', pc'))
    BY UnderwayType, UnderwayGrows DEF Gives
  <1>2. \A i \in 1..Len(Underway) : PostedWrite(Underway[i])
    BY <1>1 DEF QueueInv, OrderInv, PostedOrder, Awaiting
  <1>3. \A i \in 1..Len(Underway') : i < Len(Underway') \/ pc' \notin Awaiting => PostedWrite(Underway'[i])
    BY <1>1, <1>2 DEF Awaiting
  <1>4. call'.op = "iack" => Len(Underway') <= 1
    <2>1. call'.op = "iack" => Underway = <<>>
      BY UnderwayParts DEF Gives
    <2>2. QED
      BY <1>1, <2>1
  <1>5. LastOneOf(Underway') = c
    BY <1>1 DEF LastOneOf
  <1>6. PostedOrder'
    BY <1>1, <1>3, <1>4 DEF PostedOrder, Awaiting
  <1>7. LastWaited'
    BY <1>1, <1>5 DEF LastWaited
  <1>8. MirrorIdle'
    BY <1>1 DEF MirrorIdle, Awaiting
  <1>9. QED
    BY <1>6, <1>7, <1>8 DEF OrderInv

LEMMA GivesRoom ==
  ASSUME BaseInv, QueueInv, NEW c, Gives(c)
  PROVE  RoomInv'
  <1>1. /\ c \in Commands /\ Underway \in Seq(Commands) /\ Underway' = Append(Underway, c)
        /\ pc \in {"idle", "hit", "drain", "room"} /\ pc' \in Awaiting \cup {"ret"}
    BY UnderwayType, UnderwayGrows DEF Gives
  <1>2. /\ posted \in 0..PostedMax /\ PostedMax \in Nat /\ PostedMax >= 1
        /\ (pc = "idle" => Len(Underway) <= posted)
        /\ (pc \in {"hit", "drain", "room"} => Len(Underway) <= PostedMax)
    BY BusPortAssumption DEF QueueInv, RoomInv
  <1>3. Len(Underway') = Len(Underway) + 1 /\ Len(Underway) \in Nat
    BY <1>1
  <1>4. pc = "room" => Len(Underway) = 0
    BY UnderwayParts DEF Gives
  <1>5. \/ pc' # "ret" /\ posted' \in {0, posted}
        \/ pc' = "ret" /\ pc = "idle" /\ posted < PostedMax /\ posted' = posted + 1
        \/ pc' = "ret" /\ pc = "room" /\ posted' = 1
    BY DEF Gives
  <1>6. QED
    BY <1>1, <1>2, <1>3, <1>4, <1>5 DEF RoomInv, Awaiting

LEMMA GivesDue ==
  ASSUME BaseInv, QueueInv, NEW c, Gives(c)
  PROVE  DueInv'
  <1>1. /\ c \in Commands /\ Underway \in Seq(Commands) /\ Underway' = Append(Underway, c)
        /\ pc \in {"idle", "hit", "drain", "room"} /\ due \in Seq(Asked)
        /\ due' = (IF IsWrite(c) THEN Append(due, AskedBy(c)) ELSE due)
    BY UnderwayType, UnderwayGrows DEF Gives, BaseInv, Shapes
  <1>2. \A i \in 1..Len(Underway) : IsWrite(Underway[i])
    BY <1>1 DEF QueueInv, OrderInv, PostedOrder, PostedWrite, Awaiting
  <1>3. Len(due) = Len(Underway)
    <2>1. Len(due) <= Len(Underway) /\ Len(due) \in Nat /\ Len(Underway) \in Nat
      BY <1>1 DEF QueueInv, DueInv
    <2>2. Len(Underway) # 0 => Len(Underway) <= Len(due)
      BY <1>2, <2>1 DEF QueueInv, DueInv
    <2>3. QED
      BY <2>1, <2>2
  <1>4. \A i \in 1..Len(due) : AsAsked(Underway[i], due[i])
    BY DEF QueueInv, DueInv
  <1>5. IsWrite(c) => AsAsked(c, AskedBy(c))
    BY DEF AsAsked, AskedBy
  <1>6. CASE IsWrite(c)
    <2>1. due' = Append(due, AskedBy(c))
      BY <1>1, <1>6
    <2>2. Len(due') = Len(Underway')
      BY <1>1, <1>3, <2>1
    <2>3. \A i \in 1..Len(due') : AsAsked(Underway'[i], due'[i])
      BY <1>1, <1>3, <1>4, <1>5, <1>6, <2>1
    <2>4. Len(Underway') \in Nat
      BY <1>1
    <2>5. QED
      BY <2>2, <2>3, <2>4 DEF DueInv
  <1>7. CASE ~IsWrite(c)
    <2>1. due' = due
      BY <1>1, <1>7
    <2>2. Len(Underway') = Len(Underway) + 1 /\ Len(Underway) \in Nat
      BY <1>1
    <2>3. \A i \in 1..Len(due') : AsAsked(Underway'[i], due'[i])
      BY <1>1, <1>3, <1>4, <2>1
    <2>4. \A i \in 1..Len(Underway') : IsWrite(Underway'[i]) => i <= Len(due')
      BY <1>1, <1>3, <1>7, <2>1, <2>2
    <2>5. QED
      BY <1>3, <2>1, <2>2, <2>3, <2>4 DEF DueInv
  <1>8. QED
    BY <1>6, <1>7

LEMMA GivesLine ==
  ASSUME BaseInv, QueueInv, NEW c, Gives(c)
  PROVE  LineInv'
  <1>1. /\ c \in Commands /\ wire \in Seq(Commands) /\ wire' = Append(wire, c) /\ pend' = pend
        /\ pc \in {"idle", "hit", "drain", "room"} /\ Underway \in Seq(Commands)
    BY UnderwayType DEF Gives, BaseInv, Shapes
  <1>2. wire' # <<>>
    BY <1>1
  <1>3. ~pend
    <2>1. SUFFICES ASSUME pend PROVE FALSE
      OBVIOUS
    <2>2. Underway # <<>> /\ LastOneOf(Underway).wt
      BY <2>1 DEF QueueInv, LineInv
    <2>3. Len(Underway) \in 1..Len(Underway)
      BY <1>1, <2>2
    <2>4. PostedWrite(Underway[Len(Underway)])
      BY <1>1, <2>3 DEF QueueInv, OrderInv, PostedOrder, Awaiting
    <2>5. QED
      BY <2>2, <2>4 DEF PostedWrite, LastOneOf
  <1>4. pc' \in {"down", "holddown"} => FALSE
    BY DEF Gives
  <1>5. QED
    BY <1>1, <1>2, <1>3, <1>4 DEF LineInv

\* What the steps that give no command ask and change, in a few words.
QuietWay ==
    \/ /\ pc = "idle" /\ pc' \in {"hit", "room", "drain"} /\ posted' = 0 /\ pf' = pf
       /\ pc' = "hit" => pf # NoImage
    \/ /\ pc = "hit" /\ pc' \in {"hit", "ret"} /\ posted' = posted /\ pf' \in Heads /\ call' = call
    \/ /\ pc \in LineLooks /\ posted' = posted /\ pf' = pf /\ call' = call
       /\ \/ pc = "up" /\ pc' = "down" /\ Line
          \/ pc = "holdup" /\ pc' = "holddown" /\ Line
          \/ pc \in {"down", "holddown"} /\ pc' = "ret" /\ ~Line
          \/ pc \in {"up", "down"} /\ pc' = "done" /\ wire = <<>>
          \/ pc \in {"holdup", "holddown"} /\ pc' = "status" /\ wire = <<>>
    \/ pc \in Places \ {"idle", "hit"} /\ pc' = pc /\ posted' = posted /\ pf' = pf /\ call' = call /\ pc # "pfdata"
    \/ /\ ~Busy /\ wire = <<>> /\ posted' = posted /\ call' = call
       /\ \/ pc = "status" /\ pc' = "data" /\ pf' = pf
          \/ pc \in {"done", "room"} /\ pc' = "ret" /\ pf' = pf
          \/ pc = "pfstatus" /\ pc' = "ret" /\ pf' = pf
          \/ pc = "pfstatus" /\ pc' = "pfdata" /\ pf' \in Heads
    \/ pc \in {"data", "pfdata"} /\ pc' = "ret" /\ posted' = posted /\ pf' = pf /\ call' = call
    \/ pc = "ret" /\ pc' = "idle" /\ posted' = posted /\ pf' = pf

\* The head that a word leaves behind it.
LEMMA NextHead ==
  ASSUME BaseInv, pc \in {"hit", "pfstatus"}, NEW n \in Nat
  PROVE  [next |-> call.addr + 2, have |-> n] \in Heads
  <1>1. call.addr \in Words
    BY DEF BaseInv, Shapes, Ways, Calls, Words
  <1>2. QED
    BY <1>1, NextWord DEF Heads

LEMMA CountType == ASSUME BaseInv PROVE Count \in Nat
  BY DEF BaseInv, DataShapes, Count, Smaller

LEMMA QuietWays == ASSUME BaseInv, MirrorIdle, QuietStep PROVE QuietWay
  <1>0. /\ pc = "hit" => pf # NoImage /\ pf \in Heads
        /\ pf \in Heads => pf.next \in 2..(Top + 1) /\ pf.have \in Nat
    BY DEF MirrorIdle, Heads
  <1>1. ASSUME NEW k \in menu.calls \cup {BootRead}, Begun(k) PROVE QuietWay
    <2>1. /\ pc = "idle" /\ pc' \in {"hit", "room", "drain"} /\ posted' = 0 /\ pf' = pf
          /\ pc' = "hit" => pf # NoImage
      BY <1>1 DEF Begun, Read, BusWrite, Iack, MayBegin, Hits
    <2>2. QED
      BY <2>1 DEF QuietWay
  <1>2. ASSUME HitCounts PROVE QuietWay
    <2>1. pf' = [pf EXCEPT !.have = Count] /\ pc = "hit" /\ pc' = "hit" /\ NoStrobe /\ call' = call
      BY <1>2 DEF HitCounts, Elsewhere
    <2>2. pf' \in Heads
      BY <1>0, <2>1, CountType DEF Heads
    <2>3. QED
      BY <2>1, <2>2 DEF QuietWay, NoStrobe
  <1>3. ASSUME HitTake PROVE QuietWay
    <2>1. pf' = [next |-> call.addr + 2, have |-> pf.have - 1] /\ pc = "hit" /\ pc' = "ret"
          /\ posted' = posted /\ call' = call
      BY <1>3 DEF HitTake, Elsewhere
    <2>2. pf.have > 0 /\ pf.have - 1 \in Nat
      BY <1>0, <1>3, <2>1 DEF HitTake
    <2>3. pf' \in Heads
      BY <2>1, <2>2, NextHead
    <2>4. QED
      BY <2>1, <2>3 DEF QuietWay
  <1>4. ASSUME LineHigh \/ LineLow \/ LineGivesUp PROVE QuietWay
    BY <1>4 DEF LineHigh, LineLow, LineGivesUp, NoStrobe, Elsewhere, QuietWay, LineLooks
  <1>5. ASSUME BusyPoll PROVE QuietWay
    BY <1>5 DEF BusyPoll, NoStrobe, Elsewhere, QuietWay, Places, Awaiting
  <1>6. ASSUME StatusDone \/ WriteDone PROVE QuietWay
    BY <1>6 DEF StatusDone, WriteDone, NotBusy, NoStrobe, Elsewhere, QuietWay
  <1>7. ASSUME TakeData \/ StreamData PROVE QuietWay
    BY <1>7 DEF TakeData, StreamData, NoStrobe, Elsewhere, QuietWay
  <1>8. ASSUME StreamStatus PROVE QuietWay
    <2>1. /\ ~Busy /\ wire = <<>> /\ posted' = posted /\ pc = "pfstatus" /\ call' = call
          /\ \/ pc' = "ret" /\ pf' = pf
             \/ pc' = "pfdata" /\ Count # 0 /\ pf' = [next |-> call.addr + 2, have |-> Count - 1]
      BY <1>8 DEF StreamStatus, StreamReady, NotBusy, NoStrobe, Elsewhere
    <2>2. pc' = "pfdata" => pf' \in Heads
      <3>1. Count # 0 => Count - 1 \in Nat
        BY CountType
      <3>2. QED
        BY <2>1, <3>1, NextHead
    <2>3. QED
      BY <2>1, <2>2 DEF QuietWay
  <1>9. ASSUME RoomMade, fault PROVE QuietWay
    BY <1>9 DEF RoomMade, NotBusy, Elsewhere, QuietWay, host
  <1>10. ASSUME Return PROVE QuietWay
    BY <1>10 DEF Return, NoStrobe, QuietWay
  <1>11. QED
    BY <1>1, <1>2, <1>3, <1>4, <1>5, <1>6, <1>7, <1>8, <1>9, <1>10 DEF QuietStep

\* The line is low again: the command is over, and it did not fault.
LEMMA LowMeansOver ==
  ASSUME BaseInv, QueueInv, pc \in {"down", "holddown"}, ~Line
  PROVE  Underway = <<>> /\ ~fault
  <1>1. port.busyIrq = mode.bi /\ mode.bi
    BY DEF BaseInv, ImageInv, Ports, Ways, LineLooks
  <1>2. ~other /\ ~pend /\ ~fault
    BY <1>1 DEF Line
  <1>3. wire = <<>>
    BY <1>2 DEF QueueInv, LineInv
  <1>4. Underway # <<>> => LastOneOf(Underway).wt
    BY DEF QueueInv, OrderInv, LastWaited, Expected, Awaiting, LineLooks
  <1>5. QED
    BY <1>2, <1>3, <1>4 DEF QueueInv, LineInv, Awaiting

LEMMA QuietQueue ==
  ASSUME BaseInv, QueueInv, QuietStep
  PROVE  QueueInv'
  <1>1. /\ Underway' = Underway /\ due' = due /\ wire' = wire /\ pend' = pend /\ other' = other
        /\ (pc' # "idle" => fault' = fault) /\ Underway \in Seq(Commands)
    BY QuietStill, UnderwaySame, UnderwayType DEF Still
  <1>2. QuietWay
    BY QuietWays DEF QueueInv, OrderInv
  <1>3. /\ PostedOrder /\ LastWaited /\ MirrorIdle /\ RoomInv /\ DueInv /\ LineInv
    BY DEF QueueInv, OrderInv
  <1>4. ~Busy /\ wire = <<>> => Underway = <<>>
    BY UnderwayParts
  <1>5. pc \in {"down", "holddown"} /\ ~Line => Underway = <<>>
    BY LowMeansOver
  \* a call that stops waiting finds nothing on its way
  <1>6. pc \in Awaiting /\ pc' \notin Awaiting => Underway = <<>>
    BY <1>2, <1>4, <1>5 DEF QuietWay, Awaiting, LineLooks
  <1>7. pc \notin Awaiting => pc' \notin Awaiting
    BY <1>2 DEF QuietWay, Awaiting, LineLooks
  <1>8. pc' \in Awaiting => pc \in Awaiting /\ pf' = pf /\ call' = call /\ (pc' = "pfstatus" <=> pc = "pfstatus")
                            /\ (pc' \in LineLooks => pc \in LineLooks)
    BY <1>2 DEF QuietWay, Awaiting, LineLooks
  <1>9. PostedOrder'
    <2>1. \A i \in 1..Len(Underway) : i < Len(Underway) \/ pc' \notin Awaiting => PostedWrite(Underway[i])
      BY <1>3, <1>6 DEF PostedOrder
    <2>2. pc' \in {"data", "pfdata"} => Underway = <<>>
      BY <1>2, <1>3, <1>4 DEF QuietWay, LineLooks, PostedOrder
    <2>3. pc' = "ret" /\ call'.op # "write" => Underway = <<>>
      BY <1>2, <1>3, <1>4, <1>5 DEF QuietWay, LineLooks, PostedOrder, MirrorIdle
    <2>4. pc' \in Awaiting /\ call'.op = "iack" => Len(Underway) <= 1
      BY <1>3, <1>8 DEF PostedOrder
    <2>5. QED
      BY <1>1, <2>1, <2>2, <2>3, <2>4 DEF PostedOrder
  <1>10. LastWaited'
    <2>1. ASSUME pc' \in Awaiting, Underway # <<>>
          PROVE  Expected(LastOneOf(Underway), call', pc')
      <3>1. Expected(LastOneOf(Underway), call, pc)
        BY <1>3, <1>8, <2>1 DEF LastWaited
      <3>2. QED
        BY <1>8, <2>1, <3>1 DEF Expected
    <2>2. QED
      BY <1>1, <2>1 DEF LastWaited
  <1>11. MirrorIdle'
    <2>1. pf' # NoImage => pf' \in Heads /\ Underway = <<>>
      BY <1>2, <1>3, <1>4 DEF QuietWay, MirrorIdle
    <2>2. pc' \in Awaiting \cup {"data"} => pf' = NoImage
      BY <1>2, <1>3, <1>8 DEF QuietWay, MirrorIdle, Awaiting, LineLooks
    <2>3. pc' \in {"hit", "pfdata"} => pf' # NoImage
      <3>1. \A h \in Heads : h # NoImage
        BY HeadsAreNot
      <3>2. QED
        BY <1>2, <1>3, <3>1 DEF QuietWay, MirrorIdle, LineLooks
    <2>4. QED
      BY <1>1, <2>1, <2>2, <2>3 DEF MirrorIdle
  <1>12. RoomInv'
    <2>1. /\ posted \in 0..PostedMax /\ Len(Underway) <= PostedMax + 1 /\ PostedMax \in Nat \ {0}
          /\ (pc \in {"idle", "ret"} => Len(Underway) <= posted)
          /\ (pc \in {"hit", "drain", "room"} => Len(Underway) <= PostedMax) /\ Len(Underway) \in Nat
      BY <1>1, <1>3, BusPortAssumption DEF RoomInv
    <2>2. posted' \in 0..PostedMax
      BY <1>2, <2>1 DEF QuietWay
    <2>3. pc' \in {"idle", "ret"} => Len(Underway) <= posted'
      <3>1. Underway = <<>> => Len(Underway) = 0
        OBVIOUS
      <3>2. CASE pc = "ret"
        BY <1>2, <2>1, <3>2 DEF QuietWay, LineLooks, Places, Awaiting
      <3>3. CASE pc # "ret"
        <4>1. pc' \in {"idle", "ret"} => Underway = <<>>
          BY <1>2, <1>3, <1>4, <1>5, <3>3 DEF QuietWay, LineLooks, PostedOrder, MirrorIdle, Awaiting
        <4>2. QED
          BY <2>2, <3>1, <4>1
      <3>4. QED
        BY <3>2, <3>3
    <2>4. pc' \in {"hit", "drain", "room"} => Len(Underway) <= PostedMax
      BY <1>2, <2>1 DEF QuietWay, LineLooks
    <2>5. QED
      BY <1>1, <2>1, <2>2, <2>3, <2>4 DEF RoomInv
  <1>13. DueInv'
    BY <1>1, <1>3 DEF DueInv
  <1>14. LineInv'
    <2>1. pend => wire = <<>> /\ Underway # <<>> /\ LastOneOf(Underway).wt
      BY <1>3 DEF LineInv
    <2>2. pc' \in Awaiting /\ wire = <<>> /\ Underway # <<>> /\ LastOneOf(Underway).wt => pend
      BY <1>3, <1>8 DEF LineInv
    <2>3. pc' \in {"down", "holddown"} => wire = <<>> \/ other \/ fault
      <3>1. Line => wire = <<>> \/ other \/ fault
        BY <2>1 DEF Line
      <3>2. QED
        BY <1>2, <1>3, <3>1 DEF QuietWay, LineInv, LineLooks
    <2>4. pc' \in {"down", "holddown"} => fault' = fault
      BY <1>1
    <2>5. QED
      BY <1>1, <2>1, <2>2, <2>3, <2>4 DEF LineInv
  <1>15. QED
    BY <1>9, <1>10, <1>11, <1>12, <1>13, <1>14 DEF QueueInv, OrderInv

LEMMA NothingUnderway ==
  ASSUME cmds = <<>>, wire = <<>>, eng = NoCycle PROVE Underway = <<>>
  <1>1. Underway = <<>> \o <<>> \o <<>>
    BY DEF Underway, NoCycle
  <1>2. QED
    BY <1>1

LEMMA ModesQueue ==
  ASSUME BaseInv, QueueInv, Modes
  PROVE  QueueInv'
  <1>1. /\ pc = "idle" /\ pc' = "idle" /\ posted' = posted /\ wire' = wire /\ pf' \in {pf, NoImage}
        /\ Underway \in Seq(Commands)
    BY ModesFrame, UnderwayType
  <1>2. PostedOrder /\ MirrorIdle /\ RoomInv /\ DueInv /\ LineInv
    BY DEF QueueInv, OrderInv
  <1>3. CASE hw_reinit
    <2>1. cmds' = <<>> /\ eng' = NoCycle /\ wire' = <<>> /\ due' = <<>> /\ pend' = FALSE
      BY <1>1, <1>3 DEF hw_reinit
    <2>2. Underway' = <<>>
      <3>1. Underway' = <<>> \o <<>> \o <<>>
        BY <2>1 DEF Underway, NoCycle
      <3>2. QED
        BY <3>1
    <2>3. PostedOrder' /\ LastWaited' /\ MirrorIdle'
      BY <1>1, <1>2, <2>2 DEF PostedOrder, LastWaited, MirrorIdle, Awaiting
    <2>4. RoomInv'
      BY <1>1, <1>2, <2>2, BusPortAssumption DEF RoomInv
    <2>5. DueInv' /\ LineInv'
      BY <1>1, <2>1, <2>2 DEF DueInv, LineInv, Awaiting
    <2>6. QED
      BY <2>3, <2>4, <2>5 DEF QueueInv, OrderInv
  <1>4. CASE ~hw_reinit
    <2>1. UNCHANGED <<cmds, eng, pend, due>>
      BY <1>4, ModesFrame
    <2>2. Underway' = Underway
      BY <1>1, <2>1, UnderwaySame
    <2>3. PostedOrder' /\ LastWaited' /\ MirrorIdle'
      BY <1>1, <1>2, <2>2 DEF PostedOrder, LastWaited, MirrorIdle, Awaiting
    <2>4. RoomInv'
      BY <1>1, <1>2, <2>2 DEF RoomInv
    <2>5. DueInv' /\ LineInv'
      BY <1>1, <1>2, <2>1, <2>2 DEF DueInv, LineInv, Awaiting
    <2>6. QED
      BY <2>3, <2>4, <2>5 DEF QueueInv, OrderInv
  <1>5. QED
    BY <1>3, <1>4

\* What the FPGA does to the commands on their way: nothing, or the first of
\* them is over.
Same == Underway' = Underway /\ due' = due
Over == /\ Underway # <<>> /\ Underway' = Tail(Underway)
        /\ due' = (IF IsWrite(Head(Underway)) THEN Tail(due) ELSE due)

LEMMA FirstDue ==
  ASSUME BaseInv, QueueInv, Underway # <<>>, IsWrite(Head(Underway))
  PROVE  due # <<>>
  <1>1. Underway \in Seq(Commands) /\ due \in Seq(Asked)
    BY UnderwayType DEF BaseInv, Shapes
  <1>2. 1 \in 1..Len(Underway) /\ Head(Underway) = Underway[1]
    BY <1>1
  <1>3. 1 <= Len(due)
    BY <1>2 DEF QueueInv, DueInv
  <1>4. QED
    BY <1>1, <1>3

LEMMA CycleMoves ==
  ASSUME BaseInv, QueueInv, NEW x, CycleEnds(x)
  PROVE  IF eng.spec THEN Same ELSE Over
  <1>1. /\ eng.on /\ eng' = NoCycle /\ UNCHANGED <<cmds, wire>> /\ Cycle(eng)
        /\ due' = (IF eng.c.rw THEN due ELSE IF due = <<>> THEN due ELSE Tail(due))
    BY DEF CycleEnds, BaseInv, Shapes
  <1>2. CASE eng.spec
    <2>1. due' = due
      BY <1>1, <1>2 DEF Cycle, AheadRead
    <2>2. Underway' = Underway
      BY <1>1, <1>2 DEF Underway, NoCycle
    <2>3. QED
      BY <1>2, <2>1, <2>2 DEF Same
  <1>3. CASE ~eng.spec
    <2>1. Underway # <<>> /\ Head(Underway) = eng.c /\ Underway' = Tail(Underway)
      BY <1>1, <1>3, UnderwayEnds
    <2>2. IsWrite(eng.c) <=> ~eng.c.rw
      BY <1>1, <1>3 DEF IsWrite, Cycle, Consumed
    <2>3. IsWrite(eng.c) => due # <<>>
      BY <2>1, FirstDue
    <2>4. due' = (IF IsWrite(eng.c) THEN Tail(due) ELSE due)
      BY <1>1, <2>2, <2>3
    <2>5. QED
      BY <1>3, <2>1, <2>4 DEF Over
  <1>4. QED
    BY <1>2, <1>3

LEMMA DispatchMoves ==
  ASSUME BaseInv, QueueInv, dispatch
  PROVE  IF Consumed(Head(cmds)) THEN Over /\ ~IsWrite(Head(Underway)) ELSE Same
  <1>1. ~eng.on /\ cmds # <<>> /\ cmds' = Tail(cmds) /\ wire' = wire /\ due' = due
    BY DEF dispatch
  <1>2. CASE Consumed(Head(cmds))
    <2>1. eng' = eng
      BY <1>2 DEF dispatch
    <2>2. Underway # <<>> /\ Head(Underway) = Head(cmds) /\ Underway' = Tail(Underway)
      BY <1>1, <2>1, UnderwayConsumes
    <2>3. ~IsWrite(Head(cmds))
      BY <1>2 DEF Consumed, IsWrite
    <2>4. QED
      BY <1>1, <1>2, <2>2, <2>3 DEF Over
  <1>3. CASE ~Consumed(Head(cmds))
    <2>1. eng' = [on |-> TRUE, spec |-> FALSE, c |-> Head(cmds)]
      BY <1>3 DEF dispatch
    <2>2. Underway' = Underway
      BY <1>1, <2>1, UnderwayStarts
    <2>3. QED
      BY <1>1, <1>3, <2>2 DEF Same
  <1>4. QED
    BY <1>2, <1>3

LEMMA MachineMoves == ASSUME BaseInv, QueueInv, Machine PROVE Same \/ Over
  <1>1. ASSUME Land PROVE Same
    <2>1. /\ wire # <<>> /\ cmds' = Append(cmds, Head(wire)) /\ wire' = Tail(wire) /\ eng' = eng /\ due' = due
      BY <1>1 DEF Land
    <2>2. QED
      BY <2>1, UnderwayLands DEF Same
  <1>2. ASSUME FetchAhead PROVE Same
    <2>1. ~eng.on /\ eng'.on /\ eng'.spec /\ UNCHANGED <<cmds, wire, due>>
      BY <1>2 DEF FetchAhead
    <2>2. QED
      BY <2>1 DEF Same, Underway
  <1>3. ASSUME NEW w, Foreign(w) PROVE Same
    BY <1>3, UnderwaySame DEF Foreign, Same
  <1>4. ASSUME Request PROVE Same
    BY <1>4, UnderwaySame DEF Request, Same, engine
  <1>5. QED
    BY <1>1, <1>2, <1>3, <1>4, CycleMoves, DispatchMoves DEF Machine

LEMMA TailIs ==
  ASSUME NEW T, NEW s \in Seq(T), s # <<>>
  PROVE  /\ Tail(s) \in Seq(T) /\ Len(Tail(s)) = Len(s) - 1 /\ Len(s) \in Nat \ {0}
         /\ \A i \in 1..Len(Tail(s)) : i + 1 \in 1..Len(s) /\ Tail(s)[i] = s[i + 1]
         /\ Head(s) = s[1] /\ Head(s) \in T /\ s[Len(s)] \in T
         /\ Tail(s) # <<>> => LastOneOf(Tail(s)) = LastOneOf(s)
         /\ Len(s) = 1 => Tail(s) = <<>>
  <1>1. /\ Tail(s) \in Seq(T) /\ Len(Tail(s)) = Len(s) - 1 /\ Len(s) \in Nat \ {0}
        /\ \A i \in 1..Len(Tail(s)) : i + 1 \in 1..Len(s) /\ Tail(s)[i] = s[i + 1]
        /\ Head(s) = s[1] /\ Head(s) \in T /\ s[Len(s)] \in T
    OBVIOUS
  <1>2. Tail(s) # <<>> => Len(Tail(s)) \in 1..Len(Tail(s))
    BY <1>1
  <1>3. Len(s) = 1 => Tail(s) = <<>>
    BY <1>1
  <1>4. Tail(s) # <<>> => LastOneOf(Tail(s)) = LastOneOf(s)
    BY <1>1, <1>2 DEF LastOneOf
  <1>5. QED
    BY <1>1, <1>3, <1>4

LEMMA OverQueue ==
  ASSUME BaseInv, QueueInv, Over, UNCHANGED <<pc, call, pf, posted>>
  PROVE  OrderInv' /\ RoomInv' /\ DueInv'
  <1>1. /\ Underway \in Seq(Commands) /\ Underway # <<>> /\ Underway' = Tail(Underway)
        /\ due \in Seq(Asked)
    BY UnderwayType DEF Over, BaseInv, Shapes
  <1>2. /\ Len(Underway') = Len(Underway) - 1 /\ Len(Underway) \in Nat \ {0}
        /\ \A i \in 1..Len(Underway') : i + 1 \in 1..Len(Underway) /\ Underway'[i] = Underway[i + 1]
        /\ Head(Underway) = Underway[1]
        /\ (Underway' # <<>> => LastOneOf(Underway') = LastOneOf(Underway))
        /\ (Len(Underway) = 1 => Underway' = <<>>) /\ Underway' \in Seq(Commands)
    BY <1>1, TailIs
  <1> HIDE DEF Underway
  <1>3. PostedOrder /\ LastWaited /\ MirrorIdle /\ RoomInv /\ DueInv
    BY DEF QueueInv, OrderInv
  <1>4. PostedOrder'
    <2>1. \A i \in 1..Len(Underway') : i < Len(Underway') \/ pc \notin Awaiting => PostedWrite(Underway'[i])
      BY <1>2, <1>3 DEF PostedOrder
    <2>2. pc \in {"data", "pfdata"} => FALSE
      BY <1>1, <1>3 DEF PostedOrder
    <2>3. pc = "ret" /\ call.op # "write" => FALSE
      BY <1>1, <1>3 DEF PostedOrder
    <2>4. pc \in Awaiting /\ call.op = "iack" => Len(Underway') <= 1
      BY <1>2, <1>3 DEF PostedOrder
    <2>5. QED
      BY <2>1, <2>2, <2>3, <2>4 DEF PostedOrder
  <1>5. LastWaited'
    BY <1>1, <1>2, <1>3 DEF LastWaited
  <1>6. MirrorIdle'
    BY <1>1, <1>3 DEF MirrorIdle
  <1>7. RoomInv'
    BY <1>2, <1>3, BusPortAssumption DEF RoomInv
  <1>8. DueInv'
    <2>0. /\ Len(due) <= Len(Underway) /\ \A i \in 1..Len(due) : AsAsked(Underway[i], due[i])
          /\ \A i \in 1..Len(Underway) : IsWrite(Underway[i]) => i <= Len(due)
      BY <1>3 DEF DueInv
    <2>1. CASE IsWrite(Head(Underway))
      <3>1. due # <<>> /\ due' = Tail(due)
        BY <1>1, <2>1, FirstDue DEF Over
      <3>2. /\ Len(due') = Len(due) - 1 /\ Len(due) \in Nat \ {0}
            /\ \A i \in 1..Len(due') : i + 1 \in 1..Len(due) /\ due'[i] = due[i + 1]
        BY <1>1, <3>1, TailIs
      <3>3. \A i \in 1..Len(due') : AsAsked(Underway'[i], due'[i])
        <4>1. SUFFICES ASSUME NEW i \in 1..Len(due') PROVE AsAsked(Underway'[i], due'[i])
          OBVIOUS
        <4>2. i + 1 \in 1..Len(due) /\ due'[i] = due[i + 1] /\ AsAsked(Underway[i + 1], due[i + 1])
          BY <2>0, <3>2
        <4>3. i \in 1..Len(Underway')
          BY <1>2, <2>0, <3>2
        <4>4. QED
          BY <1>2, <4>2, <4>3
      <3>4. \A i \in 1..Len(Underway') : IsWrite(Underway'[i]) => i <= Len(due')
        BY <1>2, <2>0, <3>2
      <3>5. QED
        BY <1>2, <2>0, <3>2, <3>3, <3>4 DEF DueInv
    <2>2. CASE ~IsWrite(Head(Underway))
      <3>1. ~PostedWrite(Underway[1]) /\ 1 \in 1..Len(Underway)
        BY <1>2, <2>2 DEF PostedWrite
      <3>2. Len(Underway) = 1
        BY <1>2, <1>3, <3>1 DEF PostedOrder
      <3>3. Len(due) = 0
        <4>1. 1 \notin 1..Len(due)
          BY <1>2, <2>0, <2>2 DEF AsAsked
        <4>2. QED
          BY <1>1, <4>1
      <3>4. due' = due /\ Len(Underway') = 0
        BY <1>2, <2>2, <3>2 DEF Over
      <3>5. QED
        BY <3>3, <3>4 DEF DueInv
    <2>3. QED
      BY <2>1, <2>2
  <1>9. QED
    BY <1>4, <1>5, <1>6, <1>7, <1>8 DEF OrderInv

LEMMA MachineOrder ==
  ASSUME BaseInv, QueueInv, Machine
  PROVE  OrderInv' /\ RoomInv' /\ DueInv'
  <1>1. UNCHANGED <<pc, call, pf, posted>>
    BY MachineFrame
  <1>2. CASE Same
    <2>1. OrderInv /\ RoomInv /\ DueInv /\ Underway' = Underway /\ due' = due
      BY <1>2 DEF QueueInv, Same
    <2>2. QED
      BY <1>1, <2>1 DEF OrderInv, PostedOrder, LastWaited, MirrorIdle, RoomInv, DueInv
  <1>3. CASE Over
    BY <1>1, <1>3, OverQueue
  <1>4. QED
    BY <1>2, <1>3, MachineMoves

\* What lands on top of an unfinished wire is no waited command.
LEMMA NotTheLast ==
  ASSUME BaseInv, QueueInv, wire # <<>>, Tail(wire) # <<>>
  PROVE  ~Head(wire).wt
  <1> DEFINE x == IF eng.on /\ ~eng.spec THEN <<eng.c>> ELSE <<>>
             y == x \o cmds
  <1>1. wire \in Seq(Commands) /\ cmds \in Seq(Commands)
    BY DEF BaseInv, Shapes
  <1>2. x \in Seq(Commands) /\ Underway = y \o wire
    BY DEF BaseInv, Shapes, Cycle, Underway
  <1> HIDE DEF x
  <1>3. y \in Seq(Commands)
    BY <1>1, <1>2
  <1> HIDE DEF y
  <1>4. Len(wire) > 1 /\ Head(wire) = wire[1]
    BY <1>1
  <1>5. LET n == Len(y) + 1 IN n \in 1..Len(y \o wire) /\ n < Len(y \o wire) /\ (y \o wire)[n] = wire[1]
    BY <1>1, <1>3, <1>4
  <1>6. PostedWrite(wire[1])
    BY <1>2, <1>5 DEF QueueInv, OrderInv, PostedOrder
  <1>7. QED
    BY <1>4, <1>6 DEF PostedWrite

LEMMA LandLine ==
  ASSUME BaseInv, QueueInv, Land
  PROVE  LineInv'
  <1>1. /\ wire # <<>> /\ wire' = Tail(wire) /\ pend' = (pend \/ Head(wire).wt) /\ Underway' = Underway
        /\ wire \in Seq(Commands) /\ UNCHANGED <<pc, other, fault>> /\ ~pend
    <2>1. /\ wire # <<>> /\ cmds' = Append(cmds, Head(wire)) /\ wire' = Tail(wire) /\ eng' = eng
          /\ pend' = (pend \/ Head(wire).wt) /\ UNCHANGED <<pc, other, fault>>
      BY DEF Land, AtHost
    <2>2. QED
      BY <2>1, UnderwayLands DEF BaseInv, Shapes, QueueInv, LineInv
  <1>2. Underway # <<>> /\ LastOneOf(Underway) = LastOneOf(wire)
    BY <1>1, UnderwayParts
  <1>3. pc \in {"down", "holddown"} => other \/ fault
    BY <1>1 DEF QueueInv, LineInv
  <1>4. CASE Tail(wire) # <<>>
    <2>1. ~pend'
      BY <1>1, <1>4, NotTheLast
    <2>2. QED
      BY <1>1, <1>3, <1>4, <2>1 DEF LineInv
  <1>5. CASE Tail(wire) = <<>>
    <2>1. Len(wire) = 1 /\ Head(wire) = wire[1]
      <3>1. Len(Tail(wire)) = Len(wire) - 1 /\ Len(wire) \in Nat /\ Head(wire) = wire[1]
        BY <1>1
      <3>2. Len(Tail(wire)) = 0
        <4> DEFINE t == Tail(wire)
        <4>1. t = <<>>
          BY <1>5
        <4> HIDE DEF t
        <4>2. Len(t) = 0
          BY <4>1
        <4>3. QED
          BY <4>2 DEF t
      <3>3. QED
        BY <3>1, <3>2
    <2>2. Head(wire) = LastOneOf(Underway)
      BY <1>2, <2>1 DEF LastOneOf
    <2>3. pend' <=> LastOneOf(Underway).wt
      BY <1>1, <2>2
    <2>4. QED
      BY <1>1, <1>2, <1>5, <2>3 DEF LineInv
  <1>6. QED
    BY <1>4, <1>5

\* A command leaves the engine: the line stays high only for those still to come.
LEMMA CycleLine ==
  ASSUME BaseInv, QueueInv, NEW x, CycleEnds(x), UNCHANGED pc
  PROVE  LineInv'
  <1>1. /\ eng.on /\ eng' = NoCycle /\ UNCHANGED <<cmds, wire, other>> /\ pend' = (pend /\ cmds # <<>>)
        /\ fault' = (fault \/ (x = "none" /\ ~eng.spec)) /\ LineInv
    BY DEF CycleEnds, StillPending, QueueInv
  <1>2. /\ Underway \in Seq(Commands)
        /\ Underway' = Underway \/ (Underway # <<>> /\ Underway' = Tail(Underway))
    BY UnderwayType, CycleMoves DEF Same, Over
  <1>3. Underway' # <<>> => LastOneOf(Underway') = LastOneOf(Underway) /\ Underway # <<>>
    BY <1>2, TailIs
  <1>4. Underway' = <<>> <=> cmds = <<>> /\ wire = <<>>
    <2>1. Underway' = <<>> \o cmds \o wire /\ cmds \in Seq(Commands) /\ wire \in Seq(Commands)
      BY <1>1 DEF Underway, NoCycle, BaseInv, Shapes
    <2>2. <<>> \o cmds = cmds /\ (cmds \o wire = <<>> <=> cmds = <<>> /\ wire = <<>>)
      BY <2>1
    <2>3. QED
      BY <2>1, <2>2
  <1>5. pend' => wire = <<>> /\ Underway' # <<>> /\ LastOneOf(Underway').wt
    BY <1>1, <1>3, <1>4 DEF LineInv
  <1>6. pc \in Awaiting /\ wire = <<>> /\ Underway' # <<>> /\ LastOneOf(Underway').wt => pend'
    BY <1>1, <1>3, <1>4 DEF LineInv
  <1>7. pc \in {"down", "holddown"} => wire = <<>> \/ other \/ fault'
    BY <1>1 DEF LineInv
  <1>8. QED
    BY <1>1, <1>5, <1>6, <1>7 DEF LineInv

LEMMA MachineLine ==
  ASSUME BaseInv, QueueInv, Machine, ~Withdraws
  PROVE  LineInv'
  <1>0. UNCHANGED <<pc, call>> /\ LineInv
    BY MachineFrame DEF QueueInv
  <1>1. ASSUME Land PROVE LineInv'
    BY <1>1, LandLine
  <1>2. ASSUME NEW x, CycleEnds(x) PROVE LineInv'
    BY <1>0, <1>2, CycleLine
  <1>3. ASSUME dispatch, Consumed(Head(cmds)) PROVE LineInv'
    <2>1. /\ wire' = wire /\ UNCHANGED <<other, fault>> /\ cmds' = Tail(cmds) /\ cmds # <<>> /\ eng' = eng
          /\ pend' = (pend /\ cmds' # <<>>)
      BY <1>3 DEF dispatch, StillPending
    <2>2. Over /\ ~IsWrite(Head(Underway)) /\ Underway \in Seq(Commands)
      BY <1>3, DispatchMoves, UnderwayType
    <2>3. Underway # <<>> /\ Underway' = Tail(Underway) /\ Head(Underway) = Underway[1] /\ Len(Underway) \in Nat \ {0}
      BY <2>2, TailIs DEF Over
    <2>4. Len(Underway) = 1
      <3>1. ~PostedWrite(Underway[1]) /\ 1 \in 1..Len(Underway)
        BY <2>2, <2>3 DEF PostedWrite
      <3>2. \A i \in 1..Len(Underway) : i < Len(Underway) => PostedWrite(Underway[i])
        BY DEF QueueInv, OrderInv, PostedOrder
      <3>3. ~(1 < Len(Underway))
        BY <3>1, <3>2
      <3>4. Len(Underway) \in Nat \ {0}
        BY <2>3
      <3>5. \A n \in Nat \ {0} : ~(1 < n) => n = 1
        OBVIOUS
      <3>6. QED
        BY <3>3, <3>4, <3>5
    <2>5. Underway' = <<>>
      BY <2>2, <2>3, <2>4, TailIs
    <2>6. ~eng.on /\ Underway = <<>> \o cmds \o wire
      BY <1>3 DEF dispatch, Underway
    <2>7. cmds' = <<>> /\ wire = <<>>
      <3>1. cmds \in Seq(Commands) /\ wire \in Seq(Commands)
        BY DEF BaseInv, Shapes
      <3>2. Len(<<>> \o cmds \o wire) = Len(cmds) + Len(wire) /\ Len(cmds) \in Nat \ {0} /\ Len(wire) \in Nat
        BY <2>1, <3>1
      <3>3. Len(cmds) = 1 /\ Len(wire) = 0
        <4>1. Len(<<>> \o cmds \o wire) = 1
          BY <2>4, <2>6
        <4>2. Len(cmds) + Len(wire) = 1
          BY <3>2, <4>1
        <4>3. \A m \in Nat \ {0}, n \in Nat : m + n = 1 => m = 1 /\ n = 0
          OBVIOUS
        <4>4. QED
          BY <3>2, <4>2, <4>3
      <3>4. wire = <<>>
        BY <3>1, <3>3
      <3>5. Tail(cmds) \in Seq(Commands) /\ Len(Tail(cmds)) = 0
        BY <2>1, <3>1, <3>3, TailIs
      <3>6. Tail(cmds) = <<>>
        BY <3>5, EmptySeq
      <3>7. QED
        BY <2>1, <3>4, <3>6
    <2>8. QED
      BY <1>0, <2>1, <2>5, <2>7 DEF LineInv
  <1>4. ASSUME dispatch, ~Consumed(Head(cmds)) PROVE LineInv'
    <2>1. UNCHANGED <<wire, other, fault, pend>>
      BY <1>4 DEF dispatch
    <2>2. Underway' = Underway
      BY <1>4, DispatchMoves DEF Same
    <2>3. QED
      BY <1>0, <2>1, <2>2 DEF LineInv
  <1>5. ASSUME FetchAhead PROVE LineInv'
    <2>1. ~eng.on /\ eng'.on /\ eng'.spec /\ UNCHANGED <<cmds, wire, other, fault, pend>>
      BY <1>5 DEF FetchAhead
    <2>2. Underway' = Underway
      BY <2>1 DEF Underway
    <2>3. QED
      BY <1>0, <2>1, <2>2 DEF LineInv
  <1>6. ASSUME NEW w, Foreign(w) PROVE LineInv'
    <2>1. UNCHANGED <<cmds, eng, wire, other, fault, pend>>
      BY <1>6 DEF Foreign
    <2>2. Underway' = Underway
      BY <2>1, UnderwaySame
    <2>3. QED
      BY <1>0, <2>1, <2>2 DEF LineInv
  <1>7. ASSUME Request PROVE LineInv'
    <2>1. UNCHANGED <<cmds, eng, wire, fault, pend>> /\ other' = ~other
          /\ (pc \in {"down", "holddown"} /\ other => wire = <<>>)
      BY <1>7 DEF Request, MistakenFor, engine
    <2>2. Underway' = Underway
      BY <2>1, UnderwaySame
    <2>3. QED
      BY <1>0, <2>1, <2>2 DEF LineInv
  <1>8. QED
    BY <1>1, <1>2, <1>3, <1>4, <1>5, <1>6, <1>7 DEF Machine

LEMMA InitQueue == ASSUME Init PROVE QueueInv
  <1>1. /\ cmds = <<>> /\ wire = <<>> /\ eng = NoCycle /\ due = <<>> /\ pc = "idle" /\ pf = NoImage
        /\ posted = 0 /\ pend = FALSE
    BY DEF Init
  <1>2. Underway = <<>>
    BY <1>1, NothingUnderway
  <1>3. PostedOrder /\ LastWaited /\ MirrorIdle
    BY <1>1, <1>2 DEF PostedOrder, LastWaited, MirrorIdle, Awaiting
  <1>4. RoomInv /\ DueInv /\ LineInv
    BY <1>1, <1>2, BusPortAssumption DEF RoomInv, DueInv, LineInv, Awaiting
  <1>5. QED
    BY <1>3, <1>4 DEF QueueInv, OrderInv

\* The first half of the inductive invariant: the images and the queue.
LEMMA PortNext ==
  ASSUME BaseInv, QueueInv, ~LateModes, ~Withdraws, [Next]_vars
  PROVE  BaseInv' /\ QueueInv'
  <1>1. CASE CommandStep
    <2>1. posted \in 0..PostedMax
      BY DEF QueueInv, RoomInv
    <2>2. PICK c : Gives(c)
      BY <1>1, <2>1, StepsGive
    <2>3. BaseInv'
      BY <2>2, GivesBase
    <2>4. QueueInv'
      BY <2>2, GivesOrder, GivesRoom, GivesDue, GivesLine DEF QueueInv
    <2>5. QED
      BY <2>3, <2>4
  <1>2. CASE QuietStep
    BY <1>2, QuietBase, QuietQueue
  <1>3. CASE Modes
    BY <1>3, ModesBase, ModesQueue
  <1>4. CASE Machine
    BY <1>4, MachineBase, MachineOrder, MachineLine DEF QueueInv
  <1>5. CASE UNCHANGED vars
    <2>1. UNCHANGED <<menu, pc, call, mode, lastCtrl, lastData, wr, pf, pfSeq, posted, port, ai_ok, wire>>
      BY <1>5 DEF vars, host
    <2>2. UNCHANGED <<cmds, eng, pfFifo, pfRun, pfA, fault, mem, pend, other, due, mine, reloaded>>
      BY <1>5 DEF vars, engine
    <2>3. UNCHANGED <<writes, foreign>>
      BY <1>5 DEF vars, bounds
    <2>4. ImageInv' /\ Ways' /\ DataShapes'
      BY <2>1, <2>2, ImagesKept DEF BaseInv, Ways, DataShapes
    <2>5. Shapes'
      BY <2>1, <2>2, <2>3 DEF BaseInv, Shapes
    <2>6. Underway' = Underway
      BY <2>1, <2>2, UnderwaySame
    <2>7. PostedOrder' /\ LastWaited' /\ MirrorIdle'
      BY <2>1, <2>6 DEF QueueInv, OrderInv, PostedOrder, LastWaited, MirrorIdle
    <2>8. RoomInv' /\ DueInv' /\ LineInv'
      BY <2>1, <2>2, <2>6 DEF QueueInv, RoomInv, DueInv, LineInv
    <2>9. QED
      BY <2>4, <2>5, <2>7, <2>8 DEF BaseInv, QueueInv, OrderInv
  <1>6. QED
    BY <1>1, <1>2, <1>3, <1>4, <1>5, HostSplit DEF Next

-----------------------------------------------------------------------------
(***************************************************************************)
(* 4. The faults, and the room of the prefetch FIFO.                       *)
(***************************************************************************)
\* The fault of the call's own command is in the flag until the call has read
\* it; the acknowledge began with a clear flag, so that it reports no other.
FaultInv ==
    /\ mine => \/ pc \in Awaiting /\ fault
               \/ pc \in {"data", "pfdata", "ret"} /\ st.fault
               \/ pc = "idle"
    /\ pc = "status" /\ call.op = "iack" /\ fault => mine
    /\ pc \in {"data", "ret"} /\ call.op = "iack" /\ st.fault => mine

\* A command of the host ends the stream; the cycle ahead was begun by a
\* stream that has room for its word.
AheadInv ==
    /\ eng.on /\ ~eng.spec => pfFifo = <<>> /\ pfRun = FALSE
    /\ eng.on /\ eng.spec => pfRun = TRUE /\ Len(pfFifo) < PfDepth /\ eng.c.addr = pfA
    /\ Len(pfFifo) <= PfDepth

LEMMA PoppedIs ==
  ASSUME BaseInv
  PROVE  /\ Popped \in Seq(Pairs) /\ (pfFifo = <<>> => Popped = <<>>)
         /\ Len(Popped) <= Len(pfFifo) /\ Len(Popped) \in Nat /\ Len(pfFifo) \in Nat
  <1>1. pfFifo \in Seq(Pairs)
    BY DEF BaseInv, DataShapes
  <1>2. CASE pfFifo = <<>>
    BY <1>1, <1>2 DEF Popped
  <1>3. CASE pfFifo # <<>>
    <2>1. Popped = Tail(pfFifo)
      BY <1>3 DEF Popped
    <2>2. Tail(pfFifo) \in Seq(Pairs) /\ Len(Tail(pfFifo)) = Len(pfFifo) - 1 /\ Len(pfFifo) \in Nat \ {0}
      BY <1>1, <1>3, TailIs
    <2>3. QED
      BY <1>3, <2>1, <2>2
  <1>4. QED
    BY <1>2, <1>3

LEMMA InitFault == ASSUME Init PROVE FaultInv /\ AheadInv
  <1>1. pfFifo = <<>> /\ eng = NoCycle /\ pc = "idle" /\ mine = FALSE
    BY DEF Init
  <1>2. QED
    BY <1>1, BusPortAssumption DEF FaultInv, AheadInv, NoCycle, Awaiting

LEMMA GivesFault == ASSUME AheadInv, NEW c, Gives(c) PROVE FaultInv' /\ AheadInv'
  <1>1. /\ mine' = FALSE /\ pc' \in Awaiting \cup {"ret"} /\ (pc' = "ret" => call'.op = "write")
        /\ (call'.op = "iack" /\ pc' = "status" => ~fault')
        /\ UNCHANGED <<eng, pfFifo, pfRun, pfA>>
    BY DEF Gives, Fresh
  <1>2. FaultInv'
    BY <1>1 DEF FaultInv, Awaiting
  <1>3. AheadInv'
    BY <1>1 DEF AheadInv
  <1>4. QED
    BY <1>2, <1>3

\* How the steps that give no command report a fault.
Reports ==
    \/ pc \in {"hit", "room"} /\ pc' \in {"hit", "ret"} /\ (pc = "room" => fault)
    \/ pc \in LineLooks /\ pc' \in Awaiting /\ st' = st
    \/ pc \in {"down", "holddown"} /\ pc' = "ret" /\ st' = st /\ ~fault
    \/ pc' = pc /\ st' = st
    \/ pc \in {"status", "done", "pfstatus"} /\ pc' \in {"data", "ret", "pfdata"} /\ st'.fault = fault
    \/ pc \in {"data", "pfdata"} /\ pc' = "ret" /\ st' = st

LEMMA QuietReports ==
  ASSUME BaseInv, QueueInv, QuietStep
  PROVE  \/ mine' = FALSE /\ pc' \in {"hit", "room", "drain"}
         \/ pc' = "idle"
         \/ Reports /\ mine' = mine /\ call' = call /\ fault' = fault
  <1> DEFINE Goal == \/ mine' = FALSE /\ pc' \in {"hit", "room", "drain"}
                     \/ pc' = "idle"
                     \/ Reports /\ mine' = mine /\ call' = call /\ fault' = fault
  <1> USE DEF Reports, NoStrobe, Elsewhere
  <1>0. pc' # "idle" => fault' = fault
    BY QuietStill DEF Still
  <1>1. ASSUME NEW k, Begun(k) PROVE Goal
    BY <1>1 DEF Begun, Read, BusWrite, Iack
  <1>2. ASSUME HitCounts \/ HitTake PROVE Goal
    BY <1>0, <1>2 DEF HitCounts, HitTake
  <1>3. ASSUME LineHigh \/ LineGivesUp PROVE Goal
    BY <1>0, <1>3 DEF LineHigh, LineGivesUp, LineLooks, Awaiting
  <1>4. ASSUME LineLow PROVE Goal
    BY <1>0, <1>4, LowMeansOver DEF LineLow
  <1>5. ASSUME BusyPoll PROVE Goal
    BY <1>0, <1>5 DEF BusyPoll
  <1>6. ASSUME StatusDone \/ WriteDone PROVE Goal
    BY <1>0, <1>6 DEF StatusDone, WriteDone, NotBusy, Status
  <1>7. ASSUME TakeData \/ StreamData PROVE Goal
    BY <1>0, <1>7 DEF TakeData, StreamData
  <1>8. ASSUME StreamStatus PROVE Goal
    BY <1>0, <1>8 DEF StreamStatus, StreamReady, NotBusy, Status
  <1>9. ASSUME RoomMade, fault PROVE Goal
    BY <1>0, <1>9 DEF RoomMade, NotBusy
  <1>10. ASSUME Return PROVE Goal
    BY <1>10 DEF Return
  <1>11. QED
    BY <1>1, <1>2, <1>3, <1>4, <1>5, <1>6, <1>7, <1>8, <1>9, <1>10 DEF QuietStep

LEMMA QuietFault ==
  ASSUME BaseInv, QueueInv, FaultInv, QuietStep
  PROVE  FaultInv'
  <1>0. Ways
    BY DEF BaseInv
  <1>1. CASE mine' = FALSE /\ pc' \in {"hit", "room", "drain"}
    BY <1>1 DEF FaultInv
  <1>2. CASE pc' = "idle"
    BY <1>2 DEF FaultInv
  <1>3. CASE Reports /\ mine' = mine /\ call' = call /\ fault' = fault
    <2>1. call.op = "iack" => pc \in {"idle", "drain", "status", "data", "ret"}
      BY <1>0 DEF Ways
    <2>2. pc \in {"hit", "room"} => ~mine /\ (pc # "idle") /\ call.op # "iack"
      BY <1>0 DEF FaultInv, Awaiting, Ways
    <2>3. mine => \/ pc' \in Awaiting /\ fault
                  \/ pc' \in {"data", "pfdata", "ret"} /\ st'.fault
                  \/ pc' = "idle"
      BY <1>3, <2>2 DEF Reports, FaultInv, Awaiting, LineLooks
    <2>4. pc' = "status" /\ call.op = "iack" /\ fault => mine
      BY <1>3, <2>1, <2>2 DEF Reports, FaultInv, LineLooks
    <2>5. pc' \in {"data", "ret"} /\ call.op = "iack" /\ st'.fault => mine
      BY <1>3, <2>1, <2>2 DEF Reports, FaultInv, LineLooks
    <2>6. QED
      BY <1>3, <2>3, <2>4, <2>5 DEF FaultInv
  <1>4. QED
    BY <1>1, <1>2, <1>3, QuietReports

LEMMA QuietAhead == ASSUME BaseInv, AheadInv, QuietStep PROVE AheadInv'
  <1>1. UNCHANGED <<eng, pfRun, pfA>> /\ pfFifo' \in {pfFifo, Popped}
    BY QuietStill, QuietFifo DEF Still
  <1>2. PfDepth \in Nat
    BY BusPortAssumption
  <1>3. QED
    BY <1>1, <1>2, PoppedIs DEF AheadInv

LEMMA ModesFault == ASSUME FaultInv, AheadInv, Modes PROVE FaultInv' /\ AheadInv'
  <1>1. /\ pc' = "idle"
        /\ \/ hw_reinit
           \/ UNCHANGED <<eng, pfFifo, pfRun, pfA>>
    BY ModesFrame
  <1>2. FaultInv'
    BY <1>1 DEF FaultInv
  <1>3. CASE hw_reinit
    <2>1. eng' = NoCycle /\ pfFifo' = <<>>
      BY <1>3 DEF hw_reinit
    <2>2. QED
      BY <1>2, <2>1, BusPortAssumption DEF AheadInv, NoCycle
  <1>4. QED
    BY <1>1, <1>2, <1>3 DEF AheadInv

\* The acknowledge's command is alone on its way.
LEMMA AloneIsAwaited ==
  ASSUME BaseInv, QueueInv, eng.on, ~eng.spec, pc = "status", call.op = "iack"
  PROVE  Awaited
  <1>1. /\ cmds \in Seq(Commands) /\ wire \in Seq(Commands) /\ eng.c \in Commands
        /\ Underway = <<eng.c>> \o cmds \o wire
    BY DEF BaseInv, Shapes, Cycle, Underway
  <1>2. Len(Underway) <= 1
    BY DEF QueueInv, OrderInv, PostedOrder, Awaiting
  <1>3. Len(<<eng.c>> \o cmds \o wire) = 1 + Len(cmds) + Len(wire) /\ Len(cmds) \in Nat /\ Len(wire) \in Nat
    BY <1>1
  <1>4. Len(cmds) = 0 /\ Len(wire) = 0
    BY <1>1, <1>2, <1>3
  <1>5. QED
    BY <1>1, <1>4 DEF Awaited

LEMMA MachineFault ==
  ASSUME BaseInv, QueueInv, FaultInv, Machine
  PROVE  FaultInv'
  <1>0. UNCHANGED <<pc, call, st>>
    BY MachineFrame
  <1>1. ASSUME NEW x, CycleEnds(x) PROVE FaultInv'
    <2>1. /\ eng.on /\ fault' = (fault \/ (x = "none" /\ ~eng.spec)) /\ mine' = (mine \/ (x = "none" /\ Awaited))
      BY <1>1 DEF CycleEnds
    <2>2. Awaited => pc \in Awaiting /\ ~eng.spec
      BY DEF Awaited, Awaiting
    <2>3. pc = "status" /\ call.op = "iack" /\ fault' => mine'
      BY <2>1, AloneIsAwaited DEF FaultInv
    <2>4. mine' => \/ pc \in Awaiting /\ fault'
                   \/ pc \in {"data", "pfdata", "ret"} /\ st.fault
                   \/ pc = "idle"
      BY <2>1, <2>2 DEF FaultInv
    <2>5. pc \in {"data", "ret"} /\ call.op = "iack" /\ st.fault => mine'
      BY <2>1 DEF FaultInv
    <2>6. QED
      BY <1>0, <2>3, <2>4, <2>5 DEF FaultInv
  <1>2. ASSUME Land \/ dispatch \/ FetchAhead \/ Request \/ (\E w \in menu.shared : Foreign(w)) PROVE FaultInv'
    <2>1. UNCHANGED <<fault, mine>>
      BY <1>2 DEF Land, dispatch, FetchAhead, Request, Foreign, engine
    <2>2. QED
      BY <1>0, <2>1 DEF FaultInv
  <1>3. QED
    BY <1>1, <1>2 DEF Machine

LEMMA MachineAhead == ASSUME BaseInv, AheadInv, Machine PROVE AheadInv'
  <1>0. PfDepth \in Nat \ {0} /\ pfFifo \in Seq(Pairs) /\ Len(pfFifo) \in Nat
    BY BusPortAssumption DEF BaseInv, DataShapes
  <1>1. ASSUME Land \/ Request PROVE AheadInv'
    BY <1>1 DEF Land, Request, engine, AheadInv
  <1>2. ASSUME dispatch PROVE AheadInv'
    <2>1. CASE Consumed(Head(cmds))
      BY <1>2, <2>1 DEF dispatch, AheadInv
    <2>2. CASE ~Consumed(Head(cmds))
      <3>1. eng'.on /\ ~eng'.spec /\ pfFifo' = <<>> /\ pfRun' = FALSE
        BY <1>2, <2>2 DEF dispatch
      <3>2. QED
        BY <1>0, <3>1 DEF AheadInv
    <2>3. QED
      BY <2>1, <2>2
  <1>3. ASSUME FetchAhead PROVE AheadInv'
    <2>1. /\ pfRun /\ Len(pfFifo) < PfDepth /\ eng'.on /\ eng'.spec /\ eng'.c.addr = pfA
          /\ UNCHANGED <<pfFifo, pfRun, pfA>>
      <3>1. /\ eng' = [on |-> TRUE, spec |-> TRUE,
                       c |-> [Command(port) EXCEPT !.rw = TRUE, !.addr = pfA, !.size = 2, !.pf = FALSE, !.fc = 5]]
            /\ pfRun /\ Len(pfFifo) < PfDepth /\ UNCHANGED <<pfFifo, pfRun, pfA>>
        BY <1>3 DEF FetchAhead
      <3>2. QED
        BY <3>1 DEF Command
    <2>2. pfRun = TRUE
      BY <2>1 DEF BaseInv, Shapes
    <2>3. QED
      BY <1>0, <2>1, <2>2 DEF AheadInv
  <1>4. ASSUME NEW x, CycleEnds(x) PROVE AheadInv'
    <2>1. eng.on /\ eng' = NoCycle /\ \E held \in Pairs : pfFifo' \in {pfFifo, Append(pfFifo, held)}
      <3>1. eng.on /\ eng' = NoCycle
        BY <1>4 DEF CycleEnds
      <3>2. QED
        BY <1>4, <3>1, CycleWord DEF CycleEnds
    <2>2. Len(pfFifo) < PfDepth
      <3>1. CASE eng.spec
        BY <2>1, <3>1 DEF AheadInv
      <3>2. CASE ~eng.spec
        BY <1>0, <2>1, <3>2 DEF AheadInv
      <3>3. QED
        BY <3>1, <3>2
    <2>3. Len(pfFifo') <= PfDepth
      BY <1>0, <2>1, <2>2
    <2>4. QED
      BY <2>1, <2>3 DEF AheadInv, NoCycle
  <1>5. ASSUME NEW w, Foreign(w) PROVE AheadInv'
    BY <1>5 DEF Foreign, AheadInv
  <1>6. QED
    BY <1>1, <1>2, <1>3, <1>4, <1>5 DEF Machine

LEMMA FaultNext ==
  ASSUME BaseInv, QueueInv, FaultInv, AheadInv, ~LateModes, [Next]_vars
  PROVE  FaultInv' /\ AheadInv'
  <1>1. CASE CommandStep
    <2>1. posted \in 0..PostedMax
      BY DEF QueueInv, RoomInv
    <2>2. PICK c : Gives(c)
      BY <1>1, <2>1, StepsGive
    <2>3. QED
      BY <2>2, GivesFault
  <1>2. CASE QuietStep
    BY <1>2, QuietFault, QuietAhead
  <1>3. CASE Modes
    BY <1>3, ModesFault
  <1>4. CASE Machine
    BY <1>4, MachineFault, MachineAhead
  <1>5. CASE UNCHANGED vars
    <2>1. UNCHANGED <<pc, call, st, mine, eng, pfFifo, pfRun, pfA, fault>>
      BY <1>5 DEF vars, engine
    <2>2. QED
      BY <2>1 DEF FaultInv, AheadInv
  <1>6. QED
    BY <1>1, <1>2, <1>3, <1>4, <1>5, HostSplit DEF Next

-----------------------------------------------------------------------------
(***************************************************************************)
(* 5. The words.                                                           *)
(***************************************************************************)
\* The words f are those from address b on, as they have been since the last
\* command; a stream that runs goes on behind them.
Follow(f, run, at, was, b) ==
    /\ \A i \in 1..Len(f) : b + 2 * (i - 1) \in Words /\ f[i] \in was[b + 2 * (i - 1)]
    /\ run = TRUE => at = b + 2 * Len(f)
Streams(b) == Follow(pfFifo, pfRun, pfA, past, b)

Kept == /\ past \in [Words -> SUBSET Pairs]
        /\ \A w \in Words : mem[w] \in past[w]

\* The mirror of the stream is right, but for the time between the loss of
\* power and the first call, which reads address 0 and so finds no head.
Mirror ==
    pf # NoImage =>
        /\ ~reloaded /\ pc # "pfdata" => Streams(pf.next) /\ pf.have <= Len(pfFifo)
        /\ pc = "pfdata" => pf.next = call.addr + 2 /\ pf.have < Len(pfFifo)
        /\ pc = "hit" => pf.next = call.addr

\* A read whose command is over finds its word, unless it was told of a fault.
Reads == call.op \in {"read", "plain"}
Its(word) == word \in past[Even(call.addr)]
Answered ==
    /\ pc \in {"status", "holdup", "holddown"} /\ Reads /\ Underway = <<>> =>
          pfFifo = <<>> /\ pfRun = FALSE /\ (fault \/ Its(rdata))
    /\ pc = "data" /\ Reads => pfFifo = <<>> /\ pfRun = FALSE /\ (st.fault \/ Its(rdata))
    /\ pc = "pfstatus" /\ Underway = <<>> => Streams(call.addr) /\ (fault \/ pfFifo # <<>>)
    /\ pc = "pfdata" => Streams(call.addr)
    /\ pc = "ret" /\ Reads => st.fault \/ Its(res)

DataInv == Kept /\ Mirror /\ Answered

LEMMA FollowShift ==
  ASSUME NEW f \in Seq(Pairs), f # <<>>, NEW run, NEW at, NEW was, NEW b \in Int, Follow(f, run, at, was, b)
  PROVE  /\ b \in Words /\ Head(f) \in was[b] /\ Len(Tail(f)) = Len(f) - 1 /\ Len(f) \in Nat \ {0}
         /\ Follow(Tail(f), run, at, was, b + 2)
  <1>1. /\ Len(Tail(f)) = Len(f) - 1 /\ Len(f) \in Nat \ {0} /\ Head(f) = f[1]
        /\ \A i \in 1..Len(Tail(f)) : i + 1 \in 1..Len(f) /\ Tail(f)[i] = f[i + 1]
    BY TailIs
  <1>2. b \in Words /\ Head(f) \in was[b]
    <2>1. 1 \in 1..Len(f) /\ b + 2 * (1 - 1) = b
      BY <1>1
    <2>2. QED
      BY <1>1, <2>1 DEF Follow
  <1>3. ASSUME NEW i \in 1..Len(Tail(f))
        PROVE  (b + 2) + 2 * (i - 1) \in Words /\ Tail(f)[i] \in was[(b + 2) + 2 * (i - 1)]
    <2>1. (b + 2) + 2 * (i - 1) = b + 2 * ((i + 1) - 1)
      BY <1>1
    <2>2. QED
      BY <1>1, <2>1 DEF Follow
  <1>4. run = TRUE => at = (b + 2) + 2 * Len(Tail(f))
    BY <1>1 DEF Follow
  <1>5. QED
    BY <1>1, <1>2, <1>3, <1>4 DEF Follow

LEMMA FollowGrows ==
  ASSUME NEW f \in Seq(Pairs), NEW at \in Words, NEW was, NEW b \in Int, Follow(f, TRUE, at, was, b),
         NEW v \in Pairs, v \in was[at], NEW run
  PROVE  Follow(Append(f, v), run, at + 2, was, b)
  <1>1. Len(f) \in Nat /\ at = b + 2 * Len(f)
    BY DEF Follow
  <1>2. /\ Len(Append(f, v)) = Len(f) + 1
        /\ \A i \in 1..Len(f) : Append(f, v)[i] = f[i]
        /\ Append(f, v)[Len(f) + 1] = v
    OBVIOUS
  <1>3. ASSUME NEW i \in 1..(Len(f) + 1)
        PROVE  b + 2 * (i - 1) \in Words /\ Append(f, v)[i] \in was[b + 2 * (i - 1)]
    <2>1. CASE i = Len(f) + 1
      <3>1. b + 2 * (i - 1) = at
        BY <1>1, <2>1
      <3>2. QED
        BY <1>2, <2>1, <3>1
    <2>2. CASE i # Len(f) + 1
      <3>1. i \in 1..Len(f)
        BY <1>1, <2>2
      <3>2. QED
        BY <1>2, <3>1 DEF Follow
    <2>3. QED
      BY <2>1, <2>2
  <1>4. at + 2 = b + 2 * (Len(f) + 1)
    BY <1>1
  <1>5. QED
    BY <1>2, <1>3, <1>4 DEF Follow

LEMMA FollowOn ==
  ASSUME NEW f, NEW run, NEW at, NEW was, NEW b, Follow(f, run, at, was, b),
         NEW now, \A w \in Words : was[w] \subseteq now[w],
         NEW goes, goes = TRUE => run = TRUE
  PROVE  Follow(f, goes, at, now, b)
  BY DEF Follow

LEMMA InitData == ASSUME Init PROVE DataInv
  <1>1. mem \in [Words -> Pairs]
    BY InitBase DEF BaseInv, DataShapes
  <1>2. past = [w \in Words |-> {mem[w]}] /\ pf = NoImage /\ pc = "idle"
    BY DEF Init
  <1>3. Kept
    BY <1>1, <1>2 DEF Kept
  <1>4. QED
    BY <1>2, <1>3 DEF DataInv, Mirror, Answered

LEMMA GivesData == ASSUME BaseInv, NEW c, Gives(c) PROVE DataInv'
  <1>1. /\ past' = [w \in Words |-> {mem[w]}] /\ mem' = mem /\ pf' = NoImage
        /\ pc' \in Awaiting \cup {"ret"} /\ (pc' = "ret" => call'.op = "write")
    BY DEF Gives, Fresh
  <1>2. Kept'
    BY <1>1 DEF BaseInv, DataShapes, Kept
  <1>3. Underway' # <<>>
    <2>1. Underway' = Append(Underway, c) /\ Underway \in Seq(Commands)
      BY UnderwayGrows, UnderwayType DEF Gives
    <2>2. QED
      BY <2>1
  <1>4. QED
    BY <1>1, <1>2, <1>3 DEF DataInv, Mirror, Answered, Reads, Awaiting

LEMMA ModesData == ASSUME DataInv, Modes PROVE DataInv'
  <1>1. /\ pc = "idle" /\ pc' = "idle" /\ UNCHANGED <<past, mem>> /\ pf' \in {pf, NoImage}
        /\ \/ hw_reinit
           \/ UNCHANGED <<pfFifo, pfRun, pfA, reloaded>>
    BY ModesFrame
  <1>2. Kept' /\ Answered'
    BY <1>1 DEF DataInv, Kept, Answered
  <1>3. Mirror'
    <2>1. CASE hw_reinit
      <3>1. reloaded' = TRUE
        BY <2>1 DEF hw_reinit
      <3>2. QED
        BY <1>1, <3>1 DEF Mirror
    <2>2. CASE ~hw_reinit
      BY <1>1, <2>2 DEF DataInv, Mirror, Streams
    <2>3. QED
      BY <2>1, <2>2
  <1>4. QED
    BY <1>2, <1>3 DEF DataInv

\* The head of the stream leaves it.
LEMMA HeadLeaves ==
  ASSUME BaseInv, NEW b \in Int, Streams(b), pfFifo # <<>>, pfFifo' = Popped, UNCHANGED <<past, pfRun, pfA>>
  PROVE  /\ b \in Words /\ Word \in past[b] /\ Len(pfFifo') = Len(pfFifo) - 1 /\ Len(pfFifo) \in Nat \ {0}
         /\ Follow(pfFifo', pfRun', pfA', past', b + 2)
  <1>1. pfFifo \in Seq(Pairs)
    BY DEF BaseInv, DataShapes
  <1>2. /\ b \in Words /\ Head(pfFifo) \in past[b] /\ Len(Tail(pfFifo)) = Len(pfFifo) - 1 /\ Len(pfFifo) \in Nat \ {0}
        /\ Follow(Tail(pfFifo), pfRun, pfA, past, b + 2)
    BY <1>1, FollowShift DEF Streams
  <1>3. Word = Head(pfFifo) /\ Popped = Tail(pfFifo)
    BY DEF Word, Popped
  <1>4. QED
    BY <1>2, <1>3

LEMMA ReadsWords ==
  ASSUME BaseInv, pc # "idle", call.op = "read"
  PROVE  call.addr \in Words /\ call.addr \in Int /\ Even(call.addr) = call.addr
  <1>1. call.addr \in Words
    BY DEF BaseInv, Shapes, Calls, Words
  <1>2. call.addr \in Int
    BY <1>1, SpaceIs DEF Words
  <1>3. QED
    BY <1>1, <1>2, NextWord

LEMMA CountIs ==
  ASSUME BaseInv
  PROVE  /\ Count \in Nat /\ Count <= Len(pfFifo) /\ (Count = 0 => pfFifo = <<>>)
         /\ Len(pfFifo) \in Nat
  <1>1. pfFifo \in Seq(Pairs)
    BY DEF BaseInv, DataShapes
  <1>2. QED
    BY <1>1 DEF Count, Smaller

\* What stays of the mirror, and of the answer to a read, when the words do.
LEMMA BegunData ==
  ASSUME BaseInv, DataInv, MirrorIdle, NEW k \in menu.calls \cup {BootRead}, Begun(k)
  PROVE  DataInv'
  <1>1. /\ pc = "idle" /\ pc' \in {"hit", "room", "drain"} /\ call' = k /\ pf' = pf /\ reloaded' = FALSE
        /\ UNCHANGED <<past, mem, pfFifo, pfRun, pfA>>
        /\ pc' = "hit" => pf.next = k.addr
    BY DEF Begun, Read, BusWrite, Iack, MayBegin, Hits, engine
  <1>2. pf # NoImage => ~reloaded
    <2>1. SUFFICES ASSUME pf # NoImage, reloaded PROVE FALSE
      OBVIOUS
    <2>2. k.op = "read" /\ k.addr = 0
      BY <2>1, BeginsCall DEF Begun, Read, BusWrite, Iack
    <2>3. pf.next = 0
      BY <2>2 DEF Begun, Read, BusWrite, Iack, Hits
    <2>4. pf.next \in 2..(Top + 1)
      BY <2>1 DEF MirrorIdle, Heads
    <2>5. QED
      BY <2>3, <2>4, SpaceIs DEF Top
  <1>3. Kept'
    BY <1>1 DEF DataInv, Kept
  <1>4. Mirror'
    BY <1>1, <1>2 DEF DataInv, Mirror, Streams
  <1>5. Answered'
    BY <1>1 DEF Answered
  <1>6. QED
    BY <1>3, <1>4, <1>5 DEF DataInv

LEMMA TakeHit ==
  ASSUME BaseInv, DataInv, MirrorIdle, HitTake
  PROVE  DataInv'
  <1>1. /\ pc = "hit" /\ pc' = "ret" /\ call' = call /\ pf.have > 0 /\ res' = Word /\ pfFifo' = Popped
        /\ pf' = [next |-> call.addr + 2, have |-> pf.have - 1]
        /\ UNCHANGED <<past, mem, pfRun, pfA, reloaded, st>>
    BY DEF HitTake, TakeWord, EngineStaysButFifo, Elsewhere
  <1>2. pf # NoImage /\ pf \in Heads /\ pf.next = call.addr /\ call.op = "read" /\ ~reloaded
    BY <1>1 DEF MirrorIdle, DataInv, Mirror, BaseInv, Ways
  <1>3. call.addr \in Words /\ call.addr \in Int /\ Even(call.addr) = call.addr
    BY <1>1, <1>2, ReadsWords
  <1>4. Streams(call.addr) /\ pf.have <= Len(pfFifo) /\ pf.have \in Nat
    BY <1>1, <1>2 DEF DataInv, Mirror, Heads
  <1>5. pfFifo # <<>>
    BY <1>1, <1>4
  <1>6. /\ Word \in past[call.addr] /\ Len(pfFifo') = Len(pfFifo) - 1 /\ Len(pfFifo) \in Nat \ {0}
        /\ Follow(pfFifo', pfRun', pfA', past', call.addr + 2)
    BY <1>1, <1>3, <1>4, <1>5, HeadLeaves
  <1>7. pf'.next = call.addr + 2 /\ pf'.have = pf.have - 1
    BY <1>1
  <1>8. Mirror'
    BY <1>1, <1>4, <1>6, <1>7 DEF Mirror, Streams
  <1>9. Answered'
    BY <1>1, <1>3, <1>6 DEF Answered, Its
  <1>10. QED
    BY <1>1, <1>8, <1>9 DEF DataInv, Kept

LEMMA StreamTakes ==
  ASSUME BaseInv, DataInv, MirrorIdle, StreamData
  PROVE  DataInv'
  <1>1. /\ pc = "pfdata" /\ pc' = "ret" /\ call' = call /\ res' = Word /\ pfFifo' = Popped /\ pf' = pf
        /\ UNCHANGED <<past, mem, pfRun, pfA, reloaded, st>>
    BY DEF StreamData, TakeWord, EngineStaysButFifo, Elsewhere, NoStrobe
  <1>2. pf # NoImage /\ pf \in Heads /\ pf.next = call.addr + 2 /\ call.op = "read"
    BY <1>1 DEF MirrorIdle, DataInv, Mirror, BaseInv, Ways
  <1>3. call.addr \in Words /\ call.addr \in Int /\ Even(call.addr) = call.addr
    BY <1>1, <1>2, ReadsWords
  <1>4. Streams(call.addr) /\ pf.have < Len(pfFifo) /\ pf.have \in Nat
    BY <1>1, <1>2 DEF DataInv, Mirror, Answered, Heads
  <1>5. pfFifo # <<>>
    BY <1>4
  <1>6. /\ Word \in past[call.addr] /\ Len(pfFifo') = Len(pfFifo) - 1 /\ Len(pfFifo) \in Nat \ {0}
        /\ Follow(pfFifo', pfRun', pfA', past', call.addr + 2)
    BY <1>1, <1>3, <1>4, <1>5, HeadLeaves
  <1>7. Mirror'
    BY <1>1, <1>2, <1>4, <1>6 DEF Mirror, Streams
  <1>8. Answered'
    BY <1>1, <1>3, <1>6 DEF Answered, Its
  <1>9. QED
    BY <1>1, <1>7, <1>8 DEF DataInv, Kept

\* The steps that leave the FIFO alone.
Looks ==
    /\ UNCHANGED <<call, pfFifo, reloaded>>
    /\ \/ /\ pc = "hit" /\ pc' = "hit" /\ pf'.next = pf.next /\ pf'.have <= Len(pfFifo)
       \/ /\ pc \in {"up", "down", "done", "room"} /\ pc' \in {"up", "down", "done", "ret"} /\ pf' = pf
       \/ /\ pc \in {"holdup", "holddown"} /\ pc' \in {"holddown", "status"} /\ pf' = pf
       \/ /\ pc = "holddown" /\ pc' = "ret" /\ pf' = pf /\ ~fault /\ Underway = <<>> /\ res' = rdata
       \/ /\ pc' = pc /\ pf' = pf /\ st' = st /\ res' = res
       \/ /\ pc = "status" /\ pc' = "data" /\ pf' = pf /\ Underway = <<>> /\ st'.fault = fault
       \/ /\ pc = "pfstatus" /\ pc' = "ret" /\ pf' = pf /\ Underway = <<>> /\ st'.fault = fault /\ pfFifo = <<>>
       \/ /\ pc = "pfstatus" /\ pc' = "pfdata" /\ pf'.next = call.addr + 2 /\ pf'.have < Len(pfFifo)
          /\ Underway = <<>>

LEMMA QuietLooks ==
  ASSUME BaseInv, QueueInv, QuietStep
  PROVE  \/ \E k \in menu.calls \cup {BootRead} : Begun(k)
         \/ HitTake \/ StreamData \/ TakeData \/ Return
         \/ Looks
  <1> USE DEF Elsewhere, NoStrobe, EngineStays, engine
  <1>0. ~Busy /\ wire = <<>> => Underway = <<>>
    BY UnderwayParts
  <1>1. ASSUME HitCounts PROVE Looks
    <2>1. /\ pc = "hit" /\ pc' = "hit" /\ pf' = [pf EXCEPT !.have = Count] /\ UNCHANGED <<call, pfFifo, reloaded>>
      BY <1>1 DEF HitCounts
    <2>2. pf \in Heads
      BY <2>1 DEF QueueInv, OrderInv, MirrorIdle
    <2>3. pf'.next = pf.next /\ pf'.have = Count
      BY <2>1, <2>2 DEF Heads
    <2>4. QED
      BY <2>1, <2>3, CountIs DEF Looks
  <1>2. ASSUME LineHigh \/ LineGivesUp PROVE Looks
    BY <1>2 DEF LineHigh, LineGivesUp, Looks
  <1>3. ASSUME LineLow PROVE Looks
    BY <1>3, LowMeansOver DEF LineLow, Looks
  <1>4. ASSUME BusyPoll PROVE Looks
    BY <1>4 DEF BusyPoll, Looks
  <1>5. ASSUME StatusDone \/ WriteDone PROVE Looks
    BY <1>0, <1>5 DEF StatusDone, WriteDone, NotBusy, Status, Looks
  <1>6. ASSUME StreamStatus PROVE Looks
    <2>1. /\ pc = "pfstatus" /\ ~Busy /\ wire = <<>> /\ st'.fault = fault /\ UNCHANGED <<call, pfFifo, reloaded>>
          /\ \/ Count = 0 /\ pc' = "ret" /\ pf' = pf
             \/ Count # 0 /\ pc' = "pfdata" /\ pf' = [next |-> call.addr + 2, have |-> Count - 1]
      BY <1>6 DEF StreamStatus, StreamReady, NotBusy, Status
    <2>2. pc' = "pfdata" => pf'.next = call.addr + 2 /\ pf'.have < Len(pfFifo)
      <3>1. Count # 0 => Count - 1 < Len(pfFifo)
        BY CountIs
      <3>2. QED
        BY <2>1, <3>1
    <2>3. pc' = "ret" => pfFifo = <<>>
      BY <2>1, CountIs
    <2>4. QED
      BY <1>0, <2>1, <2>2, <2>3 DEF Looks
  <1>7. ASSUME RoomMade, fault PROVE Looks
    BY <1>7 DEF RoomMade, NotBusy, Looks
  <1>8. QED
    BY <1>1, <1>2, <1>3, <1>4, <1>5, <1>6, <1>7 DEF QuietStep

LEMMA LooksData ==
  ASSUME BaseInv, QueueInv, DataInv, QuietStep, Looks
  PROVE  DataInv'
  <1>1. /\ UNCHANGED <<past, mem, pfFifo, pfRun, pfA, rdata, reloaded, call>> /\ Underway' = Underway
        /\ (pc' # "idle" => fault' = fault)
    BY QuietStill, UnderwaySame DEF Still, Looks
  <1>2. Kept' /\ Ways
    BY <1>1 DEF DataInv, Kept, BaseInv
  <1>3. Mirror'
    <2>0. ASSUME pf' # NoImage PROVE pf # NoImage \/ pc = "pfstatus"
      BY <2>0 DEF Looks, QueueInv, OrderInv, MirrorIdle
    <2>1. pc # "idle" => ~reloaded
      BY <1>2 DEF Ways
    <2>2. ASSUME pf' # NoImage, ~reloaded, pc' # "pfdata"
          PROVE  Streams(pf'.next) /\ pf'.have <= Len(pfFifo)
      <3>1. CASE pc = "hit" /\ pc' = "hit"
        BY <2>2, <3>1 DEF Looks, DataInv, Mirror, QueueInv, OrderInv, MirrorIdle
      <3>2. CASE ~(pc = "hit" /\ pc' = "hit")
        <4>1. pf' = pf /\ pc # "pfdata"
          BY <2>2, <3>2 DEF Looks
        <4>2. QED
          BY <2>2, <4>1 DEF DataInv, Mirror
      <3>3. QED
        BY <3>1, <3>2
    <2>3. pf' # NoImage /\ pc' = "pfdata" => pf'.next = call.addr + 2 /\ pf'.have < Len(pfFifo)
      BY DEF Looks, DataInv, Mirror
    <2>4. pf' # NoImage /\ pc' = "hit" => pf'.next = call.addr
      BY DEF Looks, DataInv, Mirror, QueueInv, OrderInv, MirrorIdle
    <2>5. QED
      BY <1>1, <2>2, <2>3, <2>4 DEF Mirror, Streams
  <1>4. Answered'
    <2>0. Answered
      BY DEF DataInv
    <2>1. ASSUME pc' \in {"status", "holdup", "holddown"}, Reads, Underway = <<>>
          PROVE  pfFifo = <<>> /\ pfRun = FALSE /\ (fault' \/ Its(rdata))
      <3>1. pc \in {"status", "holdup", "holddown"} /\ fault' = fault
        BY <1>1, <2>1 DEF Looks
      <3>2. QED
        BY <2>0, <2>1, <3>1 DEF Answered
    <2>2. ASSUME pc' = "data", Reads
          PROVE  pfFifo = <<>> /\ pfRun = FALSE /\ (st'.fault \/ Its(rdata))
      <3>1. \/ pc = "data" /\ st' = st
            \/ pc = "status" /\ Underway = <<>> /\ st'.fault = fault
        BY <2>2 DEF Looks
      <3>2. QED
        BY <2>0, <2>2, <3>1 DEF Answered
    <2>3. ASSUME pc' = "pfstatus", Underway = <<>>
          PROVE  Streams(call.addr) /\ (fault' \/ pfFifo # <<>>)
      <3>1. pc = "pfstatus" /\ fault' = fault
        BY <1>1, <2>3 DEF Looks
      <3>2. QED
        BY <2>0, <2>3, <3>1 DEF Answered
    <2>4. ASSUME pc' = "pfdata" PROVE Streams(call.addr)
      <3>1. pc = "pfdata" \/ (pc = "pfstatus" /\ Underway = <<>>)
        BY <2>4 DEF Looks
      <3>2. QED
        BY <2>0, <3>1 DEF Answered
    <2>5. ASSUME pc' = "ret", Reads PROVE st'.fault \/ Its(res')
      <3>1. pc \notin {"up", "down", "done", "room"}
        BY <1>2, <2>5 DEF Ways, Reads
      <3>2. \/ pc = "holddown" /\ ~fault /\ Underway = <<>> /\ res' = rdata
            \/ pc = "ret" /\ st' = st /\ res' = res
            \/ pc = "pfstatus" /\ Underway = <<>> /\ st'.fault = fault /\ pfFifo = <<>>
        BY <2>5, <3>1 DEF Looks
      <3>3. QED
        BY <2>0, <2>5, <3>2 DEF Answered
    <2>6. QED
      BY <1>1, <2>1, <2>2, <2>3, <2>4, <2>5 DEF Answered, Reads, Its, Streams
  <1>5. QED
    BY <1>2, <1>3, <1>4 DEF DataInv

LEMMA QuietData ==
  ASSUME BaseInv, QueueInv, DataInv, QuietStep
  PROVE  DataInv'
  <1>0. MirrorIdle /\ Ways /\ Kept /\ Mirror /\ Answered
    BY DEF QueueInv, OrderInv, BaseInv, DataInv
  <1>1. ASSUME NEW k \in menu.calls \cup {BootRead}, Begun(k) PROVE DataInv'
    BY <1>0, <1>1, BegunData
  <1>2. ASSUME HitTake PROVE DataInv'
    BY <1>0, <1>2, TakeHit
  <1>3. ASSUME StreamData PROVE DataInv'
    BY <1>0, <1>3, StreamTakes
  <1>4. ASSUME TakeData PROVE DataInv'
    <2>1. /\ pc = "data" /\ pc' = "ret" /\ call' = call /\ res' = Word /\ pf' = pf /\ pfFifo' = Popped
          /\ UNCHANGED <<past, mem, pfRun, pfA, st>>
      BY <1>4 DEF TakeData, TakeWord, EngineStaysButFifo, Elsewhere, NoStrobe
    <2>2. pf = NoImage
      BY <1>0, <2>1 DEF MirrorIdle
    <2>3. Reads => Word = rdata /\ (st.fault \/ Its(rdata))
      BY <1>0, <2>1 DEF Answered, Word
    <2>4. Answered'
      BY <2>1, <2>3 DEF Answered, Reads, Its
    <2>5. QED
      BY <1>0, <2>1, <2>2, <2>4 DEF DataInv, Kept, Mirror
  <1>5. ASSUME Return PROVE DataInv'
    <2>1. /\ pc = "ret" /\ pc' = "idle" /\ UNCHANGED <<past, mem, pf, pfFifo, pfRun, pfA, reloaded>>
      BY <1>5 DEF Return, NoStrobe
    <2>2. ~reloaded
      BY <1>0, <2>1 DEF Ways
    <2>3. Mirror' /\ Answered' /\ Kept'
      BY <1>0, <2>1, <2>2 DEF Mirror, Answered, Kept, Streams
    <2>4. QED
      BY <2>3 DEF DataInv
  <1>6. QED
    BY <1>1, <1>2, <1>3, <1>4, <1>5, QuietLooks, LooksData

\* What the FPGA does to the words while no command is on its way.
Fetches ==
    /\ \A b \in Int : Streams(b) => Follow(pfFifo', pfRun', pfA', past', b)
    /\ Len(pfFifo) <= Len(pfFifo') /\ (pfFifo # <<>> => pfFifo' # <<>>) /\ rdata' = rdata
    /\ \A w \in Words : past[w] \subseteq past'[w]
    /\ pfRun = FALSE => pfFifo' = pfFifo /\ pfRun' = FALSE
    /\ Underway' = <<>> /\ fault' = fault

LEMMA CycleFetches ==
  ASSUME BaseInv, AheadInv, Kept, Underway = <<>>, NEW x, CycleEnds(x)
  PROVE  Fetches
  <1>1. eng.on /\ eng.spec /\ wire = <<>> /\ eng.c.rw /\ eng.c.fc = 5 /\ ~eng.c.pf /\ eng.c.addr = pfA
        /\ pfRun = TRUE /\ pfA \in Words /\ pfFifo \in Seq(Pairs) /\ cmds = <<>>
    <2>1. eng.on /\ ~Busy /\ wire = <<>>
      BY UnderwayParts DEF CycleEnds
    <2>2. eng.spec
      BY <2>1 DEF Busy
    <2>3. QED
      BY <2>1, <2>2 DEF Busy, AheadInv, BaseInv, Shapes, Cycle, AheadRead, DataShapes
  <1>2. Even(pfA) = pfA /\ mem[pfA] \in past[pfA] /\ mem[pfA] \in Pairs
    BY <1>1, NextWord DEF Kept, BaseInv, DataShapes
  <1>3. /\ UNCHANGED <<past, rdata, fault>> /\ eng' = NoCycle /\ UNCHANGED <<cmds, wire>>
        /\ pfFifo' = (IF x # "none" THEN Append(pfFifo, mem[pfA]) ELSE pfFifo)
        /\ pfA' = pfA + 2 /\ (x = "none" => pfRun' = FALSE)
    <2>1. eng' = NoCycle /\ UNCHANGED <<cmds, wire>>
      BY DEF CycleEnds
    <2>2. fault' = fault
      <3>1. fault' = (fault \/ (x = "none" /\ ~eng.spec)) /\ fault \in BOOLEAN
        BY DEF CycleEnds, BaseInv, Shapes
      <3>2. QED
        BY <1>1, <3>1
    <2>3. UNCHANGED <<past, rdata>>
      BY <1>1 DEF CycleEnds
    <2>4. pfFifo' = (IF x # "none" THEN Append(pfFifo, mem[pfA]) ELSE pfFifo)
      <3>1. eng.c.fc # 7
        BY <1>1
      <3>2. QED
        BY <1>1, <1>2, <3>1 DEF CycleEnds
    <2>5. pfA' = pfA + 2
      BY <1>1, <1>2 DEF CycleEnds
    <2>6. x = "none" => pfRun' = FALSE
      BY <1>1 DEF CycleEnds
    <2>7. QED
      BY <2>1, <2>2, <2>3, <2>4, <2>5, <2>6
  <1>4. ASSUME NEW b \in Int, Streams(b) PROVE Follow(pfFifo', pfRun', pfA', past', b)
    <2>1. CASE x = "none"
      BY <1>3, <1>4, <2>1 DEF Streams, Follow
    <2>2. CASE x # "none"
      <3>1. Follow(pfFifo, TRUE, pfA, past, b)
        BY <1>1, <1>4 DEF Streams
      <3>2. Follow(Append(pfFifo, mem[pfA]), pfRun', pfA + 2, past, b)
        BY <1>1, <1>2, <3>1, FollowGrows
      <3>3. QED
        BY <1>3, <2>2, <3>2
    <2>3. QED
      BY <2>1, <2>2
  <1>5. Underway' = <<>>
    <2>1. Underway' = <<>> \o <<>> \o <<>>
      BY <1>1, <1>3 DEF Underway, NoCycle
    <2>2. QED
      BY <2>1
  <1>6. Len(pfFifo) <= Len(pfFifo') /\ (pfFifo # <<>> => pfFifo' # <<>>)
    <2>1. CASE x = "none"
      BY <1>1, <1>3, <2>1
    <2>2. CASE x # "none"
      <3>1. pfFifo' = Append(pfFifo, mem[pfA])
        BY <1>3, <2>2
      <3>2. QED
        BY <1>1, <3>1
    <2>3. QED
      BY <2>1, <2>2
  <1>7. QED
    BY <1>1, <1>3, <1>4, <1>5, <1>6 DEF Fetches

LEMMA MachineFetches ==
  ASSUME BaseInv, QueueInv, AheadInv, Kept, Underway = <<>>, Machine
  PROVE  Fetches
  <1>0. wire = <<>> /\ cmds = <<>> /\ pfFifo \in Seq(Pairs)
    BY UnderwayParts DEF Busy, BaseInv, DataShapes
  <1>1. ASSUME NEW x, CycleEnds(x) PROVE Fetches
    BY <1>1, CycleFetches
  <1>2. Underway' = <<>>
    <2>1. Same
      BY MachineMoves DEF Over
    <2>2. QED
      BY <2>1 DEF Same
  <1>3. ASSUME FetchAhead \/ Request PROVE Fetches
    <2>1. UNCHANGED <<pfFifo, pfRun, pfA, past, rdata, fault>>
      BY <1>3 DEF FetchAhead, Request, engine
    <2>2. QED
      BY <1>0, <1>2, <2>1 DEF Fetches, Streams
  <1>4. ASSUME NEW w \in menu.shared, Foreign(w) PROVE Fetches
    <2>1. /\ UNCHANGED <<pfFifo, pfA, rdata, fault>> /\ pfRun' = FALSE
          /\ past' = [past EXCEPT ![w] = @ \cup {mem'[w]}]
      BY <1>4 DEF Foreign
    <2>2. \A v \in Words : past[v] \subseteq past'[v]
      BY <2>1 DEF Kept
    <2>3. ASSUME NEW b \in Int, Streams(b) PROVE Follow(pfFifo', pfRun', pfA', past', b)
      <3>1. Follow(pfFifo, pfRun, pfA, past, b) /\ (FALSE = TRUE => pfRun = TRUE)
        BY <2>3 DEF Streams
      <3>2. Follow(pfFifo, FALSE, pfA, past', b)
        BY <2>2, <3>1, FollowOn
      <3>3. QED
        BY <2>1, <3>2
    <2>4. Len(pfFifo) <= Len(pfFifo') /\ (pfFifo # <<>> => pfFifo' # <<>>)
      BY <1>0, <2>1
    <2>5. QED
      BY <1>2, <2>1, <2>2, <2>3, <2>4 DEF Fetches
  <1>5. ASSUME Land \/ dispatch PROVE FALSE
    BY <1>0, <1>5 DEF Land, dispatch
  <1>6. QED
    BY <1>1, <1>3, <1>4, <1>5 DEF Machine

LEMMA MachineKept == ASSUME BaseInv, Kept, Machine PROVE Kept'
  <1>0. mem \in [Words -> Pairs] /\ mem' \in [Words -> Pairs] /\ past \in [Words -> SUBSET Pairs]
    BY MachineData DEF BaseInv, DataShapes, Kept
  <1>1. ASSUME NEW x, CycleEnds(x) PROVE Kept'
    <2>1. CASE eng.c.rw
      BY <1>1, <2>1 DEF CycleEnds, Kept
    <2>2. CASE ~eng.c.rw
      <3> DEFINE w == Even(eng.c.addr)
                 s == Stored(mem[w], eng.c.addr, eng.c.size, eng.c.data)
      <3>1. w \in Words
        BY <1>1, CycleWord DEF CycleEnds
      <3>2. past' = [past EXCEPT ![w] = {mem'[w]}] /\ mem' \in {mem, [mem EXCEPT ![w] = s]}
        BY <1>1, <2>2 DEF CycleEnds
      <3> HIDE DEF w, s
      <3>3. mem'[w] \in Pairs
        BY <1>0, <3>1
      <3>4. \A v \in Words : v # w => mem'[v] = mem[v] /\ past'[v] = past[v]
        BY <1>0, <3>2
      <3>5. past'[w] = {mem'[w]}
        BY <1>0, <3>1, <3>2
      <3>6. past' \in [Words -> SUBSET Pairs]
        BY <1>0, <3>1, <3>2, <3>3
      <3>7. QED
        BY <3>4, <3>5, <3>6 DEF Kept
    <2>3. QED
      BY <2>1, <2>2
  <1>2. ASSUME NEW w \in menu.shared, Foreign(w) PROVE Kept'
    <2>1. /\ mem' = [mem EXCEPT ![w] = <<0 - 10 - foreign, 0 - 10 - foreign>>]
          /\ past' = [past EXCEPT ![w] = @ \cup {mem'[w]}]
      BY <1>2 DEF Foreign
    <2>2. w \in Words
      BY <1>2, BusPortAssumption DEF BaseInv, Shapes
    <2>3. mem'[w] \in Pairs
      BY <1>0, <2>2
    <2>4. \A v \in Words : v # w => mem'[v] = mem[v] /\ past'[v] = past[v]
      BY <1>0, <2>1
    <2>5. past'[w] = past[w] \cup {mem'[w]}
      BY <1>0, <2>1, <2>2
    <2>6. past' \in [Words -> SUBSET Pairs]
      BY <1>0, <2>1, <2>2, <2>3
    <2>7. QED
      BY <2>4, <2>5, <2>6 DEF Kept
  <1>3. ASSUME Land \/ dispatch \/ FetchAhead \/ Request PROVE Kept'
    <2>1. UNCHANGED <<mem, past>>
      BY <1>3 DEF Land, dispatch, FetchAhead, Request, engine
    <2>2. QED
      BY <2>1 DEF Kept
  <1>4. QED
    BY <1>1, <1>2, <1>3 DEF Machine

\* The command a read waits for is over: this is its word.
LEMMA ReadOver ==
  ASSUME BaseInv, QueueInv, AheadInv, Kept, Machine, Underway # <<>>, Underway' = <<>>,
         pc \in Awaiting, Reads
  PROVE  /\ past' = past /\ eng.on /\ ~eng.spec /\ Expected(eng.c, call, pc)
         /\ \E x \in {"dtack", "vector", "vpa", "none"} : CycleEnds(x)
  <1>1. /\ Underway \in Seq(Commands) /\ Head(Underway) = Underway[1] /\ Underway' = Tail(Underway)
        /\ Len(Underway) \in Nat \ {0} /\ Len(Tail(Underway)) = Len(Underway) - 1
    <2>1. Over
      BY MachineMoves DEF Same
    <2>2. QED
      BY <2>1, UnderwayType, TailIs DEF Over
  <1>2. Len(Underway) = 1
    <2>1. \A t : t = <<>> => Len(t) = 0
      OBVIOUS
    <2>2. Len(Tail(Underway)) = 0
      BY <1>1, <2>1
    <2>3. \A n \in Nat : n - 1 = 0 => n = 1
      OBVIOUS
    <2>4. QED
      BY <1>1, <2>2, <2>3
  <1>3. Expected(Head(Underway), call, pc)
    BY <1>1, <1>2 DEF QueueInv, OrderInv, LastWaited, LastOneOf
  <1>4. Head(Underway).rw
    BY <1>3 DEF Expected, Reads
  <1>5. ~dispatch
    <2>1. SUFFICES ASSUME dispatch PROVE FALSE
      OBVIOUS
    <2>2. ~eng.on /\ cmds # <<>> /\ cmds' = Tail(cmds) /\ wire' = wire
      BY <2>1 DEF dispatch
    <2>3. Consumed(Head(cmds)) /\ eng' = eng
      <3>1. ~Same
        BY DEF Same
      <3>2. QED
        BY <2>1, <3>1, DispatchMoves DEF dispatch
    <2>4. Head(Underway) = Head(cmds)
      BY <2>2, <2>3, UnderwayConsumes
    <2>5. QED
      BY <1>4, <2>3, <2>4 DEF Consumed
  <1>6. ~Land
    <2>1. SUFFICES ASSUME Land PROVE FALSE
      OBVIOUS
    <2>2. wire # <<>> /\ cmds' = Append(cmds, Head(wire)) /\ wire' = Tail(wire) /\ eng' = eng
      BY <2>1 DEF Land
    <2>3. QED
      BY <2>2, UnderwayLands
  <1>7. ~FetchAhead
    <2>1. SUFFICES ASSUME FetchAhead PROVE FALSE
      OBVIOUS
    <2>2. ~eng.on /\ eng'.on /\ eng'.spec /\ UNCHANGED <<cmds, wire>>
      BY <2>1 DEF FetchAhead
    <2>3. QED
      BY <2>2 DEF Underway
  <1>8. ~Request /\ \A w : ~Foreign(w)
    BY UnderwaySame DEF Request, Foreign, engine
  <1>9. PICK x \in {"dtack", "vector", "vpa", "none"} : CycleEnds(x)
    BY <1>5, <1>6, <1>7, <1>8 DEF Machine
  <1>10. eng.on /\ eng' = NoCycle /\ UNCHANGED <<cmds, wire>>
    BY <1>9 DEF CycleEnds
  <1>11. ~eng.spec
    BY <1>9, CycleMoves DEF Same
  <1>12. Head(Underway) = eng.c
    BY <1>10, <1>11, UnderwayEnds
  <1>13. past' = past
    BY <1>4, <1>9, <1>12 DEF CycleEnds
  <1>14. QED
    BY <1>3, <1>9, <1>10, <1>11, <1>12, <1>13

LEMMA FollowNone == \A at, was, b : Follow(<<>>, FALSE, at, was, b)
  BY DEF Follow
LEMMA FollowFirst ==
  ASSUME NEW w \in Words, NEW was, NEW v \in Pairs, v \in was[w], NEW run
  PROVE  Follow(<<v>>, run, w + 2, was, w)
  <1>1. w \in Int
    BY SpaceIs DEF Words
  <1>2. Follow(<<>>, TRUE, w, was, w)
    BY <1>1 DEF Follow
  <1>3. <<>> \in Seq(Pairs) /\ Append(<<>>, v) = <<v>>
    OBVIOUS
  <1>4. Follow(Append(<<>>, v), run, w + 2, was, w)
    BY <1>1, <1>2, <1>3, FollowGrows
  <1>5. QED
    BY <1>3, <1>4

LEMMA MachineWords ==
  ASSUME BaseInv, QueueInv, AheadInv, DataInv, Machine
  PROVE  Mirror' /\ Answered'
  <1>0. /\ UNCHANGED <<pc, call, res, st, pf, reloaded>> /\ Kept /\ Mirror /\ Answered /\ PostedOrder /\ MirrorIdle
    BY MachineFrame DEF DataInv, QueueInv, OrderInv
  <1>1. CASE Underway = <<>>
    <2>1. Fetches
      BY <1>0, <1>1, MachineFetches
    <2>2. pf # NoImage => pf.next \in Int /\ pf.have \in Nat
      BY <1>0, SpaceIs DEF MirrorIdle, Heads
    <2>3. pfFifo \in Seq(Pairs) /\ pfFifo' \in Seq(Pairs)
      BY MachineData DEF BaseInv, DataShapes
    <2>4. Len(pfFifo) \in Nat /\ Len(pfFifo') \in Nat /\ Len(pfFifo) <= Len(pfFifo')
      BY <2>1, <2>3 DEF Fetches
    <2>5. Mirror'
      <3>1. pf # NoImage /\ ~reloaded /\ pc # "pfdata" => Follow(pfFifo', pfRun', pfA', past', pf.next) /\ pf.have <= Len(pfFifo')
        BY <1>0, <2>1, <2>2, <2>4 DEF Fetches, Mirror
      <3>2. pf # NoImage /\ pc = "pfdata" => pf.next = call.addr + 2 /\ pf.have < Len(pfFifo')
        BY <1>0, <2>2, <2>4 DEF Mirror
      <3>3. pf # NoImage /\ pc = "hit" => pf.next = call.addr
        BY <1>0 DEF Mirror
      <3>4. QED
        BY <1>0, <3>1, <3>2, <3>3 DEF Mirror, Streams
    <2>6. pc # "idle" => call.addr \in Int /\ Even(call.addr) \in Words
      BY EvenIs, SpaceIs DEF BaseInv, Shapes, Calls
    <2>7. ASSUME pc # "idle", NEW v, Its(v) PROVE v \in past'[Even(call.addr)]
      BY <2>1, <2>6, <2>7 DEF Fetches, Its
    <2>8. ASSUME pc \in {"status", "holdup", "holddown"}, Reads
          PROVE  pfFifo' = <<>> /\ pfRun' = FALSE /\ (fault' \/ rdata' \in past'[Even(call.addr)])
      <3>1. pfFifo = <<>> /\ pfRun = FALSE /\ (fault \/ Its(rdata))
        BY <1>0, <1>1, <2>8 DEF Answered
      <3>2. QED
        BY <2>1, <2>7, <2>8, <3>1 DEF Fetches
    <2>9. ASSUME pc = "data", Reads
          PROVE  pfFifo' = <<>> /\ pfRun' = FALSE /\ (st.fault \/ rdata' \in past'[Even(call.addr)])
      <3>1. pfFifo = <<>> /\ pfRun = FALSE /\ (st.fault \/ Its(rdata))
        BY <1>0, <2>9 DEF Answered
      <3>2. QED
        BY <2>1, <2>7, <2>9, <3>1 DEF Fetches
    <2>10. ASSUME pc = "pfstatus"
           PROVE  Follow(pfFifo', pfRun', pfA', past', call.addr) /\ (fault' \/ pfFifo' # <<>>)
      <3>1. Streams(call.addr) /\ (fault \/ pfFifo # <<>>)
        BY <1>0, <1>1, <2>10 DEF Answered
      <3>2. QED
        BY <2>1, <2>6, <2>10, <3>1 DEF Fetches
    <2>11. ASSUME pc = "pfdata" PROVE Follow(pfFifo', pfRun', pfA', past', call.addr)
      BY <1>0, <2>1, <2>6, <2>11 DEF Fetches, Answered
    <2>12. ASSUME pc = "ret", Reads PROVE st.fault \/ res \in past'[Even(call.addr)]
      BY <1>0, <2>7, <2>12 DEF Answered
    <2>13. Answered'
      BY <1>0, <2>8, <2>9, <2>10, <2>11, <2>12 DEF Answered, Reads, Its, Streams
    <2>14. QED
      BY <2>5, <2>13
  <1>2. CASE Underway # <<>>
    <2>1. pf = NoImage /\ pc \notin {"data", "pfdata"} /\ (pc = "ret" => ~Reads)
      BY <1>0, <1>2 DEF PostedOrder, MirrorIdle, Reads
    <2>2. Mirror'
      BY <1>0, <2>1 DEF Mirror
    <2>3. ASSUME pc \in {"status", "holdup", "holddown", "pfstatus"}, Reads, Underway' = <<>>
          PROVE  IF pc = "pfstatus"
                 THEN Follow(pfFifo', pfRun', pfA', past', call.addr) /\ (fault' \/ pfFifo' # <<>>)
                 ELSE pfFifo' = <<>> /\ pfRun' = FALSE /\ (fault' \/ rdata' \in past'[Even(call.addr)])
      <3>1. /\ past' = past /\ eng.on /\ ~eng.spec /\ Expected(eng.c, call, pc)
            /\ \E x \in {"dtack", "vector", "vpa", "none"} : CycleEnds(x)
        BY <1>0, <1>2, <2>3, ReadOver DEF Awaiting
      <3>2. PICK x \in {"dtack", "vector", "vpa", "none"} : CycleEnds(x)
        BY <3>1
      <3>3. eng.c.rw /\ eng.c.addr = call.addr /\ eng.c.fc = 5 /\ (eng.c.pf <=> pc = "pfstatus")
        BY <2>3, <3>1 DEF Expected, Reads
      <3>4. pfFifo = <<>> /\ pfRun = FALSE
        BY <3>1 DEF AheadInv
      <3> DEFINE w == Even(call.addr)
      <3>5. w \in Words /\ mem[w] \in past[w] /\ mem[w] \in Pairs
        <4>1. w \in Words
          BY <2>3, EvenIs DEF BaseInv, Shapes, Calls
        <4>2. QED
          BY <1>0, <4>1 DEF Kept, BaseInv, DataShapes
      <3>6. x = "none" => fault'
        BY <3>1, <3>2 DEF CycleEnds
      <3>7. CASE pc = "pfstatus"
        <4>1. call.addr = w
          BY <3>7, ReadsWords DEF BaseInv, Ways
        <4>2. x = "none" => pfFifo' = <<>> /\ pfRun' = FALSE
          BY <3>1, <3>2, <3>3, <3>4, <3>7 DEF CycleEnds
        <4>3. x # "none" => pfFifo' = Append(pfFifo, mem[w]) /\ pfA' = w + 2
          BY <3>1, <3>2, <3>3, <3>7 DEF CycleEnds
        <4> HIDE DEF w
        <4>4. Append(<<>>, mem[w]) = <<mem[w]>> /\ <<mem[w]>> # <<>>
          OBVIOUS
        <4>5. Follow(<<mem[w]>>, pfRun', w + 2, past, w)
          BY <3>5, FollowFirst
        <4>6. CASE x = "none"
          BY <3>6, <3>7, <4>2, <4>6, FollowNone
        <4>7. CASE x # "none"
          <5>1. pfFifo' = <<mem[w]>> /\ pfA' = w + 2 /\ past' = past
            BY <3>1, <3>4, <4>3, <4>4, <4>7
          <5>2. QED
            BY <3>7, <4>1, <4>4, <4>5, <5>1
        <4>8. QED
          BY <4>6, <4>7
      <3>8. CASE pc # "pfstatus"
        <4>1. pfFifo' = pfFifo /\ pfRun' = pfRun
          BY <3>1, <3>2, <3>3, <3>8 DEF CycleEnds
        <4>2. x # "none" => rdata' = mem[w]
          BY <3>1, <3>2, <3>3, <3>8 DEF CycleEnds
        <4> HIDE DEF w
        <4>3. fault' \/ rdata' \in past'[w]
          BY <3>1, <3>5, <3>6, <4>2
        <4>4. QED
          BY <3>4, <3>8, <4>1, <4>3 DEF w
      <3>9. QED
        BY <3>7, <3>8
    <2>4. pc = "pfstatus" => Reads
      BY DEF BaseInv, Ways, Reads
    <2>5. Answered'
      BY <1>0, <2>1, <2>3, <2>4 DEF Answered, Reads, Its, Streams
    <2>6. QED
      BY <2>2, <2>5
  <1>3. QED
    BY <1>1, <1>2

LEMMA DataNext ==
  ASSUME BaseInv, QueueInv, AheadInv, DataInv, ~LateModes, [Next]_vars
  PROVE  DataInv'
  <1>1. CASE CommandStep
    <2>1. posted \in 0..PostedMax
      BY DEF QueueInv, RoomInv
    <2>2. PICK c : Gives(c)
      BY <1>1, <2>1, StepsGive
    <2>3. QED
      BY <2>2, GivesData
  <1>2. CASE QuietStep
    BY <1>2, QuietData
  <1>3. CASE Modes
    BY <1>3, ModesData
  <1>4. CASE Machine
    <2>1. Kept'
      BY <1>4, MachineKept DEF DataInv
    <2>2. QED
      BY <1>4, <2>1, MachineWords DEF DataInv
  <1>5. CASE UNCHANGED vars
    <2>1. UNCHANGED <<pc, call, res, st, pf, reloaded, past, wire>>
      BY <1>5 DEF vars, host
    <2>2. UNCHANGED <<cmds, eng, rdata, pfFifo, pfRun, pfA, fault, mem>>
      BY <1>5 DEF vars, engine
    <2>3. Underway' = Underway
      BY <2>1, <2>2, UnderwaySame
    <2>4. Kept' /\ Mirror' /\ Answered'
      BY <2>1, <2>2, <2>3 DEF DataInv, Kept, Mirror, Answered, Reads, Its, Streams
    <2>5. QED
      BY <2>4 DEF DataInv
  <1>6. QED
    BY <1>1, <1>2, <1>3, <1>4, <1>5, HostSplit DEF Next

\* The inductive invariant.
PortInv == BaseInv /\ QueueInv /\ FaultInv /\ AheadInv /\ DataInv

LEMMA PortInvHolds == ASSUME ~LateModes, ~Withdraws PROVE Spec => []PortInv
  <1>1. Init => PortInv
    BY InitBase, InitQueue, InitFault, InitData DEF PortInv
  <1>2. PortInv /\ [Next]_vars => PortInv'
    BY PortNext, FaultNext, DataNext DEF PortInv
  <1>3. QED
    BY <1>1, <1>2, PTL DEF Spec

\* A read that reports no fault returns a word that its address has held since
\* the last command was given (vmpu68_bus_read_fc, vmpu68_bus_read_pf: the
\* stream, the hold read and the hits).
THEOREM ReadsAreFresh ==
  ASSUME ~LateModes, ~Withdraws
  PROVE  Spec => []FreshReads
  <1>1. PortInv => FreshReads
    BY DEF PortInv, DataInv, Answered, Reads, Its, FreshReads
  <1>2. QED
    BY <1>1, PortInvHolds, PTL

\* A call that waits reports the fault of its own command, a spurious interrupt
\* is one whose own acknowledge nobody answered (hw_iack), and no more commands
\* are queued than posted_max and the one that is waited for.
THEOREM FaultsAreReported ==
  ASSUME ~LateModes, ~Withdraws
  PROVE  Spec => []FaultsReported
  <1>1. PortInv => TypeOK
    <2>1. SUFFICES ASSUME PortInv PROVE TypeOK
      OBVIOUS
    <2>2. BaseInv /\ QueueInv /\ AheadInv
      BY <2>1 DEF PortInv
    <2>3. mode \in [auto : BOOLEAN, bi : BOOLEAN, ai : BOOLEAN, pf : BOOLEAN]
      BY <2>2 DEF BaseInv, ImageInv, Ports, ModeRecords
    <2>4. posted \in 0..PostedMax /\ pfSeq \in 0..2 /\ Len(pfFifo) <= PfDepth
      BY <2>2 DEF QueueInv, RoomInv, BaseInv, Shapes, AheadInv
    <2>5. pf = NoImage \/ pf.next \in 0..(Top + 1)
      <3>1. Top \in Int
        BY SpaceIs DEF Top
      <3>2. QED
        BY <2>2, <3>1 DEF QueueInv, OrderInv, MirrorIdle, Heads
    <2>6. Len(cmds) + Len(wire) <= PostedMax + 1
      <3>1. Len(cmds) \in Nat /\ Len(wire) \in Nat /\ Len(Underway) \in Nat /\ PostedMax \in Nat
        BY <2>2, UnderwayType, BusPortAssumption DEF BaseInv, Shapes
      <3>2. Len(cmds) + Len(wire) <= Len(Underway) /\ Len(Underway) <= PostedMax + 1
        BY <2>2, UnderwayParts DEF QueueInv, RoomInv
      <3>3. QED
        BY <3>1, <3>2
    <2>7. wr = NoImage \/ (wr.fpga \in Addrs /\ wr.last \in Addrs)
      BY <2>2 DEF BaseInv, ImageInv, StepImage
    <2>8. QED
      BY <2>3, <2>4, <2>5, <2>6, <2>7 DEF TypeOK
  <1>2. PortInv => FaultsReported
    BY <1>1 DEF PortInv, FaultInv, Awaiting, FaultsReported
  <1>3. QED
    BY <1>2, PortInvHolds, PTL

\* The commands on their way are the writes the host asked for, in their order
\* and unchanged however few strobes they were given with (issue_write), after
\* them the command a call waits for; and a call that waits returns when none
\* is left (modes changed as BootX68 does, not right after an ai write).
THEOREM WritesAreAsAsked ==
  ASSUME ~LateModes, ~Withdraws
  PROVE  Spec => []WritesAsAsked
  <1>1. PortInv => WritesAsAsked
    <2>0. SUFFICES ASSUME PortInv PROVE WritesAsAsked
      OBVIOUS
    <2>1. BaseInv /\ QueueInv
      BY <2>0 DEF PortInv
    <2>2. Underway \in Seq(Commands) /\ due \in Seq(Asked)
      BY <2>1, UnderwayType DEF BaseInv, Shapes
    <2>3. DOMAIN Underway = 1..Len(Underway) /\ DOMAIN due = 1..Len(due)
          /\ Len(Underway) \in Nat /\ Len(due) \in Nat
      BY <2>2
    <2>4. DueInv /\ PostedOrder
      BY <2>1 DEF QueueInv, OrderInv
    <2>5. \A i \in DOMAIN due : i \in DOMAIN Underway /\ AsAsked(Underway[i], due[i])
      BY <2>3, <2>4 DEF DueInv
    <2>6. ASSUME NEW i \in DOMAIN Underway, i \notin DOMAIN due
          PROVE  i = Len(Underway) /\ ~IsWrite(Underway[i])
      <3>1. ~IsWrite(Underway[i])
        BY <2>3, <2>4, <2>6 DEF DueInv
      <3>2. i = Len(Underway)
        BY <2>3, <2>4, <3>1 DEF PostedOrder, PostedWrite
      <3>3. QED
        BY <3>1, <3>2
    <2>7. pc = "ret" /\ call.op # "write" => due = <<>>
      <3>1. pc = "ret" /\ call.op # "write" => Len(Underway) = 0
        BY <2>3, <2>4 DEF PostedOrder
      <3>2. Len(Underway) = 0 => due = <<>>
        BY <2>2, <2>3, <2>4 DEF DueInv
      <3>3. QED
        BY <3>1, <3>2
    <2>8. QED
      BY <2>5, <2>6, <2>7 DEF WritesAsAsked
  <1>2. QED
    BY <1>1, PortInvHolds, PTL

-----------------------------------------------------------------------------
(***************************************************************************)
(* 6. The snoop stream: it keeps its framing, its continuations decode to  *)
(* the addresses on the bus, and it implements SnoopContract.              *)
(***************************************************************************)
\* the last address the host will have seen when it has read the whole FIFO
TailAddr == IF fifo = <<>> THEN snoopLast ELSE fifo[Len(fifo)].a

\* A record that is being read stays at the head of the stream until it is
\* popped, and what the host has read of it is what it says.
Reading ==
    /\ hpc # "hi" => /\ pres # None \/ rdy
                     /\ hi.kind = Shown.kind /\ hi.cont = (Shown.cont /\ v2)
                     /\ out = None
    /\ hpc = "lo" => ~hi.cont
    /\ hpc = "data" /\ ~hi.cont => lo = Shown.a

\* The engine's base of continuations is the tail of the stream.
Chained ==
    v2 => /\ last # None => last = TailAddr
          /\ cap # None /\ cap.cont => cap.a = After(TailAddr)

\* The host holds a low bound exactly while the high one comes next.
Bounded == /\ rngLo # None => pres # None /\ presPh = 1 /\ rngLo = pres.lo
           /\ pres # None /\ presPh = 1 => rngLo # None

SInv ==
    /\ StreamTypeOK /\ InPhase
    /\ rdy => fifo # <<>>
    /\ Reading /\ Bounded
    /\ AlignedStream /\ Chained

USE DEF streamVars, engineVars, hostVars

LEMMA AfterType == \A a \in Addr : After(a) \in Addr
  BY AddrAssumption DEF Addr, After

LEMMA WidenType ==
  ASSUME NEW r \in Bounds \cup {None}, NEW a \in Addr
  PROVE  Widen(r, a) \in Bounds
  BY DEF Widen, Bounds

\* The head of the stream is a record as long as a read is in progress.
LEMMA ShownType ==
  ASSUME SInv, pres # None \/ fifo # <<>>
  PROVE  /\ Shown.a \in Addr /\ Shown.cont \in BOOLEAN
         /\ Shown.kind \in {"write", "low", "high"}
  <1>1. CASE pres = None
    <2>1. Head(fifo) \in Record
      BY <1>1 DEF SInv, StreamTypeOK
    <2>2. QED
      BY <1>1, <2>1 DEF Shown, Record
  <1>2. CASE pres # None
    BY <1>2 DEF Shown, SInv, StreamTypeOK, Bounds
  <1>3. QED
    BY <1>1, <1>2

LEMMA InitSInv == ASSUME StreamInit PROVE SInv
  <1>1. StreamTypeOK
    <2>1. fifo \in Seq(Record) /\ Len(fifo) = 0
      BY DEF StreamInit
    <2>2. 0 \in Addr
      BY AddrAssumption DEF Addr
    <2>3. Len(fifo) =< Depth /\ presPh \in 0..1 /\ snoopPhase \in 0..2
      BY <2>1, DepthAssumption DEF StreamInit
    <2>4. rdy \in BOOLEAN /\ v2 \in BOOLEAN
      BY DEF StreamInit
    <2>5. QED
      BY <2>1, <2>2, <2>3, <2>4 DEF StreamInit, StreamTypeOK
  <1>2. Len(fifo) = 0
    BY DEF StreamInit
  <1>3. QED
    BY <1>1, <1>2 DEF StreamInit, SInv, InPhase, Reading, Bounded, AlignedStream, Chained

LEMMA CaptureSInv ==
  ASSUME SInv, NEW a \in Addr, NEW d \in Data, Capture(a, d)
  PROVE  SInv'
  <1>1. cap' \in Record
    BY DEF Capture, Record
  <1>2. StreamTypeOK'
    BY <1>1 DEF Capture, SInv, StreamTypeOK
  <1>3. Chained'
    BY NoneAssumption DEF Capture, SInv, Chained, TailAddr
  <1>4. QED
    BY <1>2, <1>3 DEF Capture, SInv, InPhase, Reading, Shown, Bounded, AlignedStream, Before

LEMMA AcceptSInv ==
  ASSUME SInv, Push, Len(fifo) < Depth
  PROVE  SInv'
  <1>1. /\ cap \in Record /\ cap' = None /\ fifo' = Append(fifo, cap) /\ last' = cap.a
        /\ UNCHANGED <<rng, rdy, pres, presPh, snoopPhase, v2, hostVars>>
        /\ fifo \in Seq(Record) /\ Len(fifo) \in Nat
    BY DEF Push, SInv, StreamTypeOK
  <1>2. /\ fifo' \in Seq(Record) /\ Len(fifo') = Len(fifo) + 1 /\ fifo' # <<>>
        /\ fifo'[Len(fifo) + 1] = cap /\ \A i \in 1..Len(fifo) : fifo'[i] = fifo[i]
    BY <1>1, AppendProperties
  <1>3. cap.a \in Addr
    BY <1>1 DEF Record
  <1>4. StreamTypeOK'
    BY <1>1, <1>2, <1>3, DepthAssumption DEF SInv, StreamTypeOK
  <1>5. fifo # <<>> => Head(fifo') = Head(fifo)
    BY <1>1
  <1>6. Reading'
    BY <1>1, <1>5 DEF SInv, Reading, Shown
  <1>7. Chained'
    BY <1>1, <1>2 DEF Chained, TailAddr
  <1>8. ASSUME v2, NEW i \in 1..Len(fifo'), fifo'[i].cont
        PROVE  fifo'[i].a = After(Before(i)')
    <2>1. CASE i \in 1..Len(fifo)
      <3>1. Before(i)' = Before(i)
        BY <1>1, <1>2, <2>1 DEF Before
      <3>2. QED
        BY <1>2, <1>8, <2>1, <3>1 DEF SInv, AlignedStream
    <2>2. CASE i = Len(fifo) + 1
      <3>1. Before(i)' = TailAddr
        BY <1>1, <1>2, <2>2 DEF Before, TailAddr
      <3>2. QED
        BY <1>1, <1>2, <1>8, <2>2, <3>1 DEF SInv, Chained, Push
    <2>3. QED
      BY <1>1, <1>2, <2>1, <2>2
  <1>9. AlignedStream'
    BY <1>1, <1>8 DEF AlignedStream
  <1>10. QED
    BY <1>1, <1>2, <1>4, <1>6, <1>7, <1>9 DEF SInv, InPhase, Bounded

LEMMA RefuseSInv ==
  ASSUME SInv, Push, Len(fifo) = Depth
  PROVE  SInv'
  <1>1. /\ cap \in Record /\ cap' = None /\ last' = None /\ rng' = Widen(rng, cap.a)
        /\ UNCHANGED <<fifo, rdy, pres, presPh, snoopPhase, v2, hostVars>>
    BY DepthAssumption DEF Push, SInv, StreamTypeOK
  <1>2. rng' \in Bounds
    BY <1>1, WidenType DEF SInv, StreamTypeOK, Record
  <1>3. StreamTypeOK'
    BY <1>1, <1>2 DEF SInv, StreamTypeOK
  <1>4. QED
    BY <1>1, <1>3 DEF SInv, InPhase, Reading, Shown, Bounded, AlignedStream, Before, Chained

LEMMA ClockSInv == ASSUME SInv, Clock PROVE SInv'
  <1>1. StreamTypeOK'
    BY DEF Clock, SInv, StreamTypeOK
  <1>2. QED
    BY <1>1 DEF Clock, SInv, InPhase, Reading, Shown, Bounded, AlignedStream, Before, Chained, TailAddr

\* A range is presented only between two records.
LEMMA PresentSInv == ASSUME SInv, Present PROVE SInv'
  <1>1. hpc = "hi"
    BY DEF Present, SInv, Reading, StreamTypeOK
  <1>2. StreamTypeOK'
    BY DEF Present, SInv, StreamTypeOK
  <1>3. QED
    BY <1>1, <1>2 DEF Present, SInv, InPhase, Reading, Bounded, AlignedStream, Before, Chained, TailAddr

LEMMA ReadHiSInv == ASSUME SInv, ReadHi PROVE SInv'
  <1>1. pres # None \/ fifo # <<>>
    BY DEF ReadHi, Avail, SInv
  <1>2. hi' \in HiWord /\ hi'.kind = Shown.kind /\ hi'.cont = (Shown.cont /\ v2)
    BY <1>1, ShownType DEF ReadHi, HiWord, SInv, StreamTypeOK
  <1>3. StreamTypeOK'
    BY <1>2 DEF ReadHi, SInv, StreamTypeOK
  <1>4. Shown' = Shown
    BY DEF ReadHi, Shown
  <1>5. Reading'
    BY <1>2, <1>4 DEF ReadHi, Avail, Reading
  <1>6. QED
    BY <1>3, <1>5 DEF ReadHi, SInv, InPhase, Bounded, AlignedStream, Before, Chained, TailAddr

LEMMA ReadLoSInv == ASSUME SInv, ReadLo PROVE SInv'
  <1>1. pres # None \/ fifo # <<>>
    BY DEF ReadLo, SInv, Reading
  <1>2. snoopPhase = 1 /\ snoopPhase' = 2
    BY DEF ReadLo, SInv, InPhase
  <1>3. StreamTypeOK'
    BY <1>1, <1>2, ShownType DEF ReadLo, SInv, StreamTypeOK
  <1>4. Reading'
    BY DEF ReadLo, SInv, Reading, Shown
  <1>5. QED
    BY <1>2, <1>3, <1>4 DEF ReadLo, SInv, InPhase, Bounded, AlignedStream, Before, Chained, TailAddr

\* What the host decodes is the address at the head of the stream.
LEMMA DecodesShown ==
  ASSUME SInv, hpc = "data"
  PROVE  DecodedAddr = Shown.a /\ DecodedAddr \in Addr
  <1>1. (pres # None \/ fifo # <<>>) /\ hi.cont = (Shown.cont /\ v2)
    BY DEF SInv, Reading
  <1>2. CASE hi.cont
    <2>1. pres = None /\ fifo # <<>> /\ Head(fifo).cont /\ v2
      BY <1>1, <1>2 DEF Shown
    <2>2. fifo \in Seq(Record) /\ 1 \in 1..Len(fifo) /\ Head(fifo) = fifo[1]
      BY <2>1 DEF SInv, StreamTypeOK
    <2>3. Head(fifo).a = After(snoopLast)
      BY <2>1, <2>2 DEF SInv, AlignedStream, Before
    <2>4. QED
      BY <1>1, <1>2, <2>1, <2>3, ShownType DEF DecodedAddr, Shown
  <1>3. CASE ~hi.cont
    BY <1>1, <1>3, ShownType DEF DecodedAddr, SInv, Reading
  <1>4. QED
    BY <1>2, <1>3

LEMMA PopRangeSInv ==
  ASSUME SInv, ReadData, pres # None
  PROVE  SInv'
  <1>1. /\ hpc = "data" /\ snoopPhase' = 0 /\ hpc' = "hi" /\ hi' = None /\ lo' = None
        /\ presPh' = 1 /\ pres' = (IF presPh = 1 THEN None ELSE pres)
        /\ UNCHANGED <<cap, last, rng, v2, fifo, rdy>> /\ Decode
    BY DEF ReadData, Pop
  <1>2. hi.kind = Shown.kind
    BY <1>1 DEF SInv, Reading
  <1>3. UNCHANGED snoopLast
    BY <1>1, <1>2 DEF Decode, Shown
  <1>4. CASE presPh = 0
    <2>1. rngLo' = pres.lo /\ out' = None
      BY <1>1, <1>2, <1>4, DecodesShown DEF Decode, Shown
    <2>2. pres.lo \in Addr /\ pres.lo # None
      BY NoneAssumption DEF SInv, StreamTypeOK, Bounds
    <2>3. StreamTypeOK'
      BY <1>1, <1>3, <1>4, <2>1, <2>2 DEF SInv, StreamTypeOK
    <2>4. QED
      BY <1>1, <1>3, <1>4, <2>1, <2>2, <2>3
      DEF SInv, InPhase, Reading, Bounded, AlignedStream, Before, Chained, TailAddr
  <1>5. CASE presPh = 1
    <2>1. rngLo # None /\ rngLo = pres.lo
      BY <1>5 DEF SInv, Bounded
    <2>2. rngLo' = None /\ out' = [lo |-> rngLo, hi |-> DecodedAddr]
      BY <1>1, <1>2, <1>5, <2>1 DEF Decode, Shown
    <2>3. StreamTypeOK'
      BY <1>1, <1>3, <1>5, <2>1, <2>2, DecodesShown DEF SInv, StreamTypeOK, Bounds
    <2>4. QED
      BY <1>1, <1>3, <1>5, <2>2, <2>3
      DEF SInv, InPhase, Reading, Bounded, AlignedStream, Before, Chained, TailAddr
  <1>6. QED
    BY <1>4, <1>5 DEF SInv, StreamTypeOK

LEMMA PopRecordSInv ==
  ASSUME SInv, ReadData, pres = None
  PROVE  SInv'
  <1>1. /\ hpc = "data" /\ snoopPhase' = 0 /\ hpc' = "hi" /\ hi' = None /\ lo' = None
        /\ fifo' = Tail(fifo) /\ rdy' = (Tail(fifo) # <<>>)
        /\ UNCHANGED <<cap, last, rng, v2, pres, presPh>> /\ Decode
    BY DEF ReadData, Pop
  <1>2. fifo # <<>> /\ hi.kind = "write"
    BY <1>1 DEF SInv, Reading, Shown
  <1>3. /\ snoopLast' = (IF v2 THEN DecodedAddr ELSE snoopLast)
        /\ out' = [a |-> DecodedAddr, d |-> Head(fifo).d] /\ UNCHANGED rngLo
    BY <1>1, <1>2 DEF Decode
  <1>4. DecodedAddr = Head(fifo).a /\ DecodedAddr \in Addr
    BY <1>1, DecodesShown DEF Shown
  <1>5. /\ fifo \in Seq(Record) /\ Len(fifo) \in Nat \ {0} /\ Head(fifo) = fifo[1]
        /\ Tail(fifo) \in Seq(Record) /\ Len(Tail(fifo)) = Len(fifo) - 1
        /\ \A i \in 1..Len(Tail(fifo)) : Tail(fifo)[i] = fifo[i + 1]
    BY <1>2 DEF SInv, StreamTypeOK
  <1>6. StreamTypeOK'
    <2>1. Head(fifo).d \in Data
      <3>1. Head(fifo) \in Record
        BY <1>2, <1>5
      <3>2. QED
        BY <3>1 DEF Record
    <2>2. out' \in Write
      BY <1>3, <1>4, <2>1 DEF Write
    <2>3. Len(fifo') =< Depth
      BY <1>1, <1>5, DepthAssumption DEF SInv, StreamTypeOK
    <2>4. QED
      BY <1>1, <1>3, <1>4, <1>5, <2>2, <2>3 DEF SInv, StreamTypeOK
  <1>7. ASSUME v2, NEW i \in 1..Len(fifo'), fifo'[i].cont
        PROVE  fifo'[i].a = After(Before(i)')
    <2>1. i + 1 \in 1..Len(fifo) /\ fifo'[i] = fifo[i + 1] /\ i \in Nat \ {0}
      BY <1>1, <1>5
    <2>2. Before(i)' = Before(i + 1)
      <3>1. CASE i = 1
        BY <1>3, <1>4, <1>5, <1>7, <3>1 DEF Before
      <3>2. CASE i # 1
        <4>1. i - 1 \in 1..Len(Tail(fifo)) /\ (i - 1) + 1 = i /\ (i + 1) - 1 = i /\ i + 1 # 1
          BY <1>1, <1>5, <2>1, <3>2
        <4>2. QED
          BY <1>1, <1>5, <3>2, <4>1 DEF Before
      <3>3. QED
        BY <3>1, <3>2
    <2>3. QED
      BY <1>7, <2>1, <2>2 DEF SInv, AlignedStream
  <1>8. AlignedStream'
    BY <1>1, <1>7 DEF AlignedStream
  <1>9. v2 => TailAddr' = TailAddr
    <2>1. CASE Tail(fifo) = <<>>
      BY <1>1, <1>2, <1>3, <1>4, <1>5, <2>1 DEF TailAddr
    <2>2. CASE Tail(fifo) # <<>>
      <3>1. Len(Tail(fifo)) \in 1..Len(Tail(fifo))
        BY <1>5, <2>2
      <3>2. QED
        BY <1>1, <1>2, <1>5, <2>2, <3>1 DEF TailAddr
    <2>3. QED
      BY <2>1, <2>2
  <1>10. Chained'
    BY <1>1, <1>9 DEF SInv, Chained
  <1>11. QED
    BY <1>1, <1>3, <1>6, <1>8, <1>10 DEF SInv, InPhase, Reading, Bounded

\* A reset of an empty stream starts it afresh.
LEMMA ResetSInv ==
  ASSUME SInv, ~DirtyReset, NEW how \in BOOLEAN, Reset(how)
  PROVE  SInv'
  <1>1. fifo = <<>> /\ cap = None /\ pres = None /\ rngLo = None
    BY DEF Reset, Empty, SInv, Bounded
  <1>2. StreamTypeOK'
    BY AddrAssumption DEF Reset, SInv, StreamTypeOK, Addr
  <1>3. Len(fifo) = 0
    BY <1>1
  <1>4. QED
    BY <1>1, <1>2, <1>3 DEF Reset, SInv, InPhase, Reading, Bounded, AlignedStream, Chained

LEMMA StreamNextSInv == ASSUME SInv, ~DirtyReset, [StreamNext]_streamVars PROVE SInv'
  <1>1. CASE Push
    BY <1>1, AcceptSInv, RefuseSInv DEF Push
  <1>2. CASE ReadData
    BY <1>2, PopRangeSInv, PopRecordSInv
  <1>3. CASE UNCHANGED streamVars
    BY <1>3 DEF SInv, StreamTypeOK, InPhase, Reading, Shown, Bounded, AlignedStream, Before,
       Chained, TailAddr
  <1>4. QED
    BY <1>1, <1>2, <1>3, CaptureSInv, ClockSInv, PresentSInv, ReadHiSInv, ReadLoSInv, ResetSInv
    DEF StreamNext, Engine, Host

\* The stream never loses its framing and every continuation still queued
\* continues what the host will have read before it.
THEOREM StreamFramed ==
  ASSUME ~DirtyReset PROVE StreamSpec => [](StreamTypeOK /\ InPhase /\ AlignedStream /\ RangeNotTorn)
  <1>1. StreamInit => SInv
    BY InitSInv
  <1>2. SInv /\ [StreamNext]_streamVars => SInv'
    BY StreamNextSInv
  <1>3. SInv => StreamTypeOK /\ InPhase /\ AlignedStream /\ RangeNotTorn
    BY DEF SInv, Bounded, RangeNotTorn
  <1>4. QED
    BY <1>1, <1>2, <1>3, PTL DEF StreamSpec

(***************************************************************************)
(* The stream implements SnoopContract: a push is Accept or Refuse, the    *)
(* last read of a record is Deliver, that of a high bound is Report, and   *)
(* every other step is a stutter or the host taking what it was handed.    *)
(***************************************************************************)

LEMMA BareType ==
  ASSUME NEW r \in Record PROVE Bare(r) \in Write
  BY DEF Bare, Record, Write

LEMMA BareSeqType ==
  ASSUME NEW s \in Seq(Record)
  PROVE  /\ BareSeq(s) \in Seq(Write) /\ Len(BareSeq(s)) = Len(s) /\ Len(s) \in Nat
         /\ \A i \in 1..Len(s) : s[i] \in Record /\ BareSeq(s)[i] = Bare(s[i])
         /\ s # <<>> => BareSeq(s) # <<>>
  <1>1. Len(s) \in Nat /\ \A i \in 1..Len(s) : s[i] \in Record
    OBVIOUS
  <1>2. \A i \in 1..Len(s) : Bare(s[i]) \in Write
    BY <1>1, BareType
  <1>3. BareSeq(s) \in Seq(Write)
    BY <1>1, <1>2 DEF BareSeq
  <1>4. Len(BareSeq(s)) = Len(s)
    BY <1>1, <1>3 DEF BareSeq
  <1>5. s # <<>> => BareSeq(s) # <<>>
    BY <1>1, <1>3, <1>4
  <1>6. QED
    BY <1>1, <1>3, <1>4, <1>5 DEF BareSeq

LEMMA BareAppend ==
  ASSUME NEW s \in Seq(Record), NEW r \in Record
  PROVE  BareSeq(Append(s, r)) = Append(BareSeq(s), Bare(r))
  <1>1. /\ Append(s, r) \in Seq(Record) /\ Len(Append(s, r)) = Len(s) + 1
        /\ Append(s, r)[Len(s) + 1] = r /\ \A i \in 1..Len(s) : Append(s, r)[i] = s[i]
    BY AppendProperties
  <1>2. DEFINE t == Append(BareSeq(s), Bare(r))
  <1>3. BareSeq(s) \in Seq(Write) /\ Len(BareSeq(s)) = Len(s) /\ Bare(r) \in Write /\ Len(s) \in Nat
    BY BareSeqType, BareType
  <1>4. /\ t \in Seq(Write) /\ Len(t) = Len(s) + 1 /\ t[Len(s) + 1] = Bare(r)
        /\ \A i \in 1..Len(s) : t[i] = BareSeq(s)[i]
    BY <1>3, AppendProperties
  <1>5. DEFINE b == BareSeq(Append(s, r))
  <1>6. /\ b \in Seq(Write) /\ Len(b) = Len(s) + 1
        /\ \A i \in 1..Len(s) + 1 : b[i] = Bare(Append(s, r)[i])
    BY <1>1, BareSeqType
  <1>7. \A i \in 1..Len(s) : BareSeq(s)[i] = Bare(s[i])
    BY BareSeqType
  <1>8. ASSUME NEW i \in 1..Len(b) PROVE b[i] = t[i]
    <2>1. CASE i \in 1..Len(s)
      BY <1>1, <1>4, <1>6, <1>7, <2>1
    <2>2. CASE i = Len(s) + 1
      BY <1>1, <1>4, <1>6, <2>2
    <2>3. QED
      BY <1>3, <1>6, <1>8, <2>1, <2>2
  <1>9. HIDE DEF b, t
  <1>10. b = t
    BY <1>4, <1>6, <1>8, SeqEqual
  <1>11. QED
    BY <1>10 DEF b, t

LEMMA BareTail ==
  ASSUME NEW s \in Seq(Record), s # <<>>
  PROVE  Head(BareSeq(s)) = Bare(Head(s)) /\ BareSeq(Tail(s)) = Tail(BareSeq(s))
  <1>1. DEFINE u == BareSeq(s)
               b == BareSeq(Tail(s))
  <1>2. /\ u \in Seq(Write) /\ Len(u) = Len(s) /\ Len(s) \in Nat /\ u # <<>>
        /\ \A i \in 1..Len(s) : u[i] = Bare(s[i])
    BY BareSeqType
  <1>3. /\ Tail(s) \in Seq(Record) /\ Len(Tail(s)) = Len(s) - 1 /\ Len(s) > 0
        /\ \A i \in 1..Len(Tail(s)) : Tail(s)[i] = s[i + 1]
    BY HeadTailProperties, LenProperties
  <1>4. /\ b \in Seq(Write) /\ Len(b) = Len(s) - 1
        /\ \A i \in 1..Len(Tail(s)) : b[i] = Bare(Tail(s)[i])
    BY <1>3, BareSeqType
  <1>5. HIDE DEF u, b
  <1>6. /\ Tail(u) \in Seq(Write) /\ Len(Tail(u)) = Len(u) - 1
        /\ \A i \in 1..Len(Tail(u)) : Tail(u)[i] = u[i + 1]
    BY <1>2, HeadTailProperties
  <1>7. ASSUME NEW i \in 1..Len(b) PROVE b[i] = Tail(u)[i]
    <2>1. i \in 1..Len(Tail(s)) /\ i \in 1..Len(Tail(u)) /\ i + 1 \in 1..Len(s)
      BY <1>2, <1>3, <1>4, <1>6
    <2>2. QED
      BY <1>2, <1>3, <1>4, <1>6, <2>1
  <1>8. b = Tail(u)
    BY <1>2, <1>4, <1>6, <1>7, SeqEqual
  <1>9. Head(u) = u[1] /\ Head(s) = s[1] /\ 1 \in 1..Len(s)
    BY <1>2, <1>3
  <1>10. Head(u) = Bare(Head(s))
    BY <1>2, <1>9
  <1>11. QED
    BY <1>8, <1>10 DEF u, b

LEMMA PushStep ==
  ASSUME SInv, Push
  PROVE  \E w \in Write : Contract!Accept(w) \/ Contract!Refuse(w)
  <1>1. /\ cap \in Record /\ fifo \in Seq(Record) /\ UNCHANGED <<pres, out>>
        /\ rng \in Bounds \cup {None} /\ pres \in Bounds \cup {None}
    BY DEF Push, SInv, StreamTypeOK
  <1>2. Bare(cap) \in Write /\ Bare(cap).a = cap.a
    BY <1>1, BareType DEF Bare
  <1>3. Len(Queued) = Len(fifo)
    BY <1>1, BareSeqType DEF Queued
  <1>4. CASE Len(fifo) < Depth
    <2>1. fifo' = Append(fifo, cap) /\ UNCHANGED rng
      BY <1>4, DepthAssumption DEF Push
    <2>2. Queued' = Append(Queued, Bare(cap))
      BY <1>1, <2>1, BareAppend DEF Queued
    <2>3. Owed' = Owed
      BY <1>1, <2>1 DEF Owed
    <2>4. Contract!Accept(Bare(cap))
      BY <1>1, <1>3, <1>4, <2>2, <2>3 DEF Contract!Accept
    <2>5. QED
      BY <1>2, <2>4
  <1>5. CASE Len(fifo) = Depth
    <2>1. fifo' = fifo /\ rng' = Widen(rng, cap.a) /\ rng' # None
      BY <1>1, <1>5, DepthAssumption, WidenType, NoneAssumption DEF Push, Record, Bounds
    <2>2. Queued' = Queued
      BY <2>1 DEF Queued
    <2>3. CASE rng = None
      <3>1. Owed' = Append(Owed, Contract!Widen(None, cap.a))
        <4>1. rng' = Contract!Widen(None, cap.a)
          BY <2>1, <2>3 DEF Widen, Contract!Widen
        <4>2. CASE pres = None
          BY <1>1, <2>1, <2>3, <4>1, <4>2 DEF Owed
        <4>3. CASE pres # None
          BY <1>1, <2>1, <2>3, <4>1, <4>3 DEF Owed
        <4>4. QED
          BY <4>2, <4>3
      <3>2. Contract!Refuse(Bare(cap))
        BY <1>1, <1>2, <1>3, <1>5, <2>2, <3>1 DEF Contract!Refuse
      <3>3. QED
        BY <1>2, <3>2
    <2>4. CASE rng # None
      <3>1. Owed # <<>> /\ Owed' = [Owed EXCEPT ![Len(Owed)] = Contract!Widen(@, cap.a)]
        BY <1>1, <2>1, <2>4 DEF Owed, Widen, Contract!Widen
      <3>2. Contract!Refuse(Bare(cap))
        BY <1>1, <1>2, <1>3, <1>5, <2>2, <3>1 DEF Contract!Refuse
      <3>3. QED
        BY <1>2, <3>2
    <2>5. QED
      BY <2>3, <2>4
  <1>6. QED
    BY <1>4, <1>5 DEF Push

LEMMA ReadDataStep ==
  ASSUME SInv, ReadData
  PROVE  [Contract!ContractNext]_(Contract!contractVars)
  <1>1. hpc = "data" /\ Decode /\ Pop /\ UNCHANGED rng /\ hi.kind = Shown.kind /\ out = None
    BY DEF ReadData, SInv, Reading
  <1>2. /\ fifo \in Seq(Record) /\ rng \in Bounds \cup {None} /\ pres \in Bounds \cup {None}
    BY DEF SInv, StreamTypeOK
  <1>3. CASE pres = None
    <2>1. fifo # <<>> /\ fifo' = Tail(fifo) /\ UNCHANGED pres /\ hi.kind = "write"
      BY <1>1, <1>3 DEF Pop, SInv, Reading, Shown
    <2>2. out' = Bare(Head(fifo))
      BY <1>1, <1>3, <2>1, DecodesShown DEF Decode, Shown, Bare
    <2>3. Queued # <<>> /\ Head(Queued) = Bare(Head(fifo)) /\ Queued' = Tail(Queued)
      BY <1>2, <2>1, BareTail, BareSeqType DEF Queued
    <2>4. Owed' = Owed
      BY <1>1, <2>1 DEF Owed
    <2>5. Contract!Deliver
      BY <1>1, <2>2, <2>3, <2>4 DEF Contract!Deliver
    <2>6. QED
      BY <2>5 DEF Contract!ContractNext
  <1>4. CASE pres # None /\ presPh = 0
    <2>1. UNCHANGED <<fifo, pres>> /\ out' = None
      BY <1>1, <1>4 DEF Pop, Decode, Shown
    <2>2. UNCHANGED <<Queued, Owed, out>>
      BY <1>1, <2>1 DEF Queued, Owed
    <2>3. QED
      BY <2>2 DEF Contract!contractVars
  <1>5. CASE pres # None /\ presPh = 1
    <2>1. fifo' = fifo /\ pres' = None /\ rngLo # None /\ rngLo = pres.lo
      BY <1>1, <1>5 DEF Pop, SInv, Bounded
    <2>2. out' = [lo |-> pres.lo, hi |-> pres.hi]
      BY <1>1, <1>5, <2>1, DecodesShown DEF Decode, Shown
    <2>3. out' = pres
      BY <1>2, <1>5, <2>2 DEF Bounds
    <2>4. Owed # <<>> /\ Head(Owed) = pres /\ Owed' = Tail(Owed)
      BY <1>1, <1>5, <2>1 DEF Owed
    <2>5. Queued' = Queued
      BY <2>1 DEF Queued
    <2>6. Contract!Report
      BY <1>1, <2>3, <2>4, <2>5 DEF Contract!Report
    <2>7. QED
      BY <2>6 DEF Contract!ContractNext
  <1>6. QED
    BY <1>3, <1>4, <1>5 DEF SInv, StreamTypeOK

LEMMA StreamStep ==
  ASSUME SInv, ~DirtyReset, [StreamNext]_streamVars
  PROVE  [Contract!ContractNext]_(Contract!contractVars)
  <1>1. CASE Push
    BY <1>1, PushStep DEF Contract!ContractNext, Write
  <1>2. CASE ReadData
    BY <1>2, ReadDataStep
  <1>3. CASE ReadHi
    <2>1. UNCHANGED <<Queued, Owed>> /\ out' = None
      BY <1>3 DEF ReadHi, Queued, Owed
    <2>2. CASE out = None
      BY <2>1, <2>2 DEF Contract!contractVars
    <2>3. CASE out # None
      BY <2>1, <2>3 DEF Contract!ContractNext, Contract!Taken
    <2>4. QED
      BY <2>2, <2>3
  <1>4. CASE Present
    <2>1. UNCHANGED <<fifo, out>> /\ pres = None /\ pres' = rng /\ rng # None /\ rng' = None
      BY <1>4 DEF Present
    <2>2. UNCHANGED <<Queued, Owed, out>>
      BY <2>1 DEF Queued, Owed
    <2>3. QED
      BY <2>2 DEF Contract!contractVars
  <1>5. CASE Clock \/ ReadLo \/ UNCHANGED streamVars \/ \E a \in Addr, d \in Data : Capture(a, d)
    <2>1. UNCHANGED <<fifo, pres, rng, out>>
      BY <1>5 DEF Clock, ReadLo, Capture
    <2>2. UNCHANGED <<Queued, Owed, out>>
      BY <2>1 DEF Queued, Owed
    <2>3. QED
      BY <2>2 DEF Contract!contractVars
  <1>6. CASE \E how \in BOOLEAN : Reset(how)
    <2>1. UNCHANGED <<fifo, out>> /\ pres' = pres /\ rng' = rng
      BY <1>6 DEF Reset, Empty
    <2>2. UNCHANGED <<Queued, Owed, out>>
      BY <2>1 DEF Queued, Owed
    <2>3. QED
      BY <2>2 DEF Contract!contractVars
  <1>7. QED
    BY <1>1, <1>2, <1>3, <1>4, <1>5, <1>6 DEF StreamNext, Engine, Host

\* As long as it is reset only while it is empty, the stream hands every DMA
\* write over once, in order and at its own address, or in a range.
THEOREM StreamKeepsContract == ASSUME ~DirtyReset PROVE StreamSpec => KeepsContract
  <1>1. StreamInit => Contract!ContractInit
    <2>1. SUFFICES ASSUME StreamInit PROVE Contract!ContractInit
      OBVIOUS
    <2>2. fifo = <<>> /\ out = None /\ pres = None /\ rng = None
      BY <2>1 DEF StreamInit
    <2>3. Queued = <<>> /\ Owed = <<>>
      <3>1. <<>> \in Seq(Record) /\ Len(<<>>) = 0
        OBVIOUS
      <3>2. BareSeq(<<>>) \in Seq(Write) /\ Len(BareSeq(<<>>)) = 0
        BY <3>1, BareSeqType
      <3>3. BareSeq(<<>>) = <<>>
        BY <3>2
      <3>4. QED
        BY <2>2, <3>3 DEF Queued, Owed
    <2>4. QED
      BY <2>2, <2>3 DEF Contract!ContractInit
  <1>2. StreamInit => SInv
    BY InitSInv
  <1>3. SInv /\ [StreamNext]_streamVars => SInv'
    BY StreamNextSInv
  <1>4. SInv /\ [StreamNext]_streamVars => [Contract!ContractNext]_(Contract!contractVars)
    BY StreamStep
  <1>5. QED
    BY <1>1, <1>2, <1>3, <1>4, PTL DEF StreamSpec, KeepsContract, Contract!ContractSpec
=============================================================================
