--------------------------- MODULE EmulatorProofs ---------------------------
(***************************************************************************)
(* Theorems about what core 1, which emulates the CPU, relies on: that its *)
(* posted writes take effect in order (WriteQueue), for every ring size,   *)
(* index range and FIFO depth, and that the code it has translated is the  *)
(* code in memory (JitCache), for every size of memory, cell, granule and  *)
(* table.                                                                  *)
(*                                                                         *)
(* 1. Distances between indices: the only place where % is looked at.      *)
(* 2. QInv: types; the five indices lie in one window no longer than the   *)
(*    ring; the posted count covers what is in the FPGA's FIFO.            *)
(* 3. OInv: what each pending read or synchronous write waits for.         *)
(* 4. The queue implements OrderedBus.                                     *)
(* 5. No wait outlives the queue.                                          *)
(* 6. A read from the console or the web sees the device as the program    *)
(*    left it.                                                             *)
(* 7. Every block that lookup can return matches memory as far as the two  *)
(*    granules reach that a write walks.  The translator also makes blocks *)
(*    that reach beyond them; nothing can be proved about the rest.        *)
(***************************************************************************)
EXTENDS WriteQueue, JitCache, SequenceTheorems, TLAPS

-----------------------------------------------------------------------------
(***************************************************************************)
(* 1. Distances.                                                           *)
(***************************************************************************)
\* Remainders of numbers at most one modulus away.
LEMMA ModFacts ==
  ASSUME NEW M \in Nat \ {0}, NEW x \in Int
  PROVE  /\ x % M \in 0..(M - 1)
         /\ x \in 0..(M - 1) => x % M = x
         /\ x \in (-M)..(-1) => x % M = x + M
         /\ x \in M..(2 * M - 1) => x % M = x - M
  BY Z3

LEMMA MultipleBound ==
  ASSUME NEW M \in Nat \ {0}, NEW k \in Int, M * k < M, -M < M * k
  PROVE  k = 0
  BY Z3

\* A number is a multiple of the modulus and a remainder.
LEMMA Division ==
  ASSUME NEW M \in Nat \ {0}, NEW x \in Int
  PROVE  \E k \in Int : x = M * k + (x % M)
  <1>1. x = M * (x \div M) + (x % M) /\ x \div M \in Int
    BY Z3
  <1>2. QED
    BY <1>1

\* Adding multiples, and numbers with the same remainder.
LEMMA AddMultiple ==
  ASSUME NEW M \in Nat \ {0}, NEW k \in Int, NEW x \in 0..(M - 1)
  PROVE  (M * k + x) % M = x
  <1> DEFINE y == M * k + x
  <1>0. y \in Int
    BY Z3
  <1>1. PICK q \in Int : y = M * q + (y % M)
    BY <1>0, Division
  <1>2. y % M \in 0..(M - 1)
    BY <1>0, ModFacts
  <1>3. M * (q - k) = x - (y % M)
    BY <1>1, <1>2, Z3
  <1>4. q - k = 0
    <2>1. M * (q - k) < M /\ -M < M * (q - k)
      BY <1>2, <1>3, Z3
    <2>2. QED
      BY <2>1, MultipleBound
  <1>5. M * (q - k) = 0
    BY <1>4, Z3
  <1>6. QED
    BY <1>2, <1>3, <1>5, Z3

LEMMA Remainder ==
  ASSUME NEW M \in Nat \ {0}, NEW x \in Int, NEW y \in Int, x % M = y % M
  PROVE  \E k \in Int : x - y = M * k
  <1>1. PICK q \in Int : x = M * q + (x % M)
    BY Division
  <1>2. PICK r \in Int : y = M * r + (y % M)
    BY Division
  <1>3. x - y = M * (q - r)
    BY <1>1, <1>2, Z3
  <1>4. QED
    BY <1>3

LEMMA SameRemainder ==
  ASSUME NEW M \in Nat \ {0}, NEW x \in Int, NEW n \in Int, n % M = 0
  PROVE  (x + n) % M = x % M
  <1>1. PICK q \in Int : x = M * q + (x % M)
    BY Division
  <1>2. PICK r \in Int : n = M * r + (n % M)
    BY Division
  <1>3. x % M \in 0..(M - 1)
    BY ModFacts
  <1>4. x + n = M * (q + r) + (x % M)
    <2>1. M * (q + r) = M * q + M * r
      BY Z3
    <2>2. M * q \in Int /\ M * r \in Int /\ x % M \in Int
      BY <1>3, Z3
    <2>3. QED
      BY <1>1, <1>2, <2>1, <2>2
  <1>5. (M * (q + r) + (x % M)) % M = x % M
    <2>1. q + r \in Int
      OBVIOUS
    <2>2. QED
      BY <2>1, <1>3, AddMultiple
  <1>6. QED
    BY <1>4, <1>5

\* What the constants are, in linear terms.
LEMMA Sizes ==
  /\ IdxMod \in Nat \ {0} /\ RingSize \in Nat \ {0} /\ Limit \in 1..RingSize
  /\ Half \in Nat /\ IdxMod = 2 * Half /\ RingSize < Half
  BY IndexAssumption, SMT DEF Half

\* The distance of two indices without the remainder.
LEMMA DistanceIs ==
  ASSUME NEW a \in Idx, NEW b \in Idx
  PROVE  /\ Distance(a, b) = IF a <= b THEN b - a ELSE b - a + IdxMod
         /\ Distance(a, b) \in 0..(IdxMod - 1)
  BY Sizes, SMT DEF Distance, Idx

LEMMA DistanceZero ==
  ASSUME NEW a \in Idx, NEW b \in Idx
  PROVE  Distance(a, a) = 0 /\ (Distance(a, b) = 0 <=> a = b)
  <1>1. /\ Distance(a, b) = IF a <= b THEN b - a ELSE b - a + IdxMod
        /\ Distance(a, a) = IF a <= a THEN a - a ELSE a - a + IdxMod
    BY DistanceIs
  <1>2. QED
    BY <1>1, Sizes DEF Idx

\* Seen from a, equal distances are equal indices.
LEMMA DistanceOne ==
  ASSUME NEW a \in Idx, NEW b \in Idx, NEW c \in Idx, Distance(a, b) = Distance(a, c)
  PROVE  b = c
  <1>1. /\ Distance(a, b) = IF a <= b THEN b - a ELSE b - a + IdxMod
        /\ Distance(a, c) = IF a <= c THEN c - a ELSE c - a + IdxMod
    BY DistanceIs
  <1>2. /\ a \in Nat /\ b \in Nat /\ c \in Nat /\ IdxMod \in Nat
        /\ a < IdxMod /\ b < IdxMod /\ c < IdxMod
    BY Sizes DEF Idx
  <1>3. (IF a <= b THEN b - a ELSE b - a + IdxMod) = (IF a <= c THEN c - a ELSE c - a + IdxMod)
    BY <1>1
  <1>4. QED
    BY <1>2, <1>3

\* Between two indices of which b is the nearer to a.
LEMMA Rebase ==
  ASSUME NEW a \in Idx, NEW b \in Idx, NEW c \in Idx, Distance(a, b) <= Distance(a, c)
  PROVE  Distance(b, c) = Distance(a, c) - Distance(a, b)
  <1>1. /\ Distance(a, b) = IF a <= b THEN b - a ELSE b - a + IdxMod
        /\ Distance(a, c) = IF a <= c THEN c - a ELSE c - a + IdxMod
        /\ Distance(b, c) = IF b <= c THEN c - b ELSE c - b + IdxMod
    BY DistanceIs
  <1>2. QED
    BY <1>1, Sizes DEF Idx

\* ... and back again, the long way round.
LEMMA Around ==
  ASSUME NEW a \in Idx, NEW b \in Idx, NEW c \in Idx, Distance(a, b) < Distance(a, c)
  PROVE  Distance(c, b) = IdxMod - (Distance(a, c) - Distance(a, b))
  <1>1. /\ Distance(a, b) = IF a <= b THEN b - a ELSE b - a + IdxMod
        /\ Distance(a, c) = IF a <= c THEN c - a ELSE c - a + IdxMod
        /\ Distance(c, b) = IF c <= b THEN b - c ELSE b - c + IdxMod
    BY DistanceIs
  <1>2. QED
    BY <1>1, Sizes DEF Idx

\* Two distances that fit the index range together.
LEMMA AddDistance ==
  ASSUME NEW a \in Idx, NEW b \in Idx, NEW c \in Idx,
         Distance(a, b) + Distance(b, c) < IdxMod
  PROVE  Distance(a, c) = Distance(a, b) + Distance(b, c)
  <1>1. /\ Distance(a, b) = IF a <= b THEN b - a ELSE b - a + IdxMod
        /\ Distance(a, c) = IF a <= c THEN c - a ELSE c - a + IdxMod
        /\ Distance(b, c) = IF b <= c THEN c - b ELSE c - b + IdxMod
    BY DistanceIs
  <1>2. QED
    BY <1>1, Sizes DEF Idx

LEMMA PlusOne ==
  ASSUME NEW a \in Idx, NEW b \in Idx
  PROVE  /\ Plus1(b) \in Idx
         /\ Distance(a, b) < IdxMod - 1 => Distance(a, Plus1(b)) = Distance(a, b) + 1
         /\ a # b => Distance(Plus1(a), b) = Distance(a, b) - 1
  <1>1. Plus1(b) \in Idx /\ Plus1(b) = IF b = IdxMod - 1 THEN 0 ELSE b + 1
    BY Sizes, SMT DEF Plus1, Idx
  <1>2. Plus1(a) \in Idx /\ Plus1(a) = IF a = IdxMod - 1 THEN 0 ELSE a + 1
    BY Sizes, SMT DEF Plus1, Idx
  <1>3. /\ Distance(a, b) = IF a <= b THEN b - a ELSE b - a + IdxMod
        /\ Distance(a, Plus1(b)) = IF a <= Plus1(b) THEN Plus1(b) - a ELSE Plus1(b) - a + IdxMod
        /\ Distance(Plus1(a), b) = IF Plus1(a) <= b THEN b - Plus1(a) ELSE b - Plus1(a) + IdxMod
    BY <1>1, <1>2, DistanceIs
  <1>4. QED
    BY <1>1, <1>2, <1>3, Sizes DEF Idx

\* Slots repeat with the index range, and differ for different entries of a ring.
LEMMA SlotFacts ==
  ASSUME NEW a \in Idx, NEW b \in Idx
  PROVE  /\ Slot(a) \in 0..(RingSize - 1)
         /\ Slot(a + Distance(a, b)) = Slot(b)
         /\ \A i \in 0..(RingSize - 1), j \in 0..(RingSize - 1) :
               Slot(a + i) = Slot(a + j) => i = j
  <1>1. Slot(a) \in 0..(RingSize - 1)
    BY Sizes, SMT DEF Slot, Idx
  <1>2. Slot(a + Distance(a, b)) = Slot(b)
    <2>1. Slot(b + IdxMod) = Slot(b)
      <3>1. b \in Int /\ IdxMod % RingSize = 0
        BY IndexAssumption DEF Idx
      <3>2. (b + IdxMod) % RingSize = b % RingSize
        <4>1. RingSize \in Nat \ {0} /\ IdxMod \in Int
          BY Sizes
        <4>2. QED
          BY <3>1, <4>1, SameRemainder, Zenon
      <3>3. QED
        BY <3>2 DEF Slot
    <2>2. a + Distance(a, b) \in {b, b + IdxMod}
      <3>1. Distance(a, b) = IF a <= b THEN b - a ELSE b - a + IdxMod
        BY DistanceIs
      <3>2. QED
        BY <3>1, Sizes DEF Idx
    <2>3. QED
      BY <2>1, <2>2
  <1>3. ASSUME NEW i \in 0..(RingSize - 1), NEW j \in 0..(RingSize - 1), Slot(a + i) = Slot(a + j)
        PROVE  i = j
    <2>1. a + i \in Int /\ a + j \in Int /\ RingSize \in Nat \ {0}
      BY Sizes DEF Idx
    <2>2. PICK k \in Int : (a + i) - (a + j) = RingSize * k
      BY <1>3, <2>1, Remainder DEF Slot
    <2>3. i - j = RingSize * k /\ i - j < RingSize /\ -RingSize < i - j
      BY <2>1, <2>2, Sizes DEF Idx
    <2>4. k = 0
      BY <2>1, <2>3, MultipleBound
    <2>5. QED
      BY <2>1, <2>3, <2>4
  <1>4. QED
    BY <1>1, <1>2, <1>3

LEMMA SlotShift ==
  ASSUME NEW x \in Int
  PROVE  Slot(x + IdxMod) = Slot(x) /\ Slot(x - IdxMod) = Slot(x)
  <1>1. RingSize \in Nat \ {0} /\ IdxMod \in Int /\ IdxMod % RingSize = 0
    BY Sizes, IndexAssumption
  <1>2. (x + IdxMod) % RingSize = x % RingSize
    BY <1>1, SameRemainder, Zenon
  <1>3. x - IdxMod \in Int
    BY <1>1
  <1>4. ((x - IdxMod) + IdxMod) % RingSize = (x - IdxMod) % RingSize
    BY <1>1, <1>3, SameRemainder, Zenon
  <1>5. (x - IdxMod) + IdxMod = x
    BY <1>1
  <1>6. QED
    BY <1>2, <1>4, <1>5 DEF Slot

-----------------------------------------------------------------------------
(***************************************************************************)
(* 2. The window of the indices, and the FPGA's FIFO.                      *)
(***************************************************************************)
O(x) == Distance(rpSeen, x)

\* No index overtakes another, and the ring holds what is between them.
Window == /\ O(rpPub) <= O(rp) /\ O(rp) <= O(wpSeen) /\ O(wpSeen) <= O(wpPub)
          /\ O(wpPub) <= O(wp) /\ O(wp) <= Limit

\* What the step of a core says about the indices.
Places == /\ pc1 # "publish" => wpPub = wp
          /\ pc2 = "look" => rp = rpPub
          /\ pc2 # "look" => rpPub # wpSeen
          /\ pc0 = "quiesce" => pc1 = "run" /\ target0 = wpPub
          /\ ~on => rpPub = wp /\ pc1 \in {"run", "access"}

\* The count covers the FIFO, but for what core 0 has posted since the worker
\* saw it empty.
FifoFits == /\ pc2 = "relock" => out <= overtaken
            /\ pc2 # "relock" => overtaken = 0 /\ out <= posted + Overtake
            /\ ~cmdOvf

\* The i-th of the writes that wait in the ring.
E(i) == ring[Slot(rp + i - 1)]

Filled == \A i \in 1..Distance(rp, wp) : E(i) \in Write

QInv == TypeOK /\ Window /\ Places /\ FifoFits /\ Filled

\* The types one by one, the indices first.
LEMMA Types ==
  ASSUME TypeOK
  PROVE  /\ wp \in Idx /\ rpSeen \in Idx /\ wpPub \in Idx /\ rp \in Idx /\ wpSeen \in Idx
         /\ rpPub \in Idx /\ target \in Idx /\ seen0 \in Idx /\ target0 \in Idx
         /\ \A c \in Class : classWp[c] \in Idx
  BY DEF TypeOK

LEMMA Numbers == 0 \in Idx /\ Idx \subseteq Int /\ \A a, b \in Idx : Distance(a, b) \in Int
  <1>1. ASSUME NEW a \in Idx, NEW b \in Idx PROVE Distance(a, b) \in Int
    BY Sizes, DistanceIs
  <1>2. QED
    BY <1>1, Sizes DEF Idx

\* Seen from the worker's own index instead of the copy of it.
LEMMA FromRp ==
  ASSUME TypeOK, Window
  PROVE  /\ \A x \in {rp, wpSeen, wpPub, wp} :
               Distance(rpPub, x) = O(x) - O(rpPub) /\ Distance(rp, x) = O(x) - O(rp)
         /\ Distance(rpPub, rpPub) = 0 /\ O(rpPub) \in 0..Limit /\ O(rp) \in 0..Limit
         /\ O(wpSeen) \in 0..Limit /\ O(wpPub) \in 0..Limit /\ O(wp) \in 0..Limit
  <1>1. /\ wp \in Idx /\ rpSeen \in Idx /\ wpPub \in Idx /\ rp \in Idx /\ wpSeen \in Idx
        /\ rpPub \in Idx
    BY Types
  <1>2. \A x \in Idx : O(x) \in Nat
    BY <1>1, DistanceIs, Sizes DEF O
  <1>3. \A x \in {rp, wpSeen, wpPub, wp} : x \in Idx /\ O(rp) <= O(x) /\ O(rpPub) <= O(x)
    BY <1>1, <1>2 DEF Window
  <1>4. ASSUME NEW x \in {rp, wpSeen, wpPub, wp}
        PROVE  Distance(rpPub, x) = O(x) - O(rpPub) /\ Distance(rp, x) = O(x) - O(rp)
    <2>1. x \in Idx /\ O(rp) <= O(x) /\ O(rpPub) <= O(x)
      BY <1>3
    <2>2. QED
      BY <1>1, <2>1, Rebase DEF O
  <1>5. QED
    BY <1>1, <1>2, <1>4, Sizes, DistanceZero DEF Window
LEMMA QInit == Init => QInv
  <1> SUFFICES ASSUME Init PROVE QInv
    OBVIOUS
  <1>1. TypeOK
    <2>1. /\ ring \in [0..(RingSize - 1) -> Write \cup {None}] /\ classWp \in [Class -> Idx]
          /\ bus \in {<<"write", w>> : w \in Write} \cup Op \cup {<<"bypass">>} /\ op \in Op
      BY Numbers DEF Init, Op
    <2>2. {wp, rpSeen, wpPub, rp, wpSeen, rpPub, target, seen0, target0} \subseteq Idx
      BY Numbers DEF Init
    <2>3. /\ count \in 0..Batch /\ op0 \in Key
          /\ overtaken \in 0..Overtake /\ posted \in 0..PostedMax /\ out \in 0..CmdDepth
          /\ pc1 = "run" /\ pc2 = "look" /\ pc0 = "run"
      BY FifoAssumption DEF Init, Key
    <2>4. on \in BOOLEAN /\ cmdOvf \in BOOLEAN
      BY Zenon DEF Init
    <2>5. QED
      BY <2>1, <2>2, <2>3, <2>4 DEF TypeOK
  <1>2. Distance(0, 0) = 0
    BY Numbers, DistanceZero
  <1>3. QED
    BY <1>1, <1>2, Sizes, FifoAssumption DEF QInv, Init, Window, O, Places, FifoFits, Filled

\* Steps that leave the window's indices alone.
LEMMA WindowStays ==
  ASSUME Window, UNCHANGED <<rpSeen, rpPub, rp, wpSeen, wpPub, wp>>
  PROVE  Window'
  BY DEF Window, O

LEMMA TargetIsIndex ==
  ASSUME TypeOK, NEW c \in Key, NEW x \in Idx
  PROVE  ReadTarget(c, x) \in Idx
  BY Types DEF ReadTarget, Key

\* The worker only sends what has been put into the ring.
LEMMA Pending ==
  ASSUME QInv, rp # wpSeen
  PROVE  Distance(rp, wp) \in 1..Limit /\ ring[Slot(rp)] = E(1) /\ ring[Slot(rp)] \in Write
  <1>1. TypeOK /\ Window
    BY DEF QInv
  <1>2. rp # wp
    <2>1. SUFFICES ASSUME rp = wp PROVE FALSE
      OBVIOUS
    <2>2. O(rp) = O(wpSeen)
      BY <1>1, <2>1, FromRp DEF Window
    <2>3. QED
      BY <1>1, <2>2, Types, DistanceOne DEF O
  <1>3. Distance(rp, wp) \in 1..Limit
    <2>1. Distance(rp, wp) # 0
      BY <1>1, <1>2, Types, DistanceZero
    <2>2. Distance(rp, wp) \in 0..Limit
      BY <1>1, FromRp, Sizes DEF Window
    <2>3. QED
      BY <2>1, <2>2, Sizes
  <1>4. rp + 1 - 1 = rp
    BY <1>1, Types, Sizes DEF Idx
  <1>5. ring[Slot(rp)] = E(1)
    BY <1>4 DEF E
  <1>6. QED
    BY <1>3, <1>5, Sizes DEF QInv, Filled

LEMMA PushTypes ==
  ASSUME TypeOK, NEW n \in 0..PostedMax, Push(n)
  PROVE  posted' \in 0..PostedMax /\ out' \in 0..CmdDepth /\ cmdOvf' \in BOOLEAN
  <1>1. posted' \in 0..PostedMax /\ out' \in 0..CmdDepth
    BY FifoAssumption DEF TypeOK, Push
  <1>2. cmdOvf' \in BOOLEAN
    BY Zenon DEF Push
  <1>3. QED
    BY <1>1, <1>2

LEMMA PostDirectTypes ==
  ASSUME TypeOK, PostDirect
  PROVE  posted' \in 0..PostedMax /\ out' \in 0..CmdDepth /\ cmdOvf' \in BOOLEAN
  <1>1. CASE posted < PostedMax /\ Push(posted + 1)
    <2>1. posted + 1 \in 0..PostedMax
      BY <1>1, FifoAssumption DEF TypeOK
    <2>2. QED
      BY <1>1, <2>1, PushTypes
  <1>2. CASE Push(1)
    <2>1. 1 \in 0..PostedMax
      BY FifoAssumption
    <2>2. QED
      BY <1>2, <2>1, PushTypes
  <1>3. QED
    BY <1>1, <1>2 DEF PostDirect

LEMMA TypeStep == QInv /\ [Next]_vars => TypeOK'
  <1> SUFFICES ASSUME TypeOK, QInv, [Next]_vars PROVE TypeOK'
    BY DEF QInv
  <1> USE Types
  <1>1. ASSUME NEW w \in Write, Enqueue(w) PROVE TypeOK'
    <2>1. Plus1(wp) \in Idx /\ Slot(wp) \in 0..(RingSize - 1) /\ RpNow \in Idx
      BY PlusOne, SlotFacts DEF RpNow
    <2>2. ring' \in [0..(RingSize - 1) -> Write \cup {None}]
      BY <1>1, <2>1 DEF Enqueue, TypeOK
    <2>3. classWp' \in [Class -> Idx]
      BY <1>1, <2>1 DEF Enqueue, TypeOK
    <2>4. QED
      BY <1>1, <2>1, <2>2, <2>3 DEF Enqueue, TypeOK, core2Vars, core0Vars, cmdVars
  <1>2. CASE Publish
    BY <1>2 DEF Publish, TypeOK, core2Vars, core0Vars, cmdVars
  <1>3. ASSUME NEW w \in Write, WriteDirect(w) PROVE TypeOK'
    BY <1>3, PostDirectTypes DEF WriteDirect, TypeOK, core1Vars, core2Vars, core0Vars
  <1>4. ASSUME NEW o \in Op, NEW t \in Idx, Begin(o, t) PROVE TypeOK'
    BY <1>4 DEF Begin, TypeOK, core2Vars, core0Vars, cmdVars
  <1>5. ASSUME NEW c \in Class, ReadBegin(c) PROVE TypeOK'
    BY <1>4, <1>5, TargetIsIndex DEF ReadBegin, Op, Key
  <1>6. CASE SyncBegin
    BY <1>4, <1>6 DEF SyncBegin, Op
  <1>7. CASE Wait
    BY <1>7, Numbers DEF Wait, TypeOK, core2Vars, core0Vars, cmdVars
  <1>8. CASE Access \/ Bypass
    BY <1>8, FifoAssumption
    DEF Access, Bypass, Cycle, TypeOK, Op, core1Vars, core2Vars, core0Vars
  <1>9. CASE Look
    BY <1>9 DEF Look, WpNow, TypeOK, core1Vars, core0Vars, cmdVars
  <1>10. CASE Post
    <2>1. Plus1(rp) \in Idx /\ count + 1 \in 0..Batch
      BY <1>10, PlusOne, FifoAssumption DEF Post, More, TypeOK
    <2>2. ring[Slot(rp)] \in Write
      BY <1>10, Pending DEF Post, More
    <2>3. posted + 1 \in 0..PostedMax /\ Push(posted + 1)
      BY <1>10, FifoAssumption DEF Post, TypeOK
    <2>4. QED
      BY <1>10, <2>1, <2>2, <2>3, PushTypes DEF Post, TypeOK, core1Vars, core0Vars
  <1>11. CASE GiveWay \/ Drained \/ Unlock
    BY <1>11 DEF GiveWay, Drained, Unlock, TypeOK, core1Vars, core0Vars, cmdVars
  <1>12. CASE Relock
    BY <1>12, FifoAssumption DEF Relock, TypeOK, core1Vars
  <1>13. CASE PublishRp
    BY <1>13, FifoAssumption DEF PublishRp, TypeOK, core1Vars, core0Vars, cmdVars
  <1>14. CASE Poke
    BY <1>14, PostDirectTypes, FifoAssumption
    DEF Poke, Overtakes, TypeOK, core1Vars, core2Vars
  <1>15. ASSUME NEW c \in Key, ReadBegin0(c) PROVE TypeOK'
    BY <1>15 DEF ReadBegin0, TypeOK, core1Vars, core2Vars, cmdVars
  <1>16. CASE ReadClass0
    <2>1. ReadTarget(op0, seen0) \in Idx
      BY TargetIsIndex DEF TypeOK
    <2>2. QED
      BY <1>16, <2>1 DEF ReadClass0, TypeOK, core1Vars, core2Vars, cmdVars
  <1>17. CASE Wait0
    BY <1>17, Numbers DEF Wait0, TypeOK, core1Vars, core2Vars, cmdVars
  <1>18. CASE Access0
    BY <1>18, Numbers, FifoAssumption DEF Access0, Cycle, Return0, TypeOK, Key, core1Vars, core2Vars
  <1>19. CASE Quiesce
    BY <1>19 DEF Quiesce, TypeOK, core1Vars, core2Vars, cmdVars
  <1>20. CASE Switch
    BY <1>20, Numbers DEF Switch, Return0, TypeOK, Key, core1Vars, core2Vars, cmdVars
  <1>21. CASE Land
    BY <1>21, FifoAssumption DEF Land, TypeOK, core1Vars, core2Vars, core0Vars
  <1>22. CASE UNCHANGED vars
    BY <1>22 DEF vars, TypeOK, core1Vars, core2Vars, core0Vars, cmdVars
  <1>23. QED
    BY <1>1, <1>2, <1>3, <1>5, <1>6, <1>7, <1>8, <1>9, <1>10, <1>11, <1>12, <1>13,
       <1>14, <1>15, <1>16, <1>17, <1>18, <1>19, <1>20, <1>21, <1>22
    DEF Next, Core1, Worker, Core0
\* A write is put behind those that wait, in a slot none of them has.
LEMMA EnqueueRing ==
  ASSUME QInv, NEW w \in Write, Enqueue(w)
  PROVE  /\ Distance(rp, wp)' = Distance(rp, wp) + 1 /\ Distance(rp, wp) \in 0..(Limit - 1)
         /\ \A i \in 1..Distance(rp, wp) : E(i)' = E(i)
         /\ E(Distance(rp, wp))' = w
  <1> DEFINE d == Distance(rp, wp)
  <1>0. /\ TypeOK /\ Window /\ wp \in Idx /\ rp \in Idx /\ rpPub \in Idx /\ rpSeen \in Idx
        /\ wp' = Plus1(wp) /\ rp' = rp /\ ring' = [ring EXCEPT ![Slot(wp)] = w]
    BY Types DEF QInv, Enqueue, core2Vars
  <1>1. d \in 0..(Limit - 1)
    <2>1. Distance(RpNow, wp) < Limit
      BY DEF Enqueue
    <2>2. RpNow = rpPub \/ RpNow = rpSeen
      BY DEF RpNow
    <2>3. /\ d = O(wp) - O(rp) /\ Distance(rpPub, wp) = O(wp) - O(rpPub)
          /\ O(rp) <= O(wp) /\ O(rpPub) <= O(rp)
          /\ O(rp) \in 0..Limit /\ O(wp) \in 0..Limit /\ O(rpPub) \in 0..Limit
      BY <1>0, FromRp DEF Window
    <2>4. QED
      BY <2>1, <2>2, <2>3, Sizes DEF O
  <1>2. Distance(rp, Plus1(wp)) = d + 1
    BY <1>0, <1>1, PlusOne, Sizes
  <1>3. rp + d \in Int /\ Slot(rp + d) = Slot(wp) /\ Slot(wp) \in 0..(RingSize - 1)
    BY <1>0, <1>1, SlotFacts, Numbers
  <1>4. \A i \in 1..d : E(i)' = E(i)
    <2>1. SUFFICES ASSUME NEW i \in 1..d PROVE E(i)' = E(i)
      OBVIOUS
    <2>2. i - 1 \in 0..(RingSize - 1) /\ d \in 0..(RingSize - 1) /\ i - 1 # d
      BY <1>1, Sizes
    <2>3. Slot(rp + (i - 1)) # Slot(rp + d)
      BY <1>0, <2>2, SlotFacts
    <2>4. Slot(rp + i - 1) # Slot(wp)
      BY <1>3, <2>3
    <2>5. QED
      BY <1>0, <2>4 DEF E, TypeOK
  <1>5. E(Distance(rp, wp))' = w
    <2>1. Distance(rp, wp)' - 1 = d
      BY <1>0, <1>1, <1>2
    <2>2. E(Distance(rp, wp))' = ring'[Slot(rp + (Distance(rp, wp)' - 1))]
      BY <1>0 DEF E
    <2>3. QED
      BY <1>0, <1>3, <2>1, <2>2 DEF TypeOK
  <1>6. QED
    BY <1>0, <1>1, <1>2, <1>4, <1>5

\* The worker takes the first.
LEMMA PostRing ==
  ASSUME QInv, Post
  PROVE  /\ Distance(rp, wp)' = Distance(rp, wp) - 1 /\ Distance(rp, wp) \in 1..Limit
         /\ \A i \in 1..(Distance(rp, wp) - 1) : E(i)' = E(i + 1)
         /\ ring[Slot(rp)] = E(1) /\ rp # wp
  <1>0. /\ TypeOK /\ Window /\ wp \in Idx /\ rp \in Idx /\ rp # wpSeen
        /\ wp' = wp /\ rp' = Plus1(rp) /\ ring' = ring
    BY Types DEF QInv, Post, More, core1Vars
  <1>1. Distance(rp, wp) \in 1..Limit /\ ring[Slot(rp)] = E(1)
    BY <1>0, Pending
  <1>2. rp # wp
    BY <1>0, <1>1, DistanceZero, Sizes
  <1>3. Distance(Plus1(rp), wp) = Distance(rp, wp) - 1
    BY <1>0, <1>2, PlusOne
  <1>4. ASSUME NEW i \in 1..(Distance(rp, wp) - 1) PROVE E(i)' = E(i + 1)
    <2>1. rp \in Int /\ i \in Int /\ IdxMod \in Int
      BY <1>0, <1>1, Sizes DEF Idx
    <2>2. Plus1(rp) = rp + 1 \/ Plus1(rp) = rp + 1 - IdxMod
      BY <1>0, Sizes, SMT DEF Plus1, Idx
    <2>3. Slot(Plus1(rp) + i - 1) = Slot(rp + i)
      <3>1. Slot((rp + i) - IdxMod) = Slot(rp + i)
        BY <2>1, SlotShift
      <3>2. Plus1(rp) + i - 1 = rp + i \/ Plus1(rp) + i - 1 = (rp + i) - IdxMod
        BY <2>1, <2>2
      <3>3. QED
        BY <3>1, <3>2
    <2>4. i + 1 - 1 = i
      BY <2>1
    <2>5. QED
      BY <1>0, <2>3, <2>4 DEF E
  <1>5. QED
    BY <1>0, <1>1, <1>2, <1>3, <1>4

\* No other step touches the writes that wait.
LEMMA RingStays ==
  ASSUME UNCHANGED <<ring, rp, wp>>
  PROVE  Distance(rp, wp)' = Distance(rp, wp) /\ \A i : E(i)' = E(i)
  BY DEF E
LEMMA FilledStep == QInv /\ [Next]_vars => Filled'
  <1> SUFFICES ASSUME QInv, [Next]_vars PROVE Filled'
    OBVIOUS
  <1>1. ASSUME NEW w \in Write, Enqueue(w) PROVE Filled'
    <2>1. ASSUME NEW i \in 1..Distance(rp, wp)' PROVE E(i)' \in Write
      <3>1. i \in 1..Distance(rp, wp) \/ i = Distance(rp, wp)'
        BY <1>1, EnqueueRing, Sizes
      <3>2. QED
        BY <1>1, <3>1, EnqueueRing DEF QInv, Filled
    <2>2. QED
      BY <2>1 DEF Filled
  <1>2. CASE Post
    <2>1. ASSUME NEW i \in 1..Distance(rp, wp)' PROVE E(i)' \in Write
      <3>1. i \in 1..(Distance(rp, wp) - 1) /\ i + 1 \in 1..Distance(rp, wp)
        BY <1>2, PostRing, Sizes
      <3>2. QED
        BY <1>2, <3>1, PostRing DEF QInv, Filled
    <2>2. QED
      BY <2>1 DEF Filled
  <1>3. CASE UNCHANGED <<ring, rp, wp>>
    BY <1>3, RingStays DEF QInv, Filled
  <1>4. QED
    BY <1>1, <1>2, <1>3
    DEF Next, Core1, Worker, Core0, vars, core1Vars, core2Vars, core0Vars, cmdVars,
        WriteDirect, ReadBegin, Publish, SyncBegin, Begin, Wait, Access, Bypass, Look,
        GiveWay, Drained, Relock, Unlock, PublishRp, Poke, ReadClass0, Wait0, Access0,
        Quiesce, Switch, ReadBegin0, Land

LEMMA WindowStep == QInv /\ [Next]_vars => Window'
  <1> SUFFICES ASSUME QInv, [Next]_vars PROVE Window'
    OBVIOUS
  <1>0. /\ TypeOK /\ Window /\ wp \in Idx /\ rpSeen \in Idx /\ wpPub \in Idx /\ rp \in Idx
        /\ wpSeen \in Idx /\ rpPub \in Idx
    BY Types DEF QInv
  <1>1. ASSUME NEW w \in Write, Enqueue(w) PROVE Window'
    <2>1. /\ wp' = Plus1(wp) /\ rpSeen' = RpNow /\ rp' = rp /\ rpPub' = rpPub
          /\ wpSeen' = wpSeen /\ wpPub' = wpPub /\ Distance(RpNow, wp) < Limit
      BY <1>1 DEF Enqueue, core2Vars
    <2>2. CASE RpNow = rpSeen
      <3>1. Distance(rpSeen, Plus1(wp)) = Distance(rpSeen, wp) + 1
        <4>1. Distance(rpSeen, wp) < IdxMod - 1
          BY <1>0, <2>1, <2>2, FromRp, Sizes DEF O
        <4>2. QED
          BY <1>0, <4>1, PlusOne
      <3>2. QED
        BY <1>0, <2>1, <2>2, <3>1, FromRp, Sizes DEF Window, O
    <2>3. CASE RpNow = rpPub
      <3>1. Distance(rpPub, wp) = O(wp) - O(rpPub)
        BY <1>0, FromRp
      <3>2. Distance(rpPub, Plus1(wp)) = Distance(rpPub, wp) + 1
        BY <1>0, <2>1, <2>3, <3>1, PlusOne, FromRp, Sizes
      <3>3. QED
        BY <1>0, <2>1, <2>3, <3>1, <3>2, FromRp, Sizes DEF Window, O
    <2>4. QED
      BY <2>2, <2>3 DEF RpNow
  <1>2. CASE Post
    <2>1. /\ rp' = Plus1(rp) /\ rp # wpSeen
          /\ UNCHANGED <<rpSeen, rpPub, wpSeen, wpPub, wp>>
      BY <1>2 DEF Post, More, core1Vars
    <2>2. O(rp) # O(wpSeen)
      BY <1>0, <2>1, DistanceOne DEF O
    <2>3. Distance(rpSeen, Plus1(rp)) = Distance(rpSeen, rp) + 1
      BY <1>0, FromRp, PlusOne, Sizes DEF O
    <2>4. QED
      BY <1>0, <2>1, <2>2, <2>3, FromRp, Sizes DEF Window, O
  <1>3. CASE Publish
    <2>1. wpPub' = wp /\ UNCHANGED <<rpSeen, rpPub, wpSeen, rp, wp>>
      BY <1>3 DEF Publish, core2Vars
    <2>2. QED
      BY <1>0, <2>1, FromRp, Sizes DEF Window, O
  <1>4. CASE Look
    <2>1. wpSeen' \in {wpPub, wpSeen} /\ UNCHANGED <<rpSeen, rpPub, wpPub, rp, wp>>
      BY <1>4 DEF Look, WpNow, core1Vars
    <2>2. QED
      BY <1>0, <2>1, FromRp, Sizes DEF Window, O
  <1>5. CASE PublishRp
    <2>1. rpPub' = rp /\ UNCHANGED <<rpSeen, wpSeen, wpPub, rp, wp>>
      BY <1>5 DEF PublishRp, core1Vars
    <2>2. QED
      BY <1>0, <2>1, FromRp, Sizes DEF Window, O
  <1>6. CASE UNCHANGED <<rpSeen, rpPub, rp, wpSeen, wpPub, wp>>
    BY <1>0, <1>6, WindowStays
  <1>7. QED
    BY <1>1, <1>2, <1>3, <1>4, <1>5, <1>6
    DEF Next, Core1, Worker, Core0, vars, core1Vars, core2Vars, core0Vars, cmdVars,
        WriteDirect, ReadBegin, SyncBegin, Begin, Wait, Access, Bypass,
        GiveWay, Drained, Relock, Unlock, Poke, ReadClass0, Wait0, Access0,
        Quiesce, Switch, ReadBegin0, Land
\* A wait for an index that the worker has not published yet is not over.
LEMMA NotReached ==
  ASSUME TypeOK, Window, NEW t \in Idx, O(rpPub) < O(t), O(t) <= Limit
  PROVE  ~Reached(rpPub, t)
  <1>1. rpPub \in Idx /\ rpSeen \in Idx /\ O(rpPub) \in 0..Limit
    BY Types, FromRp
  <1>2. Distance(t, rpPub) = IdxMod - (O(t) - O(rpPub)) /\ O(t) \in Nat
    BY <1>1, Around, DistanceIs, Sizes DEF O
  <1>3. QED
    BY <1>1, <1>2, Sizes DEF Reached

\* While the queue is off it is empty and the worker idle.
LEMMA OffIdle ==
  ASSUME QInv, ~on
  PROVE  pc2 = "look" /\ rp = wp /\ rpPub = wp /\ Distance(rp, wp) = 0
  <1>0. /\ TypeOK /\ Window /\ rpPub = wp /\ wp \in Idx /\ rp \in Idx /\ wpSeen \in Idx
        /\ rpSeen \in Idx
    BY Types DEF QInv, Places
  <1>1. O(rp) = O(wp) /\ O(wpSeen) = O(wp)
    BY <1>0, FromRp DEF Window
  <1>2. rp = wp /\ wpSeen = wp
    BY <1>0, <1>1, DistanceOne DEF O
  <1>3. QED
    BY <1>0, <1>2, DistanceZero DEF QInv, Places, TypeOK

LEMMA PlacesStep == QInv /\ [Next]_vars => Places'
  <1> SUFFICES ASSUME QInv, [Next]_vars PROVE Places'
    OBVIOUS
  <1>0. TypeOK /\ Window /\ Places
    BY DEF QInv
  <1>1. ASSUME NEW w \in Write, Enqueue(w) \/ WriteDirect(w) PROVE Places'
    BY <1>0, <1>1 DEF Enqueue, WriteDirect, Running, Places, core1Vars, core2Vars, core0Vars
  <1>2. CASE Publish
    BY <1>0, <1>2 DEF Publish, Places, core2Vars, core0Vars
  <1>3. ASSUME NEW c \in Class, ReadBegin(c) PROVE Places'
    BY <1>0, <1>3 DEF ReadBegin, Begin, Running, Places, core2Vars, core0Vars
  <1>4. CASE SyncBegin
    BY <1>0, <1>4 DEF SyncBegin, Begin, Running, Places, core2Vars, core0Vars
  <1>5. CASE Wait \/ Access \/ Bypass
    BY <1>0, <1>5 DEF Wait, Access, Bypass, Running, Places, core1Vars, core2Vars, core0Vars
  <1>6. CASE Look
    <2>1. rp = rpPub /\ rp # wpSeen' /\ pc2' = "post" /\ rpPub' = rpPub
      BY <1>0, <1>6 DEF Look, Places
    <2>2. QED
      BY <1>0, <1>6, <2>1 DEF Look, Places, core1Vars, core0Vars
  <1>7. CASE Post \/ GiveWay \/ Drained \/ Relock \/ Unlock
    BY <1>0, <1>7
    DEF Post, GiveWay, Drained, Relock, Unlock, Places, core1Vars, core0Vars
  <1>8. CASE PublishRp
    <2>1. on
      BY <1>8, OffIdle DEF PublishRp
    <2>2. QED
      BY <1>0, <1>8, <2>1 DEF PublishRp, Places, core1Vars, core0Vars
  <1>9. ASSUME NEW c \in Key, ReadBegin0(c) PROVE Places'
    BY <1>0, <1>9 DEF ReadBegin0, Places, core1Vars, core2Vars
  <1>10. CASE Poke \/ ReadClass0 \/ Wait0 \/ Access0 \/ Quiesce \/ Land
    BY <1>0, <1>10
    DEF Poke, ReadClass0, Wait0, Access0, Return0, Quiesce, Land, Places,
        core1Vars, core2Vars, core0Vars
  <1>11. CASE Switch
    <2>1. /\ pc0 = "quiesce" /\ pc0' = "run" /\ pc1 = "run" /\ target0 = wpPub /\ wpPub = wp
          /\ UNCHANGED <<core1Vars, core2Vars>>
      BY <1>0, <1>11 DEF Switch, Return0, Places
    <2>2. rpPub = wp
      <3>1. CASE on
        <4>1. ~(O(rpPub) < O(wp)) /\ O(rpPub) \in 0..Limit /\ O(wp) \in 0..Limit
          BY <1>0, <1>11, <2>1, <3>1, NotReached, FromRp, Types DEF Switch
        <4>2. O(rpPub) = O(wp)
          BY <1>0, <4>1, FromRp DEF Window
        <4>3. QED
          BY <1>0, <4>2, Types, DistanceOne DEF O
      <3>2. QED
        BY <1>0, <3>1 DEF Places
    <2>3. QED
      BY <1>0, <2>1, <2>2 DEF Places, core1Vars, core2Vars
  <1>12. CASE UNCHANGED vars
    BY <1>0, <1>12 DEF vars, Places, core1Vars, core2Vars, core0Vars
  <1>13. QED
    BY <1>1, <1>2, <1>3, <1>4, <1>5, <1>6, <1>7, <1>8, <1>9, <1>10, <1>11, <1>12
    DEF Next, Core1, Worker, Core0
\* A command enters a FIFO with room.
LEMMA PushFits ==
  ASSUME TypeOK, NEW n, Push(n), ~cmdOvf, out < CmdDepth
  PROVE  posted' = n /\ out' = out + 1 /\ ~cmdOvf'
  <1>1. posted' = n /\ out' = out + 1
    BY DEF Push
  <1>2. out # CmdDepth
    BY FifoAssumption DEF TypeOK
  <1>3. ~cmdOvf'
    BY <1>2, Zenon DEF Push
  <1>4. QED
    BY <1>1, <1>3

\* A core that posts directly finds room: the count, or the FIFO seen empty,
\* covers what is in it; while the worker waits for the lock, Overtake does.
LEMMA PostDirectFits ==
  ASSUME TypeOK, FifoFits, PostDirect, pc2 = "relock" => overtaken < Overtake
  PROVE  /\ ~cmdOvf' /\ out' = out + 1
         /\ pc2 # "relock" => out' <= posted' + Overtake
  <1>0. /\ posted \in Nat /\ out \in Nat /\ posted <= PostedMax /\ overtaken \in Nat
        /\ CmdDepth \in Nat \ {0} /\ Overtake \in Nat /\ PostedMax \in Nat \ {0}
        /\ PostedMax + Overtake <= CmdDepth
    BY FifoAssumption DEF TypeOK
  <1>1. CASE posted < PostedMax /\ Push(posted + 1)
    <2>1. out < CmdDepth
      BY <1>0, <1>1 DEF FifoFits
    <2>2. posted' = posted + 1 /\ out' = out + 1 /\ ~cmdOvf'
      BY <1>1, <2>1, PushFits DEF FifoFits
    <2>3. QED
      BY <1>0, <2>2 DEF FifoFits
  <1>2. CASE out = 0 /\ Push(1)
    <2>1. posted' = 1 /\ out' = out + 1 /\ ~cmdOvf'
      BY <1>0, <1>2, PushFits DEF FifoFits
    <2>2. QED
      BY <1>0, <1>2, <2>1
  <1>3. QED
    BY <1>1, <1>2 DEF PostDirect

LEMMA FifoStep == QInv /\ [Next]_vars => FifoFits'
  <1> SUFFICES ASSUME QInv, [Next]_vars PROVE FifoFits'
    OBVIOUS
  <1>0. TypeOK /\ FifoFits
    BY DEF QInv
  <1>1. ASSUME NEW w \in Write, WriteDirect(w) PROVE FifoFits'
    <2>1. pc2 = "look" /\ PostDirect /\ UNCHANGED <<core2Vars, core0Vars>>
      BY <1>1, OffIdle DEF WriteDirect
    <2>2. QED
      BY <1>0, <2>1, PostDirectFits DEF FifoFits, core2Vars, core0Vars
  <1>2. CASE Access \/ Bypass \/ Access0
    <2>1. /\ out = 0 /\ out' = 0 /\ posted' = 0 /\ (cmdOvf' <=> cmdOvf)
          /\ overtaken' = overtaken /\ pc2' = pc2
      BY <1>2 DEF Access, Bypass, Access0, Cycle, core2Vars, core0Vars
    <2>2. overtaken \in 0..Overtake
      BY <1>0 DEF TypeOK
    <2>3. QED
      BY <1>0, <2>1, <2>2, FifoAssumption DEF FifoFits
  <1>3. CASE Post
    <2>1. pc2 = "post" /\ pc2' = pc2 /\ overtaken' = overtaken /\ Push(posted + 1)
          /\ posted < PostedMax
      BY <1>3 DEF Post, core0Vars
    <2>2. out < CmdDepth
      BY <1>0, <2>1, FifoAssumption DEF FifoFits, TypeOK
    <2>3. posted' = posted + 1 /\ out' = out + 1 /\ ~cmdOvf'
      BY <1>0, <2>1, <2>2, PushFits DEF FifoFits
    <2>4. QED
      BY <1>0, <2>1, <2>3, FifoAssumption DEF FifoFits, TypeOK
  <1>4. CASE Look \/ GiveWay \/ Unlock \/ PublishRp
    BY <1>0, <1>4 DEF Look, GiveWay, Unlock, PublishRp, FifoFits, core0Vars, cmdVars
  <1>5. CASE Drained
    BY <1>0, <1>5 DEF Drained, FifoFits, core0Vars, cmdVars
  <1>6. CASE Relock
    <2>1. out <= overtaken /\ overtaken \in 0..Overtake
      BY <1>0, <1>6 DEF Relock, FifoFits, TypeOK
    <2>2. pc2' = "post" /\ overtaken' = 0 /\ posted' = 0 /\ out' = out /\ (cmdOvf' <=> cmdOvf)
      BY <1>6 DEF Relock
    <2>3. QED
      BY <1>0, <2>1, <2>2, FifoAssumption DEF FifoFits, TypeOK
  <1>7. CASE Poke
    <2>1. PostDirect /\ pc2' = pc2
      BY <1>7 DEF Poke, core2Vars
    <2>2. CASE pc2 = "relock"
      <3>1. overtaken < Overtake /\ overtaken' = overtaken + 1
        BY <1>7, <2>2 DEF Poke, Overtakes
      <3>2. QED
        BY <1>0, <2>1, <2>2, <3>1, PostDirectFits, FifoAssumption DEF FifoFits, TypeOK
    <2>3. CASE pc2 # "relock"
      <3>1. overtaken' = overtaken
        BY <1>7, <2>3 DEF Poke, Overtakes
      <3>2. QED
        BY <1>0, <2>1, <2>3, <3>1, PostDirectFits DEF FifoFits
    <2>4. QED
      BY <2>2, <2>3
  <1>8. CASE Land
    <2>1. out' = out - 1 /\ UNCHANGED <<pc2, overtaken, posted, cmdOvf>>
      BY <1>8 DEF Land, core2Vars, core0Vars
    <2>2. QED
      BY <1>0, <2>1, FifoAssumption DEF FifoFits, TypeOK
  <1>9. CASE UNCHANGED <<pc2, overtaken, posted, out, cmdOvf>>
    BY <1>0, <1>9 DEF FifoFits
  <1>10. QED
    BY <1>1, <1>2, <1>3, <1>4, <1>5, <1>6, <1>7, <1>8, <1>9
    DEF Next, Core1, Worker, Core0, vars, core1Vars, core2Vars, core0Vars, cmdVars,
        Enqueue, ReadBegin, SyncBegin, Begin, Publish, Wait, ReadClass0, Wait0,
        Quiesce, Switch, Return0, ReadBegin0

\* The indices never overtake one another and the count covers the FPGA's FIFO.
THEOREM QInvHolds == Spec => []QInv
  <1>1. QInv /\ [Next]_vars => QInv'
    BY TypeStep, WindowStep, PlacesStep, FifoStep, FilledStep DEF QInv
  <1>2. QED
    BY QInit, <1>1, PTL DEF Spec

\* The queue's variables keep their types.
THEOREM TypeCorrect == Spec => []TypeOK
  <1>1. QInv => TypeOK
    BY DEF QInv
  <1>2. QED
    BY QInvHolds, <1>1, PTL

\* NoWriteRefused: hw.c posts up to posted_max writes without asking the FPGA,
\* and the FPGA's FIFO never refuses one, although the worker resets the count
\* outside the lock it drained under.
THEOREM NoWriteIsRefused == Spec => []NoWriteRefused
  <1>1. QInv => NoWriteRefused
    BY DEF QInv, FifoFits, NoWriteRefused
  <1>2. QED
    BY QInvHolds, <1>1, PTL
-----------------------------------------------------------------------------
(***************************************************************************)
(* 3. What core 1's reads and synchronous writes wait for.                 *)
(***************************************************************************)
\* t is an index of the window that is published after the i-th write is sent.
Behind(i, t) == i <= Distance(rp, t) /\ Distance(rp, t) <= Distance(rp, wp)

\* The writes that core 1's operation may not pass.
Blocks(w) == op = <<"sync">> \/ op = <<"read", ClassOf[w]>>

\* A class's index lies behind every write to the class that waits.
ClassInv == \A c \in Class, i \in 1..Distance(rp, wp) :
                ClassOf[E(i)] = c => Behind(i, classWp[c])

WaitInv == pc1 = "wait" =>
               \A i \in 1..Distance(rp, wp) : Blocks(E(i)) => Behind(i, target)

AccessInv == pc1 = "access" => \A i \in 1..Distance(rp, wp) : ~Blocks(E(i))

OInv == ClassInv /\ WaitInv /\ AccessInv

LEMMA OInit == Init => OInv
  <1> SUFFICES ASSUME Init PROVE OInv
    OBVIOUS
  <1>1. Distance(rp, wp) = 0
    BY Numbers, DistanceZero DEF Init
  <1>2. QED
    BY <1>1 DEF Init, OInv, ClassInv, WaitInv, AccessInv

\* The first write that waits is sent: what lies behind another still does.
LEMMA BehindMoves ==
  ASSUME QInv, Post, NEW i \in 1..(Distance(rp, wp) - 1), NEW t \in Idx, Behind(i + 1, t)
  PROVE  i <= Distance(rp', t) /\ Distance(rp', t) <= Distance(rp, wp)'
  <1>0. /\ rp \in Idx /\ wp \in Idx /\ rp' = Plus1(rp) /\ Distance(rp, t) \in Int
        /\ Distance(rp, wp)' = Distance(rp, wp) - 1 /\ Distance(rp, wp) \in 1..Limit
    BY PostRing, Types, Numbers DEF QInv, Post
  <1>1. rp # t
    BY <1>0, DistanceZero, Sizes DEF Behind
  <1>2. Distance(rp', t) = Distance(rp, t) - 1
    BY <1>0, <1>1, PlusOne
  <1>3. QED
    BY <1>0, <1>2, Sizes DEF Behind

LEMMA ClassStep == QInv /\ OInv /\ [Next]_vars => ClassInv'
  <1> SUFFICES ASSUME QInv, OInv, [Next]_vars PROVE ClassInv'
    OBVIOUS
  <1>0. TypeOK /\ ClassInv /\ \A c \in Class : classWp[c] \in Idx
    BY Types DEF QInv, OInv
  <1>1. ASSUME NEW w \in Write, Enqueue(w) PROVE ClassInv'
    <2>1. ASSUME NEW c \in Class, NEW i \in 1..Distance(rp, wp)', ClassOf[E(i)'] = c
          PROVE  Behind(i, classWp[c])'
      <3>0. /\ rp' = rp /\ wp' = Plus1(wp) /\ Distance(rp, wp)' = Distance(rp, wp) + 1
            /\ Distance(rp, wp) \in 0..(Limit - 1)
            /\ classWp'[c] = IF c = ClassOf[w] THEN Plus1(wp) ELSE classWp[c]
        BY <1>1, EnqueueRing DEF Enqueue, core2Vars
      <3>1. CASE c = ClassOf[w]
        <4>1. Distance(rp', classWp'[c]) = Distance(rp, wp)'
          BY <3>0, <3>1
        <4>2. QED
          BY <3>0, <4>1, Sizes DEF Behind
      <3>2. CASE c # ClassOf[w]
        <4>1. i \in 1..Distance(rp, wp)
          <5>1. i # Distance(rp, wp)'
            BY <1>1, <2>1, <3>2, EnqueueRing
          <5>2. QED
            BY <3>0, <5>1, Sizes
        <4>2. E(i)' = E(i)
          BY <1>1, <4>1, EnqueueRing
        <4>3. Behind(i, classWp[c])
          BY <1>0, <2>1, <4>1, <4>2 DEF ClassInv
        <4>4. Distance(rp, classWp[c]) \in Int
          BY <1>0, Types, Numbers
        <4>5. QED
          BY <3>0, <3>2, <4>3, <4>4, Sizes DEF Behind
      <3>3. QED
        BY <3>1, <3>2
    <2>2. QED
      BY <2>1 DEF ClassInv
  <1>2. CASE Post
    <2>1. ASSUME NEW c \in Class, NEW i \in 1..Distance(rp, wp)', ClassOf[E(i)'] = c
          PROVE  Behind(i, classWp[c])'
      <3>1. /\ i \in 1..(Distance(rp, wp) - 1) /\ i + 1 \in 1..Distance(rp, wp)
            /\ E(i)' = E(i + 1) /\ classWp' = classWp
        BY <1>2, PostRing, Sizes DEF Post, core1Vars
      <3>2. Behind(i + 1, classWp[c])
        BY <1>0, <2>1, <3>1 DEF ClassInv
      <3>3. QED
        BY <1>0, <1>2, <3>1, <3>2, BehindMoves DEF Behind
    <2>2. QED
      BY <2>1 DEF ClassInv
  <1>3. CASE UNCHANGED <<ring, rp, wp, classWp>>
    BY <1>0, <1>3, RingStays DEF ClassInv, Behind
  <1>4. QED
    BY <1>1, <1>2, <1>3
    DEF Next, Core1, Worker, Core0, vars, core1Vars, core2Vars, core0Vars, cmdVars,
        WriteDirect, ReadBegin, Publish, SyncBegin, Begin, Wait, Access, Bypass, Look,
        GiveWay, Drained, Relock, Unlock, PublishRp, Poke, ReadClass0, Wait0, Access0,
        Quiesce, Switch, ReadBegin0, Land
\* A wait for an index behind a write that has not been sent is not over.
LEMMA BehindWaits ==
  ASSUME TypeOK, Window, NEW i \in 1..Distance(rp, wp), NEW t \in Idx, Behind(i, t)
  PROVE  ~Reached(rpPub, t)
  <1>1. /\ rp \in Idx /\ rpSeen \in Idx /\ Distance(rpSeen, rp) = O(rp)
        /\ Distance(rp, wp) = O(wp) - O(rp) /\ O(rp) \in 0..Limit /\ O(wp) \in 0..Limit
        /\ O(rpPub) \in 0..Limit /\ O(rpPub) <= O(rp) /\ Distance(rp, t) \in Int
    BY Types, FromRp, Numbers DEF O, Window
  <1>2. Distance(rpSeen, rp) + Distance(rp, t) < IdxMod
    BY <1>1, Sizes DEF Behind
  <1>3. O(t) = O(rp) + Distance(rp, t)
    BY <1>1, <1>2, AddDistance DEF O
  <1>4. O(rpPub) < O(t) /\ O(t) <= Limit
    BY <1>1, <1>3, Sizes DEF Behind
  <1>5. QED
    BY <1>4, NotReached

LEMMA AccessStep == QInv /\ OInv /\ [Next]_vars => (WaitInv /\ AccessInv)'
  <1> SUFFICES ASSUME QInv, OInv, [Next]_vars PROVE (WaitInv /\ AccessInv)'
    OBVIOUS
  <1>0. TypeOK /\ Window /\ Places /\ ClassInv /\ WaitInv /\ AccessInv /\ target \in Idx
    BY Types DEF QInv, OInv
  <1>1. ASSUME NEW o \in Op, NEW t, Begin(o, t),
               on => \A i \in 1..Distance(rp, wp) :
                         o = <<"sync">> \/ o = <<"read", ClassOf[E(i)]>> => Behind(i, t)
        PROVE  (WaitInv /\ AccessInv)'
    <2>1. op' = o /\ ring' = ring /\ rp' = rp /\ wp' = wp
      BY <1>1 DEF Begin, core2Vars
    <2>2. CASE on
      <3>1. pc1' = "wait" /\ target' = t
        BY <1>1, <2>2 DEF Begin
      <3>2. QED
        BY <1>1, <2>1, <2>2, <3>1, RingStays DEF WaitInv, AccessInv, Blocks, Behind
    <2>3. CASE ~on
      <3>1. pc1' = "access" /\ Distance(rp, wp) = 0
        BY <1>1, <2>3, OffIdle DEF Begin
      <3>2. QED
        BY <2>1, <3>1, RingStays DEF WaitInv, AccessInv
    <2>4. QED
      BY <2>2, <2>3
  <1>2. ASSUME NEW i \in 1..Distance(rp, wp), pc1 = "run" PROVE Behind(i, wpPub)
    BY <1>0, <1>2, FromRp DEF Places, Behind
  <1>3. ASSUME NEW c \in Class, ReadBegin(c) PROVE (WaitInv /\ AccessInv)'
    <2>1. Begin(<<"read", c>>, ReadTarget(c, wpPub)) /\ pc1 = "run" /\ <<"read", c>> \in Op
      BY <1>3 DEF ReadBegin, Begin, Running, Op
    <2>2. ReadTarget(c, wpPub) \in {wpPub, classWp[c]}
      BY DEF ReadTarget
    <2>3. ASSUME NEW i \in 1..Distance(rp, wp),
                 <<"read", c>> = <<"sync">> \/ <<"read", c>> = <<"read", ClassOf[E(i)]>>
          PROVE  Behind(i, ReadTarget(c, wpPub))
      <3>1. ClassOf[E(i)] = c
        BY <2>3
      <3>2. Behind(i, classWp[c]) /\ Behind(i, wpPub)
        BY <1>0, <1>2, <2>1, <3>1 DEF ClassInv
      <3>3. QED
        BY <2>2, <3>2
    <2>4. QED
      BY <1>1, <2>1, <2>3
  <1>4. CASE SyncBegin
    <2>1. Begin(<<"sync">>, wpPub) /\ pc1 = "run" /\ <<"sync">> \in Op
      BY <1>4 DEF SyncBegin, Begin, Running, Op
    <2>2. QED
      BY <1>1, <1>2, <2>1
  <1>5. CASE Wait
    <2>1. /\ pc1 = "wait" /\ pc1' = "access" /\ Reached(rpPub, target) /\ op' = op
          /\ UNCHANGED <<ring, rp, wp>>
      BY <1>5 DEF Wait, core2Vars
    <2>2. ASSUME NEW i \in 1..Distance(rp, wp) PROVE ~Blocks(E(i))
      BY <1>0, <2>1, BehindWaits DEF WaitInv
    <2>3. QED
      BY <2>1, <2>2, RingStays DEF WaitInv, AccessInv, Blocks
  <1>6. CASE Post
    <2>1. ASSUME NEW i \in 1..Distance(rp, wp)'
          PROVE  /\ i \in 1..(Distance(rp, wp) - 1) /\ i + 1 \in 1..Distance(rp, wp)
                 /\ E(i)' = E(i + 1)
      BY <1>6, PostRing, Sizes
    <2>2. op' = op /\ pc1' = pc1 /\ target' = target
      BY <1>6 DEF Post, core1Vars
    <2>3. WaitInv'
      <3>1. ASSUME pc1 = "wait", NEW i \in 1..Distance(rp, wp)', Blocks(E(i + 1))
            PROVE  Behind(i, target)'
        BY <1>0, <1>6, <2>1, <2>2, <3>1, BehindMoves DEF WaitInv, Behind
      <3>2. QED
        BY <2>1, <2>2, <3>1 DEF WaitInv, Blocks
    <2>4. AccessInv'
      BY <1>0, <2>1, <2>2 DEF AccessInv, Blocks
    <2>5. QED
      BY <2>3, <2>4
  <1>7. ASSUME NEW w \in Write, Enqueue(w) \/ WriteDirect(w) PROVE (WaitInv /\ AccessInv)'
    <2>1. pc1' \in {"run", "publish"}
      BY <1>7 DEF Enqueue, WriteDirect, Running, core1Vars
    <2>2. QED
      BY <2>1 DEF WaitInv, AccessInv
  <1>8. CASE Publish \/ Access \/ Bypass
    <2>1. pc1' = "run"
      BY <1>8 DEF Publish, Access, Bypass, Running, core1Vars
    <2>2. QED
      BY <2>1 DEF WaitInv, AccessInv
  <1>9. CASE UNCHANGED <<ring, rp, wp, pc1, op, target>>
    BY <1>0, <1>9, RingStays DEF WaitInv, AccessInv, Blocks, Behind
  <1>10. QED
    BY <1>3, <1>4, <1>5, <1>6, <1>7, <1>8, <1>9
    DEF Next, Core1, Worker, Core0, vars, core1Vars, core2Vars, core0Vars, cmdVars,
        Look, GiveWay, Drained, Relock, Unlock, PublishRp, Poke, ReadClass0, Wait0,
        Access0, Quiesce, Switch, ReadBegin0, Land

\* No read or synchronous write of core 1 gets to the bus before the writes it
\* must not pass have left the ring.
THEOREM OInvHolds == Spec => []OInv
  <1>1. QInv /\ OInv /\ [Next]_vars => OInv'
    BY ClassStep, AccessStep DEF OInv
  <1>2. QED
    BY QInvHolds, OInit, <1>1, PTL DEF Spec
-----------------------------------------------------------------------------
(***************************************************************************)
(* 4. The queue is a store buffer.                                         *)
(***************************************************************************)
Queue == Between(rp, wp)

LEMMA SeqIs ==
  ASSUME NEW S, NEW n \in Nat, NEW s \in [1..n -> S]
  PROVE  s \in Seq(S) /\ Len(s) = n /\ (s = <<>> <=> n = 0)
  <1>1. s \in Seq(S) /\ Len(s) = n
    BY SeqDef
  <1>2. n = 0 => s = <<>>
    BY <1>1, EmptySeq
  <1>3. QED
    BY <1>1, <1>2, EmptySeq

LEMMA QueueIs ==
  QInv => /\ Queue \in Seq(Write) /\ Len(Queue) = Distance(rp, wp)
          /\ \A i \in 1..Distance(rp, wp) : Queue[i] = E(i)
          /\ (Queue = <<>> <=> Distance(rp, wp) = 0)
  <1> SUFFICES ASSUME QInv PROVE /\ Queue \in Seq(Write) /\ Len(Queue) = Distance(rp, wp)
                                 /\ \A i \in 1..Distance(rp, wp) : Queue[i] = E(i)
                                 /\ (Queue = <<>> <=> Distance(rp, wp) = 0)
    OBVIOUS
  <1>1. Distance(rp, wp) \in Nat
    BY Types, DistanceIs, Sizes DEF QInv
  <1>2. Queue = [i \in 1..Distance(rp, wp) |-> E(i)]
    BY DEF Queue, Between, E
  <1>3. Queue \in [1..Distance(rp, wp) -> Write]
    BY <1>2 DEF QInv, Filled
  <1>4. QED
    BY <1>1, <1>2, <1>3, SeqIs

LEMMA MakeStep ==
  ASSUME QInv, QInv', NEW w \in Write, Enqueue(w),
         /\ Queue' \in Seq(Write) /\ Len(Queue') = Distance(rp, wp)'
         /\ \A i \in 1..Distance(rp, wp)' : Queue'[i] = E(i)'
  PROVE  Queue' = Append(Queue, w)
  <1>1. /\ Queue \in Seq(Write) /\ Len(Queue) = Distance(rp, wp)
        /\ \A i \in 1..Distance(rp, wp) : Queue[i] = E(i)
    BY QueueIs
  <1>2. /\ Append(Queue, w) \in Seq(Write) /\ Len(Append(Queue, w)) = Len(Queue) + 1
        /\ \A i \in 1..Len(Queue) : Append(Queue, w)[i] = Queue[i]
        /\ Append(Queue, w)[Len(Queue) + 1] = w
    BY <1>1
  <1>3. Len(Queue') = Len(Append(Queue, w)) /\ Len(Queue) \in Nat
    BY <1>1, <1>2, EnqueueRing, Sizes
  <1>4. ASSUME NEW i \in 1..Len(Queue') PROVE Queue'[i] = Append(Queue, w)[i]
    <2>1. i \in 1..Distance(rp, wp)' /\ (i \in 1..Distance(rp, wp) \/ i = Distance(rp, wp)')
      BY <1>1, <1>3, EnqueueRing, Sizes
    <2>2. QED
      BY <1>1, <1>2, <1>3, <2>1, EnqueueRing
  <1>5. QED
    BY <1>2, <1>3, <1>4, SeqEqual

LEMMA SendStep ==
  ASSUME QInv, QInv', Post,
         /\ Queue' \in Seq(Write) /\ Len(Queue') = Distance(rp, wp)'
         /\ \A i \in 1..Distance(rp, wp)' : Queue'[i] = E(i)'
  PROVE  Queue # <<>> /\ Queue' = Tail(Queue) /\ Head(Queue) = ring[Slot(rp)]
  <1>1. /\ Queue \in Seq(Write) /\ Len(Queue) = Distance(rp, wp) /\ Queue # <<>>
        /\ \A i \in 1..Distance(rp, wp) : Queue[i] = E(i)
    BY QueueIs, PostRing
  <1>2. /\ Tail(Queue) \in Seq(Write) /\ Len(Tail(Queue)) = Len(Queue) - 1
        /\ \A i \in 1..Len(Tail(Queue)) : Tail(Queue)[i] = Queue[i + 1]
        /\ Head(Queue) = Queue[1]
    BY <1>1, HeadTailProperties
  <1>3. ASSUME NEW i \in 1..Len(Queue') PROVE Queue'[i] = Tail(Queue)[i]
    <2>1. /\ i \in 1..Distance(rp, wp)' /\ i \in 1..(Distance(rp, wp) - 1)
          /\ i + 1 \in 1..Distance(rp, wp)
      BY PostRing, Sizes
    <2>2. QED
      BY <1>1, <1>2, <2>1, PostRing
  <1>4. Len(Queue') = Len(Tail(Queue))
    BY <1>1, <1>2, PostRing
  <1>5. Queue' = Tail(Queue)
    BY <1>2, <1>3, <1>4, SeqEqual
  <1>6. Head(Queue) = ring[Slot(rp)]
    BY <1>1, <1>2, PostRing, Sizes
  <1>7. QED
    BY <1>1, <1>5, <1>6

LEMMA QueueStep ==
  QInv /\ QInv' /\ OInv /\ [Next]_vars => [Ordered!BusNext]_<<Queue, bus>>
  <1> SUFFICES ASSUME QInv, QInv', OInv, [Next]_vars
               PROVE  Ordered!BusNext \/ UNCHANGED <<Queue, bus>>
    OBVIOUS
  <1>0. /\ Queue' \in Seq(Write) /\ Len(Queue') = Distance(rp, wp)'
        /\ \A i \in 1..Distance(rp, wp)' : Queue'[i] = E(i)'
    <2>1. QInv' => (/\ Queue \in Seq(Write) /\ Len(Queue) = Distance(rp, wp)
                    /\ \A i \in 1..Distance(rp, wp) : Queue[i] = E(i))'
      BY QueueIs, PTL
    <2>2. QED
      BY <2>1
  <1>1. UNCHANGED <<ring, rp, wp>> => UNCHANGED Queue
    BY DEF Queue, Between
  <1>2. ASSUME NEW w \in Write, Enqueue(w) PROVE Ordered!BusNext
    <2>1. Queue' = Append(Queue, w) /\ bus' = bus
      BY <1>0, <1>2, MakeStep DEF Enqueue
    <2>2. QED
      BY <2>1 DEF Queue, Ordered!BusNext, Ordered!Make
  <1>3. ASSUME NEW w \in Write, WriteDirect(w) PROVE Ordered!BusNext
    <2>1. Queue = <<>> /\ UNCHANGED Queue /\ bus' = <<"write", w>>
      BY <1>1, <1>3, OffIdle, QueueIs DEF WriteDirect, core1Vars, core2Vars
    <2>2. QED
      BY <2>1 DEF Queue, Ordered!BusNext, Ordered!Direct
  <1>4. CASE Access
    <2>1. /\ UNCHANGED Queue /\ bus' = op /\ op \in Op
          /\ \A i \in 1..Distance(rp, wp) : ~Blocks(E(i))
      BY <1>1, <1>4 DEF Access, core2Vars, OInv, AccessInv, QInv, TypeOK
    <2>2. CASE op = <<"sync">>
      <3>1. Distance(rp, wp) = 0
        <4>1. Distance(rp, wp) \in Nat
          BY Types, DistanceIs, Sizes DEF QInv
        <4>2. \A i \in 1..Distance(rp, wp) : FALSE
          BY <2>1, <2>2 DEF Blocks
        <4>3. QED
          BY <4>1, <4>2
      <3>2. Queue = <<>>
        BY <3>1, QueueIs
      <3>3. QED
        BY <2>1, <2>2, <3>2 DEF Queue, Ordered!BusNext, Ordered!Sync
    <2>3. ASSUME NEW c \in Class, op = <<"read", c>> PROVE Ordered!BusNext
      <3>1. \A i \in 1..Len(Queue) : ClassOf[Queue[i]] # c
        BY <2>1, <2>3, QueueIs DEF Blocks
      <3>2. QED
        BY <2>1, <2>3, <3>1 DEF Queue, Ordered!BusNext, Ordered!Read
    <2>4. QED
      BY <2>1, <2>2, <2>3 DEF Op
  <1>5. CASE Bypass
    BY <1>1, <1>5
    DEF Bypass, core1Vars, core2Vars, Queue, Ordered!BusNext, Ordered!Bypass
  <1>6. CASE Post
    <2>1. Queue # <<>> /\ Queue' = Tail(Queue) /\ bus' = <<"write", Head(Queue)>>
      BY <1>0, <1>6, SendStep DEF Post
    <2>2. QED
      BY <2>1 DEF Queue, Ordered!BusNext, Ordered!Send
  <1>7. CASE UNCHANGED <<ring, rp, wp, bus>>
    BY <1>1, <1>7
  <1>8. QED
    BY <1>2, <1>3, <1>4, <1>5, <1>6, <1>7
    DEF Next, Core1, Worker, Core0, vars, core1Vars, core2Vars, core0Vars, cmdVars,
        ReadBegin, Publish, SyncBegin, Begin, Wait, Look,
        GiveWay, Drained, Relock, Unlock, PublishRp, Poke, ReadClass0, Wait0, Access0,
        Quiesce, Switch, ReadBegin0, Land

\* ImplementsOrderedBus: whatever the worker and core 0 do, the bus sees core 1's
\* operations in an order that a store buffer allows: no read passes a write to a
\* device of its class, nothing passes a synchronous write, and the writes keep
\* their order, with the indices wrapping and each copy of them as old as it is.
THEOREM QueueImplementsOrderedBus == Spec => ImplementsOrderedBus
  <1>1. Init => Ordered!BusInit
    <2>1. Init => Queue = <<>>
      BY QInit, QueueIs, Numbers, DistanceZero DEF Init
    <2>2. QED
      BY <2>1 DEF Init, Queue, Ordered!BusInit
  <1>2. QED
    BY <1>1, QueueStep, QInvHolds, OInvHolds, PTL
    DEF Spec, ImplementsOrderedBus, Ordered!BusSpec, Queue
-----------------------------------------------------------------------------
(***************************************************************************)
(* 5. No wait outlives the queue.                                          *)
(***************************************************************************)
\* What core 1 waits for is published already; what core 0 waits for lies less
\* than half the range before the index it has seen, and core 1 has published
\* at most Slack writes since it saw it.
CallInv ==
    /\ pc1 = "wait" => Reached(wpPub, target)
    /\ pc1 = "publish" => wp = Plus1(wpPub)
    /\ pc0 \in {"class", "wait"} =>
           Distance(seen0, wpPub) <= Distance(seen0, wp) /\ Distance(seen0, wp) <= Slack
    /\ pc0 = "class" /\ op0 # None =>
           \/ Distance(classWp[op0], seen0) < Half - Slack
           \/ Distance(seen0, classWp[op0]) \in 1..(Half - 1)
    /\ pc0 = "wait" => Distance(target0, seen0) < Half - Slack

\* The two ways round the index range.
LEMMA BothWays ==
  ASSUME NEW a \in Idx, NEW b \in Idx
  PROVE  Distance(a, b) \in Nat /\ (a # b => Distance(b, a) = IdxMod - Distance(a, b))
  <1>1. /\ Distance(a, b) = IF a <= b THEN b - a ELSE b - a + IdxMod
        /\ Distance(b, a) = IF b <= a THEN a - b ELSE a - b + IdxMod
    BY DistanceIs
  <1>2. QED
    BY <1>1, Sizes DEF Idx

\* What the clamp makes of a class's index.
LEMMA Clamped ==
  ASSUME TypeOK, NEW c \in Key, NEW x \in Idx,
         c # None => \/ Distance(classWp[c], x) < Half - Slack
                     \/ Distance(x, classWp[c]) \in 1..(Half - 1)
  PROVE  Distance(ReadTarget(c, x), x) < Half - Slack
  <1>1. Distance(x, x) = 0 /\ 0 < Half - Slack
    BY DistanceZero, SlackAssumption, Sizes
  <1>2. CASE c = None
    BY <1>1, <1>2 DEF ReadTarget
  <1>3. CASE c # None
    <2>1. ReadTarget(c, x) = IF Distance(x, classWp[c]) \in 1..(Half - 1) THEN x ELSE classWp[c]
      BY <1>3 DEF ReadTarget
    <2>2. QED
      BY <1>1, <1>3, <2>1
  <1>4. QED
    BY <1>2, <1>3

\* A read that the discipline allows finds the class close enough before or,
\* seen from here, ahead.
LEMMA Allowed ==
  ASSUME TypeOK, NEW c \in Key, c # None, ~HalfRange, ReadAllowed(c)
  PROVE  \/ Distance(classWp[c], wpPub) < Half - Slack
         \/ Distance(wpPub, classWp[c]) \in 1..(Half - 1)
  <1>1. c \in Class /\ classWp[c] \in Idx /\ wpPub \in Idx
    BY Types DEF Key
  <1>2. Distance(classWp[c], wpPub) \notin (Half - Slack)..Half
    BY <1>1 DEF ReadAllowed
  <1>3. Distance(classWp[c], wpPub) \in 0..(IdxMod - 1)
    BY <1>1, DistanceIs
  <1>4. CASE Distance(classWp[c], wpPub) > Half
    <2>1. classWp[c] # wpPub
      BY <1>1, <1>4, DistanceZero, Sizes
    <2>2. Distance(wpPub, classWp[c]) = IdxMod - Distance(classWp[c], wpPub)
      BY <1>1, <2>1, BothWays
    <2>3. QED
      BY <1>3, <1>4, <2>2, Sizes
  <1>5. QED
    BY <1>2, <1>3, <1>4, Sizes, SlackAssumption

LEMMA CallInit == Init => CallInv
  BY DEF Init, CallInv

LEMMA CallStep == ~HalfRange /\ QInv /\ CallInv /\ [Next]_vars => CallInv'
  <1> SUFFICES ASSUME ~HalfRange, QInv, CallInv, [Next]_vars PROVE CallInv'
    OBVIOUS
  <1>0. /\ TypeOK /\ Places /\ wp \in Idx /\ wpPub \in Idx /\ seen0 \in Idx /\ target0 \in Idx
        /\ Distance(wpPub, wpPub) = 0 /\ Plus1(wp) \in Idx
        /\ Distance(seen0, wp) \in Nat /\ Slack \in Nat \ {0} /\ Slack < Half
    BY Types, DistanceZero, PlusOne, BothWays, SlackAssumption, Sizes DEF QInv
  <1>1. ASSUME NEW w \in Write, Enqueue(w) PROVE CallInv'
    <2>1. /\ wp' = Plus1(wp) /\ wpPub' = wp /\ pc1' = "publish"
          /\ UNCHANGED <<pc0, op0, seen0, target0>>
      BY <1>0, <1>1 DEF Enqueue, Running, Places, core0Vars
    <2>2. CASE pc0 = "run"
      BY <1>0, <2>1, <2>2 DEF CallInv
    <2>3. CASE pc0 # "run"
      <3>1. Distance(seen0, wp) < Slack
        BY <1>1, <2>3 DEF Enqueue, Prompt
      <3>2. Distance(seen0, Plus1(wp)) = Distance(seen0, wp) + 1
        BY <1>0, <3>1, PlusOne, Sizes
      <3>3. ASSUME pc0 = "class", op0 # None
            PROVE  \/ Distance(classWp'[op0], seen0) < Half - Slack
                   \/ Distance(seen0, classWp'[op0]) \in 1..(Half - 1)
        <4>1. op0 \in Class
          BY <1>0, <3>3 DEF TypeOK, Key
        <4>2. classWp'[op0] = Plus1(wp) \/ classWp'[op0] = classWp[op0]
          BY <1>1, <4>1 DEF Enqueue
        <4>3. Distance(seen0, Plus1(wp)) \in 1..(Half - 1)
          BY <1>0, <3>1, <3>2, Sizes
        <4>4. QED
          BY <3>3, <4>2, <4>3 DEF CallInv
      <3>4. QED
        BY <1>0, <2>1, <3>1, <3>2, <3>3 DEF CallInv
    <2>4. QED
      BY <2>2, <2>3
  <1>2. CASE Publish
    BY <1>0, <1>2 DEF Publish, CallInv, core0Vars
  <1>3. ASSUME NEW c \in Class, ReadBegin(c) PROVE CallInv'
    <2>1. /\ pc1 = "run" /\ target' = (IF on THEN ReadTarget(c, wpPub) ELSE target)
          /\ pc1' = (IF on THEN "wait" ELSE "access") /\ ReadAllowed(c)
          /\ UNCHANGED <<wp, wpPub, classWp, pc0, op0, seen0, target0>>
      BY <1>3 DEF ReadBegin, Begin, Running, core0Vars
    <2>2. c \in Key /\ c # None
      BY ClassAssumption DEF Key
    <2>3. Distance(ReadTarget(c, wpPub), wpPub) < Half - Slack
      BY <1>0, <2>1, <2>2, Allowed, Clamped
    <2>4. ReadTarget(c, wpPub) \in Idx
      BY <1>0, <2>2, TargetIsIndex
    <2>5. Reached(wpPub, ReadTarget(c, wpPub))
      <3>1. Distance(ReadTarget(c, wpPub), wpPub) \in Nat
        BY <1>0, <2>4, BothWays
      <3>2. QED
        BY <1>0, <2>3, <3>1, Sizes DEF Reached
    <2>6. QED
      BY <2>1, <2>5 DEF CallInv, Reached
  <1>4. CASE SyncBegin
    <2>1. Reached(wpPub, wpPub)
      BY <1>0, Sizes DEF Reached
    <2>2. /\ pc1 = "run" /\ target' = (IF on THEN wpPub ELSE target)
          /\ pc1' = (IF on THEN "wait" ELSE "access")
          /\ UNCHANGED <<wp, wpPub, classWp, pc0, op0, seen0, target0>>
      BY <1>4 DEF SyncBegin, Begin, Running, core0Vars
    <2>3. QED
      BY <2>1, <2>2 DEF CallInv, Reached
  <1>5. CASE Wait \/ Access
    <2>1. pc1' \in {"run", "access"} /\ UNCHANGED <<wp, wpPub, classWp, core0Vars>>
      BY <1>5 DEF Wait, Access
    <2>2. QED
      BY <2>1 DEF CallInv, core0Vars
  <1>6. ASSUME NEW c \in Key, ReadBegin0(c) PROVE CallInv'
    <2>1. /\ seen0' = wpPub /\ op0' = c /\ pc0' \in {"class", "access"} /\ ReadAllowed(c)
          /\ UNCHANGED <<wp, wpPub, classWp, pc1, target>>
      BY <1>6 DEF ReadBegin0, core1Vars
    <2>2. Distance(wpPub, wp) <= 1 /\ Distance(wpPub, wp) \in Nat
      <3>1. wp = wpPub \/ wp = Plus1(wpPub)
        BY <1>0 DEF CallInv, Places
      <3>2. Distance(wpPub, Plus1(wpPub)) = 1
        BY <1>0, PlusOne, Sizes
      <3>3. QED
        BY <1>0, <3>1, <3>2
    <2>3. c # None => \/ Distance(classWp[c], wpPub) < Half - Slack
                      \/ Distance(wpPub, classWp[c]) \in 1..(Half - 1)
      BY <1>0, <2>1, Allowed
    <2>4. QED
      BY <1>0, <2>1, <2>2, <2>3 DEF CallInv, Reached
  <1>7. CASE ReadClass0
    <2>1. /\ pc0 = "class" /\ pc0' = "wait" /\ target0' = ReadTarget(op0, seen0)
          /\ UNCHANGED <<wp, wpPub, classWp, pc1, target, seen0, op0>>
      BY <1>7 DEF ReadClass0, core1Vars
    <2>2. Distance(ReadTarget(op0, seen0), seen0) < Half - Slack
      BY <1>0, <2>1, Clamped DEF CallInv, TypeOK
    <2>3. QED
      BY <2>1, <2>2 DEF CallInv, Reached
  <1>8. CASE Wait0 \/ Access0 \/ Quiesce \/ Switch
    <2>1. pc0' \notin {"class", "wait"} /\ UNCHANGED <<wp, wpPub, classWp, pc1, target>>
      BY <1>8 DEF Wait0, Access0, Quiesce, Switch, Return0, core1Vars
    <2>2. QED
      BY <2>1 DEF CallInv, Reached
  <1>9. CASE UNCHANGED <<wp, wpPub, classWp, pc1, target, pc0, op0, seen0, target0>>
    BY <1>9 DEF CallInv, Reached
  <1>10. QED
    BY <1>1, <1>2, <1>3, <1>4, <1>5, <1>6, <1>7, <1>8, <1>9
    DEF Next, Core1, Worker, Core0, vars, core1Vars, core2Vars, core0Vars, cmdVars,
        WriteDirect, Bypass, Look, Post, GiveWay, Drained, Relock, Unlock, PublishRp,
        Poke, Land

\* NoEmptyWait: a core that finds every published write sent goes on, however
\* often the indices have wrapped, unless it reads a class whose last write lies
\* half the index range back (HalfRange).
THEOREM NoWaitIsEmpty == Spec => [](~HalfRange => NoEmptyWait)
  <1>1. ~HalfRange /\ QInv /\ CallInv => NoEmptyWait
    <2> SUFFICES ASSUME QInv, CallInv PROVE NoEmptyWait
      OBVIOUS
    <2>1. ASSUME pc0 = "wait" PROVE Reached(wpPub, target0)
      <3>1. /\ target0 \in Idx /\ seen0 \in Idx /\ wpPub \in Idx /\ wp \in Idx
            /\ Distance(target0, seen0) \in Nat /\ Distance(seen0, wpPub) \in Nat
            /\ Distance(seen0, wp) \in Nat /\ Slack \in Nat
        BY Types, BothWays, SlackAssumption DEF QInv
      <3>2. Distance(target0, seen0) + Distance(seen0, wpPub) < Half
        BY <2>1, <3>1, Sizes DEF CallInv
      <3>3. QED
        BY <3>1, <3>2, AddDistance, Sizes DEF Reached
    <2>2. QED
      BY <2>1 DEF CallInv, NoEmptyWait
  <1>2. Init => (~HalfRange => CallInv)
    BY CallInit
  <1>3. QInv /\ (~HalfRange => CallInv) /\ [Next]_vars => (~HalfRange => CallInv)'
    BY CallStep
  <1>4. QED
    BY QInvHolds, <1>1, <1>2, <1>3, PTL DEF Spec
-----------------------------------------------------------------------------
(***************************************************************************)
(* 6. A read from the console or the web sees the device as the program    *)
(* left it.                                                                *)
(***************************************************************************)
\* Core 0 is in a read, and core 1 has published little since it began.
Reading == pc0 \in {"class", "wait", "access"}

SeenInv == /\ pc1 = "publish" => wp = Plus1(wpPub)
           /\ Reading => Distance(seen0, wp) <= Slack

\* The writes that core 0's read may not pass.
Blocks0(w) == op0 \in {None, ClassOf[w]}

Wait0Inv == pc0 = "wait" =>
                \A i \in 1..Distance(rp, wp) :
                    Behind(i, seen0) /\ Blocks0(E(i)) => Behind(i, target0)

Access0Inv == pc0 = "access" /\ on =>
                  \A i \in 1..Distance(rp, wp) : Behind(i, seen0) => ~Blocks0(E(i))

ReadInv == SeenInv /\ Wait0Inv /\ Access0Inv

\* The index that the read began with is either one the worker has passed, and
\* then far ahead as the indices count, or lies in the window.
LEMMA SeenPlace ==
  ASSUME QInv, SeenInv, Reading, Distance(rp, seen0) <= RingSize
  PROVE  Distance(rp, seen0) <= Distance(rp, wp)
  <1>0. /\ rp \in Idx /\ wp \in Idx /\ seen0 \in Idx /\ Distance(rp, seen0) \in Nat
        /\ Distance(rp, wp) \in Nat /\ Slack < Half /\ Slack \in Nat
    BY Types, BothWays, SlackAssumption, Sizes DEF QInv
  <1>1. SUFFICES ASSUME Distance(rp, wp) < Distance(rp, seen0) PROVE FALSE
    BY <1>0
  <1>2. Distance(seen0, wp) = IdxMod - (Distance(rp, seen0) - Distance(rp, wp))
    BY <1>0, <1>1, Around
  <1>3. Distance(seen0, wp) <= Slack
    BY DEF SeenInv
  <1>4. QED
    BY <1>0, <1>2, <1>3, Sizes

LEMMA ReadInit == Init => ReadInv
  BY DEF Init, ReadInv, SeenInv, Reading, Wait0Inv, Access0Inv

LEMMA SeenStep == QInv /\ SeenInv /\ [Next]_vars => SeenInv'
  <1> SUFFICES ASSUME QInv, SeenInv, [Next]_vars PROVE SeenInv'
    OBVIOUS
  <1>0. /\ TypeOK /\ Places /\ wp \in Idx /\ wpPub \in Idx /\ seen0 \in Idx
        /\ Distance(wpPub, wpPub) = 0 /\ Distance(seen0, wp) \in Nat
        /\ Slack \in Nat \ {0} /\ Slack < Half
    BY Types, DistanceZero, BothWays, SlackAssumption, Sizes DEF QInv
  <1>1. ASSUME NEW w \in Write, Enqueue(w) PROVE SeenInv'
    <2>1. /\ wp' = Plus1(wp) /\ wpPub' = wp /\ pc0' = pc0 /\ seen0' = seen0
          /\ pc0 # "run" => Distance(seen0, wp) < Slack
      BY <1>0, <1>1 DEF Enqueue, Running, Places, core0Vars, Prompt
    <2>2. pc0 # "run" => Distance(seen0, Plus1(wp)) = Distance(seen0, wp) + 1
      BY <1>0, <2>1, PlusOne, Sizes
    <2>3. QED
      BY <1>0, <2>1, <2>2 DEF SeenInv, Reading
  <1>2. ASSUME NEW c \in Key, ReadBegin0(c) PROVE SeenInv'
    <2>1. seen0' = wpPub /\ UNCHANGED <<wp, wpPub, pc1>>
      BY <1>2 DEF ReadBegin0, core1Vars
    <2>2. wp = wpPub \/ wp = Plus1(wpPub)
      BY <1>0 DEF SeenInv, Places
    <2>3. Distance(wpPub, Plus1(wpPub)) = 1
      BY <1>0, PlusOne, Sizes
    <2>4. Distance(wpPub, wp) <= Slack
      BY <1>0, <2>2, <2>3
    <2>5. QED
      BY <2>1, <2>4 DEF SeenInv
  <1>3. CASE ReadClass0 \/ Wait0
    <2>1. Reading /\ UNCHANGED <<wp, wpPub, pc1, seen0>>
      BY <1>3 DEF ReadClass0, Wait0, Reading, core1Vars
    <2>2. QED
      BY <2>1 DEF SeenInv
  <1>4. CASE Access0 \/ Quiesce \/ Switch
    <2>1. ~Reading' /\ UNCHANGED <<wp, wpPub, pc1>>
      BY <1>4 DEF Access0, Quiesce, Switch, Return0, Reading, core1Vars
    <2>2. QED
      BY <2>1 DEF SeenInv
  <1>5. CASE pc1' # "publish" /\ UNCHANGED <<wp, pc0, seen0>>
    BY <1>5 DEF SeenInv, Reading
  <1>6. CASE UNCHANGED <<wp, wpPub, pc1, pc0, seen0>>
    BY <1>6 DEF SeenInv, Reading
  <1>7. CASE Publish \/ Wait \/ Access \/ SyncBegin \/ \E c \in Class : ReadBegin(c)
    <2>1. pc1' # "publish" /\ UNCHANGED <<wp, pc0, seen0>>
      BY <1>7 DEF Publish, Wait, Access, SyncBegin, ReadBegin, Begin, core0Vars
    <2>2. QED
      BY <1>5, <2>1
  <1>8. QED
    BY <1>1, <1>2, <1>3, <1>4, <1>6, <1>7
    DEF Next, Core1, Worker, Core0, vars, core1Vars, core2Vars, core0Vars, cmdVars,
        WriteDirect, Bypass, Look, Post, GiveWay, Drained, Relock, Unlock, PublishRp,
        Poke, Land

LEMMA ReadStep == QInv /\ OInv /\ ReadInv /\ [Next]_vars => (Wait0Inv /\ Access0Inv)'
  <1> SUFFICES ASSUME QInv, OInv, ReadInv, [Next]_vars PROVE (Wait0Inv /\ Access0Inv)'
    OBVIOUS
  <1>0. /\ TypeOK /\ Window /\ ClassInv /\ SeenInv /\ Wait0Inv /\ Access0Inv
        /\ seen0 \in Idx /\ target0 \in Idx /\ rp \in Idx /\ wp \in Idx
        /\ Distance(rp, wp) \in Nat /\ Distance(rp, seen0) \in Nat
        /\ Distance(rp, target0) \in Nat
    BY Types, BothWays DEF QInv, OInv, ReadInv
  <1>1. ASSUME NEW w \in Write, Enqueue(w) PROVE (Wait0Inv /\ Access0Inv)'
    <2>0. /\ rp' = rp /\ wp' = Plus1(wp) /\ Distance(rp, wp)' = Distance(rp, wp) + 1
          /\ Distance(rp, wp) \in 0..(Limit - 1)
          /\ UNCHANGED <<on, pc0, op0, seen0, target0>>
      BY <1>1, EnqueueRing DEF Enqueue, core2Vars, core0Vars
    <2>1. ASSUME Reading, NEW i \in 1..Distance(rp, wp)', Behind(i, seen0)'
          PROVE  i \in 1..Distance(rp, wp) /\ E(i)' = E(i) /\ Behind(i, seen0)
      <3>1. i <= Distance(rp, seen0) /\ Distance(rp, seen0) <= Distance(rp, wp) + 1
        BY <2>0, <2>1 DEF Behind
      <3>2. Distance(rp, seen0) <= Distance(rp, wp)
        BY <1>0, <2>0, <2>1, <3>1, SeenPlace, Sizes
      <3>3. i \in 1..Distance(rp, wp)
        BY <1>0, <2>0, <3>1, <3>2, Sizes
      <3>4. QED
        BY <1>1, <3>1, <3>2, <3>3, EnqueueRing DEF Behind
    <2>2. ASSUME NEW i \in 1..Distance(rp, wp), Behind(i, target0)
          PROVE  Behind(i, target0)'
      BY <1>0, <2>0, <2>2 DEF Behind
    <2>3. Wait0Inv'
      BY <1>0, <2>0, <2>1, <2>2 DEF Wait0Inv, Blocks0, Reading
    <2>4. Access0Inv'
      BY <1>0, <2>0, <2>1 DEF Access0Inv, Blocks0, Reading
    <2>5. QED
      BY <2>3, <2>4
  <1>2. CASE Post
    <2>0. /\ rp' = Plus1(rp) /\ Distance(rp, wp)' = Distance(rp, wp) - 1
          /\ Distance(rp, wp) \in 1..Limit
          /\ UNCHANGED <<on, pc0, op0, seen0, target0, wp>>
      BY <1>2, PostRing DEF Post, core1Vars, core0Vars
    <2>1. ASSUME NEW i \in 1..Distance(rp, wp)', Behind(i, seen0)'
          PROVE  /\ i \in 1..(Distance(rp, wp) - 1) /\ i + 1 \in 1..Distance(rp, wp)
                 /\ E(i)' = E(i + 1) /\ Behind(i + 1, seen0)
      <3>1. /\ i \in 1..(Distance(rp, wp) - 1) /\ i + 1 \in 1..Distance(rp, wp)
            /\ E(i)' = E(i + 1)
        BY <1>2, <2>1, PostRing, Sizes
      <3>2. /\ i <= Distance(Plus1(rp), seen0)
            /\ Distance(Plus1(rp), seen0) <= Distance(rp, wp) - 1
        BY <2>0, <2>1 DEF Behind
      <3>3. rp # seen0
        <4>1. SUFFICES ASSUME rp = seen0 PROVE FALSE
          OBVIOUS
        <4>2. Distance(rp, Plus1(rp)) = 1 /\ Plus1(rp) \in Idx /\ rp # Plus1(rp)
          <5>1. Plus1(rp) \in Idx /\ Distance(rp, rp) = 0
            BY <1>0, PlusOne, DistanceZero
          <5>2. Distance(rp, Plus1(rp)) = 1
            BY <1>0, <5>1, PlusOne, Sizes
          <5>3. QED
            BY <5>1, <5>2
        <4>3. Distance(Plus1(rp), rp) = IdxMod - 1
          BY <1>0, <4>2, BothWays
        <4>4. QED
          BY <2>0, <3>2, <4>1, <4>3, Sizes
      <3>4. Distance(Plus1(rp), seen0) = Distance(rp, seen0) - 1
        BY <1>0, <3>3, PlusOne
      <3>5. QED
        BY <1>0, <2>0, <3>1, <3>2, <3>4, Sizes DEF Behind
    <2>2. ASSUME pc0 = "wait", NEW i \in 1..Distance(rp, wp)', Behind(i, seen0)',
                 Blocks0(E(i + 1))
          PROVE  Behind(i, target0)'
      <3>1. i \in 1..(Distance(rp, wp) - 1) /\ Behind(i + 1, target0)
        BY <1>0, <2>1, <2>2 DEF Wait0Inv
      <3>2. QED
        BY <1>0, <1>2, <2>0, <3>1, BehindMoves DEF Behind
    <2>3. Wait0Inv'
      BY <2>0, <2>1, <2>2 DEF Wait0Inv, Blocks0
    <2>4. Access0Inv'
      BY <1>0, <2>0, <2>1 DEF Access0Inv, Blocks0
    <2>5. QED
      BY <2>3, <2>4
  <1>3. CASE ReadClass0
    <2>1. /\ pc0' = "wait" /\ target0' = ReadTarget(op0, seen0) /\ op0 \in Key
          /\ UNCHANGED <<ring, rp, wp, op0, seen0>>
      BY <1>0, <1>3 DEF ReadClass0, core1Vars, core2Vars, TypeOK
    <2>2. ASSUME NEW i \in 1..Distance(rp, wp), Behind(i, seen0), Blocks0(E(i))
          PROVE  Behind(i, ReadTarget(op0, seen0))
      <3>1. CASE op0 = None
        BY <2>2, <3>1 DEF ReadTarget
      <3>2. CASE op0 # None
        <4>1. op0 \in Class /\ ClassOf[E(i)] = op0
          BY <2>1, <2>2, <3>2 DEF Blocks0, Key
        <4>2. Behind(i, classWp[op0])
          BY <1>0, <4>1 DEF ClassInv
        <4>3. ReadTarget(op0, seen0) \in {seen0, classWp[op0]}
          BY <3>2 DEF ReadTarget
        <4>4. QED
          BY <2>2, <4>2, <4>3
      <3>3. QED
        BY <3>1, <3>2
    <2>3. ASSUME NEW i \in 1..Distance(rp, wp)'
          PROVE  /\ i \in 1..Distance(rp, wp) /\ E(i)' = E(i)
                 /\ Behind(i, seen0)' = Behind(i, seen0)
                 /\ Behind(i, target0)' = Behind(i, ReadTarget(op0, seen0))
      BY <2>1 DEF E, Behind
    <2>4. Wait0Inv'
      BY <2>1, <2>2, <2>3 DEF Wait0Inv, Blocks0
    <2>5. QED
      BY <2>1, <2>4 DEF Access0Inv
  <1>4. CASE Wait0
    <2>1. /\ pc0 = "wait" /\ pc0' = "access" /\ Reached(rpPub, target0)
          /\ UNCHANGED <<ring, rp, wp, op0, seen0>>
      BY <1>4 DEF Wait0, core1Vars, core2Vars
    <2>2. ASSUME NEW i \in 1..Distance(rp, wp), Behind(i, seen0) PROVE ~Blocks0(E(i))
      BY <1>0, <2>1, <2>2, BehindWaits DEF Wait0Inv
    <2>3. QED
      BY <2>1, <2>2, RingStays DEF Wait0Inv, Access0Inv, Blocks0, Behind
  <1>5. ASSUME NEW c \in Key, ReadBegin0(c) PROVE (Wait0Inv /\ Access0Inv)'
    <2>1. on' = on /\ pc0' = IF on THEN "class" ELSE "access"
      BY <1>5 DEF ReadBegin0
    <2>2. QED
      BY <2>1 DEF Wait0Inv, Access0Inv
  <1>6. CASE Access0 \/ Quiesce \/ Switch
    <2>1. pc0' \in {"run", "quiesce"}
      BY <1>6 DEF Access0, Quiesce, Switch, Return0
    <2>2. QED
      BY <2>1 DEF Wait0Inv, Access0Inv
  <1>7. CASE UNCHANGED <<ring, on, rp, wp, pc0, op0, seen0, target0>>
    BY <1>0, <1>7, RingStays DEF Wait0Inv, Access0Inv, Blocks0, Behind
  <1>8. QED
    BY <1>1, <1>2, <1>3, <1>4, <1>5, <1>6, <1>7
    DEF Next, Core1, Worker, Core0, vars, core1Vars, core2Vars, core0Vars, cmdVars,
        WriteDirect, ReadBegin, Publish, SyncBegin, Begin, Wait, Access, Bypass, Look,
        GiveWay, Drained, Relock, Unlock, PublishRp, Poke, Land

\* ForeignReadSees: when core 0 reads a device, no write that the program had
\* published to that class before the call waits in the ring any more, even
\* though core 1 goes on writing and the class's index moves under the read
\* (wq_sync_reads, called from hw_bus_read_u on core 0).
THEOREM ForeignReadIsFresh == Spec => []ForeignReadSees
  <1>1. QInv /\ ReadInv => ForeignReadSees
    <2> SUFFICES ASSUME QInv, ReadInv, pc0 = "access", on, Distance(rp, seen0) <= RingSize,
                        NEW w \in Unsent(seen0)
                 PROVE  ~Blocks0(w)
      BY DEF ForeignReadSees, Blocks0
    <2>1. Distance(rp, seen0) <= Distance(rp, wp)
      BY SeenPlace DEF ReadInv, Reading
    <2>2. PICK i \in 1..Distance(rp, seen0) : w = E(i)
      BY DEF Unsent, Between, E
    <2>3. Distance(rp, seen0) \in Nat /\ Distance(rp, wp) \in Nat
      BY Types, BothWays DEF QInv
    <2>4. i \in 1..Distance(rp, wp) /\ Behind(i, seen0)
      BY <2>1, <2>2, <2>3 DEF Behind
    <2>5. QED
      BY <2>2, <2>4 DEF ReadInv, Access0Inv
  <1>2. QInv /\ OInv /\ ReadInv /\ [Next]_vars => ReadInv'
    BY SeenStep, ReadStep DEF ReadInv
  <1>3. QED
    BY QInvHolds, OInvHolds, ReadInit, <1>1, <1>2, PTL DEF Spec

-----------------------------------------------------------------------------
(***************************************************************************)
(* 7. Translated code.  The invariant adds to ReachCoherent that every     *)
(* cell of a block is marked as far as writes reach: a write that misses   *)
(* the marks misses every block it could take away.                        *)
(***************************************************************************)
WalkedWords(b) == {a \in WordsOf(b.pc, b.end) : GranuleOf(a) <= GranuleOf(b.pc) + 1}
SameWords(b) == \A a \in InReach(b) : b.words[a] = mem[a]

Shape(b) ==
  /\ b.pc \in Nat /\ b.pc % 2 = 0
  /\ b.end \in Nat /\ b.end % 2 = 0
  /\ b.end <= b.pc + BlockBytes
  /\ DOMAIN b.words = IF b.code THEN WordsOf(b.pc, b.end) ELSE {}

Shapes == \A b \in blocks : Shape(b)
Marked == \A b \in blocks : b.code => \A a \in WalkedWords(b) : CellOf(a) \in codeMap
IInv ==
  /\ mem \in [WordAddr -> Word]
  /\ Shapes
  /\ Marked
  /\ ReachCoherent

-----------------------------------------------------------------------------
(* Division: the quotient is the only multiple below. *)
LEMMA Quotient ==
  ASSUME NEW a \in Nat, NEW k \in Nat \ {0}
  PROVE  /\ a \div k \in Nat
         /\ (a \div k) * k <= a
         /\ a < ((a \div k) * k) + k
<1>1. a = k * (a \div k) + (a % k) /\ a % k \in 0 .. k - 1 /\ a \div k \in Int
  OBVIOUS
<1>2. a \div k \in Nat
  OBVIOUS
<1> QED BY <1>1, <1>2

LEMMA MulMono ==
  ASSUME NEW x \in Int, NEW y \in Int, NEW k \in Nat, x <= y
  PROVE  x * k <= y * k
OBVIOUS

LEMMA MulCancel ==
  ASSUME NEW x \in Int, NEW y \in Int, NEW k \in Nat \ {0}, x * k < y * k
  PROVE  x < y
<1>1. SUFFICES ASSUME y <= x PROVE FALSE
  OBVIOUS
<1>2. y * k <= x * k
  BY <1>1, MulMono
<1> QED BY <1>2

LEMMA QuotientUnique ==
  ASSUME NEW a \in Nat, NEW k \in Nat \ {0}, NEW q \in Nat,
         q * k <= a, a < (q * k) + k
  PROVE  a \div k = q
<1> DEFINE p == a \div k
<1>1. p \in Nat /\ p * k <= a /\ a < (p * k) + k
  BY Quotient
<1>2. (p * k) + k = (p + 1) * k /\ (q * k) + k = (q + 1) * k
  BY <1>1
<1> HIDE DEF p
<1>3. p * k < (q + 1) * k /\ q * k < (p + 1) * k
  BY <1>1, <1>2
<1>4. p < q + 1 /\ q < p + 1
  BY <1>1, <1>3, MulCancel
<1>5. p = q
  BY <1>1, <1>4
<1> QED BY <1>5 DEF p

LEMMA QuotientMono ==
  ASSUME NEW x \in Nat, NEW y \in Nat, NEW k \in Nat \ {0}, x <= y
  PROVE  x \div k <= y \div k
<1> DEFINE p == x \div k
           q == y \div k
<1>1. p \in Nat /\ p * k <= x /\ q \in Nat /\ y < (q * k) + k
  BY Quotient
<1>2. (q * k) + k = (q + 1) * k
  BY <1>1
<1> HIDE DEF p, q
<1>3. p * k < (q + 1) * k
  BY <1>1, <1>2
<1>4. p < q + 1
  BY <1>1, <1>3, MulCancel
<1>5. p <= q
  BY <1>1, <1>4
<1> QED BY <1>5 DEF p, q

-----------------------------------------------------------------------------
LEMMA CellBounds ==
  ASSUME NEW a \in Nat
  PROVE  /\ CellOf(a) \in Nat
         /\ CellOf(a) * Cell <= a
         /\ a < (CellOf(a) * Cell) + Cell
BY Quotient, SizesAssumption DEF CellOf

(* Both bytes of a word are in one cell. *)
LEMMA WordCell ==
  ASSUME NEW a \in Nat
  PROVE  /\ WordAt(a) \in Nat /\ WordAt(a) <= a /\ a <= WordAt(a) + 1
         /\ WordAt(a) % 2 = 0
         /\ CellOf(WordAt(a)) = CellOf(a)
<1> DEFINE c == CellOf(a)
           h == Cell \div 2
<1>1. c \in Nat /\ c * Cell <= a /\ a < (c * Cell) + Cell
  BY CellBounds
<1>2. WordAt(a) \in Nat /\ WordAt(a) <= a /\ a <= WordAt(a) + 1 /\ WordAt(a) % 2 = 0
  BY DEF WordAt
<1>3. h \in Nat /\ Cell = 2 * h
  BY SizesAssumption
<1> HIDE DEF c, h
<1>4. c * Cell = 2 * (c * h) /\ c * h \in Nat
  BY <1>1, <1>3
<1>5. c * Cell <= WordAt(a)
  <2> DEFINE m == c * h
  <2>1. m \in Nat /\ 2 * m <= a
    BY <1>1, <1>4
  <2> HIDE DEF m
  <2>2. 2 * m <= WordAt(a)
    BY <2>1, <1>2
  <2> QED BY <2>2, <1>4 DEF m
<1>6. WordAt(a) < (c * Cell) + Cell
  BY <1>1, <1>2, <1>3, <1>4
<1>7. WordAt(a) \div Cell = c
  BY <1>1, <1>2, <1>5, <1>6, QuotientUnique, SizesAssumption
<1> QED BY <1>2, <1>7 DEF c, CellOf

(* A cell lies in one granule. *)
LEMMA CellInGranule ==
  ASSUME NEW x \in Nat, NEW y \in Nat, CellOf(x) = CellOf(y)
  PROVE  GranuleOf(x) = GranuleOf(y)
<1> DEFINE c == CellOf(x)
           g == GranuleOf(x)
           m == Granule \div Cell
<1>1. /\ c \in Nat /\ c * Cell <= x /\ x < (c * Cell) + Cell
      /\ c * Cell <= y /\ y < (c * Cell) + Cell
  BY CellBounds
<1>2. g \in Nat /\ g * Granule <= x /\ x < (g * Granule) + Granule
  BY Quotient, SizesAssumption DEF GranuleOf
<1>3. m \in Nat /\ Granule = m * Cell /\ Cell \in Nat \ {0} /\ Granule \in Nat \ {0}
  <2>1. Granule \in Nat \ {0} /\ Cell \in Nat \ {0} /\ Granule % Cell = 0
    BY SizesAssumption
  <2>2. Granule = Cell * (Granule \div Cell) + (Granule % Cell) /\ Granule \div Cell \in Nat
    BY <2>1
  <2> QED BY <2>1, <2>2
<1> HIDE DEF c, g, m
<1>4. /\ g * Granule = (g * m) * Cell
      /\ (g * Granule) + Granule = ((g * m) + m) * Cell
      /\ (c * Cell) + Cell = (c + 1) * Cell
      /\ g * m \in Nat
  BY <1>1, <1>2, <1>3
<1>5. g * m < c + 1
  <2>1. (g * m) * Cell < (c + 1) * Cell
    BY <1>1, <1>2, <1>3, <1>4
  <2> QED BY <2>1, <1>1, <1>3, <1>4, MulCancel
<1>6. c < (g * m) + m
  <2>1. c * Cell < ((g * m) + m) * Cell
    BY <1>1, <1>2, <1>3, <1>4
  <2> QED BY <2>1, <1>1, <1>3, <1>4, MulCancel
<1>7. (g * m) * Cell <= c * Cell
  BY <1>1, <1>3, <1>4, <1>5, MulMono
<1>8. (c + 1) * Cell <= ((g * m) + m) * Cell
  BY <1>1, <1>3, <1>4, <1>6, MulMono
<1>9. g * Granule <= y /\ y < (g * Granule) + Granule
  BY <1>1, <1>2, <1>3, <1>4, <1>7, <1>8
<1>10. y \div Granule = g
  BY <1>2, <1>3, <1>9, QuotientUnique
<1> QED BY <1>10 DEF g, GranuleOf

-----------------------------------------------------------------------------
(* A block with the address in one of its reached words is near it. *)
LEMMA CoveringIsNear ==
  ASSUME Shapes, NEW b \in blocks, b.code,
         NEW x \in WalkedWords(b), NEW a \in Nat, CellOf(a) = CellOf(x)
  PROVE  b \in Near(a)
<1>1. x \in Nat /\ b.pc <= x /\ x < b.end /\ GranuleOf(x) <= GranuleOf(b.pc) + 1
  BY DEF WalkedWords, WordsOf, WordAddr
<1>2. b.pc \in Nat
  BY DEF Shapes, Shape
<1>3. GranuleOf(b.pc) \in Nat /\ GranuleOf(x) \in Nat /\ GranuleOf(b.pc) <= GranuleOf(x)
  BY <1>1, <1>2, Quotient, QuotientMono, SizesAssumption DEF GranuleOf
<1>4. GranuleOf(b.pc) \in {GranuleOf(x) - 1, GranuleOf(x)}
  BY <1>1, <1>3
<1>5. GranuleOf(a) = GranuleOf(x)
  BY <1>1, CellInGranule
<1> QED BY <1>4, <1>5 DEF Near

(* NoteWrite and Copy only take blocks away; a block they leave keeps its  *)
(* marks.                                                                  *)
LEMMA NoteKeepsMarks ==
  ASSUME Shapes, Marked, NEW a \in Nat, NEW n \in Nat,
         NoteWrite(a, n)
  PROVE  Marked'
<1>1. SUFFICES ASSUME NEW b \in blocks', b.code, NEW x \in WalkedWords(b)
               PROVE  CellOf(x) \in codeMap'
  BY DEF Marked, WalkedWords, WordsOf, GranuleOf
<1>2. b \in blocks /\ b \notin Hit(a, n)
  BY <1>1 DEF NoteWrite
<1>3. CellOf(x) \in codeMap
  BY <1>1, <1>2 DEF Marked
<1>4. CASE CellOf(x) # CellOf(a)
  BY <1>3, <1>4 DEF NoteWrite
<1>5. CASE CellOf(x) = CellOf(a)
  <2>1. b \in Near(a) \ Hit(a, n)
    BY <1>1, <1>2, <1>5, CoveringIsNear
  <2>2. x \in Nat /\ b.pc <= x /\ x < b.end
    BY <1>1 DEF WalkedWords, WordsOf, WordAddr
  <2>3. CellOf(x) * Cell <= x /\ x < (CellOf(x) * Cell) + Cell /\ CellOf(x) \in Nat
    BY <2>2, CellBounds
  <2>4. CellOf(x) * Cell \in Nat /\ Cell \in Nat /\ b.pc \in Nat /\ b.end \in Nat
    BY <1>2, <2>3, SizesAssumption DEF Shapes, Shape
  <2>5. CellOf(x) * Cell < b.end /\ (CellOf(x) * Cell) + Cell > b.pc
    BY <2>2, <2>3, <2>4
  <2>6. Overlaps(b, CellOf(a) * Cell, Cell)
    BY <2>5, <1>5 DEF Overlaps
  <2>7. StillLive(a, n)
    BY <2>1, <2>6 DEF StillLive
  <2> QED BY <1>3, <2>7 DEF NoteWrite
<1> QED BY <1>4, <1>5

(* A note takes every block that holds a word it changes. *)
LEMMA NoteTakes ==
  ASSUME Shapes, NEW a \in Nat, NEW n \in {1, 2},
         NoteWrite(a, n), NEW b \in blocks, b.code, WordAt(a) \in WalkedWords(b)
  PROVE  b \notin blocks'
<1>1. /\ WordAt(a) \in Nat /\ WordAt(a) <= a /\ a <= WordAt(a) + 1
      /\ WordAt(a) % 2 = 0 /\ CellOf(WordAt(a)) = CellOf(a)
  BY WordCell
<1>2. b \in Near(a)
  BY <1>1, CoveringIsNear
<1>3. b.pc <= WordAt(a) /\ WordAt(a) < b.end
  BY DEF WalkedWords, WordsOf
<1>4. b.pc \in Nat /\ b.end \in Nat /\ b.end % 2 = 0
  BY DEF Shapes, Shape
<1>5. WordAt(a) + 1 < b.end
  BY <1>1, <1>3, <1>4
<1>6. a < b.end /\ a + n > b.pc
  BY <1>1, <1>3, <1>4, <1>5
<1>7. b \in Hit(a, n)
  BY <1>2, <1>6 DEF Hit, Overlaps
<1> QED BY <1>7 DEF NoteWrite

-----------------------------------------------------------------------------
LEMMA InitInv == JitInit => IInv
BY DEF JitInit, IInv, Shapes, Marked, ReachCoherent

LEMMA TranslationShape ==
  ASSUME NEW pc \in WordAddr, NEW b \in Translations(pc)
  PROVE  /\ Shape(b) /\ SameWords(b)
         /\ b.code => \A a \in WalkedWords(b) : CellOf(a) \in CellsOf(b.pc, b.end)
<1>0. pc \in Nat /\ pc % 2 = 0 /\ pc < MemTop /\ MemTop \in Nat /\ BlockBytes \in Nat /\ BlockBytes >= 2
  BY SizesAssumption DEF WordAddr
<1>1. CASE b = Refused(pc)
  BY <1>0, <1>1 DEF Refused, Shape, SameWords, InReach
<1>2. CASE b # Refused(pc)
  <2>1. PICK end \in pc + 2 .. pc + BlockBytes :
          end % 2 = 0 /\ end <= MemTop /\ b = Translated(pc, end)
    BY <1>2 DEF Translations
  <2>2. b.pc = pc /\ b.end = end /\ b.code = TRUE
        /\ b.words = [a \in WordsOf(pc, end) |-> mem[a]]
    BY <2>1 DEF Translated
  <2>3. Shape(b)
    BY <1>0, <2>1, <2>2 DEF Shape
  <2>4. SameWords(b)
    BY <2>2 DEF SameWords, InReach
  <2>5. ASSUME NEW a \in WordsOf(pc, end)
        PROVE  CellOf(a) \in CellsOf(pc, end)
    <3>1. a \in Nat /\ pc <= a /\ a <= end - 1 /\ end - 1 \in Nat /\ a <= MemTop
      BY <1>0, <2>1 DEF WordsOf, WordAddr
    <3>2. CellOf(pc) <= CellOf(a) /\ CellOf(a) <= CellOf(end - 1) /\ CellOf(a) <= CellOf(MemTop)
      BY <1>0, <3>1, QuotientMono, SizesAssumption DEF CellOf
    <3>3. CellOf(a) \in Nat /\ CellOf(MemTop) \in Nat
      BY <1>0, <3>1, CellBounds
    <3> QED BY <3>2, <3>3 DEF CellsOf
  <2> QED BY <2>2, <2>3, <2>4, <2>5 DEF WalkedWords
<1> QED BY <1>1, <1>2

LEMMA DispatchInv ==
  ASSUME IInv, NEW pc \in WordAddr, Dispatch(pc)
  PROVE  IInv'
<1>1. mem' = mem
  BY DEF Dispatch
<1>2. CASE UNCHANGED cache
  BY <1>1, <1>2 DEF IInv, cache, Shapes, Shape, Marked, ReachCoherent, InReach, WalkedWords
<1>3. CASE \E b \in Translations(pc) : Translate(b)
  <2>1. PICK b \in Translations(pc) : Translate(b)
    BY <1>3
  <2>2. /\ Shape(b) /\ SameWords(b)
        /\ b.code => \A a \in WalkedWords(b) : CellOf(a) \in CellsOf(b.pc, b.end)
    BY <2>1, TranslationShape
  <2>3. blocks' \subseteq blocks \cup {b}
    BY <2>1 DEF Translate
  <2>4. Shapes'
    BY <2>2, <2>3 DEF IInv, Shapes, Shape
  <2>5. ReachCoherent'
    BY <1>1, <2>2, <2>3 DEF IInv, ReachCoherent, SameWords, InReach
  <2>6. Marked'
    <3>1. CASE blocks' = {b} /\ (b.code => codeMap' = CellsOf(b.pc, b.end))
      BY <3>1, <2>2 DEF Marked, WalkedWords
    <3>2. CASE /\ blocks' = blocks \cup {b} /\ codeMap \subseteq codeMap'
               /\ (b.code => CellsOf(b.pc, b.end) \subseteq codeMap')
      BY <3>2, <2>2 DEF IInv, Marked, WalkedWords
    <3> QED BY <2>1, <3>1, <3>2 DEF Translate
  <2> QED BY <1>1, <2>4, <2>5, <2>6 DEF IInv
<1> QED BY <1>2, <1>3 DEF Dispatch

LEMMA RamWriteInv ==
  ASSUME IInv, NEW a \in 0 .. MemTop - 1, NEW v \in Word,
         NEW n \in Widths(a), RamWrite(a, n, v)
  PROVE  IInv'
<1>0. a \in Nat /\ n \in {1, 2} /\ WordAt(a) \in Nat /\ MemTop \in Nat
  BY WordCell, SizesAssumption DEF Widths
<1>1. mem' = [mem EXCEPT ![WordAt(a)] = v] /\ mem' \in [WordAddr -> Word]
  BY DEF RamWrite, IInv
<1>2. blocks' \subseteq blocks
  BY DEF RamWrite, NoteWrite, cache
<1>3. Shapes'
  BY <1>2 DEF IInv, Shapes, Shape
<1>4. Marked'
  <2>1. CASE CodeHit(a, n)
    BY <1>0, <2>1, NoteKeepsMarks DEF RamWrite, IInv
  <2>2. CASE ~CodeHit(a, n)
    BY <2>2 DEF RamWrite, IInv, cache, Marked
  <2> QED BY <2>1, <2>2
<1>5. ASSUME NEW b \in blocks', NEW x \in InReach(b)
      PROVE  b.words[x] = mem'[x]
  <2>0. b \in blocks /\ b.words[x] = mem[x] /\ x \in WalkedWords(b) /\ b.code /\ x \in WordAddr
    BY <1>2, <1>5 DEF IInv, ReachCoherent, InReach, WalkedWords, Shapes, Shape, WordsOf
  <2>1. CASE x # WordAt(a)
    BY <1>1, <2>0, <2>1 DEF IInv
  <2>2. CASE x = WordAt(a)
    <3>1. b.code /\ WordAt(a) \in WalkedWords(b)
      BY <2>0, <2>2
    <3>2. CellOf(a) \in codeMap
      BY <1>0, <2>0, <3>1, WordCell DEF IInv, Marked
    <3>3. NoteWrite(a, n)
      BY <3>2 DEF CodeHit, RamWrite
    <3>4. b \notin blocks'
      BY <1>0, <2>0, <3>1, <3>3, NoteTakes DEF IInv
    <3> QED BY <1>5, <3>4
  <2> QED BY <2>1, <2>2
<1>6. ReachCoherent'
  BY <1>5 DEF ReachCoherent, InReach, GranuleOf
<1> QED BY <1>1, <1>3, <1>4, <1>6 DEF IInv

(* A copy notes the marked cells one after the other; a block with a word  *)
(* in one of them goes.                                                    *)
LEMMA CopyTakes ==
  ASSUME Shapes, NEW cells \in SUBSET Nat, NEW b \in blocks, b.code,
         NEW x \in WalkedWords(b), CellOf(x) \in cells
  PROVE  b \in CopyHit(cells)
<1> DEFINE c == CellOf(x)
<1>1. x \in Nat /\ b.pc <= x /\ x < b.end
  BY DEF WalkedWords, WordsOf, WordAddr
<1>2. c \in Nat /\ c * Cell <= x /\ x < (c * Cell) + Cell
  BY <1>1, CellBounds
<1>3. Cell \in Nat \ {0}
  BY SizesAssumption
<1> HIDE DEF c
<1>4. c * Cell \in Nat
  BY <1>2, <1>3
<1>5. CellOf(c * Cell) = c
  BY <1>2, <1>3, <1>4, QuotientUnique DEF CellOf
<1>6. b \in Near(c * Cell)
  BY <1>4, <1>5, CoveringIsNear DEF c
<1>7. b.pc \in Nat /\ b.end \in Nat
  BY DEF Shapes, Shape
<1>8. Overlaps(b, c * Cell, Cell)
  BY <1>1, <1>2, <1>3, <1>4, <1>7 DEF Overlaps
<1>9. b \in Hit(c * Cell, Cell) /\ c \in cells
  BY <1>6, <1>8 DEF Hit, c
<1> QED BY <1>9 DEF CopyHit

LEMMA CopyInv ==
  ASSUME IInv, NEW first \in WordAddr, NEW last \in WordAddr,
         NEW v \in Word, Copy(first, last, v)
  PROVE  IInv'
<1> DEFINE words == {a \in WordAddr : a >= first /\ a <= last}
           cells == {c \in codeMap : c >= CellOf(first) /\ c <= CellOf(last)}
<1>1. /\ mem' = [a \in WordAddr |-> IF a \in words THEN v ELSE mem[a]]
      /\ blocks' = blocks \ CopyHit(cells)
      /\ codeMap' = codeMap \ cells
  BY DEF Copy
<1>2. mem' \in [WordAddr -> Word]
  BY <1>1 DEF IInv
<1>3. Shapes'
  BY <1>1 DEF IInv, Shapes, Shape
<1>4. ASSUME NEW b \in blocks', b.code, NEW x \in WalkedWords(b)
      PROVE  CellOf(x) \notin cells /\ CellOf(x) \in codeMap
  <2>1. b \in blocks /\ b \notin CopyHit(cells)
    BY <1>1, <1>4
  <2>2. CellOf(x) \in codeMap
    BY <1>4, <2>1 DEF IInv, Marked
  <2>3. ASSUME CellOf(x) \in cells PROVE FALSE
    <3> DEFINE one == {CellOf(x)}
    <3>1. one \in SUBSET Nat
      BY <1>4, CellBounds DEF WalkedWords, WordsOf, WordAddr
    <3>2. b \in CopyHit(one)
      BY <1>4, <2>1, <3>1, CopyTakes DEF IInv
    <3>3. b \in CopyHit(cells)
      BY <3>2, <2>3 DEF CopyHit
    <3> QED BY <2>1, <3>3
  <2> QED BY <2>2, <2>3
<1>5. Marked'
  BY <1>1, <1>4 DEF Marked, WalkedWords, WordsOf, GranuleOf
<1>6. ASSUME NEW b \in blocks', NEW x \in InReach(b)
      PROVE  b.words[x] = mem'[x]
  <2>0. b \in blocks /\ b.words[x] = mem[x] /\ b.code /\ x \in WalkedWords(b) /\ x \in WordAddr
    BY <1>1, <1>6 DEF IInv, ReachCoherent, InReach, WalkedWords, Shapes, Shape, WordsOf
  <2>1. ASSUME x \in words
        PROVE  FALSE
    <3>1. x \in Nat /\ first \in Nat /\ last \in Nat /\ first <= x /\ x <= last
      BY <2>0, <2>1 DEF WordAddr
    <3>2. CellOf(first) <= CellOf(x) /\ CellOf(x) <= CellOf(last)
      BY <3>1, QuotientMono, SizesAssumption DEF CellOf
    <3>3. CellOf(x) \in codeMap
      BY <1>4, <1>6, <2>0
    <3>4. CellOf(x) \in cells
      BY <3>2, <3>3
    <3> QED BY <1>4, <1>6, <2>0, <3>4
  <2> QED BY <1>1, <2>0, <2>1
<1>7. ReachCoherent'
  BY <1>6 DEF ReachCoherent, InReach, GranuleOf
<1> QED BY <1>2, <1>3, <1>5, <1>7 DEF IInv

LEMMA SramInv ==
  ASSUME IInv, NEW a \in WordAddr, NEW v \in Word,
         SramWrite(a, v) \/ SramFill(a, v)
  PROVE  IInv'
<1>1. a \in Sram /\ UNCHANGED cache
  BY DEF SramWrite, SramFill
<1>2. mem' = mem \/ mem' = [mem EXCEPT ![a] = v]
  BY DEF SramWrite, SramFill
<1>3. mem' \in [WordAddr -> Word]
  BY <1>2 DEF IInv
<1>4. Shapes' /\ Marked'
  BY <1>1 DEF IInv, cache, Shapes, Shape, Marked, WalkedWords
<1>5. ReachCoherent'
  <2>1. ASSUME NEW b \in blocks', NEW x \in InReach(b)
        PROVE  b.words[x] = mem'[x]
    <3>1. b \in blocks /\ b.words[x] = mem[x]
      BY <1>1, <2>1 DEF IInv, ReachCoherent, cache
    <3>2. x # a /\ x \in WordAddr
      BY <1>1, <2>1, <3>1 DEF InReach, IInv, Shapes, Shape, WordsOf
    <3> QED BY <1>2, <3>1, <3>2 DEF IInv
  <2> QED BY <2>1 DEF ReachCoherent, InReach, GranuleOf
<1> QED BY <1>3, <1>4, <1>5 DEF IInv

LEMMA StepInv == IInv /\ [JitNext]_jitVars => IInv'
<1> SUFFICES ASSUME IInv, [JitNext]_jitVars PROVE IInv'
  OBVIOUS
<1>1. ASSUME NEW pc \in WordAddr, Dispatch(pc) PROVE IInv'
  BY <1>1, DispatchInv
<1>2. CASE Leave
  BY <1>2 DEF Leave, IInv, cache, Shapes, Shape, Marked, WalkedWords, ReachCoherent, InReach
<1>3. ASSUME NEW a \in 0 .. MemTop - 1, NEW v \in Word, NEW n \in Widths(a), RamWrite(a, n, v)
      PROVE IInv'
  BY <1>3, RamWriteInv
<1>4. ASSUME NEW first \in WordAddr, NEW last \in WordAddr, NEW v \in Word, Copy(first, last, v)
      PROVE IInv'
  BY <1>4, CopyInv
<1>5. ASSUME NEW a \in WordAddr, NEW v \in Word, SramWrite(a, v) \/ SramFill(a, v)
      PROVE IInv'
  BY <1>5, SramInv
<1>6. ASSUME NEW a \in WordAddr, NEW v \in Word, FlushAll(a, v)
      PROVE IInv'
  BY <1>6 DEF FlushAll, Flush, IInv, Shapes, Marked, ReachCoherent
<1>7. CASE UNCHANGED jitVars
  BY <1>7 DEF jitVars, IInv, Shapes, Shape, Marked, WalkedWords, ReachCoherent, InReach
<1> QED BY <1>1, <1>2, <1>3, <1>4, <1>5, <1>6, <1>7 DEF JitNext

(* No stale code can be found in RAM, whatever the sizes and the length of *)
(* a block, in the words of a block that the two chains walked for a write *)
(* reach, although the same walks take marks down (jit_note_write).        *)
THEOREM NoStaleCode == JitSpec => []ReachCoherent
<1>1. JitInit => IInv
  BY InitInv
<1>2. IInv /\ [JitNext]_jitVars => IInv'
  BY StepInv
<1>3. IInv => ReachCoherent
  BY DEF IInv
<1> QED BY <1>1, <1>2, <1>3, PTL DEF JitSpec

(* The dispatcher enters only blocks that match memory, in the same words  *)
(* (jit_a64.c, jit_run).                                                   *)
THEOREM EntersFresh == JitSpec => FreshEntry
<1> DEFINE Fresh == run = NoBlock /\ run' # NoBlock =>
                      \A a \in InReach(run') : run'.words[a] = mem[a]
<1>1. JitInit => IInv
  BY InitInv
<1>2. IInv /\ [JitNext]_jitVars => IInv'
  BY StepInv
<1>3. IInv /\ [JitNext]_jitVars => [Fresh]_jitVars
  <2> SUFFICES ASSUME IInv, JitNext, run = NoBlock, run' # NoBlock
               PROVE  \A a \in InReach(run') : run'.words[a] = mem[a]
    OBVIOUS
  <2>1. PICK pc \in WordAddr : Dispatch(pc)
    BY DEF JitNext, Leave, RamWrite, Copy, SramWrite, SramFill, FlushAll
  <2>2. CASE \E b \in Lookup(pc) : Enter(b)
    BY <2>2 DEF Lookup, Enter, IInv, ReachCoherent
  <2>3. CASE \E b \in Translations(pc) : Enter(b)
    BY <2>3, TranslationShape DEF Enter, SameWords
  <2> QED BY <2>1, <2>2, <2>3 DEF Dispatch
<1> QED BY <1>1, <1>2, <1>3, PTL DEF JitSpec, FreshEntry
=============================================================================
