--------------------------- MODULE FirmwareProofs ---------------------------
(***************************************************************************)
(* Theorems about Firmware for every set of kernels, bitstreams and        *)
(* packages and any number of faults and user actions.                     *)
(***************************************************************************)
EXTENDS Firmware, TLAPS

USE DEF vars

-----------------------------------------------------------------------------
(***************************************************************************)
(* How the stable slot is replaced.  The inductive invariant: from the     *)
(* copy to the rename a kernel is being installed and no ignored operation *)
(* is pending, and from the sum that held to the rename kernel8.new is     *)
(* that kernel.  So no step in between, ignored or refused, can reach the  *)
(* file that the rename puts in the slot.                                  *)
(***************************************************************************)
Installing == {"copy", "verify", "replace", "rename"}
Summed == {"replace", "rename"}

\* Whose flash it is: only these jobs know where to go on after it.
Flashers == {"update", "provision", "rollback", "heldback", "console"}

Whole ==
    /\ DOMAIN sd = Files
    /\ job \in Jobs
    /\ pc \in {"backup", "backup2", "flash", "program"} => job.kind \in Flashers
    /\ pc = "restore" => job.kind \in {"rollback", "heldback"}
    /\ pc \in Installing => ops = <<>> /\ job.k \in Kernels
    /\ pc \in Summed => sd["new"] = job.k

\* The jobs there are, and what each holds.
LEMMA NoJob == Idle \in Jobs /\ Idle.k = None /\ Idle.kind = "none"
  BY DEF Idle, Jobs
LEMMA ConsoleJob ==
    ASSUME NEW b \in Bitstreams
    PROVE  LET j == [Idle EXCEPT !.kind = "console", !.b = b]
           IN  j \in Jobs /\ j.kind = "console"
  BY DEF Idle, Jobs
LEMMA JobNamed ==
    ASSUME NEW kind \in {"rollback", "heldback"}
    PROVE  LET j == [Idle EXCEPT !.kind = kind]
           IN  j \in Jobs /\ j.kind = kind
  BY DEF Idle, Jobs
LEMMA PromoteJob ==
    ASSUME NEW kind \in {"promote", "abp"}, NEW k \in Kernels
    PROVE  [Idle EXCEPT !.kind = kind, !.k = k] \in Jobs
  BY DEF Idle, Jobs
LEMMA RestoreJob ==
    ASSUME job \in Jobs, NEW b \in Bitstreams \cup {Junk}
    PROVE  LET j == [job EXCEPT !.b = b]
           IN  j \in Jobs /\ j.k = job.k /\ j.kind = job.kind
  BY DEF Jobs
LEMMA JobKernel == ASSUME job \in Jobs PROVE job.k \in Kernels \cup {None}
  BY DEF Jobs

LEMMA UpdateJob ==
    ASSUME NEW kind \in {"update", "provision"}, NEW bTry \in BOOLEAN, NEW bForce \in BOOLEAN,
           Update(kind, bTry, bForce)
    PROVE  /\ job' \in Jobs /\ job'.kind = kind
           /\ pc' \in {"kernel", "backup", "flash"} /\ sd' = sd
  <1> DEFINE p == sd[PackageFile(kind)]
             bKernel == bForce \/ bTry \/ ~KernelSame(p)
  <1>1. p \in [k : Kernels, b : Bitstreams \cup {None}]
    BY FirmwareAssumption DEF Update, vmpu68_vpk_check
  <1>2. job' = [kind |-> kind, try |-> bTry, b |-> p.b, k |-> IF bKernel THEN p.k ELSE None]
    BY DEF Update
  <1>3. p.k \in Kernels /\ p.b \in Bitstreams \cup {None}
    BY <1>1
  <1> HIDE DEF p, bKernel
  <1>4. job' \in Jobs /\ job'.kind = kind
    BY <1>2, <1>3 DEF Jobs
  <1>5. pc' \in {"kernel", "backup", "flash"} /\ sd' = sd
    BY DEF Update, Goto
  <1> QED BY <1>4, <1>5

LEMMA FailingJob ==
    ASSUME JobFails
    PROVE  job' \in {job, Idle} /\ pc' \in {"main", "provision", "reboot"}
  BY DEF JobFails, Failed, Goto

-----------------------------------------------------------------------------
LEMMA WholeInit == Init => Whole
  BY NoJob DEF Init, Whole, Installing, Summed

LEMMA WholeStartup == ASSUME Whole, Startup PROVE Whole'
  <1> USE DEF Whole, Installing, Summed, Goto, At
  <1>1. CASE Boot \/ fpga_version_fixup \/ NoFixup
    BY <1>1 DEF Boot, fpga_version_fixup, NoFixup
  <1>2. CASE ab_boot_check
    BY <1>2, JobNamed DEF ab_boot_check
  <1>3. CASE Provision
    <2>1. CASE Update("provision", FALSE, FALSE)
      BY <2>1, UpdateJob DEF Flashers
    <2>2. CASE pc' = "main" /\ UNCHANGED <<sd, job>>
      BY <2>2
    <2> QED BY <1>3, <2>1, <2>2 DEF Provision
  <1> QED BY <1>1, <1>2, <1>3 DEF Startup

LEMMA WholeFlashing == ASSUME Whole, Flashing PROVE Whole'
  <1> USE DEF Whole, Installing, Summed, Goto, At, Files
  <1>1. CASE FpgaNoChip \/ FpgaVerifyFails
    <2>1. JobFails /\ UNCHANGED sd
      BY <1>1 DEF FpgaNoChip, FpgaVerifyFails
    <2> QED BY <2>1, FailingJob, NoJob
  <1>2. CASE FpgaErase
    BY <1>2 DEF FpgaErase
  <1>3. CASE FpgaProgram
    <2>1. pc' \in {"kernel", "provision", "reboot", "main"} /\ job' \in {job, Idle}
      BY <1>3 DEF FpgaProgram, FpgaEnd, Flashers
    <2> QED BY <1>3, <2>1, NoJob DEF FpgaProgram
  <1>4. CASE FpgaRestorePrev
    <2>1. CASE JobFails
      BY <1>4, <2>1, FailingJob, NoJob DEF FpgaRestorePrev
    <2>2. CASE ~JobFails
      BY <1>4, <2>2, RestoreJob DEF FpgaRestorePrev, Flashers
    <2> QED BY <2>1, <2>2
  <1>5. CASE FpgaBackupOpen \/ FpgaBackupDone \/ FpgaBackupFails
    BY <1>5 DEF FpgaBackupOpen, FpgaBackupDone, FpgaBackupFails
  <1> QED BY <1>1, <1>2, <1>3, <1>4, <1>5 DEF Flashing

LEMMA WholeCopying == ASSUME Whole, Copying PROVE Whole'
  <1> USE DEF Whole, Installing, Summed, Goto, At, Files
  <1>1. CASE NoKernel \/ CopyOpen \/ CopyWrite
    BY <1>1, JobKernel DEF NoKernel, CopyOpen, CopyWrite
  <1>2. CASE Verify
    BY <1>2, FirmwareAssumption DEF Verify, file_sum_path
  <1>3. CASE VerifyFails \/ CopyFails
    <2>1. JobFails /\ DOMAIN sd' = Files
      BY <1>3 DEF VerifyFails, CopyFails
    <2> QED BY <2>1, FailingJob, NoJob
  <1>4. CASE Replace
    BY <1>4 DEF Replace, Target
  <1>5. CASE Rename
    BY <1>5, NoJob DEF Rename
  <1>6. CASE Finish
    <2>1. pc' = "reboot" /\ UNCHANGED <<sd, job>>
      BY <1>6 DEF Finish
    <2> QED BY <2>1
  <1>7. CASE Reboot
    BY <1>7, NoJob DEF Reboot, pi_reboot, Stop
  <1> QED BY <1>1, <1>2, <1>3, <1>4, <1>5, <1>6, <1>7 DEF Copying

LEMMA WholeRequests ==
    ASSUME Whole, Resolve \/ Upload \/ PowerLoss \/ User
    PROVE  Whole'
  <1> USE DEF Whole, Installing, Summed, Goto, At, Serving
  <1>1. ASSUME NEW kind \in {"promote", "abp"}, ab_promote(kind) PROVE Whole'
    BY <1>1, PromoteJob DEF ab_promote
  <1>2. CASE Promote \/ PromoteByHand
    BY <1>1, <1>2 DEF Promote, PromoteByHand
  <1>3. CASE HeldBack
    BY <1>3, JobNamed DEF HeldBack
  <1>4. CASE Upload \/ fw
    BY <1>4 DEF Upload, fw, FileReceive
  <1>5. CASE PowerLoss \/ UserReboot
    BY <1>5, NoJob DEF PowerLoss, UserReboot, pi_reboot, Stop
  <1>6. CASE RunUpdate
    BY <1>6, UpdateJob DEF RunUpdate, Flashers
  <1>7. CASE Discard
    BY <1>7 DEF Discard
  <1>8. CASE FpgaFlash
    <2>1. PICK b \in Bitstreams : job' = [Idle EXCEPT !.kind = "console", !.b = b]
      BY <1>8 DEF FpgaFlash
    <2>2. job' \in Jobs /\ job'.kind = "console"
      BY <2>1, ConsoleJob
    <2>3. pc' = "flash" /\ UNCHANGED sd
      BY <1>8 DEF FpgaFlash
    <2> QED BY <2>2, <2>3 DEF Flashers
  <1> QED BY <1>2, <1>3, <1>4, <1>5, <1>6, <1>7, <1>8 DEF User, Resolve

LEMMA WholeStep == ASSUME Whole, [Next]_vars PROVE Whole'
  <1>1. CASE SdStep
    BY <1>1 DEF SdStep, Whole, Installing, Summed
  <1>2. CASE UNCHANGED vars
    BY <1>2 DEF Whole
  <1> QED BY <1>1, <1>2, WholeStartup, WholeFlashing, WholeCopying, WholeRequests DEF Next, Core0

\* Of the steps that no ignored operation precedes only two touch the slot.
LEMMA SlotStep ==
    ASSUME Whole, [Next]_vars, ops = <<>>, sd'["stable"] # sd["stable"]
    PROVE  \/ sd'["stable"] = Absent /\ sd["new"] \in Kernels
           \/ sd'["stable"] = sd["new"] /\ sd["new"] \in Kernels
  <1> USE DEF Whole, Flashers, Jobs, Installing, Summed, Files, At
  <1>1. CASE SdStep
    BY <1>1 DEF SdStep
  <1>2. CASE Startup
    BY <1>2 DEF Startup, Boot, fpga_version_fixup, NoFixup, ab_boot_check, Provision, Update
  <1>3. CASE Flashing
    BY <1>3 DEF Flashing, FpgaNoChip, FpgaErase, FpgaProgram, FpgaVerifyFails, FpgaRestorePrev,
        FpgaBackupOpen, FpgaBackupDone, FpgaBackupFails
  <1>4. CASE Copying
    <2>1. CASE Replace
      BY <1>4, <2>1 DEF Replace, Target
    <2>2. CASE Rename
      BY <1>4, <2>2 DEF Rename, Target
    <2>3. CASE NoKernel \/ CopyOpen \/ CopyWrite \/ Verify \/ VerifyFails
      BY <2>3 DEF NoKernel, CopyOpen, CopyWrite, Verify, VerifyFails
    <2>4. CASE CopyFails \/ Finish \/ Reboot
      BY <2>4 DEF CopyFails, Finish, Reboot, pi_reboot, Stop
    <2> QED BY <1>4, <2>1, <2>2, <2>3, <2>4 DEF Copying
  <1>5. CASE Resolve
    BY <1>5 DEF Resolve, Promote, HeldBack, ab_promote
  <1>6. CASE Upload \/ PowerLoss
    BY <1>6 DEF Upload, PowerLoss, FileReceive, Stop
  <1>7. CASE User
    BY <1>7 DEF User, RunUpdate, Update, fw, FileReceive, PromoteByHand, Discard, FpgaFlash,
        UserReboot, ab_promote, pi_reboot, Stop
  <1>8. CASE UNCHANGED vars
    BY <1>8
  <1> QED BY <1>1, <1>2, <1>3, <1>4, <1>5, <1>6, <1>7, <1>8 DEF Next, Core0

\* Wherever the power goes and whatever the card refuses, an install or a promotion
\* empties the stable slot only with a whole kernel beside it, and fills it only with
\* that kernel (CKernel::Update, ab_promote).
THEOREM StableReplaced == Spec => StableReplacedWhole
  <1> DEFINE Step == ops = <<>> /\ sd'["stable"] # sd["stable"] =>
                        \/ sd'["stable"] = Absent /\ sd["new"] \in Kernels
                        \/ sd'["stable"] = sd["new"] /\ sd["new"] \in Kernels
  <1>1. Whole /\ [Next]_vars => [Step]_vars
    BY SlotStep
  <1>2. Whole /\ [Next]_vars => Whole'
    BY WholeStep
  <1> HIDE DEF Step
  <1>3. Spec => [][Step]_vars
    BY WholeInit, <1>1, <1>2, PTL DEF Spec
  <1> QED BY <1>3 DEF Step, StableReplacedWhole

-----------------------------------------------------------------------------
(***************************************************************************)
(* The type invariant.  What a file may hold depends on the file, so the   *)
(* ignored operations that wait to be done are typed by the file they are  *)
(* for; a file that is created is filled next; and of the try slot and the *)
(* saved bitstream they only ever delete.                                  *)
(***************************************************************************)
Bits == Bitstreams \cup {Junk}

Holds(f, v) ==
    /\ f \in {"stable", "try", "new"} => v \in Kernels \cup {Absent, Partial}
    /\ f \in {"prev", "prevsum", "sum"} => v \in Bits \cup {Absent, Partial}
    /\ f = "marker" => v \in {m \in Markers : m.build \in {m.k, None}} \cup {Absent, Partial}
    /\ f \in {"update", "card"} => v \in Packages \cup {Absent, Partial}
    /\ f = "failed" => v \in {None, Absent, Partial}

Contents == Kernels \cup Bits \cup Markers \cup Packages \cup {None, Absent, Partial}
SdOps == [do : {"delete", "create", "fill"}, file : Files, as : Contents]

Sound(op) ==
    /\ Holds(op.file, op.as)
    /\ op.do = "delete" => op.as = Absent
    /\ op.file \in {"try", "prev"} => op.do = "delete"
Filled(s, i) == s[i].do = "create" => i < Len(s) /\ s[i + 1].do = "fill" /\ s[i + 1].file = s[i].file
Queued(s) == s \in Seq(SdOps) /\ \A i \in 1..Len(s) : Sound(s[i]) /\ Filled(s, i)

\* The operations of s are for files of F only.
Only(s, F) == Queued(s) /\ \A i \in 1..Len(s) : s[i].file \in F

Card == DOMAIN sd = Files /\ \A f \in Files : Holds(f, sd[f])

Typed ==
    /\ Card /\ Queued(ops) /\ flash \in Bits
    /\ run \in Kernels \cup {None} /\ arm \in BOOLEAN /\ tryboot \in BOOLEAN
    /\ faults \in 0..MaxFaults /\ acts \in 0..MaxActs
    /\ pc \in {"backup", "backup2", "flash", "program"} => job.b \in Bits

LEMMA HeldIsContent == ASSUME NEW f \in Files, NEW v, Holds(f, v) PROVE v \in Contents
  BY DEF Files, Holds, Contents

LEMMA HoldsAbsent == ASSUME NEW f \in Files PROVE Holds(f, Absent) /\ Holds(f, Partial)
  BY DEF Files, Holds

LEMMA EmptyQueue == Only(<<>>, {})
  BY DEF Only, Queued

LEMMA DeleteQueue == ASSUME NEW f \in Files PROVE Only(Delete(f), {f})
  <1> DEFINE op == Op("delete", f, Absent)
  <1>1. op \in SdOps /\ Sound(op) /\ op.file = f /\ op.do = "delete"
    BY HoldsAbsent DEF Op, SdOps, Contents, Sound
  <1> HIDE DEF op
  <1>2. Delete(f) = <<op>>
    BY DEF Delete, op
  <1> QED BY <1>1, <1>2 DEF Only, Queued, Filled

LEMMA FillQueue ==
  ASSUME NEW f \in Files \ {"try", "prev"}, NEW v, Holds(f, v)
  PROVE  Only(Write(f, v), {f})
  <1> DEFINE c == Op("create", f, Partial)
             w == Op("fill", f, v)
  <1>1. /\ c \in SdOps /\ Sound(c) /\ c.file = f /\ c.do = "create"
        /\ w \in SdOps /\ Sound(w) /\ w.file = f /\ w.do = "fill"
    BY HoldsAbsent, HeldIsContent DEF Op, SdOps, Contents, Sound
  <1> HIDE DEF c, w
  <1>2. Write(f, v) = <<c, w>>
    BY DEF Write, c, w
  <1> QED BY <1>1, <1>2 DEF Only, Queued, Filled

LEMMA CatQueue ==
  ASSUME NEW s, NEW t, NEW F, NEW G, Only(s, F), Only(t, G)
  PROVE  Only(s \o t, F \cup G)
  <1>1. s \in Seq(SdOps) /\ t \in Seq(SdOps)
    BY DEF Only, Queued
  <1>2. /\ s \o t \in Seq(SdOps) /\ Len(s \o t) = Len(s) + Len(t) /\ Len(s) \in Nat /\ Len(t) \in Nat
        /\ \A i \in 1..Len(s) : (s \o t)[i] = s[i]
        /\ \A i \in Len(s) + 1..Len(s) + Len(t) : (s \o t)[i] = t[i - Len(s)]
    BY <1>1
  <1>3. ASSUME NEW i \in 1..Len(s \o t)
        PROVE  Sound((s \o t)[i]) /\ Filled(s \o t, i) /\ (s \o t)[i].file \in F \cup G
    <2>1. CASE i \in 1..Len(s)
      <3>1. Sound(s[i]) /\ Filled(s, i) /\ s[i].file \in F /\ (s \o t)[i] = s[i]
        BY <1>2, <2>1 DEF Only, Queued
      <3>2. i < Len(s) => (s \o t)[i + 1] = s[i + 1]
        BY <1>2, <2>1
      <3> QED BY <1>2, <2>1, <3>1, <3>2 DEF Filled
    <2>2. CASE i \in Len(s) + 1..Len(s) + Len(t)
      <3> DEFINE j == i - Len(s)
      <3>1. j \in 1..Len(t) /\ (s \o t)[i] = t[j]
        BY <1>2, <2>2
      <3>2. Sound(t[j]) /\ Filled(t, j) /\ t[j].file \in G
        BY <3>1 DEF Only, Queued
      <3>3. j < Len(t) => (s \o t)[i + 1] = t[j + 1] /\ i < Len(s \o t)
        <4>1. j < Len(t) => i + 1 \in Len(s) + 1..Len(s) + Len(t) /\ (i + 1) - Len(s) = j + 1
          BY <1>2, <2>2
        <4> QED BY <1>2, <2>2, <4>1
      <3> QED BY <3>1, <3>2, <3>3 DEF Filled
    <2> QED BY <1>2, <2>1, <2>2
  <1> QED BY <1>2, <1>3 DEF Only, Queued

LEMMA TailQueue ==
  ASSUME NEW s, Queued(s), s # <<>>
  PROVE  /\ Queued(Tail(s)) /\ Head(s) = s[1] /\ Head(s) \in SdOps /\ Sound(Head(s))
         /\ Len(Tail(s)) = Len(s) - 1 /\ Len(s) \in Nat \ {0}
         /\ \A i \in 1..Len(Tail(s)) : Tail(s)[i] = s[i + 1] /\ i + 1 \in 1..Len(s)
         /\ Head(s).do = "create" => Tail(s) # <<>> /\ Tail(s)[1].do = "fill" /\ Tail(s)[1].file = Head(s).file
  <1>1. s \in Seq(SdOps)
    BY DEF Queued
  <1>2. /\ Tail(s) \in Seq(SdOps) /\ Head(s) = s[1] /\ Head(s) \in SdOps
        /\ Len(Tail(s)) = Len(s) - 1 /\ Len(s) \in Nat \ {0}
        /\ \A i \in 1..Len(Tail(s)) : Tail(s)[i] = s[i + 1] /\ i + 1 \in 1..Len(s)
    BY <1>1
  <1>3. Sound(s[1]) /\ Filled(s, 1)
    BY <1>2 DEF Queued
  <1>4. ASSUME NEW i \in 1..Len(Tail(s)) PROVE Sound(Tail(s)[i]) /\ Filled(Tail(s), i)
    <2>1. Sound(s[i + 1]) /\ Filled(s, i + 1) /\ Tail(s)[i] = s[i + 1]
      BY <1>2 DEF Queued
    <2>2. i + 1 < Len(s) => Tail(s)[i + 1] = s[(i + 1) + 1] /\ i < Len(Tail(s))
      BY <1>2
    <2> QED BY <2>1, <2>2 DEF Filled
  <1>5. s[1].do = "create" => Tail(s) # <<>> /\ Tail(s)[1].do = "fill" /\ Tail(s)[1].file = s[1].file
    <2>1. 1 < Len(s) => 1 \in 1..Len(Tail(s))
      BY <1>2
    <2> QED BY <1>2, <1>3, <2>1 DEF Filled
  <1> QED BY <1>2, <1>3, <1>4, <1>5 DEF Queued

LEMMA MoreQueue ==
  ASSUME NEW s, NEW F, NEW G, Only(s, F), F \subseteq G PROVE Only(s, G)
  BY DEF Only

\* Two deletions, and the four at the end of a try.
LEMMA DeleteTwo ==
  ASSUME NEW f \in Files, NEW g \in Files PROVE Only(Delete(f) \o Delete(g), {f, g})
  <1>1. Only(Delete(f) \o Delete(g), {f} \cup {g})
    BY DeleteQueue, CatQueue
  <1> QED BY <1>1, MoreQueue

TryFiles == {"marker", "try", "prev", "prevsum"}

LEMMA DeleteTry ==
  Only(Delete("marker") \o Delete("try") \o Delete("prev") \o Delete("prevsum"), TryFiles)
  <1>1. Only(Delete("marker") \o Delete("try"), {"marker", "try"})
    BY DeleteTwo DEF Files
  <1>2. Only((Delete("marker") \o Delete("try")) \o Delete("prev"), {"marker", "try"} \cup {"prev"})
    BY <1>1, DeleteQueue, CatQueue DEF Files
  <1>3. Only(((Delete("marker") \o Delete("try")) \o Delete("prev")) \o Delete("prevsum"),
             ({"marker", "try"} \cup {"prev"}) \cup {"prevsum"})
    BY <1>2, DeleteQueue, CatQueue DEF Files
  <1> QED BY <1>3, MoreQueue DEF TryFiles

LEMMA CardWrite ==
  ASSUME Card, NEW f \in Files, NEW v, Holds(f, v), sd' = [sd EXCEPT ![f] = v]
  PROVE  Card' /\ sd'[f] = v /\ \A g \in Files \ {f} : sd'[g] = sd[g]
  BY DEF Card

LEMMA CardKept == ASSUME Card, sd' = sd PROVE Card'
  BY DEF Card

\* One ignored operation, done or refused.
LEMMA SdStepDoes ==
  ASSUME Card, Queued(ops), SdStep
  PROVE  /\ Card' /\ Queued(ops')
         /\ \/ /\ sd' = [sd EXCEPT ![Head(ops).file] = Head(ops).as] /\ ops' = Tail(ops) /\ faults' = faults
            \/ /\ sd' = sd /\ ops' \in {Tail(ops), Tail(Tail(ops))} /\ faults' = faults + 1
  <1>1. /\ Queued(Tail(ops)) /\ Head(ops) \in SdOps /\ Sound(Head(ops))
        /\ Head(ops).do = "create" => Tail(ops) # <<>>
    BY TailQueue DEF SdStep
  <1>2. Head(ops).do = "create" => Queued(Tail(Tail(ops)))
    BY <1>1, TailQueue
  <1>3. CASE sd' = [sd EXCEPT ![Head(ops).file] = Head(ops).as] /\ ops' = Tail(ops) /\ faults' = faults
    <2>1. Head(ops).file \in Files /\ Holds(Head(ops).file, Head(ops).as)
      BY <1>1 DEF SdOps, Sound
    <2> QED BY <1>1, <1>3, <2>1, CardWrite
  <1>4. CASE sd' = sd /\ ops' = (IF Head(ops).do = "create" THEN Tail(Tail(ops)) ELSE Tail(ops)) /\ Fault
    BY <1>1, <1>2, <1>4, CardKept DEF Fault
  <1> QED BY <1>3, <1>4 DEF SdStep

LEMMA SumQueue ==
  ASSUME NEW b \in Bits \cup {Absent, Partial} PROVE Only(fpga_sum_write(b), {"sum"})
  BY FillQueue DEF fpga_sum_write, Holds, Files

LEMMA MarkerQueue ==
  ASSUME NEW n \in {0, 1}, NEW k \in Kernels \cup {None}, NEW build \in {k, None}
  PROVE  Only(ab_write_marker(n, k, build), {"marker"})
  <1> DEFINE m == [count |-> n, k |-> k, build |-> build]
  <1>1. m \in {x \in Markers : x.build \in {x.k, None}}
    BY DEF Markers
  <1> HIDE DEF m
  <1>2. Holds("marker", m)
    BY <1>1 DEF Holds
  <1>3. Only(Write("marker", m), {"marker"})
    BY <1>2, FillQueue DEF Files
  <1> QED BY <1>3 DEF ab_write_marker, m

LEMMA MarkerRead ==
  ASSUME Card, sd["marker"] # Absent
  PROVE  /\ Marker \in Markers /\ Marker.build \in {Marker.k, None}
         /\ Marker.count \in {0, 1} /\ Marker.k \in Kernels \cup {None}
         /\ Marker = sd["marker"] \/ (sd["marker"] = Partial /\ Marker.build = None)
  <1>1. sd["marker"] \in {m \in Markers : m.build \in {m.k, None}} \cup {Absent, Partial}
    BY DEF Card, Holds, Files
  <1> DEFINE empty == [count |-> 0, k |-> None, build |-> None]
  <1>2. empty \in Markers /\ empty.build = None /\ empty.k = None
    BY DEF Markers
  <1> HIDE DEF empty
  <1>3. Marker = IF sd["marker"] = Partial THEN empty ELSE sd["marker"]
    BY DEF Marker, empty
  <1>4. Marker \in Markers /\ Marker.build \in {Marker.k, None}
    BY <1>1, <1>2, <1>3
  <1>5. Marker.count \in {0, 1} /\ Marker.k \in Kernels \cup {None}
    BY <1>4 DEF Markers
  <1> QED BY <1>1, <1>2, <1>3, <1>4, <1>5

LEMMA FailQueue == ASSUME JobFails PROVE Only(ops', {"failed"})
  <1>1. Only(Write("failed", None), {"failed"}) /\ Only(<<>>, {"failed"})
    BY FillQueue, EmptyQueue, MoreQueue DEF Files, Holds
  <1> QED BY <1>1 DEF JobFails, Failed, Goto

LEMMA UpdateQueue ==
  ASSUME NEW kind \in {"update", "provision"}, NEW bTry \in BOOLEAN, NEW bForce \in BOOLEAN,
         Update(kind, bTry, bForce)
  PROVE  Only(ops', {"sum"}) /\ (pc' \in {"backup", "flash"} => job'.b \in Bits)
  <1> DEFINE p == sd[PackageFile(kind)]
             bKernel == bForce \/ bTry \/ ~KernelSame(p)
             bFpga == p.b # None /\ (bForce \/ ~FpgaSame(p))
  <1>1. p.b \in Bitstreams \cup {None}
    BY FirmwareAssumption DEF Update, vmpu68_vpk_check
  <1>2. /\ pc' = IF ~bFpga THEN "kernel" ELSE IF bTry THEN "backup" ELSE "flash"
        /\ ops' = IF ~bFpga /\ p.b # None THEN fpga_sum_write(p.b) ELSE <<>>
        /\ job'.b = p.b
    BY DEF Update, Goto
  <1>3. bFpga => p.b # None
    OBVIOUS
  <1> HIDE DEF bFpga, p
  <1>4. Only(<<>>, {"sum"})
    BY EmptyQueue, MoreQueue
  <1> QED BY <1>1, <1>2, <1>3, <1>4, SumQueue DEF Bits

\* Which files the operations are for that a step leaves to be done.
LEMMA StartupQueue ==
  ASSUME Typed, Startup
  PROVE  /\ Only(ops', TryFiles \cup {"sum", "failed"})
         /\ Boot \/ fpga_version_fixup \/ NoFixup => Only(ops', {"sum"})
         /\ ab_boot_check => Only(ops', TryFiles)
         /\ Provision => Only(ops', {"sum", "failed"})
         /\ UNCHANGED <<sd, flash>>
         /\ Update("provision", FALSE, FALSE) \/ pc' \notin {"backup", "backup2", "flash", "program"}
  <1>0. Card /\ flash \in Bits
    BY DEF Typed
  <1>1. ASSUME Boot \/ fpga_version_fixup \/ NoFixup PROVE Only(ops', {"sum"})
    <2>1. CASE fpga_version_fixup
      BY <2>1, SumQueue DEF fpga_version_fixup, Goto, Bits
    <2>2. ops' = <<>> => Only(ops', {"sum"})
      BY EmptyQueue, MoreQueue
    <2> QED BY <1>1, <2>1, <2>2 DEF Boot, NoFixup, Goto
  <1>2. ASSUME ab_boot_check PROVE Only(ops', TryFiles)
    <2>1. ops' = <<>> => Only(ops', TryFiles)
      BY EmptyQueue, MoreQueue
    <2>2. Only(Delete("marker") \o Delete("try"), TryFiles)
      BY DeleteTwo, MoreQueue DEF TryFiles, Files
    <2>3. ASSUME sd["marker"] # Absent, TryBoot(Marker)
          PROVE  Only(ab_write_marker(Marker.count + 1, Marker.k, Marker.build), TryFiles)
      <3>1. Marker.count = 0 /\ Marker.k \in Kernels \cup {None} /\ Marker.build \in {Marker.k, None}
        BY <1>0, <2>3, MarkerRead DEF TryBoot
      <3>2. Marker.count + 1 = 1
        BY <3>1
      <3> QED BY <3>1, <3>2, MarkerQueue, MoreQueue DEF TryFiles
    <2> QED BY <1>2, <2>1, <2>2, <2>3, DeleteTry DEF ab_boot_check, Goto
  <1>3. ASSUME Provision PROVE Only(ops', {"sum", "failed"})
    <2>1. ASSUME Update("provision", FALSE, FALSE) PROVE Only(ops', {"sum", "failed"})
      <3>1. Only(ops', {"sum"})
        BY <2>1, UpdateQueue
      <3> QED BY <3>1, MoreQueue
    <2>2. Only(<<>>, {"sum", "failed"})
      BY EmptyQueue, MoreQueue
    <2>3. Only(Write("failed", None), {"sum", "failed"})
      <3>1. Only(Write("failed", None), {"failed"})
        BY FillQueue DEF Files, Holds
      <3> QED BY <3>1, MoreQueue
    <2>4. Only(fpga_sum_write(flash), {"sum", "failed"})
      <3>1. Only(fpga_sum_write(flash), {"sum"})
        BY <1>0, SumQueue
      <3> QED BY <3>1, MoreQueue
    <2> QED BY <1>3, <2>1, <2>2, <2>3, <2>4 DEF Provision, Goto, FpgaFlashCompare
  <1>4. UNCHANGED <<sd, flash>>
    BY DEF Startup, Boot, fpga_version_fixup, NoFixup, ab_boot_check, Provision, Update
  <1>5. Update("provision", FALSE, FALSE) \/ pc' \notin {"backup", "backup2", "flash", "program"}
    BY DEF Startup, Boot, fpga_version_fixup, NoFixup, ab_boot_check, Provision, Goto
  <1>6. Only(ops', TryFiles \cup {"sum", "failed"})
    <2>1. Only(ops', {"sum"}) \/ Only(ops', TryFiles) \/ Only(ops', {"sum", "failed"})
      BY <1>1, <1>2, <1>3 DEF Startup
    <2> QED BY <2>1, MoreQueue
  <1> QED BY <1>1, <1>2, <1>3, <1>4, <1>5, <1>6

LEMMA FlashingQueue ==
  ASSUME Whole, Typed, Flashing
  PROVE  /\ Card' /\ flash' \in Bits
         /\ Only(ops', {"sum", "prev", "prevsum", "failed"})
         /\ ~FpgaProgram => Only(ops', {"prevsum", "failed"})
         /\ pc' \in {"backup", "backup2", "flash", "program"} => job'.b \in Bits
  <1>0. Card /\ flash \in Bits /\ (pc \in {"backup", "backup2", "flash", "program"} => job.b \in Bits)
    BY DEF Typed
  <1>1. CASE FpgaNoChip \/ FpgaVerifyFails \/ (FpgaRestorePrev /\ JobFails)
    <2>1. JobFails /\ sd' = sd /\ flash' = flash
      BY <1>1 DEF FpgaNoChip, FpgaVerifyFails, FpgaRestorePrev
    <2> QED BY <1>0, <2>1, FailQueue, FailingJob, CardKept, MoreQueue
  <1>2. CASE FpgaErase
    <2>1. sd' = sd /\ flash' = Junk /\ ops' = <<>> /\ job' = job /\ pc = "flash"
      BY <1>2 DEF FpgaErase, Goto, At
    <2> QED BY <1>0, <2>1, EmptyQueue, CardKept, MoreQueue DEF Bits
  <1>3. CASE FpgaProgram
    <2>1. sd' = sd /\ flash' = job.b /\ pc = "program" /\ ops' = fpga_sum_write(job.b) \o FpgaRestored
      BY <1>3 DEF FpgaProgram, At
    <2>2. pc' \notin {"backup", "backup2", "flash", "program"}
      BY <1>3 DEF FpgaProgram, FpgaEnd, Whole, Flashers, At
    <2>3. Only(fpga_sum_write(job.b), {"sum"})
      BY <1>0, <2>1, SumQueue
    <2>4. Only(FpgaRestored, {"sum", "prev", "prevsum"})
      <3>1. Only(<<>>, {"sum"})
        BY EmptyQueue, MoreQueue
      <3>2. Only(Copy("prevsum", "sum"), {"sum"})
        <4>1. Holds("sum", sd["prevsum"])
          BY <1>0 DEF Card, Holds, Files
        <4> QED BY <4>1, FillQueue DEF Copy, Files
      <3> DEFINE first == IF sd["prevsum"] = Absent THEN <<>> ELSE Copy("prevsum", "sum")
      <3>3. Only(first, {"sum"})
        BY <3>1, <3>2
      <3>4. FpgaRestored = IF job.kind \notin {"rollback", "heldback"} THEN <<>>
                           ELSE (first \o Delete("prev")) \o Delete("prevsum")
        BY DEF FpgaRestored
      <3> HIDE DEF first
      <3>5. Only(first \o Delete("prev"), {"sum"} \cup {"prev"})
        BY <3>3, DeleteQueue, CatQueue DEF Files
      <3>6. Only((first \o Delete("prev")) \o Delete("prevsum"), ({"sum"} \cup {"prev"}) \cup {"prevsum"})
        BY <3>5, DeleteQueue, CatQueue DEF Files
      <3>7. Only((first \o Delete("prev")) \o Delete("prevsum"), {"sum", "prev", "prevsum"})
        BY <3>6, MoreQueue
      <3>8. Only(<<>>, {"sum", "prev", "prevsum"})
        BY EmptyQueue, MoreQueue
      <3> QED BY <3>4, <3>7, <3>8
    <2>5. Only(ops', {"sum"} \cup {"sum", "prev", "prevsum"})
      BY <2>1, <2>3, <2>4, CatQueue
    <2>6. Only(ops', {"sum", "prev", "prevsum", "failed"})
      BY <2>5, MoreQueue
    <2> QED BY <1>0, <1>3, <2>1, <2>2, <2>6, CardKept
  <1>4. CASE FpgaRestorePrev /\ ~JobFails
    <2>1. PICK b \in Bits : pc' = "flash" /\ ops' = <<>> /\ job' = [job EXCEPT !.b = b] /\ UNCHANGED <<sd, flash>>
      BY <1>4 DEF FpgaRestorePrev, Goto, Bits
    <2>2. job'.b \in Bits
      BY <2>1, RestoreJob DEF Whole, Bits
    <2> QED BY <1>0, <2>1, <2>2, EmptyQueue, CardKept, MoreQueue
  <1>5. CASE FpgaBackupOpen \/ FpgaBackupFails
    <2>1. PICK v \in {Absent, Partial} : sd' = [sd EXCEPT !["prev"] = v]
      BY <1>5 DEF FpgaBackupOpen, FpgaBackupFails
    <2>2. Card'
      BY <1>0, <2>1, CardWrite, HoldsAbsent DEF Files
    <2>3. ops' = <<>> /\ flash' = flash /\ job' = job /\ pc \in {"backup", "backup2"}
      BY <1>5 DEF FpgaBackupOpen, FpgaBackupFails, Goto, At
    <2> QED BY <1>0, <2>2, <2>3, EmptyQueue, MoreQueue
  <1>6. CASE FpgaBackupDone
    <2>1. /\ sd' = [sd EXCEPT !["prev"] = flash] /\ flash' = flash /\ job' = job /\ pc = "backup2"
          /\ ops' = IF sd["sum"] = Absent THEN Delete("prevsum") ELSE Copy("sum", "prevsum")
      BY <1>6 DEF FpgaBackupDone, FpgaFlashRead, Goto, At
    <2>2. Card'
      BY <1>0, <2>1, CardWrite DEF Files, Holds
    <2>3. Only(Delete("prevsum"), {"prevsum"})
      BY DeleteQueue DEF Files
    <2>4. Holds("prevsum", sd["sum"])
      BY <1>0 DEF Card, Holds, Files
    <2>5. Only(Copy("sum", "prevsum"), {"prevsum"})
      BY <2>4, FillQueue DEF Copy, Files
    <2>6. Only(ops', {"prevsum"})
      BY <2>1, <2>3, <2>5
    <2> QED BY <1>0, <2>1, <2>2, <2>6, MoreQueue
  <1> QED BY <1>1, <1>2, <1>3, <1>4, <1>5, <1>6 DEF Flashing

LEMMA CopyingQueue ==
  ASSUME Whole, Typed, Copying
  PROVE  /\ Card' /\ flash' = flash
         /\ Only(ops', TryFiles \cup {"update", "card", "failed"})
         /\ \/ Only(ops', {"failed"})
            \/ Finish /\ Only(ops', {"marker", "try", "update", "card"})
            \/ Rename /\ Only(ops', TryFiles)
         /\ pc' \notin {"backup", "backup2", "flash", "program"}
  <1>0. Card
    BY DEF Typed
  <1>1. CASE NoKernel \/ Verify
    BY <1>0, <1>1, CardKept, EmptyQueue, MoreQueue DEF NoKernel, Verify, Goto
  <1>2. CASE CopyOpen \/ CopyWrite
    <2>1. PICK v \in {Partial, job.k} : sd' = [sd EXCEPT !["new"] = v]
      BY <1>2 DEF CopyOpen, CopyWrite
    <2>2. pc = "copy" => job.k \in Kernels
      BY DEF Whole, Installing
    <2>3. v \in Kernels \cup {Partial}
      BY <1>2, <2>1, <2>2, JobKernel DEF CopyOpen, CopyWrite, At, Whole
    <2>4. Card'
      BY <1>0, <2>1, <2>3, CardWrite DEF Files, Holds
    <2> QED BY <1>2, <2>4, EmptyQueue, MoreQueue DEF CopyOpen, CopyWrite, Goto
  <1>3. CASE VerifyFails \/ CopyFails
    <2>1. JobFails /\ sd' = [sd EXCEPT !["new"] = Absent] /\ flash' = flash
      BY <1>3 DEF VerifyFails, CopyFails
    <2>2. Card'
      BY <1>0, <2>1, CardWrite, HoldsAbsent DEF Files
    <2> QED BY <2>1, <2>2, FailQueue, FailingJob, MoreQueue
  <1>4. CASE Replace
    <2>1. PICK f \in {"try", "stable"} : sd' = [sd EXCEPT ![f] = Absent]
      BY <1>4 DEF Replace, Target
    <2>2. Card'
      BY <1>0, <2>1, CardWrite, HoldsAbsent DEF Files
    <2> QED BY <1>4, <2>2, EmptyQueue, MoreQueue DEF Replace, Goto
  <1>5. CASE Rename
    <2>1. PICK f \in {"try", "stable"} : sd' = [sd EXCEPT ![f] = sd["new"], !["new"] = Absent]
      BY <1>5 DEF Rename, Target
    <2>2. Card'
      BY <1>0, <2>1 DEF Card, Files, Holds
    <2>3. ops' = <<>> \/ ops' = Delete("marker") \o Delete("try") \o Delete("prev") \o Delete("prevsum")
      BY <1>5 DEF Rename, Goto
    <2>4. Only(ops', TryFiles)
      <3>1. Only(<<>>, TryFiles)
        BY EmptyQueue, MoreQueue
      <3> QED BY <2>3, <3>1, DeleteTry
    <2> QED BY <1>5, <2>2, <2>4, MoreQueue DEF Rename, Goto
  <1>6. CASE Finish
    <2>1. PICK build \in {job.k, None} :
             ops' = (IF job.try THEN ab_write_marker(0, job.k, build) ELSE Delete("marker") \o Delete("try"))
                    \o Delete(PackageFile(job.kind))
      BY <1>6 DEF Finish, Goto
    <2>2. Only(ab_write_marker(0, job.k, build), {"marker", "try"})
      <3>1. Only(ab_write_marker(0, job.k, build), {"marker"})
        BY JobKernel, MarkerQueue DEF Whole
      <3> QED BY <3>1, MoreQueue
    <2>3. Only(Delete("marker") \o Delete("try"), {"marker", "try"})
      BY DeleteTwo DEF Files
    <2>4. PICK f \in {"card", "update"} : f = PackageFile(job.kind)
      BY DEF PackageFile
    <2>5. Only(Delete(f), {"card", "update"})
      BY DeleteQueue, MoreQueue DEF Files
    <2>6. Only(ops', {"marker", "try"} \cup {"card", "update"})
      BY <2>1, <2>2, <2>3, <2>4, <2>5, CatQueue
    <2>7. Only(ops', TryFiles \cup {"update", "card", "failed"})
      BY <2>6, MoreQueue DEF TryFiles
    <2>8. Card' /\ flash' = flash /\ pc' = "reboot"
      BY <1>0, <1>6, CardKept DEF Finish, Goto
    <2>9. Only(ops', {"marker", "try", "update", "card"})
      BY <2>6, MoreQueue
    <2> QED BY <1>6, <2>7, <2>8, <2>9
  <1>7. CASE Reboot
    BY <1>0, <1>7, CardKept, EmptyQueue, MoreQueue DEF Reboot, pi_reboot, Stop
  <1> QED BY <1>1, <1>2, <1>3, <1>4, <1>5, <1>6, <1>7 DEF Copying

LEMMA RequestsQueue ==
  ASSUME Whole, Typed, Resolve \/ Upload \/ PowerLoss \/ User
  PROVE  /\ Card' /\ flash' = flash
         /\ RunUpdate \/ Only(ops', {"update", "stable", "marker", "try"})
         /\ Upload \/ fw => Only(ops', {"update", "stable"})
         /\ Only(ops', {"update", "stable", "marker", "try", "sum"})
         /\ pc' \in {"backup", "backup2", "flash", "program"} => job'.b \in Bits
  <1>0. Card /\ sd' = sd /\ flash' = flash /\ Card'
    <2>1. sd' = sd /\ flash' = flash
      BY DEF Resolve, User, Promote, PromoteByHand, HeldBack, Upload, fw, FileReceive, PowerLoss, UserReboot,
          pi_reboot, Stop, RunUpdate, Update, Discard, FpgaFlash, ab_promote
    <2> QED BY <2>1, CardKept DEF Typed
  <1>01. ASSUME Upload \/ fw PROVE Only(ops', {"update", "stable"})
    <2>1. PICK f \in {"update", "stable"} : \E v : Holds(f, v) /\ ops' = Write(f, v)
      <3>1. ASSUME NEW p \in Packages PROVE Holds("update", p) /\ Holds("update", Partial)
        BY DEF Holds
      <3>2. ASSUME NEW k \in Kernels PROVE Holds("stable", k)
        BY DEF Holds
      <3>3. Holds("update", Partial)
        BY DEF Holds
      <3> QED BY <1>01, <3>1, <3>2, <3>3 DEF Upload, fw, FileReceive, Goto
    <2>2. Only(ops', {f})
      BY <2>1, FillQueue DEF Files
    <2> QED BY <2>2, MoreQueue
  <1>1. CASE RunUpdate
    <2>1. PICK bTry \in BOOLEAN, bForce \in BOOLEAN : Update("update", bTry, bForce)
      BY <1>1 DEF RunUpdate
    <2>2. pc' \in {"kernel", "backup", "flash"} /\ Only(ops', {"sum"}) /\ (pc' \in {"backup", "flash"} => job'.b \in Bits)
      BY <2>1, UpdateJob, UpdateQueue
    <2>3. Only(ops', {"update", "stable", "marker", "try", "sum"})
      BY <2>2, MoreQueue
    <2> QED BY <1>0, <1>01, <1>1, <2>2, <2>3
  <1>2. CASE FpgaFlash
    <2>1. PICK b \in Bitstreams : job' = [Idle EXCEPT !.kind = "console", !.b = b]
      BY <1>2 DEF FpgaFlash
    <2>2. job'.b = b
      BY <2>1 DEF Idle
    <2>3. Only(ops', {"update", "stable", "marker", "try"})
      <3>1. ops' = <<>>
        BY <1>2 DEF FpgaFlash, Goto
      <3> QED BY <3>1, EmptyQueue, MoreQueue
    <2>4. Only(ops', {"update", "stable", "marker", "try", "sum"})
      BY <2>3, MoreQueue
    <2> QED BY <1>0, <1>01, <2>2, <2>3, <2>4 DEF Bits
  <1>3. CASE Resolve \/ Upload \/ PowerLoss \/ fw \/ PromoteByHand \/ Discard \/ UserReboot
    <2>1. pc' \notin {"backup", "backup2", "flash", "program"}
      BY <1>3 DEF Resolve, Promote, PromoteByHand, HeldBack, Upload, fw, FileReceive, PowerLoss, UserReboot,
          pi_reboot, Stop, Discard, ab_promote, Goto
    <2>2. Only(ops', {"update", "stable", "marker", "try"})
      <3>1. CASE Upload \/ fw
        BY <1>01, <3>1, MoreQueue
      <3>2. CASE HeldBack \/ Discard
        <4>1. ops' = Delete("marker") \o Delete("try")
          BY <3>2 DEF HeldBack, Discard, Goto
        <4> QED BY <4>1, DeleteTwo, MoreQueue DEF Files
      <3>3. CASE Promote \/ PromoteByHand \/ PowerLoss \/ UserReboot
        <4>1. ops' = <<>>
          BY <3>3 DEF Promote, PromoteByHand, PowerLoss, UserReboot, pi_reboot, Stop, ab_promote, Goto
        <4> QED BY <4>1, EmptyQueue, MoreQueue
      <3> QED BY <1>3, <3>1, <3>2, <3>3 DEF Resolve
    <2>3. Only(ops', {"update", "stable", "marker", "try", "sum"})
      BY <2>2, MoreQueue
    <2> QED BY <1>0, <1>01, <2>1, <2>2, <2>3
  <1> QED BY <1>01, <1>1, <1>2, <1>3 DEF User


\* The flags and counters of the state.
Counts == /\ run \in Kernels \cup {None} /\ arm \in BOOLEAN /\ tryboot \in BOOLEAN
          /\ faults \in 0..MaxFaults /\ acts \in 0..MaxActs

LEMMA FaultsStep == ASSUME [Next]_vars PROVE faults' = faults \/ Fault
  BY DEF Next, Core0, SdStep, Startup, Boot, fpga_version_fixup, NoFixup, ab_boot_check, Provision, Update,
      Flashing, FpgaNoChip, FpgaErase, FpgaProgram, FpgaVerifyFails, FpgaRestorePrev,
      FpgaBackupOpen, FpgaBackupDone, FpgaBackupFails,
      Copying, NoKernel, CopyOpen, CopyWrite, Verify, VerifyFails, Replace, Rename, CopyFails, Finish, Reboot,
      pi_reboot, Resolve, Promote, HeldBack, ab_promote, Upload, FileReceive, PowerLoss,
      User, RunUpdate, fw, PromoteByHand, Discard, FpgaFlash, UserReboot

LEMMA CountsStep == ASSUME Whole, Counts, [Next]_vars PROVE Counts'
  <1>2. acts' = acts \/ (acts < MaxActs /\ acts' = acts + 1)
    BY DEF Next, Core0, Resolve
  <1>3. faults' \in 0..MaxFaults /\ acts' \in 0..MaxActs
    BY <1>2, FaultsStep, FirmwareAssumption DEF Counts, Fault
  <1>4. (run' = run /\ tryboot' = tryboot) \/ Boot \/ PowerLoss \/ Reboot \/ UserReboot
    BY DEF Next, Core0, SdStep, Startup, fpga_version_fixup, NoFixup, ab_boot_check, Provision, Update,
        Flashing, FpgaNoChip, FpgaErase, FpgaProgram, FpgaVerifyFails, FpgaRestorePrev,
        FpgaBackupOpen, FpgaBackupDone, FpgaBackupFails,
        Copying, NoKernel, CopyOpen, CopyWrite, Verify, VerifyFails, Replace, Rename, CopyFails, Finish, Reboot,
        pi_reboot, Resolve, Promote, HeldBack, ab_promote, Upload, FileReceive, PowerLoss,
        User, RunUpdate, fw, PromoteByHand, Discard, FpgaFlash, UserReboot
  <1>5. run' \in Kernels \cup {None} /\ tryboot' \in BOOLEAN
    <2>1. job.try \in BOOLEAN
      BY DEF Whole, Jobs
    <2>2. CASE Boot
      BY <2>2 DEF Boot
    <2>3. CASE PowerLoss \/ Reboot \/ UserReboot
      BY <2>1, <2>3 DEF PowerLoss, Reboot, UserReboot, pi_reboot, Stop
    <2> QED BY <1>4, <2>2, <2>3 DEF Counts
  <1>6. arm' \in {arm, TRUE, FALSE}
    BY DEF Next, Core0, SdStep, Startup, Boot, fpga_version_fixup, NoFixup, ab_boot_check, Provision, Update,
        Flashing, FpgaNoChip, FpgaErase, FpgaProgram, FpgaVerifyFails, FpgaRestorePrev,
        FpgaBackupOpen, FpgaBackupDone, FpgaBackupFails,
        Copying, NoKernel, CopyOpen, CopyWrite, Verify, VerifyFails, Replace, Rename, CopyFails, Finish, Reboot,
        pi_reboot, Resolve, Promote, HeldBack, ab_promote, Upload, FileReceive, PowerLoss, Stop,
        User, RunUpdate, fw, PromoteByHand, Discard, FpgaFlash, UserReboot
  <1> QED BY <1>3, <1>5, <1>6 DEF Counts

LEMMA TypedStep == ASSUME Whole, Typed, [Next]_vars PROVE Typed'
  <1>0. Card /\ Counts /\ Counts'
    BY CountsStep DEF Typed, Counts
  <1>1. ASSUME Card', Queued(ops'), flash' \in Bits, pc' \in {"backup", "backup2", "flash", "program"} => job'.b \in Bits
        PROVE  Typed'
    BY <1>0, <1>1 DEF Typed, Counts, Queued, Sound, Filled
  <1>2. CASE SdStep
    BY <1>0, <1>1, <1>2, SdStepDoes DEF Typed, SdStep
  <1>3. CASE Startup
    <2>1. Update("provision", FALSE, FALSE) => (pc' \in {"backup", "flash"} => job'.b \in Bits) /\ pc' \in {"kernel", "backup", "flash"}
      BY UpdateQueue, UpdateJob
    <2> QED BY <1>0, <1>1, <1>3, <2>1, StartupQueue, CardKept DEF Typed, Only
  <1>4. CASE Flashing
    BY <1>1, <1>4, FlashingQueue DEF Only
  <1>5. CASE Copying
    BY <1>1, <1>5, CopyingQueue DEF Only, Typed
  <1>6. CASE Resolve \/ Upload \/ PowerLoss \/ User
    BY <1>1, <1>6, RequestsQueue DEF Only, Typed
  <1>7. CASE UNCHANGED vars
    BY <1>0, <1>1, <1>7, CardKept DEF Typed
  <1> QED BY <1>2, <1>3, <1>4, <1>5, <1>6, <1>7 DEF Next, Core0

LEMMA TypedInit == ASSUME Init PROVE Typed
  <1>1. PICK i \in Installed, p \in Packages :
          \/ /\ sd = [[f \in Files |-> Absent] EXCEPT !["stable"] = i.k, !["sum"] = i.b]
             /\ flash = i.b
          \/ /\ sd = [[f \in Files |-> Absent] EXCEPT !["stable"] = i.k, !["card"] = p]
             /\ flash \in Bitstreams \cup {Junk}
    BY DEF Init
  <1>2. i.k \in Kernels /\ i.b \in Bitstreams
    BY FirmwareAssumption
  <1>3. Card
    BY <1>1, <1>2 DEF Card, Files, Holds, Bits
  <1>4. Queued(ops)
    BY EmptyQueue DEF Init, Only
  <1>5. pc = "off" /\ flash \in Bits
    BY <1>1, <1>2 DEF Init, Bits
  <1>6. Counts
    <2>1. 0 \in 0..MaxFaults /\ 0 \in 0..MaxActs
      BY FirmwareAssumption
    <2> QED BY <2>1 DEF Init, Counts
  <1> QED BY <1>3, <1>4, <1>5, <1>6 DEF Typed, Counts

LEMMA TypedTypes == ASSUME Whole, Typed PROVE TypeOK
  BY DEF Whole, Typed, Card, Files, Holds, Bits, TypeOK

\* The files, the flash and the job in progress have their types, whatever the card
\* refuses and wherever the power goes.
THEOREM TypeCorrect == Spec => []TypeOK
  BY WholeInit, WholeStep, TypedInit, TypedStep, TypedTypes, PTL DEF Spec

-----------------------------------------------------------------------------
(***************************************************************************)
(* What is promoted.  ab_boot_check arms the promotion when the marker was *)
(* never counted and its build string is that of the kernel running, which *)
(* is then the try kernel, for the stable one would have ended the try; or *)
(* when no build string is there to tell, and then the marker it writes    *)
(* has none either.  The kernel in the try slot stays until the promotion: *)
(* a new try install goes from its rename to the reboot without it.        *)
(***************************************************************************)
Untold(v) == v \in {Absent, Partial} \/ v.build = None
Wild == Untold(sd["marker"]) /\ \A i \in 1..Len(ops) : ops[i].file = "marker" => Untold(ops[i].as)

Tried == arm /\ sd["try"] \in Kernels /\ pc \notin {"finish", "reboot"} => sd["try"] = run \/ Wild

AtBoot ==
    /\ pc \in {"off", "boot", "abcheck"} => ~arm
    /\ pc \in {"boot", "abcheck"} =>
          run \in {sd["try"], sd["stable"]} \cap Kernels /\ \A i \in 1..Len(ops) : ops[i].file = "sum"

Promoted ==
    Promoting => /\ pc \in {"kernel"} \cup Installing /\ ops = <<>> /\ ~arm /\ job.k \in Kernels
                 /\ job.kind = "promote" => job.k = run \/ Untold(sd["marker"])

RanInv == Whole /\ Typed /\ Tried /\ AtBoot /\ Promoted

LEMMA RanInit == ASSUME Init, Whole, Typed PROVE RanInv
  BY NoJob DEF Init, RanInv, Tried, AtBoot, Promoted, Promoting

\* What is left to be done was to be done before.
LEMMA SdStepLeft ==
  ASSUME Queued(ops), SdStep
  PROVE  /\ \A i \in 1..Len(ops') : \E j \in 1..Len(ops) : ops'[i] = ops[j]
         /\ Head(ops) = ops[1] /\ 1 \in 1..Len(ops) /\ Sound(Head(ops)) /\ Head(ops).file \in Files
  <1>1. /\ Queued(Tail(ops)) /\ Len(Tail(ops)) = Len(ops) - 1 /\ Len(ops) \in Nat \ {0}
        /\ \A i \in 1..Len(Tail(ops)) : Tail(ops)[i] = ops[i + 1] /\ i + 1 \in 1..Len(ops)
        /\ Head(ops).do = "create" => Tail(ops) # <<>>
        /\ Head(ops) = ops[1] /\ Sound(Head(ops)) /\ Head(ops) \in SdOps
    BY TailQueue DEF SdStep
  <1>2. ASSUME Tail(ops) # <<>>
        PROVE  \A i \in 1..Len(Tail(Tail(ops))) : Tail(Tail(ops))[i] = Tail(ops)[i + 1] /\ i + 1 \in 1..Len(Tail(ops))
    BY <1>1, <1>2, TailQueue
  <1>3. ops' = Tail(ops) \/ (ops' = Tail(Tail(ops)) /\ Head(ops).do = "create")
    BY DEF SdStep
  <1>4. 1 \in 1..Len(ops) /\ Head(ops).file \in Files
    BY <1>1 DEF SdOps
  <1>5. CASE ops' = Tail(ops)
    BY <1>1, <1>4, <1>5
  <1>6. CASE ops' = Tail(Tail(ops)) /\ Head(ops).do = "create"
    <2>1. ASSUME NEW i \in 1..Len(ops') PROVE \E j \in 1..Len(ops) : ops'[i] = ops[j]
      <3>1. Tail(Tail(ops))[i] = Tail(ops)[i + 1] /\ i + 1 \in 1..Len(Tail(ops))
        BY <1>1, <1>2, <1>6
      <3>2. Tail(ops)[i + 1] = ops[(i + 1) + 1] /\ (i + 1) + 1 \in 1..Len(ops)
        BY <1>1, <3>1
      <3> QED BY <1>6, <3>1, <3>2
    <2> QED BY <1>1, <1>4, <2>1
  <1> QED BY <1>3, <1>5, <1>6

LEMMA RanSdStep == ASSUME RanInv, SdStep PROVE Tried' /\ AtBoot' /\ Promoted'
  <1>0. Card /\ Queued(ops) /\ Absent \notin Kernels
    BY FirmwareAssumption DEF RanInv, Typed
  <1>1. UNCHANGED <<run, arm, pc, job>> /\ ops # <<>>
    BY DEF SdStep
  <1>2. /\ \A i \in 1..Len(ops') : \E j \in 1..Len(ops) : ops'[i] = ops[j]
        /\ Head(ops) = ops[1] /\ 1 \in 1..Len(ops) /\ Sound(Head(ops)) /\ Head(ops).file \in Files
    BY <1>0, SdStepLeft
  <1>3. sd' = sd \/ sd' = [sd EXCEPT ![Head(ops).file] = Head(ops).as]
    BY DEF SdStep
  <1>4. sd'["try"] \in {sd["try"], Absent}
    BY <1>0, <1>2, <1>3 DEF Sound, Card, Files
  <1>5. Wild => Wild'
    BY <1>0, <1>2, <1>3 DEF Wild, Card, Files
  <1>6. Tried'
    BY <1>0, <1>1, <1>4, <1>5 DEF RanInv, Tried
  <1>7. AtBoot'
    <2>1. pc \in {"boot", "abcheck"} => Head(ops).file = "sum"
      BY <1>2 DEF RanInv, AtBoot
    <2>2. pc \in {"boot", "abcheck"} => sd'["try"] = sd["try"] /\ sd'["stable"] = sd["stable"]
      BY <1>0, <1>3, <2>1 DEF Card, Files
    <2> QED BY <1>1, <1>2, <2>2 DEF RanInv, AtBoot
  <1>8. Promoted'
    BY <1>1 DEF RanInv, Promoted, Promoting
  <1> QED BY <1>6, <1>7, <1>8

LEMMA WildKept ==
  ASSUME Wild, NEW F, Only(ops', F), "marker" \notin F, sd'["marker"] = sd["marker"] PROVE Wild'
  BY DEF Wild, Only

\* The marker the boot writes carries the build string it found.
LEMMA MarkerUntold ==
  ASSUME NEW n, NEW k, NEW i \in 1..Len(ab_write_marker(n, k, None))
  PROVE  Untold(ab_write_marker(n, k, None)[i].as)
  <1> DEFINE m == [count |-> n, k |-> k, build |-> None]
  <1>1. m.build = None
    OBVIOUS
  <1> HIDE DEF m
  <1>2. ab_write_marker(n, k, None) = <<Op("create", "marker", Partial), Op("fill", "marker", m)>>
    BY DEF ab_write_marker, Write, m
  <1>3. i \in 1..2
    BY <1>2
  <1> QED BY <1>1, <1>2, <1>3 DEF Op, Untold

LEMMA RanStartup == ASSUME RanInv, Startup PROVE Tried' /\ AtBoot' /\ Promoted'
  <1>0. Typed /\ Card
    BY DEF RanInv, Typed
  <1>1. CASE Boot
    <2>1. arm' = arm /\ job' = job /\ sd' = sd /\ pc = "off" /\ pc' = "boot" /\ ops' = <<>>
      BY <1>1 DEF Boot, Goto
    <2>2. run' \in {sd["try"], sd["stable"]} \cap Kernels
      BY <1>1 DEF Boot
    <2> QED BY <2>1, <2>2 DEF RanInv, Tried, AtBoot, Promoted, Promoting, Installing
  <1>2. CASE fpga_version_fixup \/ NoFixup
    <2>1. UNCHANGED <<sd, run, arm, job>> /\ pc = "boot" /\ pc' = "abcheck"
      BY <1>2 DEF fpga_version_fixup, NoFixup, Goto, At
    <2>2. Only(ops', {"sum"})
      BY <1>0, <1>2, StartupQueue
    <2> QED BY <2>1, <2>2 DEF RanInv, Tried, AtBoot, Promoted, Installing, Promoting, Only
  <1>3. CASE ab_boot_check
    <2>1. /\ UNCHANGED <<sd, run>> /\ pc = "abcheck" /\ pc' \in {"provision", "restore"}
          /\ job' = job \/ job' = [Idle EXCEPT !.kind = "rollback"]
      BY <1>3 DEF ab_boot_check, Goto, At
    <2>2. ~Promoting /\ ~Promoting' /\ ~arm
      BY <2>1, JobNamed DEF RanInv, Promoted, AtBoot, Installing, Promoting
    <2>3. ASSUME arm' PROVE Tried'
      <3>1. /\ sd["marker"] # Absent /\ TryBoot(Marker)
            /\ ops' = ab_write_marker(Marker.count + 1, Marker.k, Marker.build)
        BY <1>3, <2>2, <2>3 DEF ab_boot_check, Goto
      <3>2. /\ Marker.build \in {Marker.k, None} /\ Marker.count \in {0, 1}
            /\ Marker = sd["marker"] \/ sd["marker"] = Partial
        BY <1>0, <3>1, MarkerRead
      <3>3. CASE Marker.build = None
        <4>1. Untold(sd["marker"])
          BY <3>2, <3>3 DEF Untold
        <4>2. \A i \in 1..Len(ops') : Untold(ops'[i].as)
          BY <3>1, <3>3, MarkerUntold
        <4> QED BY <2>1, <4>1, <4>2 DEF Tried, Wild
      <3>4. CASE Marker.build # None
        <4>1. Marker.count = 0
          BY <3>1, <3>2 DEF TryBoot
        <4>2. Marker.build = run /\ Marker.k = run
          BY <3>1, <3>2, <3>4, <4>1 DEF TryBoot, NeverBooted
        <4>3. run # sd["stable"]
          BY <2>1, <3>1, <4>2 DEF TryBoot, AlreadyStable, file_sum_path, RanInv, AtBoot
        <4> QED BY <2>1, <4>3 DEF RanInv, AtBoot, Tried
      <3> QED BY <3>3, <3>4
    <2>4. arm' \/ Tried'
      BY DEF Tried
    <2> QED BY <2>1, <2>2, <2>3, <2>4 DEF AtBoot, Promoted, Promoting
  <1>4. CASE Provision
    <2>1. UNCHANGED <<sd, run, arm>> /\ pc = "provision" /\ pc' \in {"main", "kernel", "backup", "flash"}
      BY <1>4 DEF Provision, Update, Goto, At
    <2>2. job' = job \/ job'.kind = "provision"
      BY <1>4, UpdateJob DEF Provision
    <2>3. ~Promoting /\ ~Promoting'
      BY <2>1, <2>2 DEF RanInv, Promoted, Installing, Promoting
    <2>4. Wild => Wild'
      BY <1>0, <1>4, <2>1, StartupQueue, WildKept
    <2> QED BY <2>1, <2>3, <2>4 DEF RanInv, Tried, AtBoot, Promoted
  <1> QED BY <1>1, <1>2, <1>3, <1>4 DEF Startup

LEMMA RanFlashing == ASSUME RanInv, Flashing PROVE Tried' /\ AtBoot' /\ Promoted'
  <1>0. Whole /\ Typed /\ Card
    BY DEF RanInv, Typed
  <1>1. /\ sd'["try"] = sd["try"] /\ sd'["marker"] = sd["marker"] /\ UNCHANGED <<run, arm>>
        /\ pc \in {"backup", "backup2", "flash", "program", "restore"}
    BY <1>0 DEF Flashing, FpgaNoChip, FpgaErase, FpgaProgram, FpgaVerifyFails, FpgaRestorePrev,
        FpgaBackupOpen, FpgaBackupDone, FpgaBackupFails, At, Card, Files
  <1>2. pc' \notin {"off", "boot", "abcheck"}
    BY <1>0, <1>1, FailingJob DEF Flashing, FpgaNoChip, FpgaErase, FpgaProgram, FpgaEnd, FpgaVerifyFails,
        FpgaRestorePrev, FpgaBackupOpen, FpgaBackupDone, FpgaBackupFails, At, Goto, Whole, Flashers
  <1>3. job' \in {job, Idle} \/ job'.kind = job.kind
    <2>1. CASE FpgaRestorePrev /\ ~JobFails
      <3>1. PICK b \in Bits : job' = [job EXCEPT !.b = b]
        BY <2>1 DEF FpgaRestorePrev, Bits
      <3> QED BY <1>0, <3>1, RestoreJob DEF Bits, Whole
    <2>2. CASE JobFails
      BY <2>2, FailingJob
    <2>3. CASE FpgaProgram
      BY <1>0, <2>3 DEF FpgaProgram, FpgaEnd, Whole, Flashers, At
    <2> QED BY <2>1, <2>2, <2>3 DEF Flashing, FpgaNoChip, FpgaErase, FpgaVerifyFails,
          FpgaRestorePrev, FpgaBackupOpen, FpgaBackupDone, FpgaBackupFails, At, Goto
  <1>4. ~Promoting'
    BY <1>1, <1>3, NoJob DEF RanInv, Promoted, Promoting, Installing
  <1>5. Wild => Wild'
    BY <1>0, <1>1, FlashingQueue, WildKept
  <1> QED BY <1>1, <1>2, <1>4, <1>5 DEF RanInv, Tried, AtBoot, Promoted

LEMMA RanCopying == ASSUME RanInv, Copying PROVE Tried' /\ AtBoot' /\ Promoted'
  <1>0. Whole /\ Typed /\ Card /\ Absent \notin Kernels /\ None \notin Kernels
    BY FirmwareAssumption DEF RanInv, Typed
  <1> USE DEF At, Goto
  <1>1. CASE NoKernel
    <2>1. UNCHANGED <<job, sd, run, arm>> /\ pc' = "finish" /\ job.k = None
      BY <1>1 DEF NoKernel
    <2> QED BY <1>0, <2>1 DEF RanInv, Tried, AtBoot, Promoted, Promoting
  <1>2. CASE CopyOpen \/ CopyWrite \/ Verify \/ Replace
    <2>1. /\ UNCHANGED <<job, run, arm>> /\ ops' = <<>> /\ pc \in {"kernel"} \cup Installing
          /\ pc' \in Installing
          /\ sd'["marker"] = sd["marker"] /\ sd'["try"] \in {sd["try"], Absent}
      BY <1>0, <1>2 DEF CopyOpen, CopyWrite, Verify, Replace, Target, Card, Files, Installing
    <2>2. Wild => Wild'
      BY <2>1, EmptyQueue, WildKept
    <2> QED BY <1>0, <2>1, <2>2 DEF RanInv, Tried, AtBoot, Promoted, Promoting, Installing
  <1>3. CASE Rename
    <2>1. /\ pc = "rename" /\ UNCHANGED <<run, arm>>
          /\ IF Promoting THEN pc' = "main" /\ job' = Idle ELSE pc' = "finish" /\ job' = job
      BY <1>3 DEF Rename
    <2>2. CASE Promoting
      BY <2>1, <2>2, NoJob DEF RanInv, Tried, AtBoot, Promoted, Promoting
    <2>3. CASE ~Promoting
      BY <2>1, <2>3 DEF RanInv, Tried, AtBoot, Promoted, Promoting
    <2> QED BY <2>2, <2>3
  <1>4. CASE VerifyFails \/ CopyFails
    <2>1. /\ JobFails /\ UNCHANGED <<run, arm>> /\ pc \in {"kernel"} \cup Installing
          /\ sd'["marker"] = sd["marker"] /\ sd'["try"] = sd["try"]
      BY <1>0, <1>4 DEF VerifyFails, CopyFails, Card, Files, Installing
    <2>2. job' = Idle \/ (job' = job /\ ~Promoting)
      BY <2>1 DEF JobFails, Keep, Promoting
    <2>3. ~Promoting' /\ pc' \notin {"off", "boot", "abcheck"}
      BY <2>1, <2>2, FailingJob, NoJob DEF Promoting
    <2>4. Wild => Wild'
      BY <2>1, FailQueue, WildKept
    <2> QED BY <2>1, <2>3, <2>4 DEF RanInv, Tried, AtBoot, Promoted, Installing
  <1>5. CASE Finish
    <2>1. UNCHANGED job /\ pc = "finish" /\ pc' = "reboot"
      BY <1>5 DEF Finish
    <2> QED BY <2>1 DEF RanInv, Tried, AtBoot, Promoted, Promoting, Installing
  <1>6. CASE Reboot
    BY <1>6, NoJob DEF Reboot, pi_reboot, Stop, Tried, AtBoot, Promoted, Promoting
  <1> QED BY <1>1, <1>2, <1>3, <1>4, <1>5, <1>6 DEF Copying

LEMMA RanRequests ==
  ASSUME RanInv, Resolve \/ Upload \/ PowerLoss \/ User PROVE Tried' /\ AtBoot' /\ Promoted'
  <1>0. Whole /\ Typed /\ Card
    BY DEF RanInv, Typed
  <1> USE DEF At, Goto, Serving
  <1>1. ASSUME NEW kind \in {"promote", "abp"}, Serving, ab_promote(kind), kind = "promote" => arm
        PROVE  Tried' /\ AtBoot' /\ Promoted'
    <2>1. ~arm' /\ UNCHANGED <<sd, run>> /\ pc = "main" /\ pc' \in {"main", "kernel"} /\ ops' = <<>>
      BY <1>1 DEF ab_promote
    <2>2. CASE sd["try"] \in Kernels
      <3>1. job' = [Idle EXCEPT !.kind = kind, !.k = sd["try"]] /\ pc' = "kernel"
        BY <1>1, <2>2 DEF ab_promote
      <3>2. job'.kind = kind /\ job'.k = sd["try"]
        BY <3>1 DEF Idle
      <3>3. kind = "promote" => sd["try"] = run \/ Untold(sd["marker"])
        BY <1>1, <2>1, <2>2 DEF RanInv, Tried, Wild
      <3> QED BY <2>1, <2>2, <3>1, <3>2, <3>3 DEF Tried, AtBoot, Promoted
    <2>3. CASE sd["try"] \notin Kernels
      <3>1. job' = job /\ pc' = "main"
        BY <1>1, <2>3 DEF ab_promote
      <3> QED BY <2>1, <3>1 DEF RanInv, Tried, AtBoot, Promoted, Promoting, Installing
    <2> QED BY <2>2, <2>3
  <1>2. CASE Promote \/ PromoteByHand
    BY <1>1, <1>2 DEF Promote, PromoteByHand
  <1>3. CASE HeldBack \/ Discard
    <2>1. ~arm' /\ pc = "main" /\ pc' \in {"main", "restore"}
      BY <1>3 DEF HeldBack, Discard
    <2>2. job' = job \/ job' = [Idle EXCEPT !.kind = "heldback"]
      BY <1>3 DEF HeldBack, Discard
    <2>3. ~Promoting'
      BY <2>1, <2>2, JobNamed DEF RanInv, Promoted, Promoting, Installing
    <2> QED BY <2>1, <2>3 DEF Tried, AtBoot, Promoted
  <1>4. CASE Upload \/ fw
    <2>1. UNCHANGED <<sd, run, arm, job>> /\ pc = "main" /\ pc' = "main"
      BY <1>4 DEF Upload, fw, FileReceive
    <2>2. Wild => Wild'
      BY <1>0, <1>4, <2>1, RequestsQueue, WildKept DEF User
    <2> QED BY <2>1, <2>2 DEF RanInv, Tried, AtBoot, Promoted, Promoting, Installing
  <1>5. CASE PowerLoss \/ UserReboot
    BY <1>5, NoJob DEF PowerLoss, UserReboot, pi_reboot, Stop, Tried, AtBoot, Promoted, Promoting
  <1>6. CASE RunUpdate \/ FpgaFlash
    <2>1. UNCHANGED <<sd, run, arm>> /\ pc = "main" /\ pc' \in {"kernel", "backup", "flash"}
      BY <1>6 DEF RunUpdate, FpgaFlash, Update
    <2>2. job'.kind \in {"update", "console"}
      BY <1>6, UpdateJob DEF RunUpdate, FpgaFlash, Idle
    <2>3. Wild => Wild'
      <3>1. Only(ops', {"sum"})
        <4>1. Only(<<>>, {"sum"})
          BY EmptyQueue, MoreQueue
        <4> QED BY <1>6, <4>1, UpdateQueue DEF RunUpdate, FpgaFlash
      <3> QED BY <2>1, <3>1, WildKept
    <2> QED BY <2>1, <2>2, <2>3 DEF RanInv, Tried, AtBoot, Promoted, Promoting
  <1> QED BY <1>2, <1>3, <1>4, <1>5, <1>6 DEF Resolve, User

LEMMA RanStep == ASSUME RanInv, [Next]_vars PROVE RanInv'
  <1>1. Whole' /\ Typed'
    BY WholeStep, TypedStep DEF RanInv
  <1>2. CASE UNCHANGED vars
    BY <1>1, <1>2 DEF RanInv, Tried, Wild, AtBoot, Promoted, Promoting
  <1> QED BY <1>1, <1>2, RanSdStep, RanStartup, RanFlashing, RanCopying, RanRequests DEF Next, Core0, RanInv

\* A try kernel is promoted by itself only from a boot it ran, whatever the card
\* refuses, wherever the power goes and whatever is installed over it, unless its
\* marker has no build string to tell (ab_boot_check, ab_promote).
THEOREM PromotedRan == Spec => []PromotesWhatRan
  <1>1. RanInv => PromotesWhatRan
    BY TypedTypes DEF RanInv, Promoted, Promoting, Untold, PromotesWhatRan
  <1>2. Init => RanInv
    BY WholeInit, TypedInit, RanInit
  <1> QED BY <1>1, <1>2, RanStep, PTL DEF Spec

-----------------------------------------------------------------------------
(***************************************************************************)
(* What the note beside the kernel says.  With nothing refused, the note   *)
(* is what the flash holds or about to be written so, except between the   *)
(* erase and the end of the programming; and of a saved bitstream the note *)
(* saved beside it is that bitstream's, or there is none.                  *)
(***************************************************************************)
Elems(s) == {s[i] : i \in 1..Len(s)}

SumNoted ==
    faults = 0 /\ pc # "program" =>
       /\ sd["sum"] \in {flash, Absent} \/ (ops # <<>> /\ ops[1].file = "sum" /\ ops[1].do # "delete")
       /\ \A op \in Elems(ops) : op.file = "sum" => op.do # "delete" /\ (op.do = "fill" => op.as = flash)

PrevNoted ==
    faults = 0 /\ sd["prev"] \in Bits =>
       /\ sd["prevsum"] \in {sd["prev"], Absent} \/ (ops # <<>> /\ ops[1].file = "prevsum")
       /\ \A op \in Elems(ops) : op.file = "prevsum" /\ op.do = "fill" => op.as = sd["prev"]

Restoring ==
    /\ pc \in {"flash", "program"} /\ job.kind \in {"rollback", "heldback"} => ops = <<>> /\ job.b = sd["prev"]
    /\ pc \in {"backup", "backup2"} => job.kind \in {"update", "provision"}
    /\ pc = "off" => ops = <<>>

SumInv == Whole /\ Typed /\ SumNoted /\ PrevNoted /\ Restoring

LEMMA ElemsEmpty == Elems(<<>>) = {}
  BY DEF Elems

LEMMA ElemsCat ==
  ASSUME NEW s \in Seq(SdOps), NEW t \in Seq(SdOps) PROVE Elems(s \o t) \subseteq Elems(s) \cup Elems(t)
  <1>1. /\ s \o t \in Seq(SdOps) /\ Len(s \o t) = Len(s) + Len(t) /\ Len(s) \in Nat /\ Len(t) \in Nat
        /\ \A i \in 1..Len(s) : (s \o t)[i] = s[i]
        /\ \A i \in Len(s) + 1..Len(s) + Len(t) : (s \o t)[i] = t[i - Len(s)]
    OBVIOUS
  <1>2. ASSUME NEW i \in 1..Len(s \o t) PROVE (s \o t)[i] \in Elems(s) \cup Elems(t)
    <2>1. CASE i \in 1..Len(s)
      BY <1>1, <2>1 DEF Elems
    <2>2. CASE i \in Len(s) + 1..Len(s) + Len(t)
      <3>1. i - Len(s) \in 1..Len(t)
        BY <1>1, <2>2
      <3> QED BY <1>1, <2>2, <3>1 DEF Elems
    <2> QED BY <1>1, <2>1, <2>2
  <1> QED BY <1>2 DEF Elems

LEMMA ElemsDelete == ASSUME NEW f, NEW op \in Elems(Delete(f)) PROVE op.do = "delete" /\ op.file = f
  <1>1. PICK i \in 1..Len(Delete(f)) : op = Delete(f)[i]
    BY DEF Elems
  <1> DEFINE d == Op("delete", f, Absent)
  <1>2. d.do = "delete" /\ d.file = f
    BY DEF Op
  <1> HIDE DEF d
  <1>3. Delete(f) = <<d>>
    BY DEF Delete, d
  <1>4. i = 1
    BY <1>3
  <1> QED BY <1>1, <1>2, <1>3, <1>4

LEMMA ElemsWrite ==
  ASSUME NEW f, NEW v
  PROVE  /\ \A op \in Elems(Write(f, v)) : op.file = f /\ op.do # "delete" /\ (op.do = "fill" => op.as = v)
         /\ Write(f, v) # <<>> /\ Write(f, v)[1].file = f /\ Write(f, v)[1].do = "create"
  <1> DEFINE c == Op("create", f, Partial)
             w == Op("fill", f, v)
  <1>1. c.do = "create" /\ c.file = f /\ w.do = "fill" /\ w.file = f /\ w.as = v
    BY DEF Op
  <1> HIDE DEF c, w
  <1>2. Write(f, v) = <<c, w>>
    BY DEF Write, c, w
  <1>3. Elems(Write(f, v)) = {c, w}
    BY <1>2 DEF Elems
  <1> QED BY <1>1, <1>2, <1>3

LEMMA OnlyElems == ASSUME NEW s, NEW F, Only(s, F) PROVE s \in Seq(SdOps) /\ \A op \in Elems(s) : op.file \in F
  BY DEF Only, Queued, Elems

\* The four deletions at the end of a try are nothing else.
LEMMA TryDeletes ==
  \A op \in Elems(Delete("marker") \o Delete("try") \o Delete("prev") \o Delete("prevsum")) : op.do = "delete"
  <1>1. ASSUME NEW f \in Files PROVE Delete(f) \in Seq(SdOps)
    BY DeleteQueue, OnlyElems
  <1>2. /\ Delete("marker") \in Seq(SdOps) /\ Delete("try") \in Seq(SdOps)
        /\ Delete("prev") \in Seq(SdOps) /\ Delete("prevsum") \in Seq(SdOps)
    BY <1>1 DEF Files
  <1> DEFINE s == Delete("marker") \o Delete("try")
             t == s \o Delete("prev")
  <1>3. Elems(s) \subseteq Elems(Delete("marker")) \cup Elems(Delete("try")) /\ s \in Seq(SdOps)
    BY <1>2, ElemsCat
  <1> HIDE DEF s
  <1>4. Elems(t) \subseteq Elems(s) \cup Elems(Delete("prev")) /\ t \in Seq(SdOps)
    BY <1>2, <1>3, ElemsCat
  <1> HIDE DEF t
  <1>5. Elems(t \o Delete("prevsum")) \subseteq Elems(t) \cup Elems(Delete("prevsum"))
    BY <1>2, <1>4, ElemsCat
  <1> QED BY <1>3, <1>4, <1>5, ElemsDelete DEF s, t

LEMMA CatHead ==
  ASSUME NEW s \in Seq(SdOps), NEW t \in Seq(SdOps) PROVE s # <<>> => s \o t # <<>> /\ (s \o t)[1] = s[1]
  <1>1. /\ s \o t \in Seq(SdOps) /\ Len(s \o t) = Len(s) + Len(t) /\ Len(s) \in Nat /\ Len(t) \in Nat
        /\ s # <<>> => Len(s) # 0
        /\ \A i \in 1..Len(s) : (s \o t)[i] = s[i]
    OBVIOUS
  <1>2. s # <<>> => 1 \in 1..Len(s) /\ s \o t # <<>>
    BY <1>1
  <1> QED BY <1>1, <1>2

LEMMA SumInit == ASSUME Init, Whole, Typed PROVE SumInv
  <1>1. ops = <<>> /\ pc = "off" /\ Absent \notin Bits
    BY FirmwareAssumption DEF Init, Bits
  <1>2. sd["sum"] \in {flash, Absent} /\ sd["prev"] = Absent
    BY DEF Init, Files
  <1> QED BY <1>1, <1>2, ElemsEmpty DEF SumInv, SumNoted, PrevNoted, Restoring

\* One ignored operation that is not refused.
LEMMA SumSdStep == ASSUME SumInv, SdStep PROVE SumNoted' /\ PrevNoted' /\ Restoring'
  <1>0. Card /\ Queued(ops) /\ Absent \notin Bits /\ Partial \notin Bits
    BY FirmwareAssumption DEF SumInv, Typed, Bits
  <1>1. UNCHANGED <<flash, pc, job>> /\ ops # <<>>
    BY DEF SdStep
  <1>2. Restoring'
    BY <1>1 DEF SumInv, Restoring
  <1> SUFFICES ASSUME faults' = 0 PROVE SumNoted' /\ PrevNoted'
    BY <1>2 DEF SumNoted, PrevNoted
  <1>3. faults = 0 /\ sd' = [sd EXCEPT ![Head(ops).file] = Head(ops).as] /\ ops' = Tail(ops)
    BY SdStepDoes, <1>0, FirmwareAssumption DEF SumInv, Typed
  <1>4. /\ Head(ops) = ops[1] /\ Sound(Head(ops)) /\ Head(ops).file \in Files /\ Head(ops) \in Elems(ops)
        /\ Elems(ops') \subseteq Elems(ops)
    BY <1>0, SdStepLeft DEF Elems
  <1>5. Head(ops).do \in {"delete", "create", "fill"}
        /\ (Head(ops).do = "create" => ops' # <<>> /\ ops'[1].do = "fill" /\ ops'[1].file = Head(ops).file)
    BY <1>0, <1>1, <1>3, TailQueue DEF SdOps
  <1>6. SumNoted'
    <2> SUFFICES ASSUME pc # "program" PROVE SumNoted'
      BY <1>1 DEF SumNoted
    <2>1. \A op \in Elems(ops) : op.file = "sum" => op.do # "delete" /\ (op.do = "fill" => op.as = flash)
      BY <1>3 DEF SumInv, SumNoted
    <2>2. CASE Head(ops).file = "sum"
      <3>1. Head(ops).do = "fill" => sd'["sum"] = flash
        BY <1>0, <1>3, <1>4, <2>1, <2>2 DEF Card, Files
      <3>2. Head(ops).do # "delete"
        BY <1>4, <2>1, <2>2
      <3> QED BY <1>1, <1>4, <1>5, <2>1, <2>2, <3>1, <3>2 DEF SumNoted
    <2>3. CASE Head(ops).file # "sum"
      <3>1. sd'["sum"] = sd["sum"] /\ sd["sum"] \in {flash, Absent}
        BY <1>0, <1>3, <1>4, <2>3 DEF Card, Files, SumInv, SumNoted
      <3> QED BY <1>1, <1>4, <2>1, <3>1 DEF SumNoted
    <2> QED BY <2>2, <2>3
  <1>7. PrevNoted'
    <2> SUFFICES ASSUME sd'["prev"] \in Bits PROVE PrevNoted'
      BY DEF PrevNoted
    <2>1. Head(ops).file # "prev" /\ sd'["prev"] = sd["prev"]
      BY <1>0, <1>3, <1>4 DEF Card, Files, Sound
    <2>2. \A op \in Elems(ops) : op.file = "prevsum" /\ op.do = "fill" => op.as = sd["prev"]
      BY <1>3, <2>1 DEF SumInv, PrevNoted
    <2>3. CASE Head(ops).file = "prevsum"
      <3>1. sd'["prevsum"] = Head(ops).as
        BY <1>0, <1>3, <1>4, <2>3 DEF Card, Files
      <3>2. CASE Head(ops).do = "create"
        BY <1>4, <1>5, <2>1, <2>2, <2>3, <3>2 DEF PrevNoted
      <3>3. CASE Head(ops).do # "create"
        <4>1. sd'["prevsum"] \in {sd["prev"], Absent}
          BY <1>4, <1>5, <2>2, <2>3, <3>1, <3>3 DEF Sound
        <4> QED BY <1>4, <2>1, <2>2, <4>1 DEF PrevNoted
      <3> QED BY <3>2, <3>3
    <2>4. CASE Head(ops).file # "prevsum"
      <3>1. sd'["prevsum"] = sd["prevsum"] /\ sd["prevsum"] \in {sd["prev"], Absent}
        BY <1>0, <1>3, <1>4, <2>1, <2>4 DEF Card, Files, SumInv, PrevNoted
      <3> QED BY <1>4, <2>1, <2>2, <3>1 DEF PrevNoted
    <2> QED BY <2>3, <2>4
  <1> QED BY <1>6, <1>7

\* A step that leaves the note and the flash alone, or notes what the flash holds.
LEMMA SumAside ==
  ASSUME SumInv, pc # "program", ops = <<>>, sd'["sum"] = sd["sum"], flash' = flash, faults' = 0 => faults = 0,
         faults' = 0 => (\E F : Only(ops', F) /\ "sum" \notin F) \/ ops' = fpga_sum_write(flash)
  PROVE  SumNoted'
  <1> SUFFICES ASSUME faults' = 0 PROVE SumNoted'
    BY DEF SumNoted
  <1>1. sd'["sum"] \in {flash', Absent}
    BY DEF SumInv, SumNoted
  <1>2. \A op \in Elems(ops') : op.file = "sum" => op.do # "delete" /\ (op.do = "fill" => op.as = flash')
    BY OnlyElems, ElemsWrite DEF fpga_sum_write
  <1> QED BY <1>1, <1>2 DEF SumNoted

LEMMA PrevAside ==
  ASSUME SumInv, ops = <<>>, sd'["prev"] \in {sd["prev"], Absent, Partial}, sd'["prevsum"] = sd["prevsum"], faults' = 0 => faults = 0,
         \/ \E F : Only(ops', F) /\ "prevsum" \notin F
         \/ \A op \in Elems(ops') : op.file = "prevsum" => op.do = "delete"
  PROVE  PrevNoted'
  <1> SUFFICES ASSUME faults' = 0, sd'["prev"] \in Bits PROVE PrevNoted'
    BY DEF PrevNoted
  <1>1. sd'["prev"] = sd["prev"]
    BY FirmwareAssumption DEF Bits
  <1>2. sd'["prevsum"] \in {sd'["prev"], Absent}
    BY <1>1 DEF SumInv, PrevNoted
  <1>3. \A op \in Elems(ops') : ~(op.file = "prevsum" /\ op.do = "fill")
    BY OnlyElems
  <1> QED BY <1>2, <1>3 DEF PrevNoted

LEMMA Faulted == ASSUME Typed, Fault PROVE SumNoted' /\ PrevNoted'
  <1>1. faults' # 0
    BY FirmwareAssumption DEF Typed, Fault
  <1> QED BY <1>1 DEF SumNoted, PrevNoted

LEMMA Unfaulted == ASSUME Typed, [Next]_vars, faults' = 0 PROVE faults = 0
  BY FaultsStep, FirmwareAssumption DEF Typed, Fault

\* An update that skips the programming notes again what the flash holds.
LEMMA SumUpdate ==
  ASSUME SumInv, NEW kind \in {"update", "provision"}, NEW bTry \in BOOLEAN, NEW bForce \in BOOLEAN,
         Update(kind, bTry, bForce), [Next]_vars, pc # "program", ops = <<>>
  PROVE  SumNoted' /\ PrevNoted' /\ Restoring'
  <1> DEFINE p == sd[PackageFile(kind)]
             bFpga == p.b # None /\ (bForce \/ ~FpgaSame(p))
  <1>1. p.b \in Bitstreams \cup {None} /\ Absent \notin Bitstreams
    BY FirmwareAssumption DEF Update, vmpu68_vpk_check
  <1>2. /\ ops' = (IF ~bFpga /\ p.b # None THEN fpga_sum_write(p.b) ELSE <<>>)
        /\ UNCHANGED <<sd, flash, faults>>
    BY DEF Update, Goto
  <1>3. ~bFpga /\ p.b # None => sd["sum"] = p.b
    BY DEF FpgaSame
  <1> HIDE DEF bFpga, p
  <1>4. faults = 0 /\ ~bFpga /\ p.b # None => p.b = flash
    BY <1>1, <1>3 DEF SumInv, SumNoted
  <1>5. Only(<<>>, {})
    BY EmptyQueue
  <1>6. SumNoted'
    BY <1>2, <1>4, <1>5, SumAside
  <1>7. PrevNoted'
    <2>1. Only(ops', {"sum"})
      BY UpdateQueue
    <2> QED BY <1>2, <2>1, PrevAside
  <1>8. Restoring'
    BY UpdateJob DEF Restoring
  <1> QED BY <1>6, <1>7, <1>8

LEMMA SumStartup == ASSUME SumInv, Startup, [Next]_vars PROVE SumNoted' /\ PrevNoted' /\ Restoring'
  <1>0. Typed /\ Card /\ UNCHANGED <<sd, flash>> /\ (faults' = 0 => faults = 0)
    BY StartupQueue, Unfaulted DEF SumInv, Typed
  <1>1. CASE Boot
    <2>1. pc = "off" /\ ops = <<>> /\ ops' = <<>> /\ pc' = "boot"
      BY <1>1 DEF Boot, Goto, SumInv, Restoring
    <2>2. Only(ops', {})
      BY <2>1, EmptyQueue
    <2> QED BY <1>0, <2>1, <2>2, SumAside, PrevAside DEF Restoring
  <1>2. CASE fpga_version_fixup \/ NoFixup
    <2>1. pc = "boot" /\ ops = <<>> /\ pc' = "abcheck"
      BY <1>2 DEF fpga_version_fixup, NoFixup, At, Goto
    <2>2. Only(ops', {"sum"})
      BY <1>0, <1>2, StartupQueue
    <2>3. Only(ops', {}) \/ (faults' = 0 => ops' = fpga_sum_write(flash))
      <3>1. CASE NoFixup
        BY <3>1, EmptyQueue DEF NoFixup, Goto
      <3>2. CASE fpga_version_fixup
        BY <1>0, <2>1, <3>2, FirmwareAssumption DEF fpga_version_fixup, Goto, SumInv, SumNoted
      <3> QED BY <1>2, <3>1, <3>2
    <2> QED BY <1>0, <2>1, <2>2, <2>3, SumAside, PrevAside DEF Restoring
  <1>3. CASE ab_boot_check
    <2>1. pc = "abcheck" /\ ops = <<>> /\ pc' \in {"provision", "restore"}
      BY <1>3 DEF ab_boot_check, At, Goto
    <2>2. Only(ops', TryFiles)
      BY <1>0, <1>3, StartupQueue
    <2>3. Only(ops', {"marker", "try"}) \/ \A op \in Elems(ops') : op.do = "delete"
      <3>1. Only(<<>>, {"marker", "try"})
        BY EmptyQueue, MoreQueue
      <3>2. Only(Delete("marker") \o Delete("try"), {"marker", "try"})
        BY DeleteTwo DEF Files
      <3>3. ASSUME sd["marker"] # Absent, TryBoot(Marker)
            PROVE  Only(ab_write_marker(Marker.count + 1, Marker.k, Marker.build), {"marker", "try"})
        <4>1. Marker.count = 0 /\ Marker.k \in Kernels \cup {None} /\ Marker.build \in {Marker.k, None}
          BY <1>0, <3>3, MarkerRead DEF TryBoot
        <4>2. Marker.count + 1 = 1
          BY <4>1
        <4> QED BY <4>1, <4>2, MarkerQueue, MoreQueue
      <3> QED BY <1>3, <3>1, <3>2, <3>3, TryDeletes DEF ab_boot_check, Goto
    <2>4. "sum" \notin TryFiles
      BY DEF TryFiles
    <2> QED BY <1>0, <2>1, <2>2, <2>3, <2>4, SumAside, PrevAside DEF Restoring
  <1>4. CASE Provision
    <2>1. pc = "provision" /\ ops = <<>>
      BY <1>4 DEF Provision, At
    <2>2. CASE Update("provision", FALSE, FALSE)
      BY <2>1, <2>2, SumUpdate
    <2>3. CASE ~Update("provision", FALSE, FALSE)
      <3>1. pc' = "main" /\ (ops' = <<>> \/ ops' = Write("failed", None) \/ ops' = fpga_sum_write(flash))
        BY <1>4, <2>3 DEF Provision, Goto, FpgaFlashCompare
      <3>2. Only(<<>>, {})
        BY EmptyQueue
      <3>3. Only(Write("failed", None), {"failed"})
        BY FillQueue DEF Files, Holds
      <3>4. Only(ops', {"sum", "failed"})
        BY <1>0, <1>4, StartupQueue
      <3> QED BY <1>0, <2>1, <3>1, <3>2, <3>3, <3>4, SumAside, PrevAside DEF Restoring
    <2> QED BY <2>2, <2>3
  <1> QED BY <1>1, <1>2, <1>3, <1>4 DEF Startup

\* The flash is programmed, and noted; a saved bitstream's own note says the same.
LEMMA SumProgram == ASSUME SumInv, FpgaProgram PROVE SumNoted' /\ PrevNoted'
  <1> DEFINE note == IF sd["prevsum"] = Absent THEN <<>> ELSE Copy("prevsum", "sum")
             del == note \o Delete("prev")
             rest == del \o Delete("prevsum")
  <1>0. Whole /\ Typed /\ Card /\ At("program") /\ job.b \in Bits /\ Absent \notin Bits
    BY FirmwareAssumption DEF SumInv, Typed, FpgaProgram, At, Bits
  <1>1. /\ UNCHANGED <<sd, faults>> /\ flash' = job.b /\ ops' = fpga_sum_write(job.b) \o FpgaRestored
        /\ FpgaRestored = IF job.kind \notin {"rollback", "heldback"} THEN <<>> ELSE rest
    BY DEF FpgaProgram, FpgaRestored
  <1> SUFFICES ASSUME faults = 0 PROVE SumNoted' /\ PrevNoted'
    BY <1>1 DEF SumNoted, PrevNoted
  <1>2. /\ fpga_sum_write(job.b) \in Seq(SdOps) /\ Delete("prev") \in Seq(SdOps)
        /\ Delete("prevsum") \in Seq(SdOps) /\ <<>> \in Seq(SdOps)
    BY <1>0, SumQueue, DeleteQueue, EmptyQueue, OnlyElems DEF Files
  <1>3. /\ ops = <<>>
        /\ sd["prev"] \in Bits => sd["prevsum"] \in {sd["prev"], Absent}
        /\ job.kind \in {"rollback", "heldback"} => job.b = sd["prev"]
    BY <1>0 DEF SumInv, PrevNoted, Restoring, At
  <1>4. note \in Seq(SdOps)
    <2>1. Only(Copy("prevsum", "sum"), {"sum"})
      <3>1. Holds("sum", sd["prevsum"])
        BY <1>0 DEF Card, Holds, Files
      <3> QED BY <3>1, FillQueue DEF Copy, Files
    <2> QED BY <1>2, <2>1, OnlyElems
  <1>5. job.kind \in {"rollback", "heldback"} =>
           \A op \in Elems(note) : op.file = "sum" /\ op.do # "delete" /\ (op.do = "fill" => op.as = job.b)
    <2>1. note = <<>> \/ (note = Write("sum", sd["prevsum"]) /\ sd["prevsum"] # Absent)
      BY DEF Copy
    <2>2. CASE note = <<>>
      BY <2>2, ElemsEmpty
    <2>3. CASE note = Write("sum", sd["prevsum"]) /\ sd["prevsum"] # Absent
      BY <1>0, <1>3, <2>3, ElemsWrite
    <2> HIDE DEF note
    <2> QED BY <2>1, <2>2, <2>3
  <1> HIDE DEF note
  <1>6. Elems(del) \subseteq Elems(note) \cup Elems(Delete("prev")) /\ del \in Seq(SdOps)
    BY <1>2, <1>4, ElemsCat
  <1> HIDE DEF del
  <1>7. Elems(rest) \subseteq (Elems(note) \cup Elems(Delete("prev"))) \cup Elems(Delete("prevsum")) /\ rest \in Seq(SdOps)
    BY <1>2, <1>6, ElemsCat
  <1> HIDE DEF rest
  <1>8. FpgaRestored \in Seq(SdOps) /\ Elems(ops') \subseteq Elems(fpga_sum_write(job.b)) \cup Elems(FpgaRestored)
    BY <1>1, <1>2, <1>7, ElemsCat
  <1>9. \A op \in Elems(FpgaRestored) :
           /\ op.file = "sum" => op.do # "delete" /\ (op.do = "fill" => op.as = job.b)
           /\ op.file = "prevsum" => op.do = "delete"
    BY <1>1, <1>5, <1>7, ElemsEmpty, ElemsDelete
  <1>10. \A op \in Elems(ops') :
           /\ op.file = "sum" => op.do # "delete" /\ (op.do = "fill" => op.as = job.b)
           /\ op.file = "prevsum" => op.do = "delete"
    BY <1>8, <1>9, ElemsWrite DEF fpga_sum_write
  <1>11. ops' # <<>> /\ ops'[1].file = "sum" /\ ops'[1].do # "delete"
    <2> DEFINE w == fpga_sum_write(job.b)
    <2>1. w \in Seq(SdOps) /\ w # <<>> /\ w[1].file = "sum" /\ w[1].do = "create"
      BY <1>2, ElemsWrite DEF fpga_sum_write
    <2> HIDE DEF w
    <2>3. ops' = w \o FpgaRestored
      BY <1>1 DEF w
    <2>4. ops' # <<>> /\ ops'[1] = w[1]
      BY <1>8, <2>1, <2>3, CatHead
    <2> QED BY <2>1, <2>4
  <1>12. SumNoted'
    BY <1>1, <1>10, <1>11 DEF SumNoted
  <1>13. PrevNoted'
    BY <1>1, <1>3, <1>10 DEF PrevNoted
  <1> QED BY <1>12, <1>13

LEMMA SumFlashing == ASSUME SumInv, Flashing, [Next]_vars PROVE SumNoted' /\ PrevNoted' /\ Restoring'
  <1>0. Whole /\ Typed /\ Card /\ Absent \notin Bits /\ Partial \notin Bits
    BY FirmwareAssumption DEF SumInv, Typed, Bits
  <1> USE DEF At, Goto
  <1>1. CASE FpgaNoChip \/ FpgaVerifyFails
    BY <1>0, <1>1, Faulted, FailingJob DEF FpgaNoChip, FpgaVerifyFails, Restoring
  <1>2. CASE FpgaErase
    <2>1. /\ UNCHANGED <<sd, faults, job>> /\ ops = <<>> /\ ops' = <<>> /\ pc = "flash" /\ pc' = "program"
      BY <1>2 DEF FpgaErase
    <2>2. PrevNoted'
      BY <2>1, EmptyQueue, PrevAside
    <2> QED BY <2>1, <2>2 DEF SumNoted, SumInv, Restoring
  <1>3. CASE FpgaProgram
    <2>1. pc' \in {"kernel", "provision", "reboot", "main"}
      BY <1>0, <1>3 DEF FpgaProgram, FpgaEnd, Whole, Flashers
    <2> QED BY <1>3, <2>1, SumProgram DEF Restoring
  <1>4. CASE FpgaRestorePrev
    <2>1. UNCHANGED <<sd, flash, faults>> /\ ops = <<>> /\ pc = "restore"
      BY <1>4 DEF FpgaRestorePrev
    <2>2. Only(ops', {"failed"})
      BY <1>4, FailQueue, EmptyQueue, MoreQueue DEF FpgaRestorePrev
    <2>3. Restoring'
      <3>1. CASE JobFails
        BY <3>1, FailingJob DEF Restoring
      <3>2. CASE ~JobFails
        <4>1. PICK b \in Bits : b = sd["prev"] /\ job' = [job EXCEPT !.b = b] /\ pc' = "flash" /\ ops' = <<>>
          BY <1>4, <3>2 DEF FpgaRestorePrev, Bits
        <4>2. job'.b = b
          BY <1>0, <4>1, RestoreJob DEF Whole, Bits, Jobs
        <4> QED BY <2>1, <4>1, <4>2 DEF Restoring
      <3> QED BY <3>1, <3>2
    <2> QED BY <2>1, <2>2, <2>3, SumAside, PrevAside
  <1>5. CASE FpgaBackupOpen
    <2>1. /\ UNCHANGED <<flash, faults, job>> /\ ops = <<>> /\ ops' = <<>> /\ pc = "backup" /\ pc' = "backup2"
          /\ sd'["prev"] = Partial /\ sd'["sum"] = sd["sum"] /\ sd'["prevsum"] = sd["prevsum"]
      BY <1>0, <1>5 DEF FpgaBackupOpen, Card, Files
    <2> QED BY <2>1, EmptyQueue, SumAside, PrevAside DEF SumInv, Restoring
  <1>6. CASE FpgaBackupDone
    <2>1. /\ UNCHANGED <<flash, faults, job>> /\ ops = <<>> /\ pc = "backup2" /\ pc' = "flash"
          /\ sd'["prev"] = flash /\ sd'["sum"] = sd["sum"] /\ sd'["prevsum"] = sd["prevsum"]
          /\ ops' = IF sd["sum"] = Absent THEN Delete("prevsum") ELSE Write("prevsum", sd["sum"])
      BY <1>0, <1>6 DEF FpgaBackupDone, FpgaFlashRead, Copy, Card, Files
    <2>2. Only(ops', {"prevsum", "failed"})
      <3>1. ~FpgaProgram /\ Flashing
        BY <1>6, <2>1 DEF FpgaProgram
      <3> QED BY <1>0, <3>1, FlashingQueue
    <2>3. SumNoted'
      BY <2>1, <2>2, SumAside
    <2>4. PrevNoted'
      <3> SUFFICES ASSUME faults = 0 PROVE PrevNoted'
        BY <2>1 DEF PrevNoted
      <3>1. sd["sum"] \in {flash, Absent}
        BY <2>1 DEF SumInv, SumNoted
      <3>2. CASE sd["sum"] = Absent
        <4>1. Delete("prevsum") # <<>> /\ Delete("prevsum")[1].file = "prevsum"
          BY DEF Delete, Op
        <4> QED BY <2>1, <3>2, <4>1, ElemsDelete DEF PrevNoted
      <3>3. CASE sd["sum"] # Absent
        BY <2>1, <3>1, <3>3, ElemsWrite DEF PrevNoted
      <3> QED BY <3>2, <3>3
    <2> QED BY <2>1, <2>3, <2>4 DEF SumInv, Restoring
  <1>7. CASE FpgaBackupFails
    <2>1. pc \in {"backup", "backup2"} /\ pc' = "flash" /\ job' = job
      BY <1>7 DEF FpgaBackupFails
    <2> QED BY <1>0, <1>7, <2>1, Faulted DEF FpgaBackupFails, SumInv, Restoring
  <1> QED BY <1>1, <1>2, <1>3, <1>4, <1>5, <1>6, <1>7 DEF Flashing

LEMMA SumCopying == ASSUME SumInv, Copying, [Next]_vars PROVE SumNoted' /\ PrevNoted' /\ Restoring'
  <1>0. Whole /\ Typed /\ Card /\ (faults' = 0 => faults = 0)
    BY Unfaulted DEF SumInv, Typed
  <1>1. /\ flash' = flash /\ ops = <<>> /\ pc # "program"
        /\ sd'["prev"] = sd["prev"] /\ sd'["sum"] = sd["sum"] /\ sd'["prevsum"] = sd["prevsum"]
    BY <1>0 DEF Copying, NoKernel, CopyOpen, CopyWrite, Verify, VerifyFails, Replace, Rename, CopyFails, Finish,
        Reboot, pi_reboot, Stop, At, Target, Card, Files
  <1>2. Restoring'
    <2>1. pc' \notin {"backup", "backup2", "flash", "program"}
      BY <1>0, CopyingQueue
    <2>2. pc' = "off" => ops' = <<>>
      BY FailingJob DEF Copying, NoKernel, CopyOpen, CopyWrite, Verify, VerifyFails, Replace, Rename, CopyFails,
          Finish, Reboot, pi_reboot, Stop, Goto
    <2> QED BY <2>1, <2>2 DEF Restoring
  <1>3. SumNoted'
    <2>1. Only(ops', TryFiles \cup {"update", "card", "failed"}) /\ "sum" \notin TryFiles \cup {"update", "card", "failed"}
      BY <1>0, CopyingQueue DEF TryFiles
    <2> QED BY <1>0, <1>1, <2>1, SumAside
  <1>4. PrevNoted'
    <2>1. CASE Rename
      <3>1. \A op \in Elems(ops') : op.do = "delete"
        BY <2>1, ElemsEmpty, TryDeletes DEF Rename, Goto
      <3> QED BY <1>0, <1>1, <3>1, PrevAside
    <2>2. CASE ~Rename
      <3>1. Only(ops', {"failed"}) \/ Only(ops', {"marker", "try", "update", "card"})
        BY <1>0, <2>2, CopyingQueue
      <3> QED BY <1>0, <1>1, <3>1, PrevAside
    <2> QED BY <2>1, <2>2
  <1> QED BY <1>2, <1>3, <1>4

LEMMA SumRequests ==
  ASSUME SumInv, Resolve \/ Upload \/ PowerLoss \/ User, [Next]_vars PROVE SumNoted' /\ PrevNoted' /\ Restoring'
  <1>0. Whole /\ Typed /\ (faults' = 0 => faults = 0)
    BY Unfaulted DEF SumInv
  <1>1. CASE PowerLoss
    BY <1>0, <1>1, Faulted DEF PowerLoss, Stop, Restoring
  <1>2. CASE RunUpdate
    <2>1. PICK bTry \in BOOLEAN, bForce \in BOOLEAN : Update("update", bTry, bForce)
      BY <1>2 DEF RunUpdate
    <2>2. pc = "main" /\ ops = <<>>
      BY <1>2 DEF RunUpdate, Serving, At
    <2> QED BY <2>1, <2>2, SumUpdate
  <1>3. CASE ~PowerLoss /\ ~RunUpdate
    <2>1. UNCHANGED <<sd, flash>> /\ pc = "main" /\ ops = <<>>
      BY <1>3 DEF Resolve, User, Promote, PromoteByHand, HeldBack, Upload, fw, FileReceive, UserReboot,
          pi_reboot, Stop, Discard, FpgaFlash, ab_promote, Serving, At
    <2>2. Only(ops', {"update", "stable", "marker", "try"})
      BY <1>0, <1>3, RequestsQueue
    <2>3. Restoring'
      <3>1. CASE FpgaFlash
        BY <3>1 DEF FpgaFlash, Goto, Idle, Restoring
      <3>2. CASE ~FpgaFlash
        BY <1>3, <3>2 DEF Resolve, User, Promote, PromoteByHand, HeldBack, Upload, fw, FileReceive, UserReboot,
            pi_reboot, Stop, Discard, ab_promote, Goto, Restoring
      <3> QED BY <3>1, <3>2
    <2> QED BY <1>0, <2>1, <2>2, <2>3, SumAside, PrevAside
  <1> QED BY <1>1, <1>2, <1>3

LEMMA SumStep == ASSUME SumInv, [Next]_vars PROVE SumInv'
  <1>1. Whole' /\ Typed'
    BY WholeStep, TypedStep DEF SumInv
  <1>2. CASE UNCHANGED vars
    BY <1>1, <1>2 DEF SumInv, SumNoted, PrevNoted, Restoring
  <1> QED BY <1>1, <1>2, SumSdStep, SumStartup, SumFlashing, SumCopying, SumRequests DEF Next, Core0, SumInv

\* As long as nothing is refused and the power stays on, the note beside the kernel
\* tells what the flash holds whenever somebody may skip the programming because of
\* it (fpga_sum_write, FpgaBackupPrev, FpgaRestorePrev).
THEOREM SumIsFlash == Spec => []SumTellsFlash
  <1>1. SumInv => SumTellsFlash
    BY DEF SumInv, SumNoted, SumTellsFlash, At
  <1>2. Init => SumInv
    BY WholeInit, TypedInit, SumInit
  <1> QED BY <1>1, <1>2, SumStep, PTL DEF Spec
=============================================================================
