------------------------------ MODULE Firmware ------------------------------
(***************************************************************************)
(* The Pi's own firmware: installing a release package (FPGA bitstream and *)
(* kernel), the A/B try boot with its marker, promotion and rollback, and  *)
(* the first-boot provisioning of a fresh card.  Everything here is one    *)
(* sequential program on core 0; what makes it hard is that power may go   *)
(* at any step and that the SD card or the flash chip may refuse one.      *)
(*                                                                         *)
(* A file is Absent, Partial (created, its contents not synced yet) or     *)
(* complete, and then it is named by what it holds: a kernel, a bitstream, *)
(* a marker, a package.  The version strings, lengths and labels the files *)
(* also carry are left out; a checksum is the identity of the contents.    *)
(***************************************************************************)
EXTENDS Naturals, Sequences

CONSTANTS
    Kernels,     \* kernel images
    Bitstreams,  \* FPGA configurations
    Packages,    \* the release packages somebody may put on the card
    Installed,   \* the releases a board may come with
    Lossy,       \* the bitstreams whose write probe loses words
    Absent,      \* no such file
    Partial,     \* an incomplete file
    Junk,        \* flash contents after an erase that was not followed up
    None,        \* no bitstream in the package; no build string in the marker
    MaxFaults,   \* bound: power failures, watchdog resets and refusals of the card or
                 \* of the flash chip in one behaviour
    MaxActs      \* bound: installs, promotions, reboots... users ask for in one behaviour

ASSUME FirmwareAssumption ==
    /\ Packages \subseteq [k : Kernels, b : Bitstreams \cup {None}]
    /\ Installed \subseteq [k : Kernels, b : Bitstreams]
    /\ Lossy \subseteq Bitstreams
    /\ MaxFaults \in Nat /\ MaxActs \in Nat
    /\ {Absent, Partial, None, Junk} \cap (Kernels \cup Bitstreams) = {}
    /\ Absent # Partial /\ Absent # Junk /\ Partial # Junk

VARIABLES
    sd,       \* the files on the card
    flash,    \* what the configuration flash (and so the FPGA) holds
    run,      \* the kernel running
    arm,      \* s_ab_arm_promote
    tryboot,  \* the boot loader's one-shot flag: load kernel8-try.img
    pc,       \* where core 0 is
    job,      \* the install, promotion or restore in progress
    ops,      \* SD operations to do before going on at pc, results ignored
    faults,   \* power failures and refusals so far
    acts      \* user actions so far

Fault == faults < MaxFaults /\ faults' = faults + 1

vars == <<sd, flash, run, arm, tryboot, pc, job, ops, faults, acts>>

Files == {"stable", "try", "new", "prev", "prevsum", "sum", "marker", "update", "card", "failed"}
Markers == [count : {0, 1}, k : Kernels \cup {None}, build : Kernels \cup {None}]
Jobs == [kind : {"none", "update", "provision", "promote", "abp", "rollback", "heldback", "console"},
         k : Kernels \cup {None}, b : Bitstreams \cup {Junk, None}, try : BOOLEAN]
Idle == [kind |-> "none", k |-> None, b |-> None, try |-> FALSE]

-----------------------------------------------------------------------------
(* SD operations whose result the code does not look at, one per step. *)
Op(do, f, v) == [do |-> do, file |-> f, as |-> v]
Delete(f) == <<Op("delete", f, Absent)>>
Write(f, v) == <<Op("create", f, Partial), Op("fill", f, v)>>
\* file_copy_small; the copy of a file that is not there is the caller's business
Copy(f, g) == Write(g, sd[f])

\* fpga_sum_write
fpga_sum_write(b) == Write("sum", b)
\* ab_write_marker
ab_write_marker(n, k, build) == Write("marker", [count |-> n, k |-> k, build |-> build])

\* One ignored operation is done; writing the contents may fail and leave the
\* file partial, and a file that cannot be created is left as it was.
SdStep ==
    /\ pc # "off" /\ ops # <<>>
    /\ \/ /\ sd' = [sd EXCEPT ![Head(ops).file] = Head(ops).as]
          /\ ops' = Tail(ops)
          /\ UNCHANGED faults
       \/ /\ Head(ops).do # "delete" /\ Fault
          /\ ops' = IF Head(ops).do = "create" THEN Tail(Tail(ops)) ELSE Tail(ops)
          /\ UNCHANGED sd
    /\ UNCHANGED <<flash, run, arm, tryboot, pc, job>>

\* Core 0 goes on at p, after the operations s.
Goto(p, s) == pc' = p /\ ops' = s
At(p) == pc = p /\ ops = <<>>

-----------------------------------------------------------------------------
(* Power and the boot loader.  A kernel that crashes or hangs is reset by    *)
(* the watchdog, which comes to the same as losing the power.               *)
Stop == /\ pc' = "off" /\ ops' = <<>> /\ job' = Idle /\ arm' = FALSE /\ run' = None
        /\ UNCHANGED <<sd, flash>>

PowerLoss == pc # "off" /\ Fault /\ Stop /\ tryboot' = FALSE

\* pi_reboot: bTry makes the next boot, and only that one, load the try slot
pi_reboot(bTry) == Stop /\ tryboot' = bTry /\ UNCHANGED faults

\* config.txt names the stable kernel, tryboot.txt the try kernel.  With no
\* image there the board stays dark until somebody cycles the power.
Boot ==
    /\ pc = "off"
    /\ LET k == sd[IF tryboot THEN "try" ELSE "stable"] IN
          /\ k \in Kernels \/ (tryboot /\ sd["stable"] \in Kernels)
          /\ run' = IF k \in Kernels THEN k ELSE sd["stable"]
    /\ tryboot' = FALSE
    /\ Goto("boot", <<>>)
    /\ UNCHANGED <<sd, flash, arm, job, faults>>

\* fpga_version_fixup: the recorded sum gets its version, the file is rewritten
fpga_version_fixup ==
    /\ At("boot") /\ sd["sum"] \in Bitstreams
    /\ Goto("abcheck", fpga_sum_write(sd["sum"]))
    /\ UNCHANGED <<sd, flash, run, arm, tryboot, job, faults>>

NoFixup == /\ At("boot") /\ Goto("abcheck", <<>>)
           /\ UNCHANGED <<sd, flash, run, arm, tryboot, job, faults>>

-----------------------------------------------------------------------------
(* ab_boot_check: is this the try boot, has the try failed, is it done?     *)
\* The marker as the code parses it: an empty file reads as count 0, sum 0.
Marker == IF sd["marker"] = Partial THEN [count |-> 0, k |-> None, build |-> None]
                                    ELSE sd["marker"]
\* The sum of a file that cannot be read is 0, like that of an empty marker.
file_sum_path(f) == IF sd[f] \in Kernels THEN sd[f] ELSE None

\* Mutant: only the counter tells whose boot this is.
NeverBooted_MutantCounter(m) == m.count = 1 /\ m.build # None /\ m.build # run
NeverBooted(m) == m.count = 0 /\ m.build # None /\ m.build # run
AlreadyStable(m) == ~NeverBooted(m) /\ m.k = file_sum_path("stable")
TryBoot(m) == ~NeverBooted(m) /\ ~AlreadyStable(m) /\ m.count + 1 < 2

ab_boot_check ==
    /\ At("abcheck")
    /\ \/ /\ sd["marker"] = Absent
          /\ Goto("provision", <<>>)
          /\ UNCHANGED <<arm, job>>
       \/ /\ sd["marker"] # Absent /\ AlreadyStable(Marker)
          /\ Goto("provision", Delete("marker") \o Delete("try") \o Delete("prev") \o Delete("prevsum"))
          /\ UNCHANGED <<arm, job>>
       \/ /\ sd["marker"] # Absent /\ TryBoot(Marker)
          /\ Goto("provision", ab_write_marker(Marker.count + 1, Marker.k, Marker.build))
          /\ arm' = TRUE
          /\ UNCHANGED job
       \/ /\ sd["marker"] # Absent /\ ~AlreadyStable(Marker) /\ ~TryBoot(Marker)
          /\ Goto("restore", Delete("marker") \o Delete("try"))
          /\ job' = [Idle EXCEPT !.kind = "rollback"]
          /\ UNCHANGED arm
    /\ UNCHANGED <<sd, flash, run, tryboot, faults>>

-----------------------------------------------------------------------------
(* How a job ends: the caller's code behind the return value.               *)
Failed == CASE job.kind = "provision" -> Goto("main", Write("failed", None))
            [] job.kind = "rollback" -> Goto("provision", <<>>)
            [] job.kind = "heldback" -> Goto("reboot", <<>>)
            [] OTHER -> Goto("main", <<>>)
Keep == job.kind = "heldback"      \* the reboot that follows still needs the job
JobFails == Failed /\ job' = IF Keep THEN job ELSE Idle

-----------------------------------------------------------------------------
(* Reading the flash holds the FPGA in reset; nothing is changed.           *)
FpgaFlashRead == flash
FpgaFlashCompare(b) == flash = b

(* CKernel::FpgaFlashImage: erase, program, read back, note the sum.        *)
FpgaEnd ==
    CASE job.kind \in {"update", "provision"} -> pc' = "kernel" /\ job' = job
      [] job.kind = "rollback" -> pc' = "provision" /\ job' = Idle
      [] job.kind = "heldback" -> pc' = "reboot" /\ job' = job
      [] job.kind = "console" -> pc' = "main" /\ job' = Idle
\* FpgaRestorePrev, after the flash: the saved sum line, then the saved files go
FpgaRestored ==
    IF job.kind \notin {"rollback", "heldback"} THEN <<>>
    ELSE (IF sd["prevsum"] = Absent THEN <<>> ELSE Copy("prevsum", "sum"))
         \o Delete("prev") \o Delete("prevsum")

\* no memory, the image unreadable, no GPIO, or no answer from the flash chip
FpgaNoChip == /\ pc \in {"backup", "flash"} /\ ops = <<>> /\ JobFails
              /\ Fault /\ UNCHANGED <<sd, flash, run, arm, tryboot>>
FpgaErase == /\ At("flash") /\ flash' = Junk /\ Goto("program", <<>>)
             /\ UNCHANGED <<sd, run, arm, tryboot, job, faults>>
FpgaProgram ==
    /\ At("program")
    /\ flash' = job.b /\ ops' = fpga_sum_write(job.b) \o FpgaRestored /\ FpgaEnd
    /\ UNCHANGED <<sd, run, arm, tryboot, faults>>
FpgaVerifyFails == /\ At("program") /\ JobFails
                   /\ Fault /\ UNCHANGED <<sd, flash, run, arm, tryboot>>

\* FpgaRestorePrev: nothing saved, not readable or too short to be one
FpgaRestorePrev ==
    /\ At("restore")
    /\ IF sd["prev"] \in Bitstreams \cup {Junk}
       THEN Goto("flash", <<>>) /\ job' = [job EXCEPT !.b = sd["prev"]]
       ELSE JobFails
    /\ UNCHANGED <<sd, flash, run, arm, tryboot, faults>>

-----------------------------------------------------------------------------
(* CKernel::Update                                                          *)
PackageFile(kind) == IF kind = "provision" THEN "card" ELSE "update"
\* vmpu68_vpk_check: the header and the sums hold; what would the package change?
vmpu68_vpk_check(f) == sd[f] \in Packages
FpgaSame(p) == p.b # None /\ sd["sum"] = p.b
KernelSame(p) == sd["stable"] = p.k

Update(kind, bTry, bForce) ==
    LET p == sd[PackageFile(kind)]
        bKernel == bForce \/ bTry \/ ~KernelSame(p)
        bFpga == p.b # None /\ (bForce \/ ~FpgaSame(p))
        j == [kind |-> kind, try |-> bTry, b |-> p.b, k |-> IF bKernel THEN p.k ELSE None] IN
    /\ vmpu68_vpk_check(PackageFile(kind))
    /\ bKernel \/ bFpga                           \* else "already installed"
    /\ job' = j
    /\ Goto(IF ~bFpga THEN "kernel" ELSE IF bTry THEN "backup" ELSE "flash",
            IF ~bFpga /\ p.b # None THEN fpga_sum_write(p.b) ELSE <<>>)
    /\ UNCHANGED <<sd, flash, run, arm, tryboot, faults>>

\* FpgaBackupPrev: the flash is read into fpga-prev.bin, fpga.sum beside it.
\* A backup that fails is reported, and the update goes on without it.
FpgaBackupOpen == /\ At("backup") /\ sd' = [sd EXCEPT !["prev"] = Partial]
                  /\ Goto("backup2", <<>>)
                  /\ UNCHANGED <<flash, run, arm, tryboot, job, faults>>
\* Mutant: the line kept is that of the bitstream about to be programmed.
FpgaBackupDone_MutantNewLine ==
    /\ At("backup2") /\ sd' = [sd EXCEPT !["prev"] = FpgaFlashRead]
    /\ Goto("flash", Write("prevsum", job.b))
    /\ UNCHANGED <<flash, run, arm, tryboot, job, faults>>
FpgaBackupDone ==
    /\ At("backup2") /\ sd' = [sd EXCEPT !["prev"] = FpgaFlashRead]
    /\ Goto("flash", IF sd["sum"] = Absent THEN Delete("prevsum") ELSE Copy("sum", "prevsum"))
    /\ UNCHANGED <<flash, run, arm, tryboot, job, faults>>
FpgaBackupFails == /\ pc \in {"backup", "backup2"} /\ ops = <<>>
                   /\ sd' = [sd EXCEPT !["prev"] = Absent] /\ Goto("flash", <<>>)
                   /\ Fault /\ UNCHANGED <<flash, run, arm, tryboot, job>>

(* The kernel: copied to kernel8.new, summed, renamed over its target.  The *)
(* same steps promote the try kernel (ab_promote).                          *)
Target == IF job.try THEN "try" ELSE "stable"
Promoting == job.kind \in {"promote", "abp"}

NoKernel == /\ At("kernel") /\ job.k = None
            /\ Goto("finish", <<>>)
            /\ UNCHANGED <<sd, flash, run, arm, tryboot, job, faults>>
CopyOpen == /\ At("kernel") /\ job.k # None
            /\ sd' = [sd EXCEPT !["new"] = Partial] /\ Goto("copy", <<>>)
            /\ UNCHANGED <<flash, run, arm, tryboot, job, faults>>
\* the card may keep something else than what was written
CopyWrite == /\ At("copy")
             /\ \/ sd' = [sd EXCEPT !["new"] = job.k] /\ UNCHANGED faults
                \/ sd' = [sd EXCEPT !["new"] = Partial] /\ Fault
             /\ Goto("verify", <<>>)
             /\ UNCHANGED <<flash, run, arm, tryboot, job>>
\* Mutant: what was written is not summed.
Verify_MutantTrusts == /\ At("verify")
                       /\ Goto("replace", <<>>)
                       /\ UNCHANGED <<sd, flash, run, arm, tryboot, job, faults>>
Verify == /\ At("verify") /\ file_sum_path("new") = job.k
          /\ Goto("replace", <<>>)
          /\ UNCHANGED <<sd, flash, run, arm, tryboot, job, faults>>
Replace == /\ At("replace") /\ sd' = [sd EXCEPT ![Target] = Absent]
           /\ Goto("rename", <<>>)
           /\ UNCHANGED <<flash, run, arm, tryboot, job, faults>>
Rename ==
    /\ At("rename") /\ sd' = [sd EXCEPT ![Target] = sd["new"], !["new"] = Absent]
    /\ IF Promoting
       THEN /\ Goto("main", Delete("marker") \o Delete("try") \o Delete("prev") \o Delete("prevsum"))
            /\ job' = Idle
       ELSE Goto("finish", <<>>) /\ job' = job
    /\ UNCHANGED <<flash, run, arm, tryboot, faults>>
VerifyFails == /\ At("verify") /\ file_sum_path("new") # job.k
               /\ sd' = [sd EXCEPT !["new"] = Absent] /\ JobFails
               /\ UNCHANGED <<flash, run, arm, tryboot, faults>>
\* f_open, f_read, f_write, f_close or f_rename failed: kernel8.new goes
CopyFails == /\ pc \in {"kernel", "copy", "verify", "rename"} /\ ops = <<>> /\ job.k # None
             /\ sd' = [sd EXCEPT !["new"] = Absent] /\ JobFails
             /\ Fault /\ UNCHANGED <<flash, run, arm, tryboot>>

\* The marker of a try install, or the end of any try a direct install replaces;
\* then the package file goes.  file_find_build may find no build string.
Finish ==
    /\ At("finish")
    /\ \E build \in {job.k, None} :
          LET end == IF job.try THEN ab_write_marker(0, job.k, build)
                                ELSE Delete("marker") \o Delete("try")
          IN  Goto("reboot", end \o Delete(PackageFile(job.kind)))
    /\ UNCHANGED <<sd, flash, run, arm, tryboot, job, faults>>
Reboot == At("reboot") /\ pi_reboot(job.try)

-----------------------------------------------------------------------------
(* The start of the main loop on a fresh card, and the main loop.           *)
Provision ==
    /\ At("provision")
    /\ LET fresh == sd["card"] # Absent /\ sd["sum"] = Absent /\ sd["failed"] = Absent
           p == sd["card"] IN
       \/ /\ ~fresh /\ Goto("main", <<>>)
          /\ UNCHANGED <<sd, flash, run, arm, tryboot, job, faults>>
       \/ /\ fresh /\ vmpu68_vpk_check("card") /\ FpgaFlashCompare(p.b)
          /\ Goto("main", fpga_sum_write(p.b))
          /\ UNCHANGED <<sd, flash, run, arm, tryboot, job, faults>>
       \/ fresh /\ Update("provision", FALSE, FALSE)         \* differs, or no chip answers
       \/ /\ fresh /\ (vmpu68_vpk_check("card") => KernelSame(p) /\ p.b = None)
          /\ Goto("main", Write("failed", None))
          /\ UNCHANGED <<sd, flash, run, arm, tryboot, job, faults>>

Serving == At("main")

\* FileReceive: "put" stores a file, "fw" the stable kernel itself, in place
FileReceive(f, v) == /\ Serving /\ Goto("main", Write(f, v))
                     /\ UNCHANGED <<sd, flash, run, arm, tryboot, job, faults>>
\* A package sent by the console or the browser; /api/put writes it in chunks
\* and a browser that goes away leaves it short.
Upload == \/ \E p \in Packages : FileReceive("update", p)
          \/ FileReceive("update", Partial)
fw == \E k \in Kernels : FileReceive("stable", k)
RunUpdate == Serving /\ \E bTry, bForce \in BOOLEAN : Update("update", bTry, bForce)

\* ab_health_block: with no FPGA answering (mock) nothing is held against the
\* kernel; otherwise the write probe and a running machine decide.
Mock == flash = Junk
Healthy(emuRun) == Mock \/ (flash \notin Lossy /\ emuRun)

ab_promote(kind) ==
    /\ arm' = FALSE
    /\ IF sd["try"] \in Kernels
       THEN Goto("kernel", <<>>) /\ job' = [Idle EXCEPT !.kind = kind, !.k = sd["try"]]
       ELSE Goto("main", <<>>) /\ job' = job
    /\ UNCHANGED <<sd, flash, run, tryboot, faults>>

Promote == Serving /\ arm /\ (\E on \in BOOLEAN : Healthy(on)) /\ ab_promote("promote")
PromoteByHand == Serving /\ ab_promote("abp")
Discard == /\ Serving /\ arm' = FALSE /\ Goto("main", Delete("marker") \o Delete("try"))
           /\ UNCHANGED <<sd, flash, run, tryboot, job, faults>>
\* Mutant: a bitstream that loses words is waited for, not held back.
HeldBack_MutantWaits ==
    /\ Serving /\ arm /\ flash \notin Lossy /\ (\E on \in BOOLEAN : ~Healthy(on))
    /\ arm' = FALSE /\ Goto("restore", Delete("marker") \o Delete("try"))
    /\ job' = [Idle EXCEPT !.kind = "heldback"]
    /\ UNCHANGED <<sd, flash, run, tryboot, faults>>
\* 120 s without being healthy
HeldBack == /\ Serving /\ arm /\ (\E on \in BOOLEAN : ~Healthy(on))
            /\ arm' = FALSE /\ Goto("restore", Delete("marker") \o Delete("try"))
            /\ job' = [Idle EXCEPT !.kind = "heldback"]
            /\ UNCHANGED <<sd, flash, run, tryboot, faults>>

\* "fpga SD:/x.bin": a bitstream programmed by hand
FpgaFlash == /\ Serving /\ \E b \in Bitstreams : job' = [Idle EXCEPT !.kind = "console", !.b = b]
             /\ Goto("flash", <<>>)
             /\ UNCHANGED <<sd, flash, run, arm, tryboot, faults>>
UserReboot == Serving /\ \E bTry \in BOOLEAN : pi_reboot(bTry)

-----------------------------------------------------------------------------
(* A card in use, or a fresh one with the package beside the kernel. *)
Init ==
    /\ \E i \in Installed, p \in Packages :
          \/ /\ sd = [[f \in Files |-> Absent] EXCEPT !["stable"] = i.k, !["sum"] = i.b]
             /\ flash = i.b
          \/ /\ sd = [[f \in Files |-> Absent] EXCEPT !["stable"] = i.k, !["card"] = p]
             /\ flash \in Bitstreams \cup {Junk}
    /\ run = None /\ arm = FALSE /\ tryboot = FALSE /\ pc = "off" /\ job = Idle
    /\ ops = <<>> /\ faults = 0 /\ acts = 0

Startup == Boot \/ fpga_version_fixup \/ NoFixup \/ ab_boot_check \/ Provision
Flashing == FpgaNoChip \/ FpgaErase \/ FpgaProgram \/ FpgaVerifyFails \/ FpgaRestorePrev
            \/ FpgaBackupOpen \/ FpgaBackupDone \/ FpgaBackupFails
Copying == NoKernel \/ CopyOpen \/ CopyWrite \/ Verify \/ VerifyFails \/ Replace \/ Rename \/ CopyFails \/ Finish \/ Reboot
Core0 == (SdStep \/ Startup \/ Flashing \/ Copying) /\ UNCHANGED acts
Resolve == (Promote \/ HeldBack) /\ UNCHANGED acts
User == RunUpdate \/ fw \/ PromoteByHand \/ Discard \/ FpgaFlash \/ UserReboot

Next == \/ Core0 \/ Resolve
        \/ (Upload \/ PowerLoss) /\ UNCHANGED acts
        \/ User /\ acts < MaxActs /\ acts' = acts + 1

\* Core 0 keeps executing; the main loop looks at the pending try on every turn
\* and somebody leaves the board alone for the 20 or 120 s it waits.
Spec == Init /\ [][Next]_vars /\ WF_vars(Core0) /\ SF_vars(Resolve)

-----------------------------------------------------------------------------
TypeOK ==
    /\ DOMAIN sd = Files
    /\ \A f \in {"stable", "try", "new"} : sd[f] \in Kernels \cup {Absent, Partial}
    /\ sd["prev"] \in Bitstreams \cup {Junk, Absent, Partial}
    /\ \A f \in {"prevsum", "sum"} : sd[f] \in Bitstreams \cup {Junk, Absent, Partial}
    /\ sd["marker"] \in Markers \cup {Absent, Partial}
    /\ \A f \in {"update", "card"} : sd[f] \in Packages \cup {Absent, Partial}
    /\ sd["failed"] \in {None, Absent, Partial}
    /\ flash \in Bitstreams \cup {Junk}
    /\ run \in Kernels \cup {None} /\ arm \in BOOLEAN /\ tryboot \in BOOLEAN
    /\ job \in Jobs /\ faults \in 0..MaxFaults /\ acts \in 0..MaxActs

\* An install or a promotion empties the stable slot only while kernel8.new holds
\* a complete, summed kernel, and fills it only by renaming that file: whatever
\* the card does and wherever the power goes, it leaves no part of an image in
\* the slot.  ("fw" writes the slot in place; those steps have ops pending.)
StableReplacedWhole ==
    [][ops = <<>> /\ sd'["stable"] # sd["stable"] =>
          \/ sd'["stable"] = Absent /\ sd["new"] \in Kernels
          \/ sd'["stable"] = sd["new"] /\ sd["new"] \in Kernels]_vars

\* A try kernel is promoted by itself only from a boot it ran: the promoting
\* kernel is the one in the try slot, unless the marker carries no build string
\* to tell (a package without one, or a marker the power cut short).  The type
\* invariant is checked with it.
PromotesWhatRan ==
    /\ TypeOK
    /\ job.kind = "promote" /\ pc # "main" =>
          \/ job.k = run
          \/ sd["marker"] \in {Absent, Partial} \/ sd["marker"].build = None

\* As long as nothing is refused and the power stays on, the note beside the
\* kernel tells what the flash holds whenever somebody may read it to skip the
\* programming - through try installs, rollbacks to a saved bitstream and
\* bitstreams flashed by hand (fpga_sum_write, FpgaRestorePrev, vpk_check).
SumTellsFlash == faults = 0 /\ At("main") => sd["sum"] \in {flash, Absent}

\* A pending try is decided: it is promoted, rolled back, held back or replaced -
\* or its promotion failed, and the main loop waits with the marker for the next
\* boot to roll it back (Run, ab_boot_check).  A board without a whole stable
\* kernel boots no more and decides nothing.
TryDecided ==
    sd["marker"] # Absent ~> \/ sd["marker"] = Absent \/ sd["stable"] = Absent
                             \/ sd["stable"] = Partial
                             \/ (At("main") /\ ~arm)
=============================================================================
