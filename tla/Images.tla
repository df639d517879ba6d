------------------------------- MODULE Images -------------------------------
(***************************************************************************)
(* The disk images on the SD card (src/pi/baremetal/sdimg.cpp), the IDs    *)
(* they are mounted at (vscsi.cpp, the core 0 half), the configuration     *)
(* that names them (config.cpp) and the LAN transfer that brings them      *)
(* (netfetch.cpp).                                                         *)
(*                                                                         *)
(* Everything runs on core 0 under a cooperative scheduler: an expansion   *)
(* of the card, a transfer, a new image and every Web request are tasks    *)
(* that interleave only where they yield, but the power may fail anywhere. *)
(* `cpu` is the code running between two yields; "free" is a yield.        *)
(*                                                                         *)
(* A file is a number: its content's version, or one of three states in    *)
(* which it holds no image.  A path has the old form "/vscsi/x" or the new *)
(* form "/x".                                                              *)
(***************************************************************************)
EXTENDS Integers, FiniteSets, FatLayout

CONSTANTS
    Name,           \* names of images
    NoName,         \* not a name
    Slot,           \* virtual SCSI IDs, from 0
    VersionMax,     \* contents ever made (bound)
    Overlap,        \* requests may name a file that another one is working on
    LateRefusal     \* the card may refuse the last write of a file, at its close

ASSUME SlotAssumption == Slot = 0..Cardinality(Slot) - 1
ASSUME NameAssumption == NoName \notin Name
ASSUME BoundAssumption == VersionMax \in Nat
ASSUME SwitchAssumption == Overlap \in BOOLEAN /\ LateRefusal \in BOOLEAN

VARIABLES
    cpu,        \* "off", "free", or what runs until the next yield: "expand", "save", "write"
    s_img,      \* the image volume SD2: is mounted
    s_p2,       \* the MBR's second entry: "none", or a volume that "mounts" or that f_mount refuses ("bad")
    disk,       \* [File -> Content]
    slot,       \* [Slot -> path mounted, and the file it was when it was mounted]
    s_VScsi,    \* the configuration in RAM: [Slot -> Path]
    cfg,        \* the configuration on the card
    cfgState,   \* of cfg: "saved", "stale" (the last save was refused), "torn" (being rewritten)
    exp,        \* sdimg_expand: pc, images mounted before, files seen by readdir, file being copied
    s_job,      \* the LAN transfer
    new,        \* the file vscsi_new_image is zeroing
    put,        \* the file a browser is sending in pieces
    kept,       \* contents the user may count on: complete once, never given up
    fresh       \* contents made so far

vars == <<cpu, s_img, s_p2, disk, slot, s_VScsi, cfg, cfgState, exp, s_job, new, put, kept, fresh>>

Absent == 0         \* no directory entry
Empty  == -1        \* an entry of size 0: created, never closed
Short  == -2        \* closed with less than its content
Version == 1..VersionMax

File == {"SD", "SD2"} \X Name               \* SD:/vscsi/x and SD2:/x
NoFile == <<"SD", NoName>>
Path == [old : BOOLEAN, name : Name]
NoPath == [old |-> FALSE, name |-> NoName]

Off == [path |-> NoPath, at |-> NoFile]
Idle == [pc |-> "idle", path |-> NoPath, at |-> NoFile, use |-> "keep", id |-> 0]
NotExpanding == [pc |-> "idle", had |-> [s \in Slot |-> NoName], seen |-> {}, cur |-> NoName]

PathIn(img, p) == <<IF img THEN "SD2" ELSE "SD", p.name>>
sdimg_path(p) == PathIn(s_img, p)

On(s) == slot[s].path # NoPath
MountedAt(f) == \E s \in Slot : On(s) /\ sdimg_path(slot[s].path) = f
being_fetched(f) == s_job.pc # "idle" /\ s_job.use # "inject" /\ sdimg_path(s_job.path) = f

(***************************************************************************)
(* What the run asks of the user unless Overlap.  The code checks none of  *)
(* it: two requests at a time do not work on one file, a transfer's target *)
(* is not in use, an unfinished file is not mounted or renamed, and nothing else is *)
(* asked for while the card is expanded.  Until there is an image volume,  *)
(* images are named by the old form.                                       *)
(***************************************************************************)
Claimed == {new, put} \cup IF s_job.pc = "idle" THEN {}
                           ELSE {s_job.at, sdimg_path(s_job.path)}
InSlot(f) == \E s \in Slot : \E p \in {slot[s].path, s_VScsi[s], cfg[s]} : p # NoPath /\ sdimg_path(p) = f
Apart(f) == ~Overlap => f \notin Claimed
Unused(f) == ~Overlap => ~InSlot(f)
FormFits(p) == ~Overlap => (p.old \/ s_p2 # "none")
Request == cpu = "free" /\ (~Overlap => exp.pc = "idle")

Init ==
    /\ cpu = "off"
    /\ s_img = FALSE /\ s_p2 = "none"
    /\ disk = [f \in File |-> Absent]
    /\ slot = [s \in Slot |-> Off]
    /\ s_VScsi = [s \in Slot |-> NoPath]
    /\ cfg = [s \in Slot |-> NoPath]
    /\ cfgState = "saved"
    /\ exp = NotExpanding
    /\ s_job = Idle
    /\ new = NoFile /\ put = NoFile
    /\ kept = {} /\ fresh = 0

(***************************************************************************)
(* Contents.                                                               *)
(***************************************************************************)
CanMake == fresh < VersionMax

\* File f gets a new complete content; the old one is given up.
Renew(f) ==
    /\ CanMake
    /\ fresh' = fresh + 1
    /\ disk' = [disk EXCEPT ![f] = fresh + 1]
    /\ kept' = (kept \ {disk[f]}) \cup {fresh + 1}

\* The last close of a new file, whose result nobody looks at.
Close(f) ==
    /\ CanMake
    /\ fresh' = fresh + 1
    /\ disk' \in {[disk EXCEPT ![f] = fresh + 1]} \cup IF LateRefusal THEN {disk} ELSE {}
    /\ kept' = kept \cup {fresh + 1}

\* vscsi_mount: an image in the ID is ejected first, whatever happens next.
MountIn(d, img, slots, s, p) ==
    [slots EXCEPT ![s] =
        IF d[PathIn(img, p)] \in {Absent, Empty} THEN Off
        ELSE [path |-> p, at |-> PathIn(img, p)]]

(***************************************************************************)
(* cfg_save.  The callers ignore its result.                               *)
(***************************************************************************)
SaveRefused == cpu = "save" /\ cfgState' = "stale" /\ cpu' = "free"
               /\ UNCHANGED <<s_img, s_p2, disk, slot, s_VScsi, cfg, exp, s_job, new, put, kept, fresh>>

\* FA_CREATE_ALWAYS: from here to the close the file does not hold its lines.
SaveTruncate == cpu = "save" /\ cfgState' = "torn" /\ cpu' = "write"
                /\ UNCHANGED <<s_img, s_p2, disk, slot, s_VScsi, cfg, exp, s_job, new, put, kept, fresh>>

\* The vscsi lines come last, in order: a cut leaves the first ones.
FirstLines(k) == [s \in Slot |-> IF s < k THEN s_VScsi[s] ELSE NoPath]
LineCounts == 0..Cardinality(Slot)

SaveWrite ==
    /\ cpu = "write"
    /\ \/ cfg' = s_VScsi /\ cfgState' = "saved"
       \/ \E k \in LineCounts : cfg' = FirstLines(k) /\ cfgState' = "stale"
    /\ cpu' = "free"
    /\ UNCHANGED <<s_img, s_p2, disk, slot, s_VScsi, exp, s_job, new, put, kept, fresh>>

(***************************************************************************)
(* Mounting and ejecting (console, Web).                                   *)
(***************************************************************************)
Mount(s, p) ==
    /\ Request /\ Apart(sdimg_path(p)) /\ FormFits(p)
    /\ ~Overlap => disk[sdimg_path(p)] # Short
    /\ slot' = MountIn(disk, s_img, slot, s, p)
    /\ IF slot'[s] = Off THEN UNCHANGED <<s_VScsi, cpu>>
       ELSE s_VScsi' = [s_VScsi EXCEPT ![s] = p] /\ cpu' = "save"
    /\ UNCHANGED <<s_img, s_p2, disk, cfg, cfgState, exp, s_job, new, put, kept, fresh>>

Eject(s) ==
    /\ Request
    /\ slot' = [slot EXCEPT ![s] = Off]
    /\ s_VScsi' = [s_VScsi EXCEPT ![s] = NoPath]
    /\ cpu' = "save"
    /\ UNCHANGED <<s_img, s_p2, disk, cfg, cfgState, exp, s_job, new, put, kept, fresh>>

\* The X68000 writes to a mounted image, at any yield, during an expansion too.
GuestWrites(s) ==
    /\ cpu = "free" /\ On(s) /\ disk[slot[s].at] \in Version
    /\ Renew(slot[s].at)
    /\ UNCHANGED <<cpu, s_img, s_p2, slot, s_VScsi, cfg, cfgState, exp, s_job, new, put>>

(***************************************************************************)
(* Files: new, remove, rename, upload.                                     *)
(***************************************************************************)
NewBegin(p) ==
    /\ Request /\ FormFits(p) /\ new = NoFile
    /\ LET f == sdimg_path(p) IN
       /\ Apart(f) /\ Unused(f) /\ disk[f] = Absent
       /\ disk' = [disk EXCEPT ![f] = Empty]
       /\ new' = f
    /\ UNCHANGED <<cpu, s_img, s_p2, slot, s_VScsi, cfg, cfgState, exp, s_job, put, kept, fresh>>

\* The head is zeroed, or a write is refused and the file stays.
NewEnd ==
    /\ cpu = "free" /\ new # NoFile
    /\ \/ Close(new)
       \/ disk' = [disk EXCEPT ![new] = Short] /\ UNCHANGED <<kept, fresh>>
    /\ new' = NoFile
    /\ UNCHANGED <<cpu, s_img, s_p2, slot, s_VScsi, cfg, cfgState, exp, s_job, put>>

\* Mutant: the IDs are not asked.
RemoveAllowed_MutantMounted(f) == ~being_fetched(f)

RemoveAllowed(f) == ~being_fetched(f) /\ ~MountedAt(f)

Remove(p) ==
    LET f == sdimg_path(p) IN
    /\ Request /\ FormFits(p)
    /\ ~Overlap => f # new
    /\ RemoveAllowed(f) /\ disk[f] # Absent
    /\ disk' = [disk EXCEPT ![f] = Absent]
    /\ kept' = kept \ {disk[f]}
    /\ UNCHANGED <<cpu, s_img, s_p2, slot, s_VScsi, cfg, cfgState, exp, s_job, new, put, fresh>>

\* f_rename refuses an existing target.
Rename(p, q) ==
    LET a == sdimg_path(p)
        b == sdimg_path(q)
    IN
    /\ Request /\ FormFits(p) /\ FormFits(q) /\ Apart(b)
    /\ ~Overlap => a # new /\ disk[a] # Short
    /\ RemoveAllowed(a)
    /\ disk[a] # Absent /\ disk[b] = Absent
    /\ disk' = [disk EXCEPT ![a] = Absent, ![b] = disk[a]]
    /\ UNCHANGED <<cpu, s_img, s_p2, slot, s_VScsi, cfg, cfgState, exp, s_job, new, put, kept, fresh>>

\* /api/put, /api/file/put: every piece is a request that opens, writes and
\* closes; the first one truncates the file.
PutFirst(p) ==
    LET f == sdimg_path(p) IN
    /\ Request /\ FormFits(p) /\ put = NoFile /\ Apart(f) /\ Unused(f)
    /\ disk' = [disk EXCEPT ![f] = Short]
    /\ kept' = kept \ {disk[f]}
    /\ put' = f
    /\ UNCHANGED <<cpu, s_img, s_p2, slot, s_VScsi, cfg, cfgState, exp, s_job, new, fresh>>

\* The last piece: the file must still be there, by whatever name the path
\* has now.  The browser may give up.
PutLast ==
    /\ Request /\ put # NoFile
    /\ LET f == sdimg_path([old |-> TRUE, name |-> put[2]]) IN
       \/ disk[f] # Absent /\ Renew(f)
       \/ UNCHANGED <<disk, kept, fresh>>
    /\ put' = NoFile
    /\ UNCHANGED <<cpu, s_img, s_p2, slot, s_VScsi, cfg, cfgState, exp, s_job, new>>

(***************************************************************************)
(* netfetch: one transfer at a time, kept as a file, mounted when it is    *)
(* complete, or injected into an image.                                    *)
(***************************************************************************)
Uses == {"keep", "mount", "inject"}

FetchStart(p, use, id) ==
    LET f == sdimg_path(p) IN
    /\ Request /\ FormFits(p) /\ s_job.pc = "idle" /\ Apart(f)
    /\ use # "inject" => Unused(f)
    /\ s_job' = [pc |-> "connect", path |-> p, at |-> NoFile, use |-> use, id |-> id]
    /\ kept' = IF use = "inject" THEN kept ELSE kept \ {disk[f]}
    /\ UNCHANGED <<cpu, s_img, s_p2, disk, slot, s_VScsi, cfg, cfgState, exp, new, put, fresh>>

\* Connected: the path is resolved.  The header has come: the file is created.
FetchOpen ==
    /\ cpu = "free" /\ s_job.pc = "connect"
    /\ LET f == sdimg_path(s_job.path) IN
       /\ s_job' = [s_job EXCEPT !.pc = "body", !.at = f]
       /\ disk' = IF s_job.use = "inject" THEN disk ELSE [disk EXCEPT ![f] = Empty]
    /\ UNCHANGED <<cpu, s_img, s_p2, slot, s_VScsi, cfg, cfgState, exp, new, put, kept, fresh>>

\* No connection, no data for 30 s, a write refused: what there is of the file goes.
FetchFails ==
    /\ cpu = "free" /\ s_job.pc # "idle"
    /\ disk' = IF s_job.pc = "body" /\ s_job.use # "inject" THEN [disk EXCEPT ![s_job.at] = Absent] ELSE disk
    /\ s_job' = Idle
    /\ UNCHANGED <<cpu, s_img, s_p2, slot, s_VScsi, cfg, cfgState, exp, new, put, kept, fresh>>

\* The body is complete: mounted at once if it was asked for, and saved.
FetchEnd ==
    /\ cpu = "free" /\ s_job.pc = "body" /\ s_job.use # "inject"
    /\ disk[s_job.at] = Empty
    /\ Close(s_job.at)
    /\ slot' = IF s_job.use = "mount" THEN MountIn(disk', s_img, slot, s_job.id, s_job.path) ELSE slot
    /\ IF s_job.use = "mount" /\ slot'[s_job.id] # Off
       THEN s_VScsi' = [s_VScsi EXCEPT ![s_job.id] = s_job.path] /\ cpu' = "save"
       ELSE UNCHANGED <<s_VScsi, cpu>>
    /\ s_job' = Idle
    /\ UNCHANGED <<s_img, s_p2, cfg, cfgState, exp, new, put>>

\* imgfs_inject refuses a mounted image (its steps are HumanFs).
FetchInject ==
    /\ cpu = "free" /\ s_job.pc = "body" /\ s_job.use = "inject"
    /\ LET f == sdimg_path(s_job.path) IN
       IF disk[f] \in Version /\ ~MountedAt(f) THEN Renew(f) ELSE UNCHANGED <<disk, kept, fresh>>
    /\ s_job' = Idle
    /\ UNCHANGED <<cpu, s_img, s_p2, slot, s_VScsi, cfg, cfgState, exp, new, put>>

(***************************************************************************)
(* sdimg_expand: format, enter the volume in the MBR, mount it, move the   *)
(* images of SD:/vscsi there, mount them again, save.                      *)
(***************************************************************************)
ExpandBegin ==
    /\ Request /\ exp.pc = "idle" /\ ~s_img /\ s_p2 = "none"
    /\ ~Overlap => s_job.pc = "idle" /\ new = NoFile /\ put = NoFile
    /\ exp' = [exp EXCEPT !.pc = "format"]
    /\ UNCHANGED <<cpu, s_img, s_p2, disk, slot, s_VScsi, cfg, cfgState, s_job, new, put, kept, fresh>>

\* A write of the format or of the MBR is refused.
ExpandFails ==
    /\ cpu = "free" /\ exp.pc = "format"
    /\ exp' = NotExpanding
    /\ UNCHANGED <<cpu, s_img, s_p2, disk, slot, s_VScsi, cfg, cfgState, s_job, new, put, kept, fresh>>

Formatted(d) == [f \in File |-> IF f[1] = "SD2" THEN Absent ELSE d[f]]

ExpandFormatted ==
    /\ cpu = "free" /\ exp.pc = "format"
    /\ disk' = Formatted(disk)
    /\ s_p2' \in Outcomes
    /\ exp' = [exp EXCEPT !.pc = "mount"]
    /\ cpu' = "expand"
    /\ UNCHANGED <<s_img, slot, s_VScsi, cfg, cfgState, s_job, new, put, kept, fresh>>

\* f_mount refuses the volume (see FatLayout): the MBR keeps its entry.
ExpandUnmountable ==
    /\ cpu = "expand" /\ exp.pc = "mount" /\ s_p2 = "bad"
    /\ exp' = NotExpanding /\ cpu' = "free"
    /\ UNCHANGED <<s_img, s_p2, disk, slot, s_VScsi, cfg, cfgState, s_job, new, put, kept, fresh>>

WasOld(s) == On(s) /\ slot[s].path.old

MigrateBegin ==
    /\ cpu = "expand" /\ exp.pc = "mount" /\ s_p2 = "mounts"
    /\ s_img' = TRUE
    /\ exp' = [exp EXCEPT !.pc = "copy", !.had = [s \in Slot |-> IF WasOld(s) THEN slot[s].path.name ELSE NoName]]
    /\ slot' = [s \in Slot |-> IF WasOld(s) THEN Off ELSE slot[s]]
    /\ UNCHANGED <<cpu, s_p2, disk, s_VScsi, cfg, cfgState, s_job, new, put, kept, fresh>>

ToMove == {n \in Name \ exp.seen : disk[<<"SD", n>>] # Absent}

\* copy_file creates the copy; from there on it yields.
CopyBegin(n) ==
    /\ cpu = "expand" /\ exp.pc = "copy" /\ n \in ToMove
    /\ \/ /\ disk' = [disk EXCEPT ![<<"SD2", n>>] = Empty]
          /\ exp' = [exp EXCEPT !.cur = n]
          /\ cpu' = "free"
       \/ exp' = [exp EXCEPT !.seen = @ \cup {n}] /\ UNCHANGED <<disk, cpu>>
    /\ UNCHANGED <<s_img, s_p2, slot, s_VScsi, cfg, cfgState, s_job, new, put, kept, fresh>>

\* Mutant: the result of copy_file is not looked at.
CopyEnd_MutantUnchecked ==
    /\ cpu = "free" /\ exp.cur # NoName
    /\ disk' \in {[disk EXCEPT ![<<"SD2", exp.cur>>] = c] : c \in {Absent, disk[<<"SD", exp.cur>>]}}
    /\ exp' = [exp EXCEPT !.pc = "unlink"]
    /\ cpu' = "expand"
    /\ UNCHANGED <<s_img, s_p2, slot, s_VScsi, cfg, cfgState, s_job, new, put, kept, fresh>>

CopyEnd ==
    /\ cpu = "free" /\ exp.cur # NoName
    /\ \/ /\ disk' = [disk EXCEPT ![<<"SD2", exp.cur>>] = disk[<<"SD", exp.cur>>]]
          /\ exp' = [exp EXCEPT !.pc = "unlink"]
       \/ /\ disk' = [disk EXCEPT ![<<"SD2", exp.cur>>] = Absent]       \* a read, a write or the close failed
          /\ exp' = [exp EXCEPT !.seen = @ \cup {exp.cur}, !.cur = NoName]
    /\ cpu' = "expand"
    /\ UNCHANGED <<s_img, s_p2, slot, s_VScsi, cfg, cfgState, s_job, new, put, kept, fresh>>

\* The result of f_unlink is not looked at.
MoveEnd ==
    /\ cpu = "expand" /\ exp.pc = "unlink"
    /\ disk' \in {disk, [disk EXCEPT ![<<"SD", exp.cur>>] = Absent]}
    /\ exp' = [exp EXCEPT !.pc = "copy", !.seen = @ \cup {exp.cur}, !.cur = NoName]
    /\ UNCHANGED <<cpu, s_img, s_p2, slot, s_VScsi, cfg, cfgState, s_job, new, put, kept, fresh>>

\* An image that was moved is mounted and configured under its new path.  The
\* attempt with the old path resolves to the same file: it fails as well.
Had(s) == exp.had[s] # NoName
NewPath(s) == [old |-> FALSE, name |-> exp.had[s]]
Remounted(s) == Had(s) /\ disk[PathIn(TRUE, NewPath(s))] \notin {Absent, Empty}

\* Mutant: the images are mounted again, the configuration keeps their old paths.
Configured_MutantOld == s_VScsi

Configured == [s \in Slot |-> IF Remounted(s) THEN NewPath(s)
                              ELSE IF Had(s) THEN NoPath ELSE s_VScsi[s]]

MigrateEnd ==
    /\ cpu = "expand" /\ exp.pc = "copy" /\ ToMove = {}
    /\ slot' = [s \in Slot |-> IF Remounted(s) THEN MountIn(disk, TRUE, slot, s, NewPath(s))[s]
                               ELSE IF Had(s) THEN Off ELSE slot[s]]
    /\ s_VScsi' = Configured
    /\ exp' = NotExpanding
    /\ cpu' = "save"
    /\ UNCHANGED <<s_img, s_p2, disk, cfg, cfgState, s_job, new, put, kept, fresh>>

(***************************************************************************)
(* Power.                                                                  *)
(***************************************************************************)
\* What the power leaves of the file is what the next boot reads: a save cut
\* off leaves its first lines.
Left(k) == IF cfgState = "torn" THEN FirstLines(k) ELSE cfg
cfg_load == cfg

PowerLoss ==
    /\ cpu # "off"
    /\ cpu' = "off"
    /\ \E k \in LineCounts : cfg' = Left(k)
    /\ cfgState' = "saved"
    /\ s_img' = FALSE
    /\ slot' = [s \in Slot |-> Off]
    /\ s_VScsi' = [s \in Slot |-> NoPath]
    /\ exp' = NotExpanding /\ s_job' = Idle /\ new' = NoFile /\ put' = NoFile
    /\ UNCHANGED <<s_p2, disk, kept, fresh>>

\* sdimg_init, cfg_load, and every configured image that opens.
Mountable == s_p2 = "mounts"

Boot ==
    /\ cpu = "off"
    /\ cpu' = "free"
    /\ s_img' = Mountable
    /\ s_VScsi' = cfg_load
    /\ slot' = [s \in Slot |-> IF cfg_load[s] = NoPath THEN Off ELSE MountIn(disk, s_img', slot, s, cfg_load[s])[s]]
    /\ UNCHANGED <<s_p2, disk, cfg, cfgState, exp, s_job, new, put, kept, fresh>>

Next ==
    \/ SaveRefused \/ SaveTruncate \/ SaveWrite
    \/ \E s \in Slot, p \in Path : Mount(s, p)
    \/ \E s \in Slot : Eject(s) \/ GuestWrites(s)
    \/ \E p \in Path : NewBegin(p) \/ Remove(p) \/ PutFirst(p)
    \/ \E p, q \in Path : Rename(p, q)
    \/ NewEnd \/ PutLast
    \/ \E p \in Path, use \in Uses, id \in Slot : FetchStart(p, use, id)
    \/ FetchOpen \/ FetchFails \/ FetchEnd \/ FetchInject
    \/ ExpandBegin \/ ExpandFails \/ ExpandFormatted \/ ExpandUnmountable
    \/ MigrateBegin \/ CopyEnd \/ MoveEnd \/ MigrateEnd
    \/ \E n \in Name : CopyBegin(n)
    \/ PowerLoss \/ Boot

Spec == Init /\ [][Next]_vars

(***************************************************************************)
(* Properties.                                                             *)
(***************************************************************************)
TypeOK ==
    /\ cpu \in {"off", "free", "expand", "save", "write"}
    /\ s_img \in BOOLEAN /\ s_p2 \in {"none", "mounts", "bad"} /\ (s_img => Mountable)
    /\ disk \in [File -> {Absent, Empty, Short} \cup Version]
    /\ slot \in [Slot -> [path : Path, at : File] \cup {Off}]
    /\ s_VScsi \in [Slot -> Path \cup {NoPath}] /\ cfg \in [Slot -> Path \cup {NoPath}]
    /\ cfgState \in {"saved", "stale", "torn"}
    /\ exp.pc \in {"idle", "format", "mount", "copy", "unlink"}
    /\ s_job.pc \in {"idle", "connect", "body"}
    /\ new \in File \cup {NoFile} /\ put \in File \cup {NoFile}
    /\ kept \subseteq Version /\ fresh \in 0..VersionMax

\* No image is lost: a content that was complete and that nobody gave up is
\* complete in some file of the card, whatever step the power fails at and
\* whichever write is refused - above all while the images move to the volume.
NoImageLost == \A v \in kept : \E f \in File : disk[f] = v

\* A mounted image stays what it was: its file is there, complete, and is the
\* one its path names now ("a mounted image cannot go", sdimg_remove).
MountedWhole == \A s \in Slot : On(s) =>
    disk[slot[s].at] \in Version /\ sdimg_path(slot[s].path) = slot[s].at

\* What is mounted comes back: a boot at this moment would mount the same
\* file, unless a save is under way or was refused, or the new volume is not in
\* use yet.
ComesBack ==
    cpu = "free" /\ cfgState = "saved" /\ s_img = Mountable =>
        \A s \in Slot : On(s) => cfg[s] = slot[s].path /\ PathIn(Mountable, cfg[s]) = slot[s].at
\* Whatever the size of the card, the volume just formatted fills its
\* partition, stays inside it, and lacks at most one entry of its FAT.
VolumeFits == exp.pc = "mount" => LayoutFits
=============================================================================
