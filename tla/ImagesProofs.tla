---------------------------- MODULE ImagesProofs ----------------------------
(***************************************************************************)
(* Theorems about the images on the SD card, for any number of IDs, names  *)
(* and contents, under the discipline that Images asks of the user and for *)
(* a card that refuses no write at the close of a file; and about the      *)
(* geometry of the volume, for any size of partition.                      *)
(*                                                                         *)
(*   1. types, and who runs when                                           *)
(*   2. the paths in use, and what a user's steps write                    *)
(*   3. the parts of the invariant, one section each                       *)
(*   4. the geometry                                                       *)
(*   5. the theorems                                                       *)
(***************************************************************************)
EXTENDS Images, TLAPS

\* No two requests work on one file, and the close of a file succeeds (see Images).
Discipline == ~Overlap /\ ~LateRefusal

-----------------------------------------------------------------------------
(***************************************************************************)
(* The invariant.                                                          *)
(***************************************************************************)
Content == {Absent, Empty, Short} \cup 1..fresh

Typed ==
    /\ cpu \in {"off", "free", "expand", "save", "write"}
    /\ s_img \in BOOLEAN /\ s_p2 \in {"none", "mounts", "bad"}
    /\ disk \in [File -> Content]
    /\ slot \in [Slot -> [path : Path \cup {NoPath}, at : File \cup {NoFile}]]
    /\ s_VScsi \in [Slot -> Path \cup {NoPath}] /\ cfg \in [Slot -> Path \cup {NoPath}]
    /\ cfgState \in {"saved", "stale", "torn"}
    /\ exp \in [pc : {"idle", "format", "mount", "copy", "unlink"},
                had : [Slot -> Name \cup {NoName}], seen : SUBSET Name, cur : Name \cup {NoName}]
    /\ s_job \in [pc : {"idle", "connect", "body"}, path : Path \cup {NoPath},
                  at : File \cup {NoFile}, use : Uses, id : Slot \cup {0}]
    /\ s_job.pc # "idle" => s_job.path \in Path /\ s_job.id \in Slot
    /\ new \in File \cup {NoFile} /\ put \in File \cup {NoFile}
    /\ kept \subseteq 1..fresh /\ fresh \in 0..VersionMax

Moving == exp.pc \in {"copy", "unlink"}

\* Where the processor is, and what nothing else runs beside.
Phases ==
    /\ exp.pc = "idle" => cpu # "expand"
    /\ exp.pc = "format" => cpu = "free" /\ s_p2 = "none"
    /\ exp.pc = "mount" => cpu = "expand" /\ ~s_img /\ s_p2 # "none"
    /\ exp.pc = "copy" => cpu = (IF exp.cur = NoName THEN "expand" ELSE "free")
    /\ exp.pc = "unlink" => cpu = "expand" /\ exp.cur # NoName
    /\ ~Moving => exp.cur = NoName
    /\ Moving => s_img
    /\ exp.pc # "idle" => s_job.pc = "idle" /\ new = NoFile /\ put = NoFile
    /\ cpu = "off" => /\ exp = NotExpanding /\ s_job = Idle /\ new = NoFile /\ put = NoFile
                      /\ \A s \in Slot : ~On(s)
    /\ s_img # Mountable => cpu = "off" \/ exp.pc = "mount"
    /\ cpu = "off" => ~s_img
    /\ cfgState = "torn" <=> cpu = "write"

\* The paths in use: mounted, configured, saved.
Names(p) == p \in Path /\ \E s \in Slot : p \in {slot[s].path, s_VScsi[s], cfg[s]}

\* Before there is a volume nothing is on it, and nothing is named by the new form.
OldForm ==
    s_p2 = "none" \/ exp.pc = "mount" =>
        /\ \A n \in Name : disk[<<"SD2", n>>] = Absent
        /\ \A p \in Path : Names(p) => p.old

\* While the images move, none is mounted, and what has not been moved yet has
\* no copy.
Moves ==
    /\ Moving => \A s \in Slot : ~On(s)
    /\ Moving => \A n \in Name \ exp.seen : n # exp.cur => disk[<<"SD2", n>>] = Absent
    /\ exp.pc = "copy" /\ exp.cur # NoName => disk[<<"SD2", exp.cur>>] = Empty
    /\ exp.pc = "unlink" => disk[<<"SD2", exp.cur>>] = disk[<<"SD", exp.cur>>]

\* No path in use names a half-written file, wherever the path leads.
WholeThere(img) == \A p \in Path : Names(p) => disk[PathIn(img, p)] # Short
WholeHad == \A s \in Slot : Had(s) => /\ disk[<<"SD", exp.had[s]>>] # Short
                                      /\ disk[<<"SD2", exp.had[s]>>] # Short
NamedWhole ==
    /\ WholeThere(Mountable)
    /\ Moving \/ exp.pc = "mount" => WholeThere(FALSE)
    /\ Moving => WholeHad

\* A file that a path leads to now.
Here(f) == f[1] = IF s_img THEN "SD2" ELSE "SD"

\* Files under construction: not in use, not the same, and what they hold.
ClaimNew == new # NoFile => /\ Here(new) /\ disk[new] = Empty /\ new # put
                            /\ ~InSlot(new) /\ ~being_fetched(new)
ClaimPut == put # NoFile => Here(put) /\ ~InSlot(put) /\ ~being_fetched(put)
ClaimJob ==
    /\ \A f \in File : being_fetched(f) => ~InSlot(f)
    /\ s_job.pc # "idle" => s_job.path.old \/ s_p2 # "none"
    /\ s_job.pc = "connect" /\ s_job.use # "inject" => disk[sdimg_path(s_job.path)] \notin kept
    /\ s_job.pc = "body" => s_job.at = sdimg_path(s_job.path)
    /\ s_job.pc = "body" /\ s_job.use # "inject" => disk[s_job.at] = Empty
Claims == ClaimNew /\ ClaimPut /\ ClaimJob

\* What the configuration in RAM and the one on the card say.
Saved ==
    /\ \A s \in Slot : On(s) => s_VScsi[s] = slot[s].path
    /\ cfgState = "saved" => cpu \in {"off", "save"} \/ cfg = s_VScsi

Inv == /\ Typed /\ Phases /\ OldForm /\ Moves /\ NamedWhole /\ Claims /\ Saved
       /\ NoImageLost /\ MountedWhole

-----------------------------------------------------------------------------
(***************************************************************************)
(* Files, paths and contents.                                              *)
(***************************************************************************)
LEMMA PathFile ==
  ASSUME NEW img \in BOOLEAN, NEW p \in Path
  PROVE  /\ PathIn(img, p) \in File /\ PathIn(img, p) # NoFile
         /\ PathIn(img, p) = <<IF img THEN "SD2" ELSE "SD", p.name>> /\ p.name \in Name
  BY NameAssumption DEF PathIn, File, NoFile, Path

LEMMA NoPathIsNone == NoPath \notin Path /\ NoFile \notin File
  BY NameAssumption DEF NoPath, Path, NoFile, File

LEMMA Contents ==
  ASSUME Typed
  PROVE  /\ fresh \in Nat /\ VersionMax \in Nat /\ fresh <= VersionMax
         /\ \A f \in File : disk[f] \in {0, -1, -2} \cup 1..fresh
         /\ \A f \in File : disk[f] \in Version <=> disk[f] \notin {Absent, Empty, Short}
         /\ Absent \notin kept /\ Empty \notin kept /\ Short \notin kept
         /\ \A f \in File : disk[f] # fresh + 1
  BY BoundAssumption DEF Typed, Content, Absent, Empty, Short, Version

\* What is mounted has a path, and its file is one of the card.
LEMMA SlotTypes ==
  ASSUME Typed, MountedWhole, NEW s \in Slot, On(s)
  PROVE  /\ slot[s].path \in Path /\ slot[s].at \in File /\ Names(slot[s].path)
         /\ slot[s].at = sdimg_path(slot[s].path) /\ disk[slot[s].at] \in Version
  <1>1. slot[s].path \in Path /\ s_img \in BOOLEAN
    BY DEF On, Typed
  <1>2. slot[s].at = sdimg_path(slot[s].path) /\ disk[slot[s].at] \in Version
    BY DEF MountedWhole
  <1>3. QED
    BY <1>1, <1>2, PathFile DEF sdimg_path, Names

LEMMA InSlotNames ==
  ASSUME Typed, NEW f
  PROVE  InSlot(f) <=> \E p \in Path : Names(p) /\ sdimg_path(p) = f
  <1>1. ASSUME NEW s \in Slot, NEW p \in {slot[s].path, s_VScsi[s], cfg[s]}
        PROVE  p # NoPath <=> p \in Path
    BY NoPathIsNone DEF Typed
  <1>2. QED
    BY <1>1 DEF InSlot, Names

\* A content that goes into a file, under the same or the next count.
LEMMA DiskTypes ==
  ASSUME Typed, NEW f \in File, NEW c \in Content \cup {fresh + 1},
         disk' = [disk EXCEPT ![f] = c],
         (fresh' = fresh /\ c \in Content) \/ fresh' = fresh + 1
  PROVE  disk' \in [File -> Content']
  <1>1. Content \subseteq Content' /\ c \in Content'
    BY DEF Typed, Content, Absent, Empty, Short
  <1>2. QED
    BY <1>1 DEF Typed

LEMMA MountTypes ==
  ASSUME Typed, NEW d, NEW img \in BOOLEAN, NEW s \in Slot, NEW p \in Path
  PROVE  MountIn(d, img, slot, s, p) \in [Slot -> [path : Path \cup {NoPath}, at : File \cup {NoFile}]]
  <1>1. Off \in [path : Path \cup {NoPath}, at : File \cup {NoFile}]
    BY DEF Off
  <1>2. [path |-> p, at |-> PathIn(img, p)] \in [path : Path \cup {NoPath}, at : File \cup {NoFile}]
    BY PathFile
  <1>3. QED
    BY <1>1, <1>2 DEF MountIn, Typed

-----------------------------------------------------------------------------
(***************************************************************************)
(* Types.                                                                  *)
(***************************************************************************)
Jobs == [pc : {"idle", "connect", "body"}, path : Path \cup {NoPath},
         at : File \cup {NoFile}, use : Uses, id : Slot \cup {0}]
Expands == [pc : {"idle", "format", "mount", "copy", "unlink"},
            had : [Slot -> Name \cup {NoName}], seen : SUBSET Name, cur : Name \cup {NoName}]

LEMMA TypedInit == Init => Typed
  <1> SUFFICES ASSUME Init PROVE Typed
    OBVIOUS
  <1>1. s_job \in Jobs /\ exp \in Expands
    BY DEF Init, Idle, NotExpanding, Jobs, Expands, Uses
  <1>2. slot \in [Slot -> [path : Path \cup {NoPath}, at : File \cup {NoFile}]]
    BY DEF Init, Off
  <1>3. disk \in [File -> Content]
    BY DEF Init, Content
  <1>4. s_job.pc = "idle" /\ kept \subseteq 1..fresh /\ fresh \in 0..VersionMax
    BY BoundAssumption DEF Init, Idle
  <1>5. /\ s_VScsi \in [Slot -> Path \cup {NoPath}] /\ cfg \in [Slot -> Path \cup {NoPath}]
        /\ new \in File \cup {NoFile} /\ put \in File \cup {NoFile}
        /\ s_img \in BOOLEAN /\ s_p2 = "none" /\ cpu = "off" /\ cfgState = "saved"
    BY DEF Init
  <1>6. QED
    BY <1>1, <1>2, <1>3, <1>4, <1>5 DEF Typed, Jobs, Expands

LEMMA TypedStep == Typed /\ MountedWhole /\ Phases /\ [Next]_vars => Typed'
  <1> SUFFICES ASSUME Typed, MountedWhole, Phases, [Next]_vars PROVE Typed'
    OBVIOUS
  <1>0. s_img \in BOOLEAN /\ fresh \in Nat
    BY DEF Typed
  <1>1. CASE UNCHANGED <<disk, slot, kept, fresh, s_img, s_p2, exp, s_job, new, put>> /\
             cpu' \in {"off", "free", "expand", "save", "write"} /\
             cfgState' \in {"saved", "stale", "torn"} /\
             s_VScsi' \in [Slot -> Path \cup {NoPath}] /\ cfg' \in [Slot -> Path \cup {NoPath}]
    BY <1>1 DEF Typed, Content
  <1>2. CASE SaveRefused \/ SaveTruncate
    BY <1>1, <1>2 DEF SaveRefused, SaveTruncate, Typed
  <1>3. \A k \in Int : FirstLines(k) \in [Slot -> Path \cup {NoPath}]
    BY DEF FirstLines, Typed
  <1>4. CASE SaveWrite
    <2>1. cfg' \in [Slot -> Path \cup {NoPath}]
      BY <1>3, <1>4 DEF SaveWrite, Typed, LineCounts
    <2>2. QED
      BY <1>1, <1>4, <2>1 DEF SaveWrite, Typed
  <1>5. ASSUME NEW s \in Slot, NEW p \in Path, Mount(s, p) PROVE Typed'
    <2>1. slot' \in [Slot -> [path : Path \cup {NoPath}, at : File \cup {NoFile}]]
      BY <1>0, <1>5, MountTypes DEF Mount
    <2>2. QED
      BY <1>5, <2>1 DEF Mount, Typed, Content
  <1>6. ASSUME NEW s \in Slot, Eject(s) PROVE Typed'
    <2>1. slot' \in [Slot -> [path : Path \cup {NoPath}, at : File \cup {NoFile}]]
      BY <1>6 DEF Eject, Typed, Off
    <2>2. QED
      BY <1>6, <2>1 DEF Eject, Typed, Content
  <1>7. ASSUME NEW f \in File, NEW c \in Content \cup {fresh + 1},
               disk' = [disk EXCEPT ![f] = c],
               \/ fresh' = fresh /\ c \in Content /\ kept' \subseteq kept
               \/ fresh' = fresh + 1 /\ CanMake /\ kept' \subseteq kept \cup {fresh + 1},
               slot' \in [Slot -> [path : Path \cup {NoPath}, at : File \cup {NoFile}]],
               s_VScsi' \in [Slot -> Path \cup {NoPath}],
               exp' \in Expands, s_job' \in Jobs,
               s_job'.pc # "idle" => s_job'.path \in Path /\ s_job'.id \in Slot,
               cpu' \in {"off", "free", "expand", "save", "write"},
               new' \in File \cup {NoFile}, put' \in File \cup {NoFile},
               UNCHANGED <<s_img, s_p2, cfg, cfgState>>
        PROVE  Typed'
    <2>1. disk' \in [File -> Content']
      BY <1>7, DiskTypes
    <2>2. kept' \subseteq 1..fresh' /\ fresh' \in 0..VersionMax
      <3>1. kept \subseteq 1..fresh /\ fresh \in Nat /\ fresh <= VersionMax /\ VersionMax \in Nat
        BY BoundAssumption DEF Typed
      <3>2. \/ fresh' = fresh /\ kept' \subseteq kept
            \/ fresh' = fresh + 1 /\ fresh < VersionMax /\ kept' \subseteq kept \cup {fresh + 1}
        BY <1>7 DEF CanMake
      <3>3. CASE fresh' = fresh /\ kept' \subseteq kept
        BY <3>1, <3>3
      <3>4. CASE fresh' = fresh + 1 /\ fresh < VersionMax /\ kept' \subseteq kept \cup {fresh + 1}
        BY <3>1, <3>4
      <3>5. QED
        BY <3>2, <3>3, <3>4
    <2>3. exp' \in [pc : {"idle", "format", "mount", "copy", "unlink"},
                    had : [Slot -> Name \cup {NoName}], seen : SUBSET Name, cur : Name \cup {NoName}]
      BY <1>7 DEF Expands
    <2>4. s_job' \in [pc : {"idle", "connect", "body"}, path : Path \cup {NoPath},
                      at : File \cup {NoFile}, use : Uses, id : Slot \cup {0}]
      BY <1>7 DEF Jobs
    <2>5. QED
      BY <1>7, <2>1, <2>2, <2>3, <2>4 DEF Typed
  <1>8. /\ exp \in Expands /\ s_job \in Jobs /\ Idle \in Jobs /\ NotExpanding \in Expands
        /\ {Absent, Empty, Short} \subseteq Content /\ \A f \in File : disk[f] \in Content
        /\ slot \in [Slot -> [path : Path \cup {NoPath}, at : File \cup {NoFile}]]
        /\ Idle.pc = "idle"
    BY DEF Typed, Jobs, Expands, Content, Idle, NotExpanding, Uses
  <1>9. ASSUME NEW s \in Slot, GuestWrites(s) PROVE Typed'
    <2>1. slot[s].at \in File
      BY <1>9, SlotTypes DEF GuestWrites
    <2>2. QED
      BY <1>7, <1>8, <1>9, <2>1 DEF GuestWrites, Renew, Typed
  <1>10. ASSUME NEW p \in Path, NewBegin(p) PROVE Typed'
    <2>1. sdimg_path(p) \in File
      BY <1>0, PathFile DEF sdimg_path
    <2>2. QED
      BY <1>7, <1>8, <1>10, <2>1 DEF NewBegin, Typed
  <1>11. CASE NewEnd
    <2>1. new \in File
      BY <1>11 DEF NewEnd, Typed
    <2>2. \/ disk' = [disk EXCEPT ![new] = fresh + 1]
          \/ disk' = [disk EXCEPT ![new] = disk[new]] /\ disk[new] \in Content
          \/ disk' = [disk EXCEPT ![new] = Short]
      BY <1>11, <2>1 DEF NewEnd, Close, Typed
    <2>3. \/ fresh' = fresh /\ kept' \subseteq kept /\ disk' = [disk EXCEPT ![new] = Short]
          \/ fresh' = fresh + 1 /\ CanMake /\ kept' \subseteq kept \cup {fresh + 1}
      BY <1>11 DEF NewEnd, Close
    <2>4. \E c \in Content \cup {fresh + 1} : /\ disk' = [disk EXCEPT ![new] = c]
                                              /\ fresh' = fresh => c \in Content
      BY <1>0, <1>8, <2>2, <2>3
    <2>5. QED
      BY <1>7, <1>8, <1>11, <2>1, <2>3, <2>4 DEF NewEnd, Typed
  <1>12. ASSUME NEW p \in Path, Remove(p) PROVE Typed'
    <2>1. sdimg_path(p) \in File
      BY <1>0, PathFile DEF sdimg_path
    <2>2. QED
      BY <1>7, <1>8, <1>12, <2>1 DEF Remove, Typed
  <1>13. ASSUME NEW p \in Path, NEW q \in Path, Rename(p, q) PROVE Typed'
    <2>1. sdimg_path(p) \in File /\ sdimg_path(q) \in File
      BY <1>0, PathFile DEF sdimg_path
    <2>2. disk' \in [File -> Content']
      BY <1>8, <1>13, <2>1 DEF Rename, Typed, Content
    <2>3. QED
      BY <1>13, <2>2 DEF Rename, Typed
  <1>14. ASSUME NEW p \in Path, PutFirst(p) PROVE Typed'
    <2>1. sdimg_path(p) \in File
      BY <1>0, PathFile DEF sdimg_path
    <2>2. QED
      BY <1>7, <1>8, <1>14, <2>1 DEF PutFirst, Typed
  <1>15. CASE PutLast
    <2>1. [old |-> TRUE, name |-> put[2]] \in Path
      BY <1>15 DEF PutLast, Typed, File, NoFile, Path
    <2>2. sdimg_path([old |-> TRUE, name |-> put[2]]) \in File
      BY <1>0, <2>1, PathFile DEF sdimg_path
    <2>3. CASE UNCHANGED <<disk, kept, fresh>>
      BY <1>15, <2>3 DEF PutLast, Typed, Content
    <2>4. CASE Renew(sdimg_path([old |-> TRUE, name |-> put[2]]))
      BY <1>7, <1>8, <1>15, <2>2, <2>4 DEF PutLast, Renew, Typed
    <2>5. QED
      BY <1>15, <2>3, <2>4 DEF PutLast
  <1>16. ASSUME NEW p \in Path, NEW use \in Uses, NEW id \in Slot, FetchStart(p, use, id)
         PROVE  Typed'
    <2>1. s_job' \in Jobs /\ s_job'.path \in Path /\ s_job'.id \in Slot
      BY <1>16, SlotAssumption DEF FetchStart, Jobs
    <2>2. UNCHANGED <<cpu, s_img, s_p2, disk, slot, s_VScsi, cfg, cfgState, exp, new, put, fresh>>
          /\ kept' \subseteq kept
      BY <1>16 DEF FetchStart
    <2>3. QED
      BY <2>1, <2>2 DEF Typed, Jobs, Content
  <1>17. CASE FetchOpen
    <2>1. sdimg_path(s_job.path) \in File /\ s_job.path \in Path /\ s_job.id \in Slot
      BY <1>0, <1>17, PathFile DEF sdimg_path, FetchOpen, Typed
    <2>2. s_job' \in Jobs /\ s_job'.path = s_job.path /\ s_job'.id = s_job.id
      BY <1>8, <1>17, <2>1 DEF FetchOpen, Jobs
    <2>3. disk' \in [File -> Content]
      BY <1>17 DEF FetchOpen, Typed, Content
    <2>4. UNCHANGED <<cpu, s_img, s_p2, slot, s_VScsi, cfg, cfgState, exp, new, put, kept, fresh>>
      BY <1>17 DEF FetchOpen
    <2>5. s_job'.path \in Path /\ s_job'.id \in Slot /\ s_job' \in Jobs
      BY <2>1, <2>2
    <2>6. QED
      BY <2>3, <2>4, <2>5 DEF Typed, Jobs, Content
  <1>18. CASE FetchFails
    <2>1. disk' \in [File -> Content]
      BY <1>18 DEF FetchFails, Typed, Content
    <2>2. s_job' = Idle /\ UNCHANGED <<cpu, s_img, s_p2, slot, s_VScsi, cfg, cfgState, exp, new, put, kept, fresh>>
      BY <1>18 DEF FetchFails
    <2>3. s_job' \in Jobs /\ s_job'.pc = "idle"
      BY <1>8, <2>2
    <2>4. QED
      BY <2>1, <2>2, <2>3 DEF Typed, Jobs, Content
  <1>19. CASE FetchEnd
    <2>1. \/ disk' = [disk EXCEPT ![s_job.at] = fresh + 1]
          \/ disk' = disk
      BY <1>19 DEF FetchEnd, Close
    <2>2. /\ fresh' = fresh + 1 /\ CanMake /\ kept' \subseteq kept \cup {fresh + 1}
      BY <1>19 DEF FetchEnd, Close
    <2>3. disk' \in [File -> Content']
      BY <1>0, <2>1, <2>2 DEF Typed, Content, Absent, Empty, Short
    <2>4. kept' \subseteq 1..fresh' /\ fresh' \in 0..VersionMax
      BY <2>2, BoundAssumption DEF Typed, CanMake
    <2>5. s_job.path \in Path /\ s_job.id \in Slot
      BY <1>19 DEF FetchEnd, Typed
    <2>6. slot' \in [Slot -> [path : Path \cup {NoPath}, at : File \cup {NoFile}]]
      BY <1>0, <1>8, <1>19, <2>5, MountTypes DEF FetchEnd
    <2>7. s_VScsi' \in [Slot -> Path \cup {NoPath}] /\ cpu' \in {"free", "save"}
      BY <1>19, <2>5 DEF FetchEnd, Typed
    <2>8. QED
      BY <1>8, <1>19, <2>3, <2>4, <2>6, <2>7 DEF FetchEnd, Typed, Jobs
  <1>20. CASE FetchInject
    <2>1. sdimg_path(s_job.path) \in File
      BY <1>0, <1>20, PathFile DEF sdimg_path, FetchInject, Typed
    <2>2. CASE UNCHANGED <<disk, kept, fresh>>
      BY <1>8, <1>20, <2>2 DEF FetchInject, Typed, Jobs, Content
    <2>3. CASE Renew(sdimg_path(s_job.path))
      BY <1>7, <1>8, <1>20, <2>1, <2>3 DEF FetchInject, Renew, Typed
    <2>4. QED
      BY <1>20, <2>2, <2>3 DEF FetchInject
  <1>21. CASE ExpandBegin \/ ExpandFails \/ ExpandUnmountable
    <2>1. exp' \in Expands
      BY <1>8, <1>21 DEF ExpandBegin, ExpandFails, ExpandUnmountable, Expands
    <2>2. UNCHANGED <<s_img, s_p2, disk, slot, s_VScsi, cfg, cfgState, s_job, new, put, kept, fresh>>
          /\ cpu' \in {cpu, "free"}
      BY <1>21 DEF ExpandBegin, ExpandFails, ExpandUnmountable
    <2>3. QED
      BY <2>1, <2>2 DEF Typed, Expands, Content
  <1>22. CASE ExpandFormatted
    <2>1. exp' \in Expands
      BY <1>8, <1>22 DEF ExpandFormatted, Expands
    <2>2. s_p2' \in {"mounts", "bad"}
      BY <1>22 DEF ExpandFormatted, Outcomes, Outcome
    <2>3. disk' \in [File -> Content]
      BY <1>22 DEF ExpandFormatted, Formatted, Typed, Content
    <2>4. QED
      BY <1>22, <2>1, <2>2, <2>3 DEF ExpandFormatted, Typed, Expands, Content
  <1>23. CASE MigrateBegin
    <2>1. \A s \in Slot : WasOld(s) => slot[s].path.name \in Name
      <3>1. ASSUME NEW s \in Slot, WasOld(s) PROVE slot[s].path.name \in Name
        BY <3>1 DEF WasOld, On, Typed, Path
      <3>2. QED
        BY <3>1
    <2>2. exp' \in Expands
      BY <1>8, <1>23, <2>1 DEF MigrateBegin, Expands
    <2>3. slot' \in [Slot -> [path : Path \cup {NoPath}, at : File \cup {NoFile}]]
      BY <1>8, <1>23 DEF MigrateBegin, Off
    <2>4. QED
      BY <1>23, <2>2, <2>3 DEF MigrateBegin, Typed, Expands, Content
  <1>24. ASSUME NEW n \in Name, CopyBegin(n) PROVE Typed'
    <2>1. exp' \in Expands
      BY <1>8, <1>24 DEF CopyBegin, Expands
    <2>2. disk' \in [File -> Content]
      BY <1>24 DEF CopyBegin, Typed, Content
    <2>3. QED
      BY <1>24, <2>1, <2>2 DEF CopyBegin, Typed, Expands, Content
  <1>25. CASE CopyEnd
    <2>1. exp.cur \in Name
      BY <1>25 DEF CopyEnd, Typed
    <2>2. exp' \in Expands
      <3>1. \/ exp' = [exp EXCEPT !.pc = "unlink"]
            \/ exp' = [exp EXCEPT !.seen = @ \cup {exp.cur}, !.cur = NoName]
        BY <1>25 DEF CopyEnd
      <3>2. CASE exp' = [exp EXCEPT !.pc = "unlink"]
        BY <1>8, <3>2 DEF Expands
      <3>3. CASE exp' = [exp EXCEPT !.seen = @ \cup {exp.cur}, !.cur = NoName]
        BY <1>8, <2>1, <3>3 DEF Expands
      <3>4. QED
        BY <3>1, <3>2, <3>3
    <2>3. <<"SD", exp.cur>> \in File
      BY <2>1 DEF File
    <2>4. disk' \in [File -> Content]
      BY <1>8, <1>25, <2>3 DEF CopyEnd, Typed
    <2>5. QED
      BY <1>25, <2>2, <2>4 DEF CopyEnd, Typed, Expands, Content
  <1>26. CASE MoveEnd
    <2>1. exp.cur \in Name
      BY <1>26 DEF MoveEnd, Typed, Phases
    <2>2. exp' \in Expands
      BY <1>8, <1>26, <2>1 DEF MoveEnd, Expands
    <2>3. disk' \in [File -> Content]
      BY <1>8, <1>26 DEF MoveEnd, Typed
    <2>4. QED
      BY <1>26, <2>2, <2>3 DEF MoveEnd, Typed, Expands, Content
  <1>27. CASE MigrateEnd
    <2>1. \A s \in Slot : Had(s) => NewPath(s) \in Path
      BY DEF Had, NewPath, Path, Typed
    <2>2. s_VScsi' \in [Slot -> Path \cup {NoPath}]
      BY <1>27, <2>1 DEF MigrateEnd, Configured, Remounted, Typed
    <2>3. \A s \in Slot : Had(s) => MountIn(disk, TRUE, slot, s, NewPath(s))[s]
                                      \in [path : Path \cup {NoPath}, at : File \cup {NoFile}]
      <3>1. ASSUME NEW s \in Slot, Had(s)
            PROVE  MountIn(disk, TRUE, slot, s, NewPath(s))
                     \in [Slot -> [path : Path \cup {NoPath}, at : File \cup {NoFile}]]
        BY <2>1, <3>1, MountTypes
      <3>2. QED
        BY <3>1
    <2>4. slot' \in [Slot -> [path : Path \cup {NoPath}, at : File \cup {NoFile}]]
      BY <1>8, <1>27, <2>3 DEF MigrateEnd, Remounted, Off
    <2>5. exp' \in Expands
      BY <1>8, <1>27 DEF MigrateEnd
    <2>6. QED
      BY <1>27, <2>2, <2>4, <2>5 DEF MigrateEnd, Typed, Expands, Content
  <1>28. CASE PowerLoss
    <2>1. cfg' \in [Slot -> Path \cup {NoPath}]
      BY <1>3, <1>28 DEF PowerLoss, Left, LineCounts, Typed
    <2>2. slot' \in [Slot -> [path : Path \cup {NoPath}, at : File \cup {NoFile}]]
      BY <1>28 DEF PowerLoss, Off
    <2>3. exp' \in Expands /\ s_job' \in Jobs /\ s_job'.pc = "idle"
      BY <1>8, <1>28 DEF PowerLoss
    <2>4. QED
      BY <1>28, <2>1, <2>2, <2>3 DEF PowerLoss, Typed, Jobs, Expands, Content
  <1>29. CASE Boot
    <2>1. s_img' \in BOOLEAN
      BY <1>29 DEF Boot, Mountable
    <2>2. PICK i \in BOOLEAN : i = s_img'
      BY <2>1
    <2>3. ASSUME NEW s \in Slot, cfg[s] # NoPath
          PROVE  MountIn(disk, i, slot, s, cfg[s])[s] \in [path : Path \cup {NoPath}, at : File \cup {NoFile}]
      <3>1. cfg[s] \in Path
        BY <2>3 DEF Typed
      <3>2. QED
        BY <3>1, MountTypes
    <2>4. slot' = [s \in Slot |-> IF cfg[s] = NoPath THEN Off ELSE MountIn(disk, i, slot, s, cfg[s])[s]]
      BY <1>29, <2>2 DEF Boot, cfg_load
    <2>5. slot' \in [Slot -> [path : Path \cup {NoPath}, at : File \cup {NoFile}]]
      BY <2>3, <2>4 DEF Off
    <2>6. QED
      BY <1>29, <2>1, <2>5 DEF Boot, cfg_load, Typed, Content
  <1>30. CASE UNCHANGED vars
    BY <1>1, <1>30 DEF vars, Typed
  <1> QED
    BY <1>2, <1>4, <1>5, <1>6, <1>9, <1>10, <1>11, <1>12, <1>13, <1>14, <1>15, <1>16, <1>17,
       <1>18, <1>19, <1>20, <1>21, <1>22, <1>23, <1>24, <1>25, <1>26, <1>27, <1>28, <1>29,
       <1>30 DEF Next

-----------------------------------------------------------------------------
(***************************************************************************)
(* Who runs when.                                                          *)
(***************************************************************************)
Idling == cpu = "free" /\ exp.pc = "idle"

\* What a user asks for, and what comes of it.
User ==
    \/ \E s \in Slot, p \in Path : Mount(s, p)
    \/ \E s \in Slot : Eject(s)
    \/ \E p \in Path : NewBegin(p) \/ Remove(p) \/ PutFirst(p)
    \/ \E p, q \in Path : Rename(p, q)
    \/ NewEnd \/ PutLast
    \/ \E p \in Path, use \in Uses, id \in Slot : FetchStart(p, use, id)
    \/ FetchOpen \/ FetchFails \/ FetchEnd \/ FetchInject

Save == SaveRefused \/ SaveTruncate \/ SaveWrite

\* None of it runs while the card is expanded or the power is off.
LEMMA UserStep ==
  ASSUME Discipline, Phases, User
  PROVE  /\ Idling /\ cpu' \in {"free", "save"} /\ s_img = Mountable
         /\ UNCHANGED <<s_img, s_p2, cfg, cfgState, exp>>
  <1>1. ASSUME Request PROVE Idling
    BY <1>1 DEF Request, Idling, Discipline
  <1>2. ASSUME cpu = "free", s_job.pc # "idle" \/ new # NoFile PROVE Idling
    BY <1>2 DEF Idling, Phases
  <1>3. ASSUME NEW s \in Slot, NEW p \in Path, Mount(s, p)
        PROVE  Idling /\ cpu' \in {"free", "save"} /\ UNCHANGED <<s_img, s_p2, cfg, cfgState, exp>>
    BY <1>1, <1>3 DEF Mount, Idling
  <1>4. ASSUME NEW s \in Slot, Eject(s)
        PROVE  Idling /\ cpu' \in {"free", "save"} /\ UNCHANGED <<s_img, s_p2, cfg, cfgState, exp>>
    BY <1>1, <1>4 DEF Eject
  <1>5. ASSUME NEW p \in Path, NewBegin(p) \/ Remove(p) \/ PutFirst(p)
        PROVE  Idling /\ cpu' \in {"free", "save"} /\ UNCHANGED <<s_img, s_p2, cfg, cfgState, exp>>
    BY <1>1, <1>5 DEF NewBegin, Remove, PutFirst, Idling
  <1>6. ASSUME NEW p \in Path, NEW q \in Path, Rename(p, q)
        PROVE  Idling /\ cpu' \in {"free", "save"} /\ UNCHANGED <<s_img, s_p2, cfg, cfgState, exp>>
    BY <1>1, <1>6 DEF Rename, Idling
  <1>7. ASSUME NEW p \in Path, NEW use \in Uses, NEW id \in Slot, FetchStart(p, use, id)
        PROVE  Idling /\ cpu' \in {"free", "save"} /\ UNCHANGED <<s_img, s_p2, cfg, cfgState, exp>>
    BY <1>1, <1>7 DEF FetchStart, Idling
  <1>8. ASSUME NewEnd \/ PutLast
        PROVE  Idling /\ cpu' \in {"free", "save"} /\ UNCHANGED <<s_img, s_p2, cfg, cfgState, exp>>
    BY <1>1, <1>2, <1>8 DEF NewEnd, PutLast, Idling
  <1>9. ASSUME FetchOpen \/ FetchFails \/ FetchInject
        PROVE  Idling /\ cpu' \in {"free", "save"} /\ UNCHANGED <<s_img, s_p2, cfg, cfgState, exp>>
    BY <1>2, <1>9 DEF FetchOpen, FetchFails, FetchInject, Idling
  <1>10. ASSUME FetchEnd
         PROVE  Idling /\ cpu' \in {"free", "save"} /\ UNCHANGED <<s_img, s_p2, cfg, cfgState, exp>>
    BY <1>2, <1>10 DEF FetchEnd, Idling
  <1>11. Idling => s_img = Mountable
    BY DEF Idling, Phases
  <1>12. QED
    BY <1>3, <1>4, <1>5, <1>6, <1>7, <1>8, <1>9, <1>10, <1>11 DEF User

\* The steps of the program by who takes them.
LEMMA Who ==
  ASSUME [Next]_vars
  PROVE  \/ User \/ Save \/ \E s \in Slot : GuestWrites(s)
         \/ ExpandBegin \/ ExpandFails \/ ExpandFormatted \/ ExpandUnmountable
         \/ MigrateBegin \/ CopyEnd \/ MoveEnd \/ MigrateEnd
         \/ \E n \in Name : CopyBegin(n)
         \/ PowerLoss \/ Boot \/ UNCHANGED vars
  BY DEF Next, User, Save

\* Where an expansion goes.
LEMMA Expanding ==
  ASSUME Typed, Phases
  PROVE  /\ ExpandBegin => exp'.pc = "format"
         /\ ExpandFormatted => exp'.pc = "mount"
         /\ ExpandFails \/ ExpandUnmountable \/ MigrateEnd \/ PowerLoss => exp'.pc = "idle"
         /\ Boot => exp'.pc = "idle"
         /\ MigrateBegin \/ MoveEnd => exp'.pc = "copy"
         /\ CopyEnd => Moving /\ exp'.pc \in {"copy", "unlink"}
         /\ MoveEnd => Moving
         /\ \A n \in Name : CopyBegin(n) => Moving /\ exp'.pc = "copy"
         /\ MigrateEnd => Moving /\ cpu = "expand"
  <1>0. exp \in Expands
    BY DEF Typed, Expands
  <1>1. ExpandBegin => exp'.pc = "format"
    BY <1>0 DEF ExpandBegin, Expands
  <1>2. ExpandFormatted => exp'.pc = "mount"
    BY <1>0 DEF ExpandFormatted, Expands
  <1>3. ExpandFails \/ ExpandUnmountable \/ MigrateEnd \/ PowerLoss => exp'.pc = "idle"
    <2>1. NotExpanding.pc = "idle"
      BY DEF NotExpanding
    <2>2. ExpandFails \/ ExpandUnmountable \/ MigrateEnd \/ PowerLoss => exp' = NotExpanding
      BY Zenon DEF ExpandFails, ExpandUnmountable, MigrateEnd, PowerLoss
    <2>3. QED
      BY <2>1, <2>2
  <1>4. Boot => exp'.pc = "idle"
    BY DEF Boot, NotExpanding, Phases
  <1>5. MigrateBegin => exp'.pc = "copy"
    BY <1>0 DEF MigrateBegin, Expands
  <1>6. MoveEnd => Moving /\ exp'.pc = "copy"
    BY <1>0 DEF MoveEnd, Moving, Expands
  <1>7. ASSUME CopyEnd PROVE Moving /\ exp'.pc \in {"copy", "unlink"}
    <2>1. exp.pc = "copy"
      BY <1>7 DEF CopyEnd, Phases, Moving
    <2>2. \/ exp' = [exp EXCEPT !.pc = "unlink"]
          \/ exp' = [exp EXCEPT !.seen = @ \cup {exp.cur}, !.cur = NoName]
      BY <1>7 DEF CopyEnd
    <2>3. QED
      BY <1>0, <2>1, <2>2 DEF Expands, Moving
  <1>8. ASSUME NEW n \in Name, CopyBegin(n) PROVE Moving /\ exp'.pc = "copy"
    BY <1>0, <1>8 DEF CopyBegin, Moving, Expands
  <1>9. MigrateEnd => Moving /\ cpu = "expand"
    BY DEF MigrateEnd, Moving
  <1>10. QED
    BY <1>1, <1>2, <1>3, <1>4, <1>5, <1>6, <1>7, <1>8, <1>9

LEMMA PhasesInit == Init => Phases
  BY DEF Init, Phases, NotExpanding, Idle, Moving, Mountable, On, Off

LEMMA PhasesStep ==
  ASSUME Discipline, Typed, Phases, [Next]_vars
  PROVE  Phases'
  <1>0. exp \in Expands
    BY DEF Typed, Expands
  <1>1. CASE User
    <2>1. /\ Idling /\ cpu' \in {"free", "save"} /\ s_img = Mountable
          /\ UNCHANGED <<s_img, s_p2, cfg, cfgState, exp>>
      BY <1>1, UserStep
    <2>2. QED
      BY <2>1 DEF Phases, Idling, Moving, Mountable
  <1>2. CASE Save
    <2>1. CASE SaveRefused \/ SaveWrite
      BY <2>1 DEF SaveRefused, SaveWrite, Phases, Moving, Mountable
    <2>2. CASE SaveTruncate
      BY <2>2 DEF SaveTruncate, Phases, Moving, Mountable
    <2>3. QED
      BY <1>2, <2>1, <2>2 DEF Save
  <1>3. ASSUME NEW s \in Slot, GuestWrites(s) PROVE Phases'
    BY <1>3 DEF GuestWrites, Phases, Moving, Mountable, On
  <1>4. CASE ExpandBegin
    BY <1>0, <1>4 DEF ExpandBegin, Request, Discipline, Phases, Moving, Mountable, Expands
  <1>5. CASE ExpandFails
    BY <1>5 DEF ExpandFails, NotExpanding, Phases, Moving, Mountable
  <1>6. CASE ExpandFormatted
    <2>1. s_p2' \in {"mounts", "bad"}
      BY <1>6 DEF ExpandFormatted, Outcomes, Outcome
    <2>2. exp' = [exp EXCEPT !.pc = "mount"] /\ cpu' = "expand" /\ exp.pc = "format" /\ cpu = "free"
          /\ UNCHANGED <<s_img, cfgState, s_job, new, put>>
      BY <1>6 DEF ExpandFormatted
    <2>3. ~s_img /\ cfgState # "torn"
      BY <2>2 DEF Phases, Mountable, Typed
    <2>4. QED
      BY <1>0, <2>1, <2>2, <2>3 DEF Phases, Moving, Mountable, Expands
  <1>7. CASE ExpandUnmountable
    <2>1. exp'.pc = "idle" /\ exp'.cur = NoName /\ cpu' = "free" /\ cfgState # "torn" /\ s_img = Mountable
      <3>1. s_img \in BOOLEAN /\ ~s_img /\ cpu = "expand" /\ s_p2 = "bad"
        BY <1>7 DEF ExpandUnmountable, Phases, Typed
      <3>2. QED
        BY <1>7, <3>1 DEF ExpandUnmountable, NotExpanding, Phases, Mountable
    <2>2. UNCHANGED <<s_img, s_p2, cfgState, s_job, new, put>>
      BY <1>7 DEF ExpandUnmountable
    <2>3. QED
      BY <2>1, <2>2 DEF Phases, Moving, Mountable
  <1>8. CASE MigrateBegin
    <2>1. exp'.pc = "copy" /\ exp'.cur = exp.cur
      BY <1>0, <1>8 DEF MigrateBegin, Expands
    <2>2. QED
      BY <1>8, <2>1 DEF MigrateBegin, Phases, Moving, Mountable
  <1>9. ASSUME NEW n \in Name, CopyBegin(n) PROVE Phases'
    <2>1. /\ exp'.pc = "copy" /\ n # NoName /\ cpu = "expand" /\ exp.pc = "copy"
          /\ \/ exp'.cur = n /\ cpu' = "free"
             \/ exp'.cur = exp.cur /\ cpu' = cpu
          /\ UNCHANGED <<s_img, s_p2, slot, cfgState, s_job, new, put>>
      BY <1>0, <1>9, NameAssumption DEF CopyBegin, Expands
    <2>2. QED
      BY <2>1 DEF Phases, Moving, Mountable
  <1>10. CASE CopyEnd
    <2>1. exp.pc = "copy" /\ exp.cur # NoName
      BY <1>0, <1>10 DEF CopyEnd, Phases, Moving, Expands
    <2>2. \/ exp'.pc = "unlink" /\ exp'.cur = exp.cur
          \/ exp'.pc = "copy" /\ exp'.cur = NoName
      BY <1>0, <1>10, <2>1 DEF CopyEnd, Expands
    <2>3. cpu = "free" /\ cpu' = "expand" /\ UNCHANGED <<s_img, s_p2, slot, cfgState, s_job, new, put>>
      BY <1>10 DEF CopyEnd
    <2>4. QED
      BY <2>1, <2>2, <2>3 DEF Phases, Moving, Mountable
  <1>11. CASE MoveEnd
    <2>1. exp'.pc = "copy" /\ exp'.cur = NoName
      BY <1>0, <1>11 DEF MoveEnd, Expands
    <2>2. QED
      BY <1>11, <2>1 DEF MoveEnd, Phases, Moving, Mountable
  <1>12. CASE MigrateEnd
    BY <1>12 DEF MigrateEnd, NotExpanding, Phases, Moving, Mountable
  <1>13. CASE PowerLoss
    <2>1. \A s \in Slot : ~On(s)'
      BY <1>13 DEF PowerLoss, On, Off
    <2>2. QED
      BY <1>13, <2>1 DEF PowerLoss, NotExpanding, Phases, Moving, Mountable, Idle
  <1>14. CASE Boot
    <2>1. exp.pc = "idle" /\ exp.cur = NoName /\ cpu' = "free" /\ cfgState # "torn"
      BY <1>14 DEF Boot, NotExpanding, Phases
    <2>2. s_img' = Mountable' /\ UNCHANGED <<s_p2, cfgState, exp, s_job, new, put>>
      BY <1>14 DEF Boot, Mountable
    <2>3. QED
      BY <2>1, <2>2 DEF Phases, Moving
  <1>15. CASE UNCHANGED vars
    BY <1>15 DEF vars, Phases, Moving, Mountable, On
  <1> QED
    BY <1>1, <1>2, <1>3, <1>4, <1>5, <1>6, <1>7, <1>8, <1>9, <1>10, <1>11, <1>12, <1>13,
       <1>14, <1>15, Who

-----------------------------------------------------------------------------
(***************************************************************************)
(* The paths in use.                                                       *)
(***************************************************************************)
InSlotIs == \A f : InSlot(f) <=> \E p \in Path : Names(p) /\ sdimg_path(p) = f

LEMMA InSlotNext == (Typed => InSlotIs) /\ (Typed' => InSlotIs')
  <1>1. Typed => InSlotIs
    BY InSlotNames DEF InSlotIs
  <1>2. QED
    BY <1>1, PTL

LEMMA FirstLinesAre ==
  ASSUME NEW k, NEW s \in Slot
  PROVE  FirstLines(k)[s] \in {s_VScsi[s], NoPath}
  BY DEF FirstLines

\* A path comes into use when its image is mounted.
LEMMA NamesGrow ==
  ASSUME Typed, [Next]_vars, NEW p \in Path, Names(p)'
  PROVE  \/ Names(p)
         \/ \E s \in Slot : Mount(s, p) /\ disk[sdimg_path(p)] \notin {Absent, Empty}
         \/ FetchEnd /\ s_job.use = "mount" /\ p = s_job.path
         \/ MigrateEnd /\ \E s \in Slot : Had(s) /\ p = NewPath(s)
  <1>0. PICK s \in Slot : p \in {slot'[s].path, s_VScsi'[s], cfg'[s]}
    BY DEF Names
  <1>1. p # NoPath /\ p # Off.path
    BY NoPathIsNone DEF Off
  <1>2. CASE UNCHANGED <<slot, s_VScsi, cfg>>
    BY <1>0, <1>2 DEF Names
  <1>3. ASSUME NEW t \in Slot, NEW q \in Path, Mount(t, q)
        PROVE  \/ Names(p)
               \/ \E u \in Slot : Mount(u, p) /\ disk[sdimg_path(p)] \notin {Absent, Empty}
    <2>1. slot' = [slot EXCEPT ![t] = IF disk[sdimg_path(q)] \in {Absent, Empty} THEN Off
                                      ELSE [path |-> q, at |-> sdimg_path(q)]]
      BY <1>3 DEF Mount, MountIn, sdimg_path
    <2>2. \/ s_VScsi' = s_VScsi
          \/ s_VScsi' = [s_VScsi EXCEPT ![t] = q] /\ slot'[t] # Off
      BY <1>3 DEF Mount
    <2>3. cfg' = cfg /\ t \in DOMAIN slot
      BY <1>3 DEF Mount, Typed
    <2>4. CASE p = q /\ disk[sdimg_path(q)] \notin {Absent, Empty}
      BY <1>3, <2>4
    <2>5. CASE disk[sdimg_path(q)] \in {Absent, Empty}
      <3>1. slot' = [slot EXCEPT ![t] = Off] /\ slot'[t] = Off
        BY <2>1, <2>3, <2>5
      <3>2. slot'[s].path \in {slot[s].path, NoPath} /\ s_VScsi' = s_VScsi
        BY <2>2, <3>1 DEF Off, Typed
      <3>3. QED
        BY <1>0, <1>1, <2>3, <3>2 DEF Names
    <2>6. CASE p # q /\ disk[sdimg_path(q)] \notin {Absent, Empty}
      <3>1. slot'[s].path \in {slot[s].path, q} /\ s_VScsi'[s] \in {s_VScsi[s], q}
        BY <2>1, <2>2, <2>6 DEF Typed
      <3>2. QED
        BY <1>0, <2>3, <2>6, <3>1 DEF Names
    <2>7. QED
      BY <2>4, <2>5, <2>6
  <1>4. ASSUME NEW t \in Slot, Eject(t) PROVE Names(p)
    <2>1. slot'[s].path \in {slot[s].path, NoPath} /\ s_VScsi'[s] \in {s_VScsi[s], NoPath} /\ cfg' = cfg
      BY <1>4 DEF Eject, Off, Typed
    <2>2. QED
      BY <1>0, <1>1, <2>1 DEF Names
  <1>5. CASE FetchEnd
    <2>1. cfg' = cfg /\ (s_job.use # "mount" => UNCHANGED <<slot, s_VScsi>>)
      BY <1>5 DEF FetchEnd
    <2>2. ASSUME s_job.use = "mount"
          PROVE  slot'[s].path \in {slot[s].path, NoPath, s_job.path}
                 /\ s_VScsi'[s] \in {s_VScsi[s], s_job.path}
      BY <1>5, <2>2 DEF FetchEnd, MountIn, Off, Typed
    <2>3. QED
      BY <1>0, <1>1, <1>2, <1>5, <2>1, <2>2 DEF Names
  <1>6. CASE MigrateEnd
    <2>1. slot'[s].path \in {slot[s].path, NoPath} \cup (IF Had(s) THEN {NewPath(s)} ELSE {})
      BY <1>6 DEF MigrateEnd, MountIn, Remounted, Off, Typed
    <2>2. s_VScsi'[s] \in {s_VScsi[s], NoPath} \cup (IF Had(s) THEN {NewPath(s)} ELSE {})
      BY <1>6 DEF MigrateEnd, Configured, Remounted
    <2>3. cfg' = cfg
      BY <1>6 DEF MigrateEnd
    <2>4. QED
      BY <1>0, <1>1, <1>6, <2>1, <2>2, <2>3 DEF Names
  <1>7. CASE SaveWrite
    <2>1. cfg'[s] \in {s_VScsi[s], NoPath} /\ UNCHANGED <<slot, s_VScsi>>
      BY <1>7, FirstLinesAre DEF SaveWrite
    <2>2. QED
      BY <1>0, <1>1, <2>1 DEF Names
  <1>8. CASE PowerLoss
    <2>1. cfg'[s] \in {cfg[s], s_VScsi[s], NoPath} /\ slot'[s] = Off /\ s_VScsi'[s] = NoPath
      BY <1>8, FirstLinesAre DEF PowerLoss, Left
    <2>2. QED
      BY <1>0, <1>1, <2>1 DEF Names
  <1>9. CASE Boot
    <2>1. slot'[s] = IF cfg[s] = NoPath THEN Off ELSE MountIn(disk, s_img', slot, s, cfg[s])[s]
      BY <1>9 DEF Boot, cfg_load
    <2>2. slot'[s].path \in {NoPath, cfg[s]}
      BY <2>1 DEF MountIn, Off, Typed
    <2>3. s_VScsi' = cfg /\ cfg' = cfg
      BY <1>9 DEF Boot, cfg_load
    <2>4. QED
      BY <1>0, <1>1, <2>2, <2>3 DEF Names
  <1>10. CASE MigrateBegin
    <2>1. slot'[s] \in {slot[s], Off} /\ UNCHANGED <<s_VScsi, cfg>>
      BY <1>10 DEF MigrateBegin
    <2>2. QED
      BY <1>0, <1>1, <2>1 DEF Names
  <1> QED
    BY <1>2, <1>3, <1>4, <1>5, <1>6, <1>7, <1>8, <1>9, <1>10
    DEF Next, vars, SaveRefused, SaveTruncate, GuestWrites, NewBegin, Remove, PutFirst, Rename,
        NewEnd, PutLast, FetchStart, FetchOpen, FetchFails, FetchInject, ExpandBegin,
        ExpandFails, ExpandFormatted, ExpandUnmountable, CopyEnd, MoveEnd, CopyBegin

-----------------------------------------------------------------------------
(***************************************************************************)
(* What the steps of a user write.                                         *)
(***************************************************************************)
LEMMA Resolved ==
  ASSUME Typed, NEW p \in Path
  PROVE  sdimg_path(p) \in File /\ sdimg_path(p) # NoFile /\ Here(sdimg_path(p))
  BY PathFile DEF Typed, sdimg_path, Here

LEMMA ApartIs ==
  ASSUME Discipline, NEW f \in File, Apart(f)
  PROVE  f # new /\ f # put /\ ~being_fetched(f)
         /\ (s_job.pc # "idle" => f # sdimg_path(s_job.path))
  BY DEF Discipline, Apart, Claimed, being_fetched

\* A browser's file is where the path of its next piece leads.
LEMMA PutIsThere ==
  ASSUME Typed, Claims, put # NoFile
  PROVE  /\ put \in File
         /\ [old |-> TRUE, name |-> put[2]] \in Path
         /\ sdimg_path([old |-> TRUE, name |-> put[2]]) = put
  <1>1. put \in File
    BY DEF Typed
  <1>2. Here(put)
    BY DEF Claims, ClaimNew, ClaimPut, ClaimJob
  <1>3. QED
    BY <1>1, <1>2 DEF File, Path, sdimg_path, PathIn, Here

\* The file of a transfer.
LEMMA JobIsThere ==
  ASSUME Typed, Claims, s_job.pc # "idle"
  PROVE  /\ s_job.path \in Path /\ sdimg_path(s_job.path) \in File /\ Here(sdimg_path(s_job.path))
         /\ s_job.pc = "body" => s_job.at = sdimg_path(s_job.path)
         /\ s_job.use # "inject" => being_fetched(sdimg_path(s_job.path))
         /\ \A f : being_fetched(f) => f = sdimg_path(s_job.path) /\ s_job.use # "inject"
  BY Resolved DEF Typed, Claims, ClaimNew, ClaimPut, ClaimJob, being_fetched

LEMMA MountedIn ==
  ASSUME Typed, MountedWhole, NEW f, MountedAt(f)
  PROVE  InSlot(f) /\ disk[f] \in Version
  <1>1. PICK s \in Slot : On(s) /\ sdimg_path(slot[s].path) = f
    BY DEF MountedAt
  <1>2. Names(slot[s].path) /\ slot[s].path \in Path /\ slot[s].at = f
    BY <1>1, SlotTypes
  <1>3. QED
    BY <1>1, <1>2, InSlotNames DEF MountedWhole

\* A file that a step of a user writes is on the volume in use.  It does not
\* become a half-written one while it is named, it does not cease to be an image
\* while it is mounted, and a file under construction is written by who makes it.
LEMMA UserWrites ==
  ASSUME Discipline, Typed, Phases, Claims, MountedWhole, User, NEW f \in File, disk'[f] # disk[f]
  PROVE  /\ Here(f)
         /\ disk'[f] = Short => ~InSlot(f)
         /\ disk'[f] \in Version \/ ~MountedAt(f)
         /\ f = new => NewEnd
         /\ being_fetched(f) => FetchOpen \/ FetchFails \/ FetchEnd
  <1>0. /\ \A g \in File : disk[g] \in Version <=> disk[g] \notin {Absent, Empty, Short}
        /\ disk \in [File -> Content] /\ fresh \in Nat
    BY Contents DEF Typed
  <1>a. CanMake => fresh + 1 \in Version /\ fresh + 1 # Short
    BY <1>0, BoundAssumption DEF CanMake, Version, Short, Typed
  <1>b. MountedAt(f) => disk[f] \in Version /\ InSlot(f) /\ disk[f] # Absent /\ disk[f] # Empty
    BY <1>0, MountedIn DEF Version, Absent, Empty
  <1>c. Absent # Short /\ Empty # Short
    BY DEF Absent, Short, Empty
  <1>1. ASSUME NEW p \in Path, NewBegin(p) PROVE f = sdimg_path(p) /\ Apart(f) /\ disk[f] = Absent /\ disk'[f] = Empty
    BY <1>0, <1>1 DEF NewBegin
  <1>2. ASSUME NEW p \in Path, NewBegin(p)
        PROVE  Here(f) /\ f # new /\ ~being_fetched(f) /\ disk'[f] # Short /\ ~MountedAt(f)
    BY <1>1, <1>2, <1>b, <1>c, Resolved, ApartIs
  <1>3. ASSUME NEW p \in Path, Remove(p)
        PROVE  Here(f) /\ f # new /\ ~being_fetched(f) /\ disk'[f] # Short /\ ~MountedAt(f)
    <2>1. f = sdimg_path(p) /\ disk'[f] = Absent /\ f # new
      BY <1>0, <1>3 DEF Remove, Discipline
    <2>2. RemoveAllowed(f)
      BY <1>3, <2>1 DEF Remove
    <2>3. QED
      BY <2>1, <2>2, <1>c, Resolved DEF RemoveAllowed
  <1>4. ASSUME NEW p \in Path, PutFirst(p)
        PROVE  Here(f) /\ f # new /\ ~being_fetched(f) /\ ~InSlot(f) /\ ~MountedAt(f)
    <2>1. f = sdimg_path(p) /\ disk'[f] = Short /\ Apart(f) /\ Unused(f)
      BY <1>0, <1>4 DEF PutFirst
    <2>2. ~InSlot(f)
      BY <2>1 DEF Unused, Discipline
    <2>3. QED
      BY <2>1, <2>2, <1>b, Resolved, ApartIs
  <1>5. ASSUME NEW p \in Path, NEW q \in Path, Rename(p, q)
        PROVE  Here(f) /\ f # new /\ ~being_fetched(f) /\ disk'[f] # Short /\ ~MountedAt(f)
    <2>1. sdimg_path(p) # new /\ disk[sdimg_path(p)] # Short /\ RemoveAllowed(sdimg_path(p))
          /\ disk[sdimg_path(q)] = Absent /\ Apart(sdimg_path(q)) /\ disk[sdimg_path(p)] # Absent
      BY <1>5 DEF Rename, Discipline
    <2>2. /\ disk' = [disk EXCEPT ![sdimg_path(p)] = Absent, ![sdimg_path(q)] = disk[sdimg_path(p)]]
          /\ sdimg_path(p) \in File /\ sdimg_path(q) \in File
      BY <1>5, Resolved DEF Rename
    <2>3. \/ f = sdimg_path(p) /\ f # sdimg_path(q) /\ disk'[f] = Absent
          \/ f = sdimg_path(q) /\ disk'[f] = disk[sdimg_path(p)]
      BY <1>0, <2>1, <2>2
    <2>4. CASE f = sdimg_path(p) /\ disk'[f] = Absent
      BY <2>1, <2>4, <1>c, Resolved DEF RemoveAllowed
    <2>5. CASE f = sdimg_path(q) /\ disk'[f] = disk[sdimg_path(p)]
      BY <2>1, <2>5, <1>b, Resolved, ApartIs
    <2>6. QED
      BY <2>3, <2>4, <2>5
  <1>6. CASE NewEnd
    <2>1. f = new
      BY <1>0, <1>6 DEF NewEnd, Close
    <2>2. Here(f) /\ ~InSlot(f) /\ ~being_fetched(f)
      BY <2>1, NoPathIsNone DEF Claims, ClaimNew, ClaimPut, ClaimJob
    <2>3. QED
      BY <1>6, <2>2, <1>b
  <1>7. CASE PutLast
    <2>1. put # NoFile /\ sdimg_path([old |-> TRUE, name |-> put[2]]) = put
      BY <1>7, PutIsThere DEF PutLast
    <2>2. Renew(put)
      BY <1>7, <2>1 DEF PutLast
    <2>3. f = put /\ disk'[f] = fresh + 1 /\ CanMake
      BY <1>0, <2>2 DEF Renew
    <2>4. f # new /\ ~being_fetched(f) /\ Here(f)
      BY <2>1, <2>3 DEF Claims, ClaimNew, ClaimPut, ClaimJob
    <2>5. QED
      BY <2>3, <2>4, <1>a
  <1>8. CASE FetchOpen
    <2>1. f = sdimg_path(s_job.path) /\ disk'[f] = Empty /\ s_job.use # "inject" /\ s_job.pc # "idle"
      BY <1>0, <1>8 DEF FetchOpen
    <2>2. being_fetched(f) /\ Here(f)
      BY <2>1, JobIsThere
    <2>3. ~InSlot(f) /\ f # new
      BY <2>2, NoPathIsNone DEF Claims, ClaimNew, ClaimPut, ClaimJob
    <2>4. QED
      BY <1>8, <2>1, <2>2, <2>3, <1>b
  <1>9. CASE FetchFails
    <2>1. f = s_job.at /\ disk'[f] = Absent /\ s_job.pc = "body" /\ s_job.use # "inject"
      BY <1>0, <1>9 DEF FetchFails
    <2>2. being_fetched(f) /\ Here(f)
      BY <2>1, JobIsThere
    <2>3. ~InSlot(f) /\ f # new
      BY <2>2, NoPathIsNone DEF Claims, ClaimNew, ClaimPut, ClaimJob
    <2>4. QED
      BY <1>9, <2>1, <2>2, <2>3, <1>b
  <1>10. CASE FetchEnd
    <2>1. f = s_job.at /\ s_job.pc = "body" /\ s_job.use # "inject"
      BY <1>0, <1>10 DEF FetchEnd, Close
    <2>2. being_fetched(f) /\ Here(f)
      BY <2>1, JobIsThere
    <2>3. ~InSlot(f) /\ f # new
      BY <2>2, NoPathIsNone DEF Claims, ClaimNew, ClaimPut, ClaimJob
    <2>4. QED
      BY <1>10, <2>2, <2>3, <1>b
  <1>11. CASE FetchInject
    <2>1. /\ f = sdimg_path(s_job.path) /\ s_job.use = "inject" /\ s_job.pc # "idle" /\ disk'[f] = fresh + 1
          /\ disk[f] \in Version /\ CanMake
      BY <1>0, <1>11 DEF FetchInject, Renew
    <2>2. Here(f) /\ ~being_fetched(f)
      BY <2>1, JobIsThere
    <2>3. f # new
      <3>1. SUFFICES ASSUME f = new PROVE FALSE
        OBVIOUS
      <3>2. disk[f] = Empty
        BY <3>1, NoPathIsNone DEF Claims, ClaimNew, ClaimPut, ClaimJob
      <3>3. QED
        BY <2>1, <3>2 DEF Version, Empty
    <2>4. QED
      BY <2>1, <2>2, <2>3, <1>a
  <1>12. ASSUME disk' = disk PROVE FALSE
    BY <1>12
  <1>13. CASE \/ \E s \in Slot, p \in Path : Mount(s, p)
              \/ \E s \in Slot : Eject(s)
              \/ \E p \in Path, use \in Uses, id \in Slot : FetchStart(p, use, id)
    BY <1>12, <1>13 DEF Mount, Eject, FetchStart
  <1> QED
    BY <1>2, <1>3, <1>4, <1>5, <1>6, <1>7, <1>8, <1>9, <1>10, <1>11, <1>13, Zenon DEF User

\* The X68000 writes to a file that is mounted.
LEMMA GuestWrote ==
  ASSUME Typed, MountedWhole, NEW s \in Slot, GuestWrites(s)
  PROVE  /\ slot[s].at \in File /\ slot[s].at = sdimg_path(slot[s].path) /\ InSlot(slot[s].at)
         /\ Here(slot[s].at) /\ disk[slot[s].at] \in Version
         /\ disk' = [disk EXCEPT ![slot[s].at] = fresh + 1] /\ fresh + 1 \in Version
         /\ fresh' = fresh + 1 /\ kept' = (kept \ {disk[slot[s].at]}) \cup {fresh + 1}
         /\ UNCHANGED <<cpu, s_img, s_p2, slot, s_VScsi, cfg, cfgState, exp, s_job, new, put>>
  <1>1. On(s) /\ Renew(slot[s].at)
        /\ UNCHANGED <<cpu, s_img, s_p2, slot, s_VScsi, cfg, cfgState, exp, s_job, new, put>>
    BY DEF GuestWrites
  <1>2. slot[s].path \in Path /\ Names(slot[s].path) /\ slot[s].at = sdimg_path(slot[s].path)
        /\ disk[slot[s].at] \in Version
    BY <1>1, SlotTypes
  <1>3. fresh + 1 \in Version
    BY <1>1, BoundAssumption DEF Renew, CanMake, Typed, Version
  <1>4. QED
    BY <1>1, <1>2, <1>3, Resolved, InSlotNames DEF Renew

-----------------------------------------------------------------------------
(***************************************************************************)
(* Before there is a volume.                                               *)
(***************************************************************************)
LEMMA OldFormInit == Init => OldForm
  <1> SUFFICES ASSUME Init PROVE OldForm
    OBVIOUS
  <1>1. \A n \in Name : <<"SD2", n>> \in File
    BY DEF File
  <1>2. \A p \in Path : ~Names(p)
    BY NoPathIsNone DEF Init, Names, Off
  <1>3. QED
    BY <1>1, <1>2 DEF Init, OldForm, NotExpanding

LEMMA OldFormStep ==
  ASSUME Discipline, Typed, Phases, OldForm, Claims, MountedWhole, [Next]_vars
  PROVE  OldForm'
  <1>0. exp \in Expands /\ disk \in [File -> Content] /\ \A n \in Name : <<"SD2", n>> \in File
    BY DEF Typed, Expands, File
  <1>1. CASE ExpandFormatted
    <2>1. s_p2 = "none" /\ \A n \in Name : disk'[<<"SD2", n>>] = Absent
      BY <1>0, <1>1 DEF ExpandFormatted, Formatted, Phases
    <2>2. \A p \in Path : Names(p)' => Names(p)
      BY <1>1 DEF ExpandFormatted, Names
    <2>3. QED
      BY <2>1, <2>2 DEF OldForm
  <1>2. CASE ~ExpandFormatted
    <2>1. s_p2' = s_p2
      BY <1>2 DEF Next, vars, SaveRefused, SaveTruncate, SaveWrite, Mount, Eject, GuestWrites,
             NewBegin, Remove, PutFirst, Rename, NewEnd, PutLast, FetchStart, FetchOpen,
             FetchFails, FetchEnd, FetchInject, ExpandBegin, ExpandFails, ExpandUnmountable,
             MigrateBegin, CopyEnd, MoveEnd, MigrateEnd, CopyBegin, PowerLoss, Boot
    <2>2. exp'.pc = "mount" => exp.pc = "mount" /\ cpu = "expand" /\ (MigrateBegin \/ cpu' = cpu)
      <3>1. User => exp' = exp /\ exp.pc = "idle"
        BY UserStep DEF Idling
      <3>2. exp' = exp /\ exp'.pc = "mount" => exp.pc = "mount" /\ cpu = "expand"
        BY DEF Phases
      <3>3. exp.pc = "mount" => ~User /\ ~Save /\ ~Boot /\ \A s \in Slot : ~GuestWrites(s)
        BY <3>1 DEF Phases, Save, SaveRefused, SaveTruncate, SaveWrite, Boot, GuestWrites
      <3>4. ExpandBegin \/ ExpandFails \/ ExpandUnmountable \/ MigrateBegin \/ CopyEnd \/ MoveEnd
            \/ MigrateEnd \/ PowerLoss \/ (\E n \in Name : CopyBegin(n)) => exp'.pc # "mount"
        BY Expanding
      <3>5. Save \/ Boot \/ (\E s \in Slot : GuestWrites(s)) \/ UNCHANGED vars => exp' = exp
        BY DEF Save, SaveRefused, SaveTruncate, SaveWrite, Boot, GuestWrites, vars
      <3>6. UNCHANGED vars => cpu' = cpu
        BY DEF vars
      <3>7. QED
        BY <1>2, <3>1, <3>2, <3>3, <3>4, <3>5, <3>6, Who
    <2>3. SUFFICES ASSUME s_p2 = "none" \/ exp.pc = "mount"
                   PROVE  /\ \A n \in Name : disk'[<<"SD2", n>>] = Absent
                          /\ \A p \in Path : Names(p)' => p.old
      BY <2>1, <2>2 DEF OldForm
    <2>4. ~s_img /\ ~Moving
      BY <2>3 DEF Phases, Mountable, Moving, Typed
    <2>5. ASSUME NEW n \in Name PROVE disk'[<<"SD2", n>>] = Absent
      <3>1. disk[<<"SD2", n>>] = Absent
        BY <2>3 DEF OldForm
      <3>2. ~Here(<<"SD2", n>>)
        BY <2>4 DEF Here
      <3>3. CASE User
        BY <1>0, <3>1, <3>2, <3>3, UserWrites
      <3>4. ASSUME NEW s \in Slot, GuestWrites(s) PROVE disk'[<<"SD2", n>>] = Absent
        BY <1>0, <3>1, <3>2, <3>4, GuestWrote
      <3>5. CASE (\E m \in Name : CopyBegin(m)) \/ CopyEnd \/ MoveEnd
        BY <2>4, <3>5, Expanding
      <3>6. disk' = disk => disk'[<<"SD2", n>>] = Absent
        BY <3>1
      <3>7. Save \/ ExpandBegin \/ ExpandFails \/ ExpandUnmountable \/ MigrateBegin \/ MigrateEnd
            \/ PowerLoss \/ Boot \/ UNCHANGED vars => disk' = disk
        BY DEF Save, SaveRefused, SaveTruncate, SaveWrite, ExpandBegin, ExpandFails,
               ExpandUnmountable, MigrateBegin, MigrateEnd, PowerLoss, Boot, vars
      <3>8. QED
        BY <1>2, <3>3, <3>4, <3>5, <3>6, <3>7, Who
    <2>6. ASSUME NEW p \in Path, Names(p)' PROVE p.old
      <3>1. CASE Names(p)
        BY <2>3, <3>1 DEF OldForm
      <3>2. ASSUME NEW s \in Slot, Mount(s, p) PROVE p.old
        <4>1. User
          BY <3>2 DEF User
        <4>2. FormFits(p) /\ exp.pc = "idle"
          BY <3>2, <4>1, UserStep DEF Mount, Idling
        <4>3. QED
          BY <2>3, <4>2 DEF FormFits, Discipline
      <3>3. CASE FetchEnd /\ p = s_job.path
        <4>1. exp.pc = "idle" /\ s_job.pc # "idle"
          BY <3>3, UserStep DEF User, FetchEnd, Idling
        <4>2. QED
          BY <2>3, <3>3, <4>1 DEF Claims, ClaimNew, ClaimPut, ClaimJob
      <3>4. ~MigrateEnd
        BY <2>4 DEF MigrateEnd, Moving
      <3>5. QED
        BY <2>6, <3>1, <3>2, <3>3, <3>4, NamesGrow
    <2>7. QED
      BY <2>5, <2>6
  <1> QED
    BY <1>1, <1>2

-----------------------------------------------------------------------------
(***************************************************************************)
(* The images move.                                                        *)
(***************************************************************************)
LEMMA MovesInit == Init => Moves
  BY DEF Init, Moves, Moving, NotExpanding

LEMMA MovesStep ==
  ASSUME Discipline, Typed, Phases, OldForm, Moves, MountedWhole, [Next]_vars
  PROVE  Moves'
  <1>0. /\ exp \in Expands /\ disk \in [File -> Content]
        /\ \A n \in Name : <<"SD2", n>> \in File /\ <<"SD", n>> \in File
        /\ \A m, n \in Name : <<"SD2", n>> # <<"SD", m>> /\ (<<"SD2", n>> = <<"SD2", m>> => n = m)
    BY DEF Typed, Expands, File
  <1>1. CASE exp'.pc \notin {"copy", "unlink"}
    BY <1>1 DEF Moves, Moving
  <1>2. CASE MigrateBegin
    <2>1. exp'.pc = "copy" /\ exp'.cur = NoName /\ exp.pc = "mount" /\ exp'.seen = exp.seen /\ disk' = disk
      BY <1>0, <1>2 DEF MigrateBegin, Expands, Phases, Moving
    <2>2. ASSUME NEW s \in Slot PROVE ~On(s)'
      <3>1. CASE WasOld(s)
        BY <1>2, <3>1 DEF MigrateBegin, On, Off
      <3>2. CASE ~WasOld(s)
        <4>1. slot'[s] = slot[s]
          BY <1>2, <3>2 DEF MigrateBegin
        <4>2. On(s) => slot[s].path.old
          BY <2>1, SlotTypes DEF OldForm
        <4>3. QED
          BY <3>2, <4>1, <4>2 DEF WasOld, On
      <3>3. QED
        BY <3>1, <3>2
    <2>3. \A n \in Name : disk[<<"SD2", n>>] = Absent
      BY <2>1 DEF OldForm
    <2>4. QED
      BY <2>1, <2>2, <2>3 DEF Moves, Moving
  <1>3. ASSUME NEW n \in Name, CopyBegin(n) PROVE Moves'
    <2>1. /\ Moving /\ exp.pc = "copy" /\ exp'.pc = "copy" /\ slot' = slot /\ exp.cur = NoName
          /\ n \notin exp.seen /\ n # NoName
      BY <1>0, <1>3, NameAssumption DEF CopyBegin, Expands, ToMove, Phases, Moving
    <2>2. \/ /\ disk' = [disk EXCEPT ![<<"SD2", n>>] = Empty] /\ exp'.cur = n /\ exp'.seen = exp.seen
          \/ disk' = disk /\ exp'.cur = exp.cur /\ exp'.seen = exp.seen \cup {n}
      BY <1>0, <1>3 DEF CopyBegin, Expands
    <2>3. \A s \in Slot : ~On(s)'
      BY <2>1 DEF Moves, On
    <2>4. \A m \in Name \ exp'.seen : m # exp'.cur => disk'[<<"SD2", m>>] = Absent
      BY <1>0, <2>1, <2>2, NameAssumption DEF Moves
    <2>5. exp'.cur # NoName => disk'[<<"SD2", exp'.cur>>] = Empty
      BY <1>0, <2>1, <2>2
    <2>6. QED
      BY <2>1, <2>3, <2>4, <2>5 DEF Moves, Moving
  <1>4. CASE CopyEnd
    <2>1. /\ Moving /\ exp.pc = "copy" /\ slot' = slot /\ exp.cur \in Name
      BY <1>0, <1>4 DEF CopyEnd, Expands, Phases, Moving
    <2>2. \/ /\ disk' = [disk EXCEPT ![<<"SD2", exp.cur>>] = disk[<<"SD", exp.cur>>]]
             /\ exp'.pc = "unlink" /\ exp'.cur = exp.cur /\ exp'.seen = exp.seen
          \/ /\ disk' = [disk EXCEPT ![<<"SD2", exp.cur>>] = Absent]
             /\ exp'.pc = "copy" /\ exp'.cur = NoName /\ exp'.seen = exp.seen \cup {exp.cur}
      BY <1>0, <1>4, <2>1 DEF CopyEnd, Expands
    <2>3. \A s \in Slot : ~On(s)'
      BY <2>1 DEF Moves, On
    <2>4. \A m \in Name \ exp'.seen : m # exp'.cur => disk'[<<"SD2", m>>] = Absent
      BY <1>0, <2>1, <2>2 DEF Moves
    <2>5. exp'.pc = "unlink" => disk'[<<"SD2", exp'.cur>>] = disk'[<<"SD", exp'.cur>>]
      BY <1>0, <2>1, <2>2
    <2>6. QED
      BY <2>2, <2>3, <2>4, <2>5 DEF Moves, Moving
  <1>5. CASE MoveEnd
    <2>1. /\ Moving /\ slot' = slot /\ exp.cur \in Name
          /\ exp'.pc = "copy" /\ exp'.cur = NoName /\ exp'.seen = exp.seen \cup {exp.cur}
          /\ disk' \in {disk, [disk EXCEPT ![<<"SD", exp.cur>>] = Absent]}
      BY <1>0, <1>5 DEF MoveEnd, Expands, Phases, Moving
    <2>2. \A s \in Slot : ~On(s)'
      BY <2>1 DEF Moves, On
    <2>3. \A m \in Name \ exp'.seen : m # exp'.cur => disk'[<<"SD2", m>>] = Absent
      BY <1>0, <2>1 DEF Moves
    <2>4. QED
      BY <2>1, <2>2, <2>3 DEF Moves, Moving
  <1>6. CASE UNCHANGED vars
    BY <1>6 DEF vars, Moves, Moving, On
  <1>7. User \/ Save => exp'.pc \notin {"copy", "unlink"}
    <2>1. User => exp'.pc = "idle"
      BY UserStep DEF Idling
    <2>2. Save => exp' = exp /\ cpu \in {"save", "write"}
      BY DEF Save, SaveRefused, SaveTruncate, SaveWrite
    <2>3. QED
      BY <2>1, <2>2 DEF Phases
  <1>8. ASSUME NEW s \in Slot, GuestWrites(s) PROVE exp'.pc \notin {"copy", "unlink"}
    BY <1>8 DEF GuestWrites, Moves, Moving
  <1>9. ExpandBegin \/ ExpandFails \/ ExpandFormatted \/ ExpandUnmountable \/ MigrateEnd
        \/ PowerLoss \/ Boot => exp'.pc \notin {"copy", "unlink"}
    BY Expanding
  <1> QED
    BY <1>1, <1>2, <1>3, <1>4, <1>5, <1>6, <1>7, <1>8, <1>9, Who

-----------------------------------------------------------------------------
(***************************************************************************)
(* No path in use names a half-written file.                               *)
(***************************************************************************)
\* The steps that touch neither the files nor the volume, and bring no path.
Still ==
    Save \/ ExpandBegin \/ ExpandFails \/ ExpandUnmountable \/ PowerLoss \/ Boot \/ UNCHANGED vars

LEMMA StillIs ==
  ASSUME Typed, Phases, [Next]_vars, Still
  PROVE  /\ UNCHANGED <<disk, s_p2, kept, fresh>>
         /\ \A p \in Path : Names(p)' => Names(p)
         /\ exp'.pc \in {"idle", "format"} \/ exp' = exp
  <1>1. UNCHANGED <<disk, s_p2, kept, fresh>>
    BY DEF Still, Save, SaveRefused, SaveTruncate, SaveWrite, ExpandBegin, ExpandFails,
           ExpandUnmountable, PowerLoss, Boot, vars
  <1>2. exp'.pc \in {"idle", "format"} \/ exp' = exp
    <2>1. Save \/ UNCHANGED vars => exp' = exp
      BY DEF Save, SaveRefused, SaveTruncate, SaveWrite, vars
    <2>2. QED
      BY <2>1, Expanding DEF Still
  <1>3. ASSUME NEW p \in Path, Names(p)' PROVE Names(p)
    <2>1. \A s \in Slot : ~Mount(s, p) \/ UNCHANGED <<slot, s_VScsi, cfg>>
      <3>1. ASSUME NEW s \in Slot, Mount(s, p) PROVE UNCHANGED <<slot, s_VScsi, cfg>>
        <4>1. cpu = "free" /\ cpu' # "off" /\ cfg' = cfg /\ exp' = exp
          BY <3>1 DEF Mount, Request
        <4>2. ~Boot /\ ~PowerLoss /\ ~Save
          BY <4>1 DEF Boot, PowerLoss, Save, SaveRefused, SaveTruncate, SaveWrite
        <4>3. QED
          BY <4>1, <4>2 DEF Still, ExpandBegin, ExpandFails, ExpandUnmountable, vars
      <3>2. QED
        BY <3>1
    <2>2. ~FetchEnd
      <3>1. FetchEnd => cpu = "free" /\ fresh' = fresh + 1
        BY DEF FetchEnd, Close
      <3>2. fresh + 1 # fresh
        BY DEF Typed
      <3>3. QED
        BY <1>1, <3>1, <3>2
    <2>3. ~MigrateEnd \/ UNCHANGED <<slot, s_VScsi, cfg>>
      <3>1. ASSUME MigrateEnd PROVE FALSE
        <4>1. exp.pc = "copy" /\ exp'.pc = "idle" /\ cpu = "expand" /\ cpu' = "save"
          BY <3>1, Expanding DEF MigrateEnd
        <4>2. QED
          BY <4>1 DEF Still, Save, SaveRefused, SaveTruncate, SaveWrite, ExpandBegin, ExpandFails,
                      ExpandUnmountable, PowerLoss, Boot, vars
      <3>2. QED
        BY <3>1
    <2>4. UNCHANGED <<slot, s_VScsi, cfg>> => Names(p)
      BY <1>3 DEF Names
    <2>5. QED
      BY <1>3, <2>1, <2>2, <2>3, <2>4, NamesGrow
  <1>4. QED
    BY <1>1, <1>2, <1>3

\* What is in the ID's old place when its image moves.
LEMMA PathsOf ==
  ASSUME NEW p \in Path
  PROVE  /\ PathIn(FALSE, p) = <<"SD", p.name>> /\ PathIn(TRUE, p) = <<"SD2", p.name>>
         /\ <<"SD", p.name>> \in File /\ <<"SD2", p.name>> \in File /\ p.name \in Name
  BY DEF PathIn, File, Path

LEMMA WholeUser ==
  ASSUME Discipline, Typed, Phases, NamedWhole, Claims, MountedWhole, [Next]_vars, User
  PROVE  NamedWhole'
  <1>1. Idling /\ s_img = Mountable /\ UNCHANGED <<s_img, s_p2, exp>>
    BY UserStep
  <1>2. ASSUME NEW p \in Path, Names(p)' PROVE disk'[sdimg_path(p)] # Short
    <2>1. sdimg_path(p) \in File
      BY Resolved
    <2>2. CASE Names(p)
      <3>1. InSlot(sdimg_path(p)) /\ disk[sdimg_path(p)] # Short
        BY <1>1, <2>2, InSlotNames DEF NamedWhole, WholeThere, sdimg_path
      <3>2. QED
        BY <2>1, <3>1, UserWrites
    <2>3. ASSUME NEW s \in Slot, Mount(s, p) PROVE disk'[sdimg_path(p)] # Short
      BY <2>3 DEF Mount, Discipline
    <2>4. CASE FetchEnd /\ p = s_job.path
      <3>1. s_job.at = sdimg_path(p)
        BY <2>4 DEF FetchEnd, Claims, ClaimNew, ClaimPut, ClaimJob
      <3>2. disk' = [disk EXCEPT ![s_job.at] = fresh + 1]
        BY <2>4 DEF FetchEnd, Close, Discipline
      <3>3. QED
        BY <2>1, <3>1, <3>2 DEF Typed, Short
    <2>5. ~MigrateEnd
      BY <1>1 DEF MigrateEnd, Idling
    <2>6. QED
      BY <1>2, <2>2, <2>3, <2>4, <2>5, NamesGrow
  <1>3. \A p \in Path : Names(p)' => disk'[PathIn(Mountable, p)] # Short
    BY <1>1, <1>2 DEF sdimg_path
  <1>4. WholeThere(Mountable)'
    BY <1>1, <1>3 DEF WholeThere, Mountable, PathIn
  <1>5. exp'.pc = "idle"
    BY <1>1 DEF Idling
  <1>6. QED
    BY <1>4, <1>5 DEF NamedWhole, Moving

LEMMA WholeStep ==
  ASSUME Discipline, Typed, Phases, OldForm, Moves, NamedWhole, Claims, MountedWhole, [Next]_vars
  PROVE  NamedWhole'
  <1>0. exp \in Expands /\ disk \in [File -> Content] /\ Mountable \in BOOLEAN
        /\ Empty # Short /\ Absent # Short /\ fresh + 1 # Short
    BY DEF Typed, Expands, Mountable, Empty, Short, Absent
  <1>1. CASE User
    BY <1>1, WholeUser
  <1>2. CASE Still
    <2>1. /\ UNCHANGED <<disk, s_p2>> /\ \A p \in Path : Names(p)' => Names(p)
          /\ exp'.pc \in {"idle", "format"} \/ exp' = exp
      BY <1>2, StillIs
    <2>2. QED
      BY <2>1 DEF NamedWhole, WholeThere, WholeHad, Had, Moving, Mountable, PathIn
  <1>3. ASSUME NEW s \in Slot, GuestWrites(s) PROVE NamedWhole'
    <2>1. /\ disk' = [disk EXCEPT ![slot[s].at] = fresh + 1]
          /\ UNCHANGED <<s_img, s_p2, slot, s_VScsi, cfg, exp>>
      BY <1>3, GuestWrote
    <2>2. \A f \in File : disk[f] # Short => disk'[f] # Short
      BY <1>0, <2>1
    <2>3. \A p \in Path : Names(p)' => Names(p)
      BY <2>1 DEF Names
    <2>4. Moving => FALSE
      BY <1>3 DEF Moves, GuestWrites
    <2>5. exp.pc # "mount"
      BY <1>3 DEF Phases, GuestWrites
    <2>6. \A p \in Path : Names(p)' => disk'[PathIn(Mountable, p)] # Short
      BY <1>0, <2>2, <2>3, PathFile DEF NamedWhole, WholeThere
    <2>7. QED
      BY <2>1, <2>4, <2>5, <2>6 DEF NamedWhole, WholeThere, Moving, Mountable, PathIn
  <1>4. CASE ExpandFormatted
    <2>1. /\ exp'.pc = "mount" /\ s_p2 = "none" /\ ~Mountable
          /\ \A f \in File : disk'[f] = IF f[1] = "SD2" THEN Absent ELSE disk[f]
      BY <1>4, Expanding DEF ExpandFormatted, Phases, Formatted, Mountable
    <2>2. \A p \in Path : Names(p)' => Names(p)
      BY <1>4 DEF ExpandFormatted, Names
    <2>3. \A p \in Path : Names(p)' => /\ disk'[<<"SD", p.name>>] # Short
                                       /\ disk'[<<"SD2", p.name>>] # Short
      <3>1. ASSUME NEW p \in Path, Names(p)'
            PROVE  disk'[<<"SD", p.name>>] # Short /\ disk'[<<"SD2", p.name>>] # Short
        <4>1. <<"SD", p.name>> \in File /\ <<"SD2", p.name>> \in File /\ PathIn(FALSE, p) = <<"SD", p.name>>
          BY PathsOf
        <4>2. disk[PathIn(FALSE, p)] # Short
          <5>1. PathIn(Mountable, p) = PathIn(FALSE, p)
            BY <2>1 DEF PathIn
          <5>2. QED
            BY <2>2, <3>1, <5>1 DEF NamedWhole, WholeThere
        <4>3. disk'[<<"SD", p.name>>] = disk[<<"SD", p.name>>] /\ disk'[<<"SD2", p.name>>] = Absent
          BY <2>1, <4>1
        <4>4. QED
          BY <1>0, <4>1, <4>2, <4>3
      <3>2. QED
        BY <3>1
    <2>4. \A img \in BOOLEAN, p \in Path : Names(p)' => disk'[PathIn(img, p)] # Short
      BY <2>3, PathsOf
    <2>5. PICK img \in BOOLEAN : img = Mountable'
      BY DEF Mountable
    <2>6. QED
      BY <2>1, <2>4, <2>5 DEF NamedWhole, WholeThere, Moving, PathIn
  <1>5. CASE MigrateBegin
    <2>1. /\ exp.pc = "mount" /\ exp'.pc = "copy" /\ UNCHANGED <<disk, s_p2>> /\ Mountable
          /\ exp'.had = [s \in Slot |-> IF WasOld(s) THEN slot[s].path.name ELSE NoName]
      BY <1>0, <1>5, Expanding DEF MigrateBegin, Expands, Mountable
    <2>2. \A p \in Path : Names(p)' => Names(p)
      <3>1. \A p \in Path, s \in Slot : slot'[s].path = p => slot[s].path = p
        BY <1>5, NoPathIsNone DEF MigrateBegin, Off
      <3>2. UNCHANGED <<s_VScsi, cfg>>
        BY <1>5 DEF MigrateBegin
      <3>3. QED
        BY <3>1, <3>2 DEF Names
    <2>3. ASSUME NEW s \in Slot, Had(s)'
          PROVE  disk[<<"SD", exp'.had[s]>>] # Short /\ disk[<<"SD2", exp'.had[s]>>] # Short
      <3>1. WasOld(s) /\ exp'.had[s] = slot[s].path.name
        BY <2>1, <2>3 DEF Had
      <3>2. Names(slot[s].path) /\ slot[s].path \in Path
        BY <3>1, SlotTypes DEF WasOld
      <3>3. QED
        BY <2>1, <3>1, <3>2, PathsOf DEF NamedWhole, WholeThere
    <2>4. QED
      BY <2>1, <2>2, <2>3 DEF NamedWhole, WholeThere, WholeHad, Had, Moving, Mountable, PathIn
  <1>6. ASSUME Moving, exp'.pc \in {"copy", "unlink"}, exp'.had = exp.had,
               UNCHANGED <<s_p2, slot, s_VScsi, cfg>>,
               \A f \in File : disk[f] # Short => disk'[f] # Short \/ f = <<"SD2", exp.cur>>,
               disk[<<"SD", exp.cur>>] # Short => disk'[<<"SD2", exp.cur>>] # Short \/ exp.cur = NoName,
               exp.cur = NoName => \A f \in File : disk[f] # Short => disk'[f] # Short
        PROVE  NamedWhole'
    <2>1. \A p \in Path : Names(p)' => Names(p)
      BY <1>6 DEF Names
    <2>2. Mountable /\ Mountable'
      BY <1>6 DEF Phases, Moving, Typed, Mountable
    <2>3. \A n \in Name : disk[<<"SD", n>>] # Short /\ disk[<<"SD2", n>>] # Short
                             => disk'[<<"SD", n>>] # Short /\ disk'[<<"SD2", n>>] # Short
      <3>1. \A n \in Name : <<"SD", n>> \in File /\ <<"SD2", n>> \in File
                            /\ <<"SD", n>> # <<"SD2", exp.cur>>
                            /\ (<<"SD2", n>> = <<"SD2", exp.cur>> => n = exp.cur)
        BY DEF File
      <3>2. QED
        BY <1>6, <3>1, NameAssumption
    <2>4. ASSUME NEW p \in Path, Names(p)'
          PROVE  disk'[<<"SD", p.name>>] # Short /\ disk'[<<"SD2", p.name>>] # Short
      BY <1>6, <2>1, <2>2, <2>3, <2>4, PathsOf DEF NamedWhole, WholeThere
    <2>5. WholeThere(FALSE)'
      BY <2>4, PathsOf DEF WholeThere, PathIn
    <2>6. WholeThere(Mountable)'
      BY <2>2, <2>4, PathsOf DEF WholeThere, PathIn
    <2>7. WholeHad'
      <3>1. ASSUME NEW s \in Slot, Had(s)'
            PROVE  disk'[<<"SD", exp.had[s]>>] # Short /\ disk'[<<"SD2", exp.had[s]>>] # Short
        <4>1. Had(s) /\ exp.had[s] \in Name
          BY <1>0, <1>6, <3>1 DEF Had, Expands
        <4>2. QED
          BY <1>6, <2>3, <4>1 DEF NamedWhole, WholeHad
      <3>2. QED
        BY <1>6, <3>1 DEF WholeHad
    <2>8. QED
      BY <2>5, <2>6, <2>7 DEF NamedWhole
  <1>7. ASSUME NEW n \in Name, CopyBegin(n) PROVE NamedWhole'
    <2>1. exp'.had = exp.had /\ disk' \in {disk, [disk EXCEPT ![<<"SD2", n>>] = Empty]}
          /\ UNCHANGED <<s_p2, slot, s_VScsi, cfg>>
      BY <1>0, <1>7 DEF CopyBegin, Expands
    <2>2. \A f \in File : disk[f] # Short => disk'[f] # Short
      BY <1>0, <2>1
    <2>3. <<"SD2", exp.cur>> \in File \/ exp.cur = NoName
      BY <1>0 DEF File, Expands
    <2>4. exp.cur = NoName
      BY <1>7 DEF CopyBegin, Phases
    <2>5. QED
      BY <1>6, <1>7, <2>1, <2>2, <2>4, Expanding
  <1>8. CASE CopyEnd
    <2>1. exp'.had = exp.had /\ exp.cur \in Name /\ UNCHANGED <<s_p2, slot, s_VScsi, cfg>>
          /\ \/ disk' = [disk EXCEPT ![<<"SD2", exp.cur>>] = disk[<<"SD", exp.cur>>]]
             \/ disk' = [disk EXCEPT ![<<"SD2", exp.cur>>] = Absent]
      <3>1. \/ exp' = [exp EXCEPT !.pc = "unlink"]
            \/ exp' = [exp EXCEPT !.seen = @ \cup {exp.cur}, !.cur = NoName]
        BY <1>8 DEF CopyEnd
      <3>2. exp'.had = exp.had
        BY <1>0, <3>1 DEF Expands
      <3>3. QED
        BY <1>0, <1>8, <3>2 DEF CopyEnd, Expands
    <2>2. <<"SD2", exp.cur>> \in File /\ exp.cur # NoName
      BY <2>1, NameAssumption DEF File
    <2>3. \A f \in File : disk[f] # Short => disk'[f] # Short \/ f = <<"SD2", exp.cur>>
      BY <1>0, <2>1
    <2>4. disk[<<"SD", exp.cur>>] # Short => disk'[<<"SD2", exp.cur>>] # Short
      BY <1>0, <2>1, <2>2
    <2>5. QED
      BY <1>6, <1>8, <2>1, <2>2, <2>3, <2>4, Expanding
  <1>9. CASE MoveEnd
    <2>1. exp'.had = exp.had /\ exp.cur \in Name /\ UNCHANGED <<s_p2, slot, s_VScsi, cfg>>
          /\ disk' \in {disk, [disk EXCEPT ![<<"SD", exp.cur>>] = Absent]}
      BY <1>0, <1>9 DEF MoveEnd, Expands, Phases
    <2>2. \A f \in File : disk[f] # Short => disk'[f] # Short
      BY <1>0, <2>1
    <2>3. disk[<<"SD2", exp.cur>>] = disk[<<"SD", exp.cur>>] /\ <<"SD2", exp.cur>> \in File
      BY <1>9, <2>1 DEF MoveEnd, Moves, File
    <2>4. QED
      BY <1>6, <1>9, <2>1, <2>2, <2>3, NameAssumption, Expanding
  <1>10. CASE MigrateEnd
    <2>1. /\ Moving /\ Mountable /\ UNCHANGED <<disk, s_p2>> /\ exp'.pc = "idle"
      BY <1>10, Expanding DEF MigrateEnd, Phases, Moving, Mountable, Typed
    <2>2. ~FetchEnd /\ ~User
      BY <2>1, UserStep DEF Moving, Idling, User
    <2>3. ASSUME NEW p \in Path, Names(p)' PROVE disk[<<"SD2", p.name>>] # Short
      <3>1. CASE Names(p)
        BY <2>1, <3>1, PathsOf DEF NamedWhole, WholeThere
      <3>2. ASSUME NEW s \in Slot, Had(s), p = NewPath(s) PROVE disk[<<"SD2", p.name>>] # Short
        BY <2>1, <3>2 DEF NamedWhole, WholeHad, NewPath
      <3>3. \A s \in Slot : ~Mount(s, p)
        BY <2>2 DEF User
      <3>4. QED
        BY <2>2, <2>3, <3>1, <3>2, <3>3, NamesGrow
    <2>4. QED
      BY <2>1, <2>3, PathsOf DEF NamedWhole, WholeThere, Moving, Mountable, PathIn
  <1> QED
    BY <1>1, <1>2, <1>3, <1>4, <1>5, <1>7, <1>8, <1>9, <1>10, Who DEF Still

-----------------------------------------------------------------------------
(***************************************************************************)
(* What is mounted stays what it was.                                      *)
(***************************************************************************)
LEMMA MountedInit == Init => MountedWhole
  BY DEF Init, MountedWhole, On, Off

LEMMA MountedUser ==
  ASSUME Discipline, Typed, Phases, Claims, MountedWhole, User
  PROVE  MountedWhole'
  <1>0. s_img' = s_img /\ \A p : sdimg_path(p)' = sdimg_path(p)
    BY UserStep DEF sdimg_path
  <1>1. ASSUME NEW s \in Slot, On(s)', slot'[s] = slot[s]
        PROVE  disk'[slot'[s].at] \in Version /\ sdimg_path(slot'[s].path) = slot'[s].at
    <2>1. On(s)
      BY <1>1 DEF On
    <2>2. slot[s].at \in File /\ slot[s].at = sdimg_path(slot[s].path) /\ disk[slot[s].at] \in Version
          /\ MountedAt(slot[s].at)
      BY <2>1, SlotTypes DEF MountedAt
    <2>3. disk'[slot[s].at] \in Version
      BY <2>2, UserWrites
    <2>4. QED
      BY <1>1, <2>2, <2>3
  <1>2. ASSUME NEW t \in Slot, NEW p \in Path, Mount(t, p), NEW s \in Slot, On(s)'
        PROVE  disk'[slot'[s].at] \in Version /\ sdimg_path(slot'[s].path) = slot'[s].at
    <2>1. slot' = [slot EXCEPT ![t] = IF disk[sdimg_path(p)] \in {Absent, Empty} THEN Off
                                      ELSE [path |-> p, at |-> sdimg_path(p)]]
      BY <1>2 DEF Mount, MountIn, sdimg_path
    <2>2. disk' = disk /\ disk[sdimg_path(p)] # Short /\ sdimg_path(p) \in File
      BY <1>2, Resolved DEF Mount, Discipline
    <2>3. CASE slot'[s] = slot[s]
      BY <1>1, <1>2, <2>3
    <2>4. CASE slot'[s] # slot[s]
      <3>1. s = t /\ slot'[s] \in {Off, [path |-> p, at |-> sdimg_path(p)]}
            /\ (slot'[s] # Off => disk[sdimg_path(p)] \notin {Absent, Empty})
        BY <2>1, <2>4 DEF Typed
      <3>2. slot'[s] # Off
        BY <1>2 DEF On, Off
      <3>3. disk[sdimg_path(p)] \in Version
        BY <2>2, <3>1, <3>2, Contents
      <3>4. QED
        BY <2>2, <3>1, <3>2, <3>3
    <2>5. QED
      BY <2>3, <2>4
  <1>3. ASSUME FetchEnd, NEW s \in Slot, On(s)'
        PROVE  disk'[slot'[s].at] \in Version /\ sdimg_path(slot'[s].path) = slot'[s].at
    <2>1. /\ s_job.path \in Path /\ s_job.id \in Slot /\ s_job.at = sdimg_path(s_job.path)
          /\ sdimg_path(s_job.path) \in File
      BY <1>3, JobIsThere DEF FetchEnd, Typed
    <2>2. disk'[s_job.at] = fresh + 1 /\ fresh + 1 \in Version
      BY <1>3, <2>1, BoundAssumption DEF FetchEnd, Close, CanMake, Discipline, Typed, Version
    <2>3. CASE slot'[s] = slot[s]
      BY <1>1, <1>3, <2>3
    <2>4. CASE slot'[s] # slot[s]
      <3>1. slot' = [slot EXCEPT ![s_job.id] = IF disk'[s_job.at] \in {Absent, Empty} THEN Off
                                               ELSE [path |-> s_job.path, at |-> s_job.at]]
        BY <1>3, <2>1, <2>4 DEF FetchEnd, MountIn, sdimg_path
      <3>2. slot'[s] \in {Off, [path |-> s_job.path, at |-> s_job.at]} /\ slot'[s] # Off
        BY <1>3, <2>4, <3>1 DEF On, Off, Typed
      <3>3. QED
        BY <2>1, <2>2, <3>2
    <2>5. QED
      BY <2>3, <2>4
  <1>4. ASSUME NEW t \in Slot, Eject(t), NEW s \in Slot, On(s)' PROVE slot'[s] = slot[s]
    BY <1>4 DEF Eject, On, Off, Typed
  <1>5. ASSUME slot' = slot PROVE MountedWhole'
    BY <1>0, <1>1, <1>5 DEF MountedWhole
  <1>6. QED
    <2>1. CASE \E t \in Slot, p \in Path : Mount(t, p)
      BY <1>0, <1>2, <2>1 DEF MountedWhole
    <2>2. CASE FetchEnd
      BY <1>0, <1>3, <2>2 DEF MountedWhole
    <2>3. CASE \E t \in Slot : Eject(t)
      BY <1>0, <1>1, <1>4, <2>3 DEF MountedWhole
    <2>4. QED
      BY <1>5, <2>1, <2>2, <2>3 DEF User, NewBegin, Remove, PutFirst, Rename, NewEnd, PutLast,
            FetchStart, FetchOpen, FetchFails, FetchInject

LEMMA MountedStep ==
  ASSUME Discipline, Typed, Phases, Moves, NamedWhole, Claims, MountedWhole, [Next]_vars, Moves'
  PROVE  MountedWhole'
  <1>0. exp \in Expands /\ disk \in [File -> Content]
    BY DEF Typed, Expands
  <1>1. CASE User
    BY <1>1, MountedUser
  <1>2. CASE UNCHANGED <<disk, slot, s_img>>
    BY <1>2 DEF MountedWhole, On, sdimg_path
  <1>3. ASSUME NEW t \in Slot, GuestWrites(t) PROVE MountedWhole'
    <2>1. /\ disk' = [disk EXCEPT ![slot[t].at] = fresh + 1] /\ fresh + 1 \in Version
          /\ UNCHANGED <<slot, s_img>>
      BY <1>3, GuestWrote
    <2>2. ASSUME NEW s \in Slot, On(s) PROVE disk'[slot[s].at] \in Version
      BY <1>0, <2>1, <2>2, SlotTypes
    <2>3. QED
      BY <2>1, <2>2 DEF MountedWhole, On, sdimg_path
  <1>4. CASE ExpandFormatted
    <2>1. /\ \A f \in File : disk'[f] = IF f[1] = "SD2" THEN Absent ELSE disk[f]
          /\ UNCHANGED <<slot, s_img>> /\ ~s_img
      BY <1>4 DEF ExpandFormatted, Formatted, Phases, Mountable, Typed
    <2>2. ASSUME NEW s \in Slot, On(s) PROVE disk'[slot[s].at] \in Version
      <3>1. /\ slot[s].path \in Path /\ slot[s].at = PathIn(s_img, slot[s].path)
            /\ slot[s].at \in File /\ disk[slot[s].at] \in Version
        BY <2>2, SlotTypes DEF sdimg_path
      <3>2. slot[s].at = <<"SD", slot[s].path.name>>
        BY <2>1, <3>1 DEF PathIn
      <3>3. slot[s].at[1] = "SD"
        BY <3>2
      <3>4. QED
        BY <2>1, <3>1, <3>3
    <2>3. QED
      BY <2>1, <2>2 DEF MountedWhole, On, sdimg_path
  <1>5. CASE MigrateBegin \/ CopyEnd \/ MoveEnd \/ \E n \in Name : CopyBegin(n)
    BY <1>5, Expanding DEF Moves, Moving, MountedWhole
  <1>6. CASE MigrateEnd
    <2>1. Moving /\ s_img' = s_img /\ s_img /\ disk' = disk
      BY <1>6, Expanding DEF MigrateEnd, Phases
    <2>2. ASSUME NEW s \in Slot, On(s)'
          PROVE  disk[slot'[s].at] \in Version /\ sdimg_path(slot'[s].path) = slot'[s].at
      <3>1. Remounted(s)
        BY <1>6, <2>1, <2>2 DEF MigrateEnd, Moves, On, Off
      <3>2. slot'[s] = MountIn(disk, TRUE, slot, s, NewPath(s))[s]
        BY <1>6, <3>1 DEF MigrateEnd
      <3>3. NewPath(s) \in Path /\ PathIn(TRUE, NewPath(s)) = <<"SD2", exp.had[s]>>
        BY <1>0, <3>1 DEF Remounted, Had, NewPath, Path, PathIn, Expands
      <3>4. disk[PathIn(TRUE, NewPath(s))] \in Version /\ PathIn(TRUE, NewPath(s)) \in File
        <4>1. disk[PathIn(TRUE, NewPath(s))] \notin {Absent, Empty, Short}
          BY <2>1, <3>1, <3>3 DEF Remounted, NamedWhole, WholeHad
        <4>2. PathIn(TRUE, NewPath(s)) \in File
          BY <3>3, PathFile
        <4>3. QED
          BY <4>1, <4>2, Contents
      <3>5. slot'[s] = [path |-> NewPath(s), at |-> PathIn(TRUE, NewPath(s))]
        BY <3>1, <3>2 DEF MountIn, Remounted, Typed
      <3>6. QED
        BY <2>1, <3>4, <3>5 DEF sdimg_path, PathIn
    <2>3. QED
      BY <2>1, <2>2 DEF MountedWhole, sdimg_path
  <1>7. CASE PowerLoss
    BY <1>7 DEF PowerLoss, MountedWhole, On, Off
  <1>8. CASE Boot
    <2>1. s_img' = Mountable /\ disk' = disk
          /\ slot' = [s \in Slot |-> IF cfg[s] = NoPath THEN Off ELSE MountIn(disk, s_img', slot, s, cfg[s])[s]]
      BY <1>8 DEF Boot, cfg_load
    <2>2. ASSUME NEW s \in Slot, On(s)'
          PROVE  disk[slot'[s].at] \in Version /\ PathIn(Mountable, slot'[s].path) = slot'[s].at
      <3>1. cfg[s] # NoPath /\ cfg[s] \in Path /\ Names(cfg[s])
        BY <2>1, <2>2 DEF On, Off, Typed, Names
      <3>2. slot'[s] = IF disk[PathIn(Mountable, cfg[s])] \in {Absent, Empty} THEN Off
                       ELSE [path |-> cfg[s], at |-> PathIn(Mountable, cfg[s])]
        BY <2>1, <3>1 DEF MountIn, Typed
      <3>3. slot'[s] # Off
        BY <2>2 DEF On, Off
      <3>4. disk[PathIn(Mountable, cfg[s])] \notin {Absent, Empty, Short} /\ PathIn(Mountable, cfg[s]) \in File
        BY <3>1, <3>2, <3>3, PathFile DEF NamedWhole, WholeThere, Mountable
      <3>5. QED
        BY <3>2, <3>3, <3>4, Contents
    <2>3. QED
      BY <2>1, <2>2 DEF MountedWhole, sdimg_path
  <1>9. Save \/ ExpandBegin \/ ExpandFails \/ ExpandUnmountable \/ UNCHANGED vars
            => UNCHANGED <<disk, slot, s_img>>
    BY DEF Save, SaveRefused, SaveTruncate, SaveWrite, ExpandBegin, ExpandFails,
           ExpandUnmountable, vars
  <1> QED
    BY <1>1, <1>2, <1>3, <1>4, <1>5, <1>6, <1>7, <1>8, <1>9, Who

-----------------------------------------------------------------------------
(***************************************************************************)
(* No image is lost.                                                       *)
(***************************************************************************)
LEMMA KeptInit == Init => NoImageLost
  BY DEF Init, NoImageLost

\* A file is written whose content nobody counts on, or has just given up.
LEMMA KeptWrite ==
  ASSUME Typed, NoImageLost, NEW f \in File, NEW c, disk' = [disk EXCEPT ![f] = c],
         \A v \in kept' : v = c \/ (v \in kept /\ v # disk[f])
  PROVE  NoImageLost'
  <1> SUFFICES ASSUME NEW v \in kept' PROVE \E g \in File : disk'[g] = v
    BY DEF NoImageLost
  <1>0. disk \in [File -> Content]
    BY DEF Typed
  <1>1. CASE v = c
    BY <1>0, <1>1
  <1>2. CASE v \in kept /\ v # disk[f]
    <2>1. PICK g \in File : disk[g] = v
      BY <1>2 DEF NoImageLost
    <2>2. QED
      BY <1>0, <1>2, <2>1
  <1>3. QED
    BY <1>1, <1>2

LEMMA KeptUser ==
  ASSUME Discipline, Typed, Claims, NoImageLost, User
  PROVE  NoImageLost'
  <1>0. Absent \notin kept /\ Empty \notin kept /\ Short \notin kept /\ disk \in [File -> Content]
    BY Contents DEF Typed
  <1>1. ASSUME UNCHANGED disk, kept' \subseteq kept PROVE NoImageLost'
    BY <1>1 DEF NoImageLost
  <1>2. ASSUME NEW f \in File, Renew(f) PROVE NoImageLost'
    <2>1. disk' = [disk EXCEPT ![f] = fresh + 1] /\ kept' = (kept \ {disk[f]}) \cup {fresh + 1}
      BY <1>2 DEF Renew
    <2>2. \A v \in kept' : v = fresh + 1 \/ (v \in kept /\ v # disk[f])
      BY <2>1
    <2>3. QED
      BY <2>1, <2>2, KeptWrite
  <1>3. ASSUME NEW f \in File, Close(f), disk[f] = Empty PROVE NoImageLost'
    <2>1. disk' = [disk EXCEPT ![f] = fresh + 1] /\ kept' = kept \cup {fresh + 1}
      BY <1>3 DEF Close, Discipline
    <2>2. \A v \in kept' : v = fresh + 1 \/ (v \in kept /\ v # disk[f])
      BY <1>0, <1>3, <2>1
    <2>3. QED
      BY <2>1, <2>2, KeptWrite
  <1>4. ASSUME NEW p \in Path, NewBegin(p) PROVE NoImageLost'
    <2>1. PICK f \in File : f = sdimg_path(p)
      BY Resolved
    <2>2. disk[f] = Absent /\ disk' = [disk EXCEPT ![f] = Empty] /\ kept' = kept
      BY <1>4, <2>1 DEF NewBegin
    <2>3. QED
      BY <1>0, <2>2, KeptWrite
  <1>5. ASSUME NEW p \in Path, Remove(p) \/ PutFirst(p) PROVE NoImageLost'
    <2>1. PICK f \in File : f = sdimg_path(p)
      BY Resolved
    <2>2. kept' = kept \ {disk[f]} /\ \E c : disk' = [disk EXCEPT ![f] = c]
      BY <1>5, <2>1 DEF Remove, PutFirst
    <2>3. QED
      BY <2>2, KeptWrite
  <1>6. ASSUME NEW p \in Path, NEW q \in Path, Rename(p, q) PROVE NoImageLost'
    <2>1. PICK a \in File, b \in File : a = sdimg_path(p) /\ b = sdimg_path(q)
      BY Resolved
    <2>2. /\ disk' = [disk EXCEPT ![a] = Absent, ![b] = disk[a]] /\ kept' = kept
          /\ disk[a] # Absent /\ disk[b] = Absent
      BY <1>6, <2>1 DEF Rename
    <2>3. ASSUME NEW v \in kept PROVE \E g \in File : disk'[g] = v
      <3>1. PICK g \in File : disk[g] = v
        BY <2>3 DEF NoImageLost
      <3>2. CASE g = a
        BY <1>0, <2>2, <3>1, <3>2
      <3>3. CASE g # a
        BY <1>0, <2>2, <3>1, <3>3
      <3>4. QED
        BY <3>2, <3>3
    <2>4. QED
      BY <2>2, <2>3 DEF NoImageLost
  <1>7. CASE NewEnd
    <2>1. new \in File /\ disk[new] = Empty
      BY <1>7 DEF NewEnd, Typed, Claims, ClaimNew
    <2>2. CASE Close(new)
      BY <1>3, <2>1, <2>2
    <2>3. CASE disk' = [disk EXCEPT ![new] = Short] /\ kept' = kept
      BY <1>0, <2>1, <2>3, KeptWrite
    <2>4. QED
      BY <1>7, <2>2, <2>3 DEF NewEnd
  <1>8. CASE PutLast
    <2>1. put \in File /\ sdimg_path([old |-> TRUE, name |-> put[2]]) = put
      BY <1>8, PutIsThere DEF PutLast
    <2>2. Renew(put) \/ UNCHANGED <<disk, kept>>
      BY <1>8, <2>1 DEF PutLast
    <2>3. QED
      BY <1>1, <1>2, <2>1, <2>2
  <1>9. ASSUME NEW p \in Path, NEW use \in Uses, NEW id \in Slot, FetchStart(p, use, id)
        PROVE  NoImageLost'
    BY <1>1, <1>9 DEF FetchStart
  <1>10. CASE FetchOpen
    <2>1. PICK f \in File : f = sdimg_path(s_job.path)
      BY <1>10, JobIsThere DEF FetchOpen
    <2>2. CASE s_job.use = "inject"
      BY <1>1, <1>10, <2>2 DEF FetchOpen
    <2>3. CASE s_job.use # "inject"
      <3>1. disk[f] \notin kept /\ disk' = [disk EXCEPT ![f] = Empty] /\ kept' = kept
        BY <1>10, <2>1, <2>3 DEF FetchOpen, Claims, ClaimJob
      <3>2. QED
        BY <3>1, KeptWrite
    <2>4. QED
      BY <2>2, <2>3
  <1>11. ASSUME s_job.pc = "body", s_job.use # "inject"
         PROVE  s_job.at \in File /\ disk[s_job.at] = Empty
    BY <1>11, JobIsThere DEF Claims, ClaimJob
  <1>12. CASE FetchFails
    <2>1. CASE s_job.pc = "body" /\ s_job.use # "inject"
      <3>1. disk' = [disk EXCEPT ![s_job.at] = Absent] /\ kept' = kept
        BY <1>12, <2>1 DEF FetchFails
      <3>2. QED
        BY <1>0, <1>11, <2>1, <3>1, KeptWrite
    <2>2. CASE ~(s_job.pc = "body" /\ s_job.use # "inject")
      BY <1>1, <1>12, <2>2 DEF FetchFails
    <2>3. QED
      BY <2>1, <2>2
  <1>13. CASE FetchEnd
    BY <1>3, <1>11, <1>13 DEF FetchEnd
  <1>14. CASE FetchInject
    <2>1. PICK f \in File : f = sdimg_path(s_job.path)
      BY <1>14, JobIsThere DEF FetchInject
    <2>2. Renew(f) \/ UNCHANGED <<disk, kept>>
      BY <1>14, <2>1 DEF FetchInject
    <2>3. QED
      BY <1>1, <1>2, <2>2
  <1>15. CASE (\E s \in Slot, p \in Path : Mount(s, p)) \/ (\E s \in Slot : Eject(s))
    BY <1>1, <1>15 DEF Mount, Eject
  <1> QED
    BY <1>4, <1>5, <1>6, <1>7, <1>8, <1>9, <1>10, <1>12, <1>13, <1>14, <1>15 DEF User

LEMMA KeptStep ==
  ASSUME Discipline, Typed, Phases, OldForm, Moves, Claims, MountedWhole, NoImageLost, [Next]_vars
  PROVE  NoImageLost'
  <1>0. /\ Absent \notin kept /\ Empty \notin kept /\ disk \in [File -> Content] /\ exp \in Expands
        /\ \A n \in Name : <<"SD2", n>> \in File /\ <<"SD", n>> \in File
        /\ \A m, n \in Name : <<"SD2", n>> # <<"SD", m>>
    BY Contents DEF Typed, Expands, File
  <1>1. CASE User
    BY <1>1, KeptUser
  <1>2. ASSUME NEW s \in Slot, GuestWrites(s) PROVE NoImageLost'
    <2>1. PICK f \in File : f = slot[s].at
      BY <1>2, GuestWrote
    <2>2. disk' = [disk EXCEPT ![f] = fresh + 1] /\ kept' = (kept \ {disk[f]}) \cup {fresh + 1}
      BY <1>2, <2>1, GuestWrote
    <2>3. QED
      BY <2>2, KeptWrite
  <1>3. CASE UNCHANGED <<disk, kept>>
    BY <1>3 DEF NoImageLost
  <1>4. CASE ExpandFormatted
    <2>1. /\ \A f \in File : disk'[f] = IF f[1] = "SD2" THEN Absent ELSE disk[f]
          /\ kept' = kept
          /\ \A n \in Name : disk[<<"SD2", n>>] = Absent
      BY <1>4 DEF ExpandFormatted, Formatted, Phases, OldForm
    <2>2. ASSUME NEW v \in kept PROVE \E g \in File : disk'[g] = v
      <3>1. PICK g \in File : disk[g] = v
        BY <2>2 DEF NoImageLost
      <3>2. g[1] = "SD2" => disk[g] = Absent
        BY <2>1 DEF File
      <3>3. QED
        BY <1>0, <2>1, <3>1, <3>2
    <2>3. QED
      BY <2>1, <2>2 DEF NoImageLost
  <1>5. ASSUME NEW n \in Name, CopyBegin(n) PROVE NoImageLost'
    <2>1. exp.cur = NoName /\ Moving /\ n \notin exp.seen /\ n # NoName
      BY <1>5, Expanding, NameAssumption DEF CopyBegin, ToMove, Phases
    <2>2. disk[<<"SD2", n>>] = Absent
      BY <2>1 DEF Moves
    <2>3. disk' = disk \/ disk' = [disk EXCEPT ![<<"SD2", n>>] = Empty]
      BY <1>5 DEF CopyBegin
    <2>4. kept' = kept
      BY <1>5 DEF CopyBegin
    <2>5. CASE disk' = [disk EXCEPT ![<<"SD2", n>>] = Empty]
      <3>1. <<"SD2", n>> \in File /\ \A v \in kept' : v \in kept /\ v # disk[<<"SD2", n>>]
        BY <1>0, <2>2, <2>4
      <3>2. QED
        BY <2>5, <3>1, KeptWrite
    <2>6. QED
      BY <1>3, <2>3, <2>4, <2>5
  <1>6. CASE CopyEnd
    <2>1. exp.pc = "copy" /\ exp.cur \in Name /\ kept' = kept
      BY <1>0, <1>6 DEF CopyEnd, Phases, Moving, Expands
    <2>2. disk[<<"SD2", exp.cur>>] = Empty
      BY <1>6, <2>1 DEF CopyEnd, Moves
    <2>3. PICK c : disk' = [disk EXCEPT ![<<"SD2", exp.cur>>] = c]
      BY <1>6 DEF CopyEnd
    <2>4. <<"SD2", exp.cur>> \in File /\ \A v \in kept' : v \in kept /\ v # disk[<<"SD2", exp.cur>>]
      BY <1>0, <2>1, <2>2
    <2>5. QED
      BY <2>3, <2>4, KeptWrite
  <1>7. CASE MoveEnd
    <2>1. /\ exp.pc = "unlink" /\ exp.cur \in Name /\ kept' = kept
          /\ disk' \in {disk, [disk EXCEPT ![<<"SD", exp.cur>>] = Absent]}
      BY <1>0, <1>7 DEF MoveEnd, Phases, Expands
    <2>2. disk[<<"SD2", exp.cur>>] = disk[<<"SD", exp.cur>>]
      BY <2>1 DEF Moves
    <2>3. ASSUME NEW v \in kept PROVE \E g \in File : disk'[g] = v
      <3>1. PICK g \in File : disk[g] = v
        BY <2>3 DEF NoImageLost
      <3>2. CASE g = <<"SD", exp.cur>>
        <4>1. disk'[<<"SD2", exp.cur>>] = v
          BY <1>0, <2>1, <2>2, <3>1, <3>2
        <4>2. QED
          BY <1>0, <2>1, <4>1
      <3>3. CASE g # <<"SD", exp.cur>>
        BY <1>0, <2>1, <3>1, <3>3
      <3>4. QED
        BY <3>2, <3>3
    <2>4. QED
      BY <2>1, <2>3 DEF NoImageLost
  <1>8. Still \/ MigrateBegin \/ MigrateEnd => UNCHANGED <<disk, kept>>
    BY StillIs DEF MigrateBegin, MigrateEnd
  <1> QED
    BY <1>1, <1>2, <1>3, <1>4, <1>5, <1>6, <1>7, <1>8, Who DEF Still

-----------------------------------------------------------------------------
(***************************************************************************)
(* The configuration says what is mounted.                                 *)
(***************************************************************************)
LEMMA SavedInit == Init => Saved
  BY DEF Init, Saved, On, Off

LEMMA SavedStep ==
  ASSUME Discipline, Typed, Phases, Moves, Claims, Saved, [Next]_vars
  PROVE  Saved'
  <1>1. ASSUME UNCHANGED <<slot, s_VScsi, cfg, cfgState>>, cpu' = cpu \/ cpu \notin {"off", "save"}
        PROVE  Saved'
    BY <1>1 DEF Saved, On
  <1>2. CASE Save
    <2>1. UNCHANGED <<slot, s_VScsi>>
          /\ (cfgState' = "saved" => cfg' = s_VScsi)
      BY <1>2 DEF Save, SaveRefused, SaveTruncate, SaveWrite
    <2>2. QED
      BY <2>1 DEF Saved, On
  <1>3. ASSUME NEW s \in Slot, NEW p \in Path, Mount(s, p) PROVE Saved'
    <2>1. slot' = [slot EXCEPT ![s] = IF disk[sdimg_path(p)] \in {Absent, Empty} THEN Off
                                      ELSE [path |-> p, at |-> sdimg_path(p)]]
          /\ cfg' = cfg /\ cfgState' = cfgState /\ s \in DOMAIN slot /\ s \in DOMAIN s_VScsi
      BY <1>3 DEF Mount, MountIn, sdimg_path, Typed
    <2>2. CASE slot'[s] = Off
      <3>1. slot' = [slot EXCEPT ![s] = Off] /\ s_VScsi' = s_VScsi /\ cpu' = cpu
        BY <1>3, <2>1, <2>2 DEF Mount
      <3>2. QED
        BY <2>1, <3>1 DEF Saved, On, Off, Typed
    <2>3. CASE slot'[s] # Off
      <3>1. slot' = [slot EXCEPT ![s] = [path |-> p, at |-> sdimg_path(p)]]
            /\ s_VScsi' = [s_VScsi EXCEPT ![s] = p] /\ cpu' = "save"
        BY <1>3, <2>1, <2>3 DEF Mount
      <3>2. QED
        BY <3>1 DEF Saved, On, Typed
    <2>4. QED
      BY <2>2, <2>3
  <1>4. ASSUME NEW s \in Slot, Eject(s) PROVE Saved'
    BY <1>4 DEF Eject, Saved, On, Off, Typed
  <1>5. CASE FetchEnd
    <2>1. /\ s_job.path \in Path /\ s_job.id \in Slot /\ cfg' = cfg /\ cfgState' = cfgState /\ cpu = "free"
      BY <1>5, JobIsThere DEF FetchEnd, Typed
    <2>2. CASE s_job.use = "mount" /\ slot'[s_job.id] # Off
      <3>1. slot' = MountIn(disk', s_img, slot, s_job.id, s_job.path)
            /\ s_VScsi' = [s_VScsi EXCEPT ![s_job.id] = s_job.path] /\ cpu' = "save"
        BY <1>5, <2>2 DEF FetchEnd
      <3>2. slot'[s_job.id].path = s_job.path /\ \A s \in Slot \ {s_job.id} : slot'[s] = slot[s]
        BY <2>1, <2>2, <3>1 DEF MountIn, Typed
      <3>3. QED
        BY <2>1, <3>1, <3>2 DEF Saved, On, Typed
    <2>3. CASE ~(s_job.use = "mount" /\ slot'[s_job.id] # Off)
      <3>1. s_VScsi' = s_VScsi /\ cpu' = cpu
        BY <1>5, <2>3 DEF FetchEnd
      <3>2. ASSUME NEW s \in Slot PROVE slot'[s] \in {slot[s], Off}
        BY <1>5, <2>1, <2>3 DEF FetchEnd, MountIn, Typed
      <3>3. QED
        BY <2>1, <3>1, <3>2 DEF Saved, On, Off
    <2>4. QED
      BY <2>2, <2>3
  <1>6. CASE MigrateBegin
    <2>1. \A s \in Slot : slot'[s] \in {slot[s], Off}
      BY <1>6 DEF MigrateBegin
    <2>2. QED
      BY <1>6, <2>1 DEF MigrateBegin, Saved, On, Off
  <1>7. CASE MigrateEnd
    <2>1. cpu' = "save" /\ \A s \in Slot : ~On(s)
      BY <1>7 DEF MigrateEnd, Moves, Moving
    <2>2. ASSUME NEW s \in Slot, On(s)' PROVE s_VScsi'[s] = slot'[s].path
      <3>1. Remounted(s)
        BY <1>7, <2>1, <2>2 DEF MigrateEnd, On, Off
      <3>2. slot'[s].path = NewPath(s)
        BY <1>7, <3>1 DEF MigrateEnd, MountIn, Remounted, Typed
      <3>3. s_VScsi'[s] = NewPath(s)
        BY <1>7, <3>1 DEF MigrateEnd, Configured
      <3>4. QED
        BY <3>2, <3>3
    <2>3. QED
      BY <2>1, <2>2 DEF Saved
  <1>8. CASE PowerLoss
    BY <1>8 DEF PowerLoss, Saved, On, Off
  <1>9. CASE Boot
    <2>1. slot' = [s \in Slot |-> IF cfg[s] = NoPath THEN Off ELSE MountIn(disk, s_img', slot, s, cfg[s])[s]]
          /\ s_VScsi' = cfg /\ cfg' = cfg
      BY <1>9 DEF Boot, cfg_load
    <2>2. ASSUME NEW s \in Slot, On(s)' PROVE slot'[s].path = cfg[s]
      BY <2>1, <2>2 DEF On, Off, MountIn, Typed
    <2>3. QED
      BY <2>1, <2>2 DEF Saved
  <1> QED
    BY <1>1, <1>2, <1>3, <1>4, <1>5, <1>6, <1>7, <1>8, <1>9
    DEF Next, vars, Save, GuestWrites, NewBegin, Remove, PutFirst, Rename, NewEnd, PutLast,
        FetchStart, FetchOpen, FetchFails, FetchInject, ExpandBegin, ExpandFails,
        ExpandFormatted, ExpandUnmountable, CopyEnd, MoveEnd, CopyBegin

-----------------------------------------------------------------------------
(***************************************************************************)
(* Files under construction.                                               *)
(***************************************************************************)
LEMMA ClaimsInit == Init => Claims
  BY DEF Init, Claims, ClaimNew, ClaimPut, ClaimJob, Idle, being_fetched

\* What the transfer is after a step of a user.
LEMMA JobUser ==
  ASSUME Typed, User
  PROVE  \/ s_job' = s_job /\ ~FetchOpen /\ ~FetchFails /\ ~FetchEnd
         \/ s_job'.pc = "idle"
         \/ /\ FetchOpen /\ s_job'.pc = "body" /\ s_job.pc = "connect"
            /\ s_job'.path = s_job.path /\ s_job'.use = s_job.use
            /\ s_job'.at = sdimg_path(s_job.path)
         \/ \E p \in Path, use \in Uses, id \in Slot :
               /\ FetchStart(p, use, id) /\ s_job.pc = "idle"
               /\ s_job'.pc = "connect" /\ s_job'.path = p /\ s_job'.use = use
  <1>1. ASSUME NEW p \in Path, NEW use \in Uses, NEW id \in Slot, FetchStart(p, use, id)
        PROVE  s_job.pc = "idle" /\ s_job'.pc = "connect" /\ s_job'.path = p /\ s_job'.use = use
    BY <1>1 DEF FetchStart
  <1>2. ASSUME FetchOpen
        PROVE  /\ s_job'.pc = "body" /\ s_job.pc = "connect"
               /\ s_job'.path = s_job.path /\ s_job'.use = s_job.use
               /\ s_job'.at = sdimg_path(s_job.path)
    <2>1. s_job \in Jobs
      BY DEF Typed, Jobs
    <2>2. s_job' = [s_job EXCEPT !.pc = "body", !.at = sdimg_path(s_job.path)] /\ s_job.pc = "connect"
      BY <1>2 DEF FetchOpen
    <2>3. QED
      BY <2>1, <2>2 DEF Jobs
  <1>3. FetchFails \/ FetchEnd \/ FetchInject => s_job'.pc = "idle"
    BY DEF FetchFails, FetchEnd, FetchInject, Idle
  <1>4. QED
    BY <1>1, <1>2, <1>3 DEF User, Mount, Eject, NewBegin, Remove, PutFirst, Rename, NewEnd, PutLast

\* A user's step makes one content at most.
LEMMA KeptGrows == User => kept' \subseteq kept \cup {fresh + 1}
  BY DEF User, Mount, Eject, NewBegin, Remove, PutFirst, Rename, NewEnd, PutLast, FetchStart,
         FetchOpen, FetchFails, FetchEnd, FetchInject, Renew, Close

\* A file comes into use when it is mounted.
LEMMA InSlotGrows ==
  ASSUME Discipline, Typed, Typed', Phases, Claims, [Next]_vars, User, NEW f, InSlot(f)'
  PROVE  \/ InSlot(f)
         \/ \E s \in Slot, p \in Path : Mount(s, p) /\ f = sdimg_path(p) /\ Apart(f)
         \/ FetchEnd /\ being_fetched(f)
  <1>0. /\ \A p : sdimg_path(p)' = sdimg_path(p)
        /\ ~MigrateEnd
    BY UserStep DEF sdimg_path, Idling, MigrateEnd
  <1>1. PICK p \in Path : Names(p)' /\ sdimg_path(p) = f
    <2>1. \E p \in Path : Names(p)' /\ sdimg_path(p)' = f
      BY InSlotNext DEF InSlotIs
    <2>2. QED
      BY <1>0, <2>1
  <1>2. CASE Names(p)
    BY <1>1, <1>2, InSlotNames
  <1>3. ASSUME NEW s \in Slot, Mount(s, p) PROVE Apart(f)
    BY <1>1, <1>3 DEF Mount
  <1>4. ASSUME FetchEnd, p = s_job.path PROVE being_fetched(f)
    BY <1>1, <1>4 DEF FetchEnd, being_fetched
  <1>5. QED
    BY <1>0, <1>1, <1>2, <1>3, <1>4, NamesGrow

LEMMA ClaimsUser ==
  ASSUME Discipline, Typed, Typed', Phases, Claims, MountedWhole, [Next]_vars, User
  PROVE  Claims'
  <1>0. /\ \A p : sdimg_path(p)' = sdimg_path(p)
        /\ \A f : Here(f)' <=> Here(f)
        /\ s_p2' = s_p2
    BY UserStep DEF sdimg_path, Here
  <1>a. disk \in [File -> Content]
    BY DEF Typed
  \* The file of the transfer.
  <1>1. ASSUME NEW f, being_fetched(f)'
        PROVE  \/ /\ being_fetched(f) /\ ~FetchEnd
               \/ \E p \in Path, use \in Uses, id \in Slot :
                     FetchStart(p, use, id) /\ use # "inject" /\ f = sdimg_path(p) /\ Apart(f) /\ Unused(f)
    <2>1. s_job'.pc # "idle" /\ s_job'.use # "inject" /\ sdimg_path(s_job'.path) = f
      BY <1>0, <1>1 DEF being_fetched
    <2>2. ~FetchEnd
      BY <2>1 DEF FetchEnd, Idle
    <2>3. CASE s_job' = s_job
      BY <2>1, <2>2, <2>3 DEF being_fetched
    <2>4. CASE /\ s_job.pc = "connect" /\ s_job'.path = s_job.path /\ s_job'.use = s_job.use
      BY <2>1, <2>2, <2>4 DEF being_fetched
    <2>5. ASSUME NEW p \in Path, NEW use \in Uses, NEW id \in Slot, FetchStart(p, use, id),
                 s_job'.path = p, s_job'.use = use
          PROVE  use # "inject" /\ f = sdimg_path(p) /\ Apart(f) /\ Unused(f)
      BY <2>1, <2>5 DEF FetchStart
    <2>6. QED
      BY <2>1, <2>3, <2>4, <2>5, JobUser
  \* The file a new image goes into.
  <1>2. ClaimNew'
    <2>1. ASSUME NEW f \in File, f = new', Here(f), disk'[f] = Empty, f # put', ~InSlot(f)', ~being_fetched(f)'
          PROVE  ClaimNew'
      BY <1>0, <2>1 DEF ClaimNew, InSlot, being_fetched
    <2>2. ASSUME NEW p \in Path, NewBegin(p) PROVE ClaimNew'
      <3>1. PICK f \in File : f = sdimg_path(p) /\ Here(f)
        BY Resolved
      <3>2. /\ Apart(f) /\ Unused(f) /\ disk' = [disk EXCEPT ![f] = Empty] /\ new' = f
            /\ UNCHANGED <<slot, s_VScsi, cfg, s_job, put, s_img>>
        BY <2>2, <3>1 DEF NewBegin
      <3>3. ~InSlot(f) /\ f # put /\ ~being_fetched(f)
        BY <3>2, ApartIs DEF Unused, Discipline
      <3>4. ~InSlot(f)' /\ ~being_fetched(f)'
        BY <1>0, <3>2, <3>3 DEF InSlot, being_fetched
      <3>5. disk'[f] = Empty
        BY <1>a, <3>2
      <3>6. QED
        BY <2>1, <3>1, <3>2, <3>3, <3>4, <3>5
    <2>3. CASE new' # NoFile /\ ~\E p \in Path : NewBegin(p)
      <3>1. new' = new /\ ~NewEnd
        BY <2>3 DEF User, Mount, Eject, Remove, PutFirst, Rename, NewEnd, PutLast, FetchStart,
                    FetchOpen, FetchFails, FetchEnd, FetchInject
      <3>2. PICK f \in File : f = new
        BY <2>3, <3>1 DEF Typed
      <3>3. Here(f) /\ disk[f] = Empty /\ f # put /\ ~InSlot(f) /\ ~being_fetched(f)
        BY <2>3, <3>1, <3>2 DEF Claims, ClaimNew
      <3>4. disk'[f] = Empty
        BY <3>1, <3>2, <3>3, UserWrites
      <3>5. f # put'
        <4>1. ASSUME NEW p \in Path, PutFirst(p) PROVE f # put'
          <5>1. put' = sdimg_path(p) /\ Apart(sdimg_path(p)) /\ sdimg_path(p) \in File
            BY <4>1, Resolved DEF PutFirst
          <5>2. QED
            BY <3>2, <5>1, ApartIs
        <4>2. (\E p \in Path : PutFirst(p)) \/ put' = put \/ put' = NoFile
          BY DEF User, Mount, Eject, NewBegin, Remove, Rename, NewEnd, PutLast, FetchStart,
                 FetchOpen, FetchFails, FetchEnd, FetchInject
        <4>3. QED
          BY <3>3, <4>1, <4>2, NoPathIsNone
      <3>6. ~InSlot(f)'
        BY <3>2, <3>3, InSlotGrows, ApartIs
      <3>7. ~being_fetched(f)'
        BY <1>1, <3>2, <3>3, ApartIs
      <3>8. QED
        BY <2>1, <3>1, <3>2, <3>3, <3>4, <3>5, <3>6, <3>7
    <2>4. new' = NoFile => ClaimNew'
      BY DEF ClaimNew
    <2>5. QED
      BY <2>2, <2>3, <2>4
  \* The file of a browser.
  <1>3. ClaimPut'
    <2>1. ASSUME NEW f \in File, f = put', Here(f), ~InSlot(f)', ~being_fetched(f)'
          PROVE  ClaimPut'
      BY <1>0, <2>1 DEF ClaimPut, InSlot, being_fetched
    <2>2. ASSUME NEW p \in Path, PutFirst(p) PROVE ClaimPut'
      <3>1. PICK f \in File : f = sdimg_path(p) /\ Here(f)
        BY Resolved
      <3>2. /\ Apart(f) /\ Unused(f) /\ put' = f
            /\ UNCHANGED <<slot, s_VScsi, cfg, s_job, s_img>>
        BY <2>2, <3>1 DEF PutFirst
      <3>3. ~InSlot(f) /\ ~being_fetched(f)
        BY <3>2, ApartIs DEF Unused, Discipline
      <3>4. ~InSlot(f)' /\ ~being_fetched(f)'
        BY <1>0, <3>2, <3>3 DEF InSlot, being_fetched
      <3>5. QED
        BY <2>1, <3>1, <3>2, <3>4
    <2>3. CASE put' # NoFile /\ ~\E p \in Path : PutFirst(p)
      <3>1. put' = put
        BY <2>3 DEF User, Mount, Eject, NewBegin, Remove, Rename, NewEnd, PutLast, FetchStart,
                    FetchOpen, FetchFails, FetchEnd, FetchInject
      <3>2. PICK f \in File : f = put
        BY <2>3, <3>1 DEF Typed
      <3>3. Here(f) /\ ~InSlot(f) /\ ~being_fetched(f)
        BY <2>3, <3>1, <3>2 DEF Claims, ClaimPut
      <3>4. ~InSlot(f)'
        BY <3>2, <3>3, InSlotGrows, ApartIs
      <3>5. ~being_fetched(f)'
        BY <1>1, <3>2, <3>3, ApartIs
      <3>6. QED
        BY <2>1, <3>1, <3>2, <3>3, <3>4, <3>5
    <2>4. put' = NoFile => ClaimPut'
      BY DEF ClaimPut
    <2>5. QED
      BY <2>2, <2>3, <2>4
  \* The transfer.
  <1>4. ASSUME NEW f \in File, being_fetched(f)' PROVE ~InSlot(f)'
    <2>1. CASE being_fetched(f) /\ ~FetchEnd
      <3>1. ~InSlot(f)
        BY <2>1 DEF Claims, ClaimJob
      <3>2. QED
        BY <2>1, <3>1, InSlotGrows, ApartIs
    <2>2. ASSUME NEW p \in Path, NEW use \in Uses, NEW id \in Slot, FetchStart(p, use, id), Unused(f)
          PROVE  ~InSlot(f)'
      <3>1. UNCHANGED <<slot, s_VScsi, cfg>>
        BY <2>2 DEF FetchStart
      <3>2. QED
        BY <1>0, <2>2, <3>1 DEF Unused, Discipline, InSlot
    <2>3. QED
      BY <1>1, <1>4, <2>1, <2>2
  <1>5. ASSUME NEW p \in Path, NEW use \in Uses, NEW id \in Slot, FetchStart(p, use, id),
               s_job'.pc = "connect", s_job'.path = p, s_job'.use = use
        PROVE  /\ s_job'.path.old \/ s_p2 # "none"
               /\ s_job'.use # "inject" => disk'[sdimg_path(s_job'.path)] \notin kept'
    BY <1>5 DEF FetchStart, FormFits, Discipline
  <1>6. ASSUME FetchOpen, s_job'.use = s_job.use, s_job'.use # "inject", s_job'.at = sdimg_path(s_job.path)
        PROVE  disk'[s_job'.at] = Empty
    <2>1. sdimg_path(s_job.path) \in File
      BY <1>6, JobIsThere DEF FetchOpen
    <2>2. QED
      BY <1>a, <1>6, <2>1 DEF FetchOpen
  <1>7. ASSUME s_job' = s_job, s_job.pc # "idle", s_job.use # "inject", ~FetchOpen, ~FetchFails, ~FetchEnd
        PROVE  disk'[sdimg_path(s_job.path)] = disk[sdimg_path(s_job.path)]
               /\ (disk[sdimg_path(s_job.path)] \notin kept => disk[sdimg_path(s_job.path)] \notin kept')
    <2>1. sdimg_path(s_job.path) \in File /\ being_fetched(sdimg_path(s_job.path))
      BY <1>7, JobIsThere
    <2>2. disk[sdimg_path(s_job.path)] # fresh + 1
      BY <2>1, Contents
    <2>3. QED
      BY <1>7, <2>1, <2>2, UserWrites, KeptGrows
  <1>8. /\ s_job'.pc # "idle" => s_job'.path.old \/ s_p2 # "none"
        /\ s_job'.pc = "connect" /\ s_job'.use # "inject" => disk'[sdimg_path(s_job'.path)] \notin kept'
        /\ s_job'.pc = "body" => s_job'.at = sdimg_path(s_job'.path)
        /\ s_job'.pc = "body" /\ s_job'.use # "inject" => disk'[s_job'.at] = Empty
    <2>1. CASE s_job' = s_job /\ ~FetchOpen /\ ~FetchFails /\ ~FetchEnd
      BY <1>7, <2>1 DEF Claims, ClaimJob
    <2>2. CASE s_job'.pc = "idle"
      BY <2>2
    <2>3. CASE /\ FetchOpen /\ s_job'.pc = "body" /\ s_job.pc = "connect"
               /\ s_job'.path = s_job.path /\ s_job'.use = s_job.use
               /\ s_job'.at = sdimg_path(s_job.path)
      BY <1>6, <2>3 DEF Claims, ClaimJob
    <2>4. CASE \E p \in Path, use \in Uses, id \in Slot :
                 /\ FetchStart(p, use, id) /\ s_job.pc = "idle"
                 /\ s_job'.pc = "connect" /\ s_job'.path = p /\ s_job'.use = use
      BY <1>5, <2>4
    <2>5. QED
      BY <2>1, <2>2, <2>3, <2>4, JobUser
  <1>9. ClaimJob'
    BY <1>0, <1>4, <1>8 DEF ClaimJob
  <1>10. QED
    BY <1>2, <1>3, <1>9 DEF Claims

LEMMA ClaimsStep ==
  ASSUME Discipline, Typed, Typed', Phases, Phases', Claims, MountedWhole, [Next]_vars
  PROVE  Claims'
  <1>1. CASE User
    BY <1>1, ClaimsUser
  \* Nothing is under construction.
  <1>2. CASE s_job'.pc = "idle" /\ new' = NoFile /\ put' = NoFile
    BY <1>2 DEF Claims, ClaimNew, ClaimPut, ClaimJob, being_fetched
  <1>3. ASSUME NEW s \in Slot, GuestWrites(s) PROVE Claims'
    <2>1. PICK g \in File :
            /\ g = slot[s].at /\ InSlot(g) /\ disk' = [disk EXCEPT ![g] = fresh + 1]
            /\ kept' \subseteq kept \cup {fresh + 1}
            /\ UNCHANGED <<cpu, s_img, s_p2, slot, s_VScsi, cfg, cfgState, exp, s_job, new, put>>
      BY <1>3, GuestWrote
    <2>2. \A f : (InSlot(f)' <=> InSlot(f)) /\ (being_fetched(f)' <=> being_fetched(f)) /\ (Here(f)' <=> Here(f))
      BY <2>1 DEF InSlot, being_fetched, Here, sdimg_path
    <2>3. \A p : sdimg_path(p)' = sdimg_path(p)
      BY <2>1 DEF sdimg_path
    <2>4. \A f \in File : ~InSlot(f) => disk'[f] = disk[f]
      BY <2>1 DEF Typed
    <2>5. ClaimNew'
      BY <2>1, <2>2, <2>4 DEF Claims, ClaimNew, Typed
    <2>6. ClaimPut'
      BY <2>1, <2>2 DEF Claims, ClaimPut
    <2>7. ASSUME s_job.pc # "idle", s_job.use # "inject"
          PROVE  disk'[sdimg_path(s_job.path)] = disk[sdimg_path(s_job.path)]
                 /\ disk[sdimg_path(s_job.path)] # fresh + 1
      <3>1. sdimg_path(s_job.path) \in File /\ being_fetched(sdimg_path(s_job.path))
        BY <2>7, JobIsThere
      <3>2. ~InSlot(sdimg_path(s_job.path))
        BY <3>1 DEF Claims, ClaimJob
      <3>3. QED
        BY <2>4, <3>1, <3>2, Contents
    <2>8. ClaimJob'
      BY <2>1, <2>2, <2>3, <2>7 DEF Claims, ClaimJob
    <2>9. QED
      BY <2>5, <2>6, <2>8 DEF Claims
  <1>4. CASE Save \/ UNCHANGED vars
    <2>1. UNCHANGED <<s_img, s_p2, disk, s_job, new, put, kept>>
      BY <1>4 DEF Save, SaveRefused, SaveTruncate, SaveWrite, vars
    <2>2. \A f : (being_fetched(f)' <=> being_fetched(f)) /\ (Here(f)' <=> Here(f))
      BY <2>1 DEF being_fetched, Here, sdimg_path
    <2>3. \A p : sdimg_path(p)' = sdimg_path(p)
      BY <2>1 DEF sdimg_path
    <2>4. ASSUME NEW f, InSlot(f)' PROVE InSlot(f)
      <3>1. PICK p \in Path : Names(p)' /\ sdimg_path(p)' = f
        BY <2>4, InSlotNext DEF InSlotIs
      <3>2. Names(p) /\ sdimg_path(p) = f
        BY <1>4, <2>3, <3>1, StillIs DEF Still
      <3>3. QED
        BY <3>2, InSlotNames
    <2>5. ClaimNew'
      BY <2>1, <2>2, <2>4 DEF Claims, ClaimNew
    <2>6. ClaimPut'
      BY <2>1, <2>2, <2>4 DEF Claims, ClaimPut
    <2>7. ClaimJob'
      BY <2>1, <2>2, <2>3, <2>4 DEF Claims, ClaimJob
    <2>8. QED
      BY <2>5, <2>6, <2>7 DEF Claims
  <1>5. exp'.pc # "idle" \/ cpu' = "off" => s_job'.pc = "idle" /\ new' = NoFile /\ put' = NoFile
    BY DEF Phases, Idle
  <1>6. ExpandFails \/ ExpandUnmountable \/ MigrateEnd \/ Boot
            => s_job'.pc = "idle" /\ new' = NoFile /\ put' = NoFile
    <2>1. ExpandFails \/ ExpandUnmountable \/ MigrateEnd \/ Boot
              => UNCHANGED <<s_job, new, put>> /\ (exp.pc # "idle" \/ cpu = "off")
      BY DEF ExpandFails, ExpandUnmountable, MigrateEnd, Boot
    <2>2. QED
      BY <2>1 DEF Phases, Idle
  <1>7. ExpandBegin \/ ExpandFormatted \/ MigrateBegin \/ CopyEnd \/ MoveEnd
        \/ (\E n \in Name : CopyBegin(n)) => exp'.pc # "idle"
    BY Expanding
  <1>8. PowerLoss => cpu' = "off"
    BY DEF PowerLoss
  <1> QED
    BY <1>1, <1>2, <1>3, <1>4, <1>5, <1>6, <1>7, <1>8, Who

-----------------------------------------------------------------------------
(***************************************************************************)
(* The geometry of a volume.                                               *)
(***************************************************************************)
ClusterSizes == {128, 64, 32, 16, 8}

LEMMA FatForIs ==
  ASSUME NEW x \in Int
  PROVE  FatFor(x) \in Int /\ x + 2 <= 128 * FatFor(x) /\ 128 * FatFor(x) <= x + 129
  BY DEF FatFor

LEMMA ClustersIs ==
  ASSUME NEW n \in Int, NEW f \in Int, NEW c \in ClusterSizes
  PROVE  /\ Clusters(n, c, f) \in Int
         /\ c * Clusters(n, c, f) <= n - 32 - 2 * f
         /\ n - 32 - 2 * f < c * Clusters(n, c, f) + c
  <1>1. CASE c = 8
    BY <1>1 DEF Clusters, Reserved
  <1>2. CASE c = 16
    BY <1>2 DEF Clusters, Reserved
  <1>3. CASE c = 32
    BY <1>3 DEF Clusters, Reserved
  <1>4. CASE c = 64
    BY <1>4 DEF Clusters, Reserved
  <1>5. CASE c = 128
    BY <1>5 DEF Clusters, Reserved
  <1>6. QED
    BY <1>1, <1>2, <1>3, <1>4, <1>5 DEF ClusterSizes

\* The sectors that a FAT of f sectors leaves room for entries of.
Again(n, c, f) == FatFor(Clusters(n, c, f))

\* The four rounds of the loop.
LEMMA FourRounds ==
  ASSUME NEW n, NEW c
  PROVE  FatSectors(n, c) = Again(n, c, Again(n, c, Again(n, c, Again(n, c, 0))))
  <1> DEFINE Rounds(f) == [i \in 0..4 |-> IF i = 0 THEN 0 ELSE FatFor(Clusters(n, c, f[i - 1]))]
             round == CHOOSE f : f = Rounds(f)
             a1 == Again(n, c, 0)
             a2 == Again(n, c, a1)
             a3 == Again(n, c, a2)
             a4 == Again(n, c, a3)
             g == [i \in 0..4 |-> IF i = 0 THEN 0 ELSE IF i = 1 THEN a1 ELSE IF i = 2 THEN a2
                                  ELSE IF i = 3 THEN a3 ELSE a4]
  <1>1. FatSectors(n, c) = round[4]
    BY DEF FatSectors
  <1>2. g = Rounds(g)
    BY DEF Again
  <1>3. round = Rounds(round)
    <2> HIDE DEF g, Rounds
    <2>1. \E f : f = Rounds(f)
      BY <1>2
    <2>2. QED
      BY <2>1
  <1> HIDE DEF round
  <1>4. /\ round[0] = 0 /\ round[1] = FatFor(Clusters(n, c, round[0]))
        /\ round[2] = FatFor(Clusters(n, c, round[1])) /\ round[3] = FatFor(Clusters(n, c, round[2]))
        /\ round[4] = FatFor(Clusters(n, c, round[3]))
    BY <1>3
  <1>5. QED
    BY <1>1, <1>4 DEF Again

\* A round brings two sizes of the FAT 512 times closer, up to one sector.
LEMMA Closer ==
  ASSUME NEW n \in Int, NEW c \in ClusterSizes, NEW f \in Int, NEW g \in Int, NEW d \in Nat,
         f - g <= d, g - f <= d
  PROVE  /\ Again(n, c, f) \in Int
         /\ 512 * (Again(n, c, f) - Again(n, c, g)) <= d + 512
  <1> DEFINE p == Clusters(n, c, f)
             q == Clusters(n, c, g)
  <1>1. /\ p \in Int /\ q \in Int
        /\ c * p <= n - 32 - 2 * f /\ n - 32 - 2 * g < c * q + c
    BY ClustersIs
  <1> HIDE DEF p, q
  <1>2. 4 * (p - q) <= d + 4
    <2>1. CASE c = 8
      BY <1>1, <2>1
    <2>2. CASE c = 16
      BY <1>1, <2>2
    <2>3. CASE c = 32
      BY <1>1, <2>3
    <2>4. CASE c = 64
      BY <1>1, <2>4
    <2>5. CASE c = 128
      BY <1>1, <2>5
    <2>6. QED
      BY <2>1, <2>2, <2>3, <2>4, <2>5 DEF ClusterSizes
  <1>3. /\ FatFor(p) \in Int /\ 128 * FatFor(p) <= p + 129
        /\ FatFor(q) \in Int /\ q + 2 <= 128 * FatFor(q)
    BY <1>1, FatForIs
  <1>4. 512 * (FatFor(p) - FatFor(q)) <= d + 512
    BY <1>1, <1>2, <1>3
  <1>5. QED
    BY <1>3, <1>4 DEF Again, p, q

\* Four rounds are enough for any partition of less than 2^32 sectors: the last
\* one changes the FAT by a sector at most, and leaves room for clusters.
LEMMA Settled ==
  ASSUME NEW n \in Nat, n >= 524288, n \div 1073741824 < 4, NEW c \in ClusterSizes
  PROVE  /\ FatSectors(n, c) \in Nat /\ 32 + 2 * FatSectors(n, c) <= n
         /\ Clusters(n, c, FatSectors(n, c)) + 2 - 128 * FatSectors(n, c) \in -128..1
  <1> DEFINE a1 == Again(n, c, 0)
             a2 == Again(n, c, a1)
             a3 == Again(n, c, a2)
             a4 == Again(n, c, a3)
  <1>0. FatSectors(n, c) = a4
    BY FourRounds
  <1>a. n < 4294967296
    OBVIOUS
  <1>1. a1 \in Int /\ a1 >= 0 /\ a1 <= 4194305 /\ 1024 * a1 <= n + 2048
    <2> DEFINE q == Clusters(n, c, 0)
    <2>1. q \in Int /\ c * q <= n - 32 /\ n - 32 < c * q + c
      BY ClustersIs
    <2> HIDE DEF q
    <2>2. 0 <= q /\ 8 * q <= n - 32
      <3>1. CASE c = 8
        BY <2>1, <3>1
      <3>2. CASE c = 16
        BY <2>1, <3>2
      <3>3. CASE c = 32
        BY <2>1, <3>3
      <3>4. CASE c = 64
        BY <2>1, <3>4
      <3>5. CASE c = 128
        BY <2>1, <3>5
      <3>6. QED
        BY <3>1, <3>2, <3>3, <3>4, <3>5 DEF ClusterSizes
    <2>3. FatFor(q) \in Int /\ q + 2 <= 128 * FatFor(q) /\ 128 * FatFor(q) <= q + 129
      BY <2>1, FatForIs
    <2>4. FatFor(q) >= 0 /\ FatFor(q) <= 4194305 /\ 1024 * FatFor(q) <= n + 2048
      BY <1>a, <2>1, <2>2, <2>3
    <2>5. QED
      BY <2>3, <2>4 DEF Again, q
  <1>b. a1 = Again(n, c, 0)
    OBVIOUS
  <1> HIDE DEF a1
  <1>2. a2 \in Int /\ a2 - a1 <= 8193 /\ a1 - a2 <= 8193
    <2>0. PICK d \in Nat : d = 4194305
      OBVIOUS
    <2>1. a1 \in Int /\ 0 \in Int /\ a1 - 0 <= d /\ 0 - a1 <= d
      BY <1>1, <2>0
    <2>2. a2 \in Int /\ 512 * (a2 - Again(n, c, 0)) <= d + 512
      BY <2>1, Closer
    <2>3. 512 * (Again(n, c, 0) - a2) <= d + 512
      BY <2>1, Closer
    <2>4. QED
      BY <1>b, <1>1, <2>0, <2>2, <2>3
  <1>c. a2 = Again(n, c, a1)
    OBVIOUS
  <1> HIDE DEF a2
  <1>3. a3 \in Int /\ a3 - a2 <= 17 /\ a2 - a3 <= 17
    <2>0. PICK d \in Nat : d = 8193
      OBVIOUS
    <2>1. a2 \in Int /\ a1 \in Int /\ a2 - a1 <= d /\ a1 - a2 <= d
      BY <1>1, <1>2, <2>0
    <2>2. a3 \in Int /\ 512 * (a3 - Again(n, c, a1)) <= d + 512
      BY <2>1, Closer
    <2>3. 512 * (Again(n, c, a1) - a3) <= d + 512
      BY <2>1, Closer
    <2>4. QED
      BY <1>c, <1>2, <2>0, <2>2, <2>3
  <1>d. a3 = Again(n, c, a2)
    OBVIOUS
  <1> HIDE DEF a3
  <1>4. a4 \in Int /\ a4 - a3 <= 1 /\ a3 - a4 <= 1
    <2>0. PICK d \in Nat : d = 17
      OBVIOUS
    <2>1. a3 \in Int /\ a2 \in Int /\ a3 - a2 <= d /\ a2 - a3 <= d
      BY <1>2, <1>3, <2>0
    <2>2. a4 \in Int /\ 512 * (a4 - Again(n, c, a2)) <= d + 512
      BY <2>1, Closer
    <2>3. 512 * (Again(n, c, a2) - a4) <= d + 512
      BY <2>1, Closer
    <2>4. QED
      BY <1>d, <1>3, <2>0, <2>2, <2>3
  <1> DEFINE p == Clusters(n, c, a3)
             q == Clusters(n, c, a4)
  <1>5. p \in Int /\ p + 2 <= 128 * a4 /\ 128 * a4 <= p + 129
    <2>1. p \in Int
      BY <1>3, ClustersIs
    <2>2. a4 = FatFor(p)
      BY DEF Again
    <2> HIDE DEF a4, p
    <2>3. QED
      BY <2>1, <2>2, FatForIs
  <1>6. /\ q \in Int
        /\ c * p <= n - 32 - 2 * a3 /\ n - 32 - 2 * a3 < c * p + c
        /\ c * q <= n - 32 - 2 * a4 /\ n - 32 - 2 * a4 < c * q + c
    BY <1>3, <1>4, ClustersIs
  <1> HIDE DEF a4, p, q
  <1>7. p - q <= 1 /\ q - p <= 1
    <2>1. CASE c = 8
      BY <1>3, <1>4, <1>5, <1>6, <2>1
    <2>2. CASE c = 16
      BY <1>3, <1>4, <1>5, <1>6, <2>2
    <2>3. CASE c = 32
      BY <1>3, <1>4, <1>5, <1>6, <2>3
    <2>4. CASE c = 64
      BY <1>3, <1>4, <1>5, <1>6, <2>4
    <2>5. CASE c = 128
      BY <1>3, <1>4, <1>5, <1>6, <2>5
    <2>6. QED
      BY <2>1, <2>2, <2>3, <2>4, <2>5 DEF ClusterSizes
  <1>8. q + 2 - 128 * a4 \in -128..1
    BY <1>4, <1>5, <1>6, <1>7
  <1>9. a4 <= a1 + 8212 /\ 32 + 2 * a4 <= n
    BY <1>1, <1>2, <1>3, <1>4
  <1>10. a4 >= 0
    <2>1. n - 32 - 2 * a3 >= 0
      BY <1>1, <1>2, <1>3
    <2>2. p >= 0
      <3>1. CASE c = 8
        BY <1>3, <1>5, <1>6, <2>1, <3>1
      <3>2. CASE c = 16
        BY <1>3, <1>5, <1>6, <2>1, <3>2
      <3>3. CASE c = 32
        BY <1>3, <1>5, <1>6, <2>1, <3>3
      <3>4. CASE c = 64
        BY <1>3, <1>5, <1>6, <2>1, <3>4
      <3>5. CASE c = 128
        BY <1>3, <1>5, <1>6, <2>1, <3>5
      <3>6. QED
        BY <3>1, <3>2, <3>3, <3>4, <3>5 DEF ClusterSizes
    <2>3. QED
      BY <1>4, <1>5, <2>2
  <1>11. QED
    BY <1>0, <1>4, <1>8, <1>9, <1>10 DEF q

\* The cluster that fat32_format settles on is one of the five.
LEMMA ClusterSizeIs == ASSUME NEW n PROVE ClusterSize(n) \in ClusterSizes
  <1> DEFINE fits == {c \in ClusterSizes : Clusters(n, c, FatSectors(n, c)) >= Enough}
  <1>1. fits \subseteq ClusterSizes
    OBVIOUS
  <1>2. ClusterSize(n) = IF fits = {} THEN 8 ELSE CHOOSE c \in fits : \A d \in fits : d <= c
    BY DEF ClusterSize, ClusterSizes
  <1> HIDE DEF fits
  <1>3. ASSUME fits # {} PROVE \E c \in fits : \A d \in fits : d <= c
    <2>1. ASSUME NEW c \in fits, \A d \in ClusterSizes : d > c => d \notin fits
          PROVE  \A d \in fits : d <= c
      BY <1>1, <2>1 DEF ClusterSizes
    <2>2. \E c \in fits : \A d \in ClusterSizes : d > c => d \notin fits
      <3>1. CASE 128 \in fits
        BY <3>1 DEF ClusterSizes
      <3>2. CASE 128 \notin fits /\ 64 \in fits
        BY <3>2 DEF ClusterSizes
      <3>3. CASE 128 \notin fits /\ 64 \notin fits /\ 32 \in fits
        BY <3>3 DEF ClusterSizes
      <3>4. CASE 128 \notin fits /\ 64 \notin fits /\ 32 \notin fits /\ 16 \in fits
        BY <3>4 DEF ClusterSizes
      <3>5. CASE 128 \notin fits /\ 64 \notin fits /\ 32 \notin fits /\ 16 \notin fits
        <4>0. PICK e : e \in fits
          BY <1>3
        <4>1. 8 \in fits
          BY <1>1, <4>0, <3>5 DEF ClusterSizes
        <4>2. QED
          BY <3>5, <4>1 DEF ClusterSizes
      <3>6. QED
        BY <3>1, <3>2, <3>3, <3>4, <3>5
    <2>3. QED
      BY <2>1, <2>2
  <1>4. QED
    BY <1>1, <1>2, <1>3 DEF ClusterSizes

\* Reserved sectors, FATs and clusters fill any partition that sdimg_expand takes
\* and stay inside it, and the FAT lacks one entry at most (fat32_format).
THEOREM LayoutAlwaysFits == LayoutFits
  <1> SUFFICES ASSUME NEW n \in VolumeSizes
               PROVE  /\ Reserved + 2 * Layout(n).fatsz + Layout(n).clusters * Layout(n).csize <= n
                      /\ n - (Reserved + 2 * Layout(n).fatsz + Layout(n).clusters * Layout(n).csize) < Layout(n).csize
                      /\ Missing(Layout(n)) \in -128..1
    BY DEF LayoutFits
  <1>1. n \in Nat /\ n >= 524288 /\ n \div 1073741824 < 4
    BY SizesAssumption
  <1>2. PICK c \in ClusterSizes : c = ClusterSize(n)
    BY ClusterSizeIs
  <1>3. PICK f \in Nat : f = FatSectors(n, c)
    BY <1>1, Settled
  <1>4. PICK q \in Int : q = Clusters(n, c, f)
    BY <1>1, ClustersIs
  <1>5. /\ c * q <= n - 32 - 2 * f /\ n - 32 - 2 * f < c * q + c
    BY <1>1, <1>4, ClustersIs
  <1>6. q + 2 - 128 * f \in -128..1
    BY <1>1, <1>3, <1>4, Settled
  <1>7. Layout(n) = [csize |-> c, fatsz |-> f, clusters |-> q]
    BY <1>2, <1>3, <1>4 DEF Layout
  <1>8. 32 + 2 * f + q * c <= n /\ n - (32 + 2 * f + q * c) < c
    <2>1. CASE c = 8
      BY <1>1, <1>5, <2>1
    <2>2. CASE c = 16
      BY <1>1, <1>5, <2>2
    <2>3. CASE c = 32
      BY <1>1, <1>5, <2>3
    <2>4. CASE c = 64
      BY <1>1, <1>5, <2>4
    <2>5. CASE c = 128
      BY <1>1, <1>5, <2>5
    <2>6. QED
      BY <2>1, <2>2, <2>3, <2>4, <2>5 DEF ClusterSizes
  <1>9. QED
    BY <1>6, <1>7, <1>8 DEF Missing, Reserved

-----------------------------------------------------------------------------
(***************************************************************************)
(* The theorems.                                                           *)
(***************************************************************************)
LEMMA WholeInit == Init => NamedWhole
  <1> SUFFICES ASSUME Init PROVE NamedWhole
    OBVIOUS
  <1>1. \A p \in Path : ~Names(p)
    BY NoPathIsNone DEF Init, Names, Off
  <1>2. QED
    BY <1>1 DEF Init, NamedWhole, WholeThere, Moving, NotExpanding

\* The invariant holds from the first power-on.
THEOREM Invariance == Discipline /\ Spec => []Inv
  <1> SUFFICES ASSUME Discipline PROVE Spec => []Inv
    OBVIOUS
  <1>1. Init => Inv
    BY TypedInit, PhasesInit, OldFormInit, MovesInit, WholeInit, ClaimsInit, SavedInit, KeptInit,
       MountedInit DEF Inv
  <1>2. Inv /\ [Next]_vars => Inv'
    <2> SUFFICES ASSUME Inv, [Next]_vars PROVE Inv'
      OBVIOUS
    <2> USE DEF Inv
    <2>1. Typed'
      BY TypedStep
    <2>2. Phases'
      BY PhasesStep
    <2>3. OldForm'
      BY OldFormStep
    <2>4. Moves'
      BY MovesStep
    <2>5. NamedWhole'
      BY WholeStep
    <2>6. Claims'
      BY <2>1, <2>2, ClaimsStep
    <2>7. Saved'
      BY SavedStep
    <2>8. NoImageLost'
      BY KeptStep
    <2>9. MountedWhole'
      BY <2>4, MountedStep
    <2>10. QED
      BY <2>1, <2>2, <2>3, <2>4, <2>5, <2>6, <2>7, <2>8, <2>9
  <1>3. QED
    BY <1>1, <1>2, PTL DEF Spec

\* No content that was once complete, and that nobody gave up, is lost: at every
\* moment some file of the card holds it, whichever step of an expansion, a
\* transfer or a new image the power fails at or a write is refused in.
THEOREM NoImageIsLost ==
  ASSUME Discipline
  PROVE  Spec => []NoImageLost
  <1>1. Inv => NoImageLost
    BY DEF Inv
  <1>2. QED
    BY <1>1, Invariance, PTL

\* A mounted image stays whole and stays the file its path leads to (the refusals
\* of sdimg_remove and sdimg_rename, and the remounting of sdimg_expand).
THEOREM MountedStaysWhole ==
  ASSUME Discipline
  PROVE  Spec => []MountedWhole
  <1>1. Inv => MountedWhole
    BY DEF Inv
  <1>2. QED
    BY <1>1, Invariance, PTL

\* What is mounted comes back at a boot: cfg_save follows every mount, ejection
\* and expansion before anything else runs.
THEOREM MountedComesBack ==
  ASSUME Discipline
  PROVE  Spec => []ComesBack
  <1>1. Inv => ComesBack
    BY DEF Inv, ComesBack, Saved, MountedWhole, sdimg_path
  <1>2. QED
    BY <1>1, Invariance, PTL

\* The volume that an expansion has formatted fits its partition, whatever the
\* size of the card.
THEOREM VolumeAlwaysFits == Spec => []VolumeFits
  <1>1. VolumeFits
    BY LayoutAlwaysFits DEF VolumeFits
  <1>2. QED
    BY <1>1, PTL
=============================================================================
