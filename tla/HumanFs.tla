------------------------------ MODULE HumanFs -------------------------------
(***************************************************************************)
(* The file system inside a disk image, as the Web UI changes it:          *)
(* human68k.c (one FAT, a root directory of fixed size, subdirectories in  *)
(* cluster chains) under the requests of imgfs.cpp.  A request runs to its *)
(* end without yielding, but each of its writes to the SD card may be      *)
(* refused, and power may go before any of them: the order of the writes   *)
(* is what keeps the image whole.  A download is the exception: it keeps   *)
(* the image open and yields between its pieces.                           *)
(*                                                                         *)
(* A cluster holds directory slots or a piece of a file; a file's contents *)
(* are <<its injection, piece>>.  The copies of the FAT are one, for       *)
(* fat_get reads the first copy only.  The image may be mounted on a       *)
(* virtual SCSI ID between requests: open_rw then refuses every change,    *)
(* so that nothing but the guest changes it, and imgfs_get_open does not   *)
(* ask.  The guest is one step, the rewriting of a file in place.          *)
(* Requests name directories that exist.                                   *)
(***************************************************************************)
EXTENDS Naturals, Sequences, FiniteSets, SequencesExt

CONSTANTS
    Names,      \* names a request may give
    NoName,     \* the name of a slot that has none
    Shown,      \* Shown[n]: the name the entry made from n is listed under
    Images,     \* what the image may hold at the start
    MaxCluster, \* clusters are 2..MaxCluster
    RootSlots,  \* slots of the root directory
    SubSlots,   \* slots of a directory cluster, "." and ".." included
    MaxSize,    \* bound: clusters of a file
    MaxReqs,    \* bound: requests and rewritings in one behaviour
    MaxFaults,  \* bound: refused writes and power failures in one behaviour
    GuestDuringGet  \* TRUE: a guest that has the image mounted may write to it
                    \* while a download is open

ASSUME HumanFsAssumption ==
    /\ Shown \in [Names -> Names] /\ NoName \notin Names
    /\ MaxCluster \in Nat /\ MaxCluster >= 2 /\ MaxCluster < 65528 /\ RootSlots \in Nat
    /\ SubSlots \in Nat /\ SubSlots > 2
    /\ MaxSize \in Nat /\ MaxReqs \in Nat /\ MaxFaults \in Nat
    /\ GuestDuringGet \in BOOLEAN

VARIABLES
    fat,     \* FAT entry of each cluster: 0 free, Eoc, or the next cluster
    root,    \* the slots of the root directory
    cont,    \* what each cluster holds
    todo,    \* the writes the call in progress still has to make
    next,    \* the injection an overwrite goes on with, whatever its delete returned
    about,   \* ghost: the <<directory, name>> pairs the request is about
    get,     \* the download in progress: cluster read last, pieces left, pieces sent
             \* and, a ghost, the pieces the file had when it was opened
    reqs,    \* requests so far; also names the contents of an injection or rewriting
    faults,  \* faults so far
    scar     \* ghost: a fault, or a request, hit a window the code leaves open

disk == <<fat, root, cont>>
vars == <<fat, root, cont, todo, next, about, get, reqs, faults, scar>>

Clusters == 2..MaxCluster
Steps == MaxCluster - 1
Eoc == 65535
InChain(c) == c >= 2 /\ c < 65528

Slot(k, n, d, c, z) == [k |-> k, name |-> n, dir |-> d, first |-> c, size |-> z]
Unused == Slot("00", NoName, FALSE, 0, 0)
Dot(c) == Slot("dot", NoName, TRUE, c, 0)
\* The code only marks the first byte; nothing reads the rest again.
Deleted == Slot("E5", NoName, FALSE, 0, 0)
Blank == [slots |-> [i \in 1..SubSlots |-> Unused], piece |-> <<0, 0>>]
Piece(id, j) == [slots |-> <<>>, piece |-> <<id, j>>]

Disk == [fat |-> fat, root |-> root, cont |-> cont]

-----------------------------------------------------------------------------
(* Walking the disk d. *)
\* The clusters of the chain from c in the FAT f, in order: at most n + 1 of
\* them.  The walk is cut where the code's own guard would cut a loop.
Walk(f, c) ==
    LET walk[n \in 0..Steps] ==
            IF n = 0 THEN IF InChain(c) THEN <<c>> ELSE <<>>
            ELSE LET s == walk[n - 1] IN
                 IF s # <<>> /\ InChain(f[Last(s)]) THEN Append(s, f[Last(s)]) ELSE s
    IN  walk
Chain(d, c) == Walk(d.fat, c)[Steps]

\* The slots of a directory in the order they are read: <<j, i>> is slot i of
\* its j-th cluster.  The root is a cluster of its own, 0.
DirChain(d, dir) == IF dir = 0 THEN <<0>> ELSE Chain(d, dir)
Width(dir) == IF dir = 0 THEN RootSlots ELSE SubSlots
Cells(ch, dir) == (1..Len(ch)) \X (1..Width(dir))
Before(u, v) == u[1] < v[1] \/ (u[1] = v[1] /\ u[2] < v[2])
First(us) == CHOOSE u \in us : \A v \in us : ~Before(v, u)
Place(ch, u) == <<ch[u[1]], u[2]>>
\* (file data read as slots, on a damaged image only, is not told apart)
SlotAt(d, p) == CASE p[1] = 0 -> d.root[p[2]]
                  [] p[1] # 0 /\ d.cont[p[1]].slots = <<>> -> Unused
                  [] OTHER -> d.cont[p[1]].slots[p[2]]

\* The live entries: reading stops at the first slot never used.
Listed(d, ch, dir) ==
    LET ends == {u \in Cells(ch, dir) : SlotAt(d, Place(ch, u)).k = "00"}
    IN  {u \in Cells(ch, dir) :
            SlotAt(d, Place(ch, u)).k = "ent" /\ \A v \in ends : Before(u, v)}
Entries(d, dir) == LET ch == DirChain(d, dir) IN {Place(ch, u) : u \in Listed(d, ch, dir)}

\* find_entry: names are compared as they are listed
Named(d, dir, n) ==
    LET ch == DirChain(d, dir) IN {u \in Listed(d, ch, dir) : SlotAt(d, Place(ch, u)).name = n}
find_entry(d, dir, n) == Place(DirChain(d, dir), First(Named(d, dir, n)))
dir_is_empty(d, c) == Entries(d, c) = {}

\* Free clusters in the order find_free_cluster and the injection scan them
Free(d) ==
    LET free[c \in 1..MaxCluster] ==
            IF c > 1 /\ d.fat[c] = 0 THEN Append(free[c - 1], c)
            ELSE IF c > 1 THEN free[c - 1] ELSE <<>>
    IN  free[MaxCluster]

-----------------------------------------------------------------------------
\* The directories of d: the root and those reached from it
Dirs(d) ==
    LET level[k \in 0..Steps] ==
            IF k = 0 THEN {0}
            ELSE LET known == level[k - 1] IN
                 known \cup {SlotAt(d, p).first : p \in
                    {q \in UNION {Entries(d, x) : x \in known} : SlotAt(d, q).dir}}
    IN  level[Steps]

\* The shape of an image: FAT entries are clusters, free or the end, a cluster
\* holds slots or a piece, and "." and ".." stand in subdirectories only.
SlotTypes(ks) == [k : ks, name : Names \cup {NoName}, dir : BOOLEAN,
                  first : {0} \cup Clusters, size : 0..MaxSize]
RootSlot == SlotTypes({"00", "E5", "ent"})
SubSlot == SlotTypes({"00", "E5", "ent", "dot"})
Cluster == [slots : {<<>>} \cup [1..SubSlots -> SubSlot], piece : Nat \X Nat]
ImageTypes == [fat : [Clusters -> Clusters \cup {0, Eoc}],
               root : [1..RootSlots -> RootSlot], cont : [Clusters -> Cluster]]

\* Slot u of the directory x, its cells, and the cells that list something
At(d, x, u) == SlotAt(d, Place(DirChain(d, x), u))
CellsOf(d, x) == Cells(DirChain(d, x), x)
ListedIn(d, x) == Listed(d, DirChain(d, x), x)

\* The chain of c ends in the end mark and visits no cluster twice.
Ends(d, c) ==
    LET ch == Chain(d, c)
    IN  /\ ch # <<>> => d.fat[Last(ch)] = Eoc
        /\ \A i, j \in DOMAIN ch : ch[i] = ch[j] => i = j

\* The entry e names a file: the pieces of one injection, in order.
Whole(d, e) ==
    LET ch == Chain(d, e.first)
    IN  /\ Ends(d, e.first) /\ Len(ch) = e.size
        /\ \A j \in DOMAIN ch : d.cont[ch[j]].piece = <<d.cont[ch[1]].piece[1], j>>

\* The directories D: their clusters hold slots, no two of them share one, and
\* after the first slot never used no slot is in use.
Skeleton(d, D) ==
    /\ d \in ImageTypes /\ 0 \in D /\ D \subseteq {0} \cup Clusters
    /\ \A x \in D \ {0} : Ends(d, x) /\ \A c \in ToSet(Chain(d, x)) : d.cont[c].slots # <<>>
    /\ \A x, y \in D : x # y => ToSet(DirChain(d, x)) \cap ToSet(DirChain(d, y)) = {}
    /\ \A x \in D : \A u, v \in CellsOf(d, x) :
            At(d, x, u).k = "00" /\ Before(u, v) => At(d, x, v).k = "00"

\* The entry e names a directory of D, or a file none of whose clusters is theirs.
EntrySound(d, D, e) ==
    IF e.dir THEN e.first \in D \ {0} /\ e.size = 0
    ELSE Whole(d, e) /\ \A y \in D : ToSet(Chain(d, e.first)) \cap ToSet(DirChain(d, y)) = {}
Apart(d, e, f) ==
    /\ e.dir /\ f.dir => e.first # f.first
    /\ ~e.dir /\ ~f.dir => ToSet(Chain(d, e.first)) \cap ToSet(Chain(d, f.first)) = {}
AsGiven == \A n \in Names : Shown[n] = n

\* A sound image: what its entries name is theirs alone, and names that are
\* listed as they are given are listed once.
Tree(d, D) ==
    /\ Skeleton(d, D)
    /\ \A x \in D : \A u \in ListedIn(d, x) : EntrySound(d, D, At(d, x, u))
    /\ \A x, y \in D : \A u \in ListedIn(d, x), v \in ListedIn(d, y) : <<x, u>> # <<y, v>> =>
          /\ Apart(d, At(d, x, u), At(d, y, v))
          /\ x = y /\ AsGiven => At(d, x, u).name # At(d, y, v).name

ASSUME ImagesAssumption == \A d \in Images : Tree(d, Dirs(d))

-----------------------------------------------------------------------------
(* One write to the image.  open names the window a fault before this write *)
(* leaves: what the earlier writes of the call have done is not sound       *)
(* without it.                                                              *)
Write(w, at, as, open) == [w |-> w, at |-> at, as |-> as, open |-> open]
\* fat_set
fat_set(c, v) == Write("fat", c, v, FALSE)
PutData(c, v) == Write("data", c, v, FALSE)
PutSlot(p, s) == Write("slot", p, s, FALSE)
Exposed(w) == Write(w.w, w.at, w.as, TRUE)

Apply(d, w) ==
    CASE w.w = "fat" -> [d EXCEPT !.fat[w.at] = w.as]
      [] w.w = "data" -> [d EXCEPT !.cont[w.at] = w.as]
      [] w.w = "slot" /\ w.at[1] = 0 -> [d EXCEPT !.root[w.at[2]] = w.as]
      [] OTHER -> [d EXCEPT !.cont[w.at[1]].slots[w.at[2]] = w.as]

\* What a call does: its writes, and its result when they all succeed.  A call
\* refused on the way keeps the writes it made.
Call(ws, rc) == [ws |-> ws, rc |-> rc]
Refuse(rc) == Call(<<>>, rc)

\* find_dir_slot: the first free slot, or a new cluster at the end of the chain
Usable(d, dir) ==
    LET ch == DirChain(d, dir)
    IN  {u \in Cells(ch, dir) : SlotAt(d, Place(ch, u)).k \in {"00", "E5"}}
\* Mutant: the new cluster keeps what it held.
Extension_MutantDirty(d, dir, nc) ==
    <<fat_set(Last(Chain(d, dir)), nc), Exposed(fat_set(nc, Eoc))>>
Extension(d, dir, nc) ==
    <<PutData(nc, Blank), fat_set(Last(Chain(d, dir)), nc), Exposed(fat_set(nc, Eoc))>>
NoRoom(rc) == [ws |-> <<>>, rc |-> rc, at |-> <<0, 0>>]
find_dir_slot(d, dir) ==
    CASE Usable(d, dir) # {} ->
            [ws |-> <<>>, rc |-> 0, at |-> Place(DirChain(d, dir), First(Usable(d, dir)))]
      [] Usable(d, dir) = {} /\ dir = 0 -> NoRoom(5)
      [] Usable(d, dir) = {} /\ dir # 0 /\ Free(d) = <<>> -> NoRoom(4)
      [] OTHER -> [ws |-> Extension(d, dir, Head(Free(d))), rc |-> 0, at |-> <<Head(Free(d)), 1>>]

\* what is free when the slot s has been found: an extension takes the first
FreeAfter(d, s) == IF s.ws = <<>> THEN Free(d) ELSE Tail(Free(d))

\* h68k_inject_stream_at: slot, count of free clusters, chain and data, entry.
\* Each cluster is written before the next one is linked to it.
NextOf(cs, j) == IF j < Len(cs) THEN cs[j + 1] ELSE Eoc
Pieces(cs, id) ==
    [i \in 1..(2 * Len(cs)) |-> LET j == (i + 1) \div 2 IN
        IF i = 2 * j THEN fat_set(cs[j], NextOf(cs, j)) ELSE PutData(cs[j], Piece(id, j))]
\* Mutant: the entry is written as soon as its slot is known.
Filled_MutantEntryFirst(cs, at, e, id) == <<PutSlot(at, e)>> \o Pieces(cs, id)
Filled(cs, at, e, id) == Pieces(cs, id) \o <<PutSlot(at, e)>>
h68k_inject_stream_at(d, dir, n, z, id) ==
    LET s == find_dir_slot(d, dir)
        free == FreeAfter(d, s)
        cs == SubSeq(free, 1, z)
    IN  CASE s.rc # 0 -> Refuse(s.rc)
          [] s.rc = 0 /\ Len(free) < z -> Call(s.ws, 4)
          [] OTHER -> Call(s.ws \o Filled(cs, s.at, Slot("ent", Shown[n], FALSE, IF z = 0 THEN 0 ELSE cs[1], z), id), 0)

\* h68k_delete: the entry goes first, then the chain from its head
\* Mutant: only the first cluster of the chain is released.
Released_MutantHead(d, c) == IF InChain(c) THEN <<fat_set(c, 0)>> ELSE <<>>
Released(d, c) == [i \in DOMAIN Chain(d, c) |-> fat_set(Chain(d, c)[i], 0)]
h68k_delete(d, dir, n) ==
    IF Named(d, dir, n) = {} THEN Refuse(1)
    ELSE LET p == find_entry(d, dir, n)
             e == SlotAt(d, p)
         IN  IF e.dir /\ ~dir_is_empty(d, e.first) THEN Refuse(6)
             ELSE Call(<<PutSlot(p, Deleted)>> \o Released(d, e.first), 0)

\* h68k_rename
h68k_rename(d, dir, n, to) ==
    CASE n # to /\ Named(d, dir, to) # {} -> Refuse(5)
      [] (n = to \/ Named(d, dir, to) = {}) /\ Named(d, dir, n) = {} -> Refuse(1)
      [] OTHER -> LET p == find_entry(d, dir, n)
                  IN  Call(<<PutSlot(p, [SlotAt(d, p) EXCEPT !.name = Shown[to]])>>, 0)

\* h68k_move: the entry is copied, then the old one freed
\* Mutant: the destination is not searched for the name.
MoveClash_MutantNone(d, n, to) == FALSE
MoveClash(d, n, to) == Named(d, to, n) # {}
h68k_move(d, from, n, to) ==
    CASE from = to -> Refuse(0)
      [] from # to /\ MoveClash(d, n, to) -> Refuse(5)
      [] from # to /\ ~MoveClash(d, n, to) /\ Named(d, from, n) = {} -> Refuse(1)
      [] OTHER ->
            LET p == find_entry(d, from, n)
                s == find_dir_slot(d, to)
            IN  IF SlotAt(d, p).dir THEN Refuse(2)
                ELSE IF s.rc # 0 THEN Refuse(s.rc)
                ELSE Call(s.ws \o <<PutSlot(s.at, SlotAt(d, p)), Exposed(PutSlot(p, Deleted))>>, 0)

\* h68k_mkdir: slot, cluster, "." and "..", then the entry
DotEntries(c, dir, at) == <<PutSlot(<<c, 1>>, Dot(c)), PutSlot(<<c, 2>>, Dot(dir))>>
h68k_mkdir(d, dir, n) ==
    LET s == find_dir_slot(d, dir)
        free == FreeAfter(d, s)
        c == Head(free)
    IN  CASE Named(d, dir, n) # {} -> Refuse(5)
          [] Named(d, dir, n) = {} /\ s.rc # 0 -> Refuse(s.rc)
          [] Named(d, dir, n) = {} /\ s.rc = 0 /\ free = <<>> -> Call(s.ws, 4)
          [] OTHER -> Call(s.ws \o <<fat_set(c, Eoc), PutData(c, Blank)>> \o DotEntries(c, dir, s.at)
                          \o <<PutSlot(s.at, Slot("ent", Shown[n], TRUE, c, 0))>>, 0)

-----------------------------------------------------------------------------
(* The requests of imgfs.cpp. *)
NoNext == [dir |-> 0, name |-> NoName, size |-> 0]
NoGet == [on |-> FALSE, at |-> 0, left |-> 0, sent |-> <<>>, want |-> <<>>]

\* open_rw lets a request in when no download holds the image open.
\* Mutant: the download is not looked at.
open_rw_MutantShared == todo = <<>> /\ next = NoNext
open_rw == todo = <<>> /\ next = NoNext /\ ~get.on

\* Once a window has been hit the image is damaged and is not followed further.
Begin(c, then, targets) ==
    /\ open_rw /\ ~scar /\ reqs < MaxReqs /\ reqs' = reqs + 1
    /\ todo' = c.ws /\ next' = then /\ about' = targets
    /\ UNCHANGED <<disk, get, faults>>

imgfs_inject(dir, n, z, ow) ==
    \/ /\ Named(Disk, dir, n) = {}
       /\ Begin(h68k_inject_stream_at(Disk, dir, n, z, reqs + 1), NoNext, {<<dir, Shown[n]>>})
       /\ UNCHANGED scar
    \/ /\ Named(Disk, dir, n) # {} /\ ow
       /\ Begin(h68k_delete(Disk, dir, n), [dir |-> dir, name |-> n, size |-> z],
                {<<dir, n>>, <<dir, Shown[n]>>})
       \* the result of the delete is not looked at
       /\ scar' = (h68k_delete(Disk, dir, n).rc = 6)

\* ... and the injection follows, from the disk as the delete has left it
InjectNext ==
    /\ todo = <<>> /\ next # NoNext
    /\ todo' = h68k_inject_stream_at(Disk, next.dir, next.name, next.size, reqs).ws
    /\ next' = NoNext
    /\ UNCHANGED <<disk, about, get, reqs, faults, scar>>

imgfs_rm(dir, n) ==
    Begin(h68k_delete(Disk, dir, n), NoNext, {<<dir, n>>}) /\ UNCHANGED scar
imgfs_mkdir(dir, n) ==
    Begin(h68k_mkdir(Disk, dir, n), NoNext, {<<dir, Shown[n]>>}) /\ UNCHANGED scar
imgfs_rename(dir, n, to) ==
    Begin(h68k_rename(Disk, dir, n, to), NoNext, {<<dir, n>>, <<dir, Shown[to]>>}) /\ UNCHANGED scar
imgfs_move(from, n, to) ==
    Begin(h68k_move(Disk, from, n, to), NoNext, {<<from, n>>, <<to, n>>}) /\ UNCHANGED scar

\* One write of the call in progress reaches the card.
SdWrite ==
    /\ todo # <<>>
    /\ LET d == Apply(Disk, Head(todo)) IN fat' = d.fat /\ root' = d.root /\ cont' = d.cont
    /\ todo' = Tail(todo)
    /\ UNCHANGED <<next, about, get, reqs, faults, scar>>

\* The card refuses one: the call returns, an overwrite still injects.
SdRefused ==
    /\ todo # <<>> /\ faults < MaxFaults /\ faults' = faults + 1
    /\ todo' = <<>>
    /\ scar' = (scar \/ Head(todo).open \/ (next # NoNext /\ Head(todo).w = "slot"))
    /\ UNCHANGED <<disk, next, about, get, reqs>>

PowerLoss ==
    /\ todo # <<>> \/ next # NoNext
    /\ faults < MaxFaults /\ faults' = faults + 1
    /\ todo' = <<>> /\ next' = NoNext /\ get' = NoGet
    /\ scar' = (scar \/ (todo # <<>> /\ Head(todo).open))
    /\ UNCHANGED <<disk, about, reqs>>

\* imgfs_get_open
imgfs_get_open(dir, n) ==
    /\ open_rw /\ ~scar /\ Named(Disk, dir, n) # {}
    /\ LET e == SlotAt(Disk, find_entry(Disk, dir, n)) IN
          get' = [on |-> TRUE, at |-> e.first, left |-> e.size, sent |-> <<>>,
                  want |-> LET ch == Chain(Disk, e.first) IN [j \in 1..e.size |-> cont[ch[j]].piece]]
    /\ UNCHANGED <<disk, todo, next, about, reqs, faults, scar>>

\* imgfs_get_read and h68k_file_read: the chain is followed piece by piece, and
\* the sender yields after each; a chain that ends early ends the download
imgfs_get_read ==
    /\ get.on /\ get.left > 0
    /\ LET c == IF get.sent = <<>> THEN get.at ELSE fat[get.at] IN
          get' = IF InChain(c)
                 THEN [get EXCEPT !.at = c, !.left = @ - 1, !.sent = Append(@, cont[c].piece)]
                 ELSE NoGet
    /\ UNCHANGED <<disk, todo, next, about, reqs, faults, scar>>

\* imgfs_get_close: at the end, or when the client is gone
imgfs_get_close ==
    /\ get.on /\ get' = NoGet
    /\ UNCHANGED <<disk, todo, next, about, reqs, faults, scar>>

\* A guest that has the image mounted rewrites a file in place.
Rewritten(d, cs, id) ==
    [c \in Clusters |-> IF c \in cs THEN [d.cont[c] EXCEPT !.piece = <<id, d.cont[c].piece[2]>>] ELSE d.cont[c]]
GuestRewrites(dir, n) ==
    /\ todo = <<>> /\ next = NoNext /\ (get.on => GuestDuringGet)
    /\ reqs < MaxReqs /\ reqs' = reqs + 1 /\ Named(Disk, dir, n) # {}
    /\ LET e == SlotAt(Disk, find_entry(Disk, dir, n))
       IN  ~e.dir /\ cont' = Rewritten(Disk, ToSet(Chain(Disk, e.first)), reqs')
    /\ about' = {<<dir, n>>} /\ UNCHANGED <<fat, root, todo, next, get, faults, scar>>

-----------------------------------------------------------------------------
Init ==
    /\ \E d \in Images : fat = d.fat /\ root = d.root /\ cont = d.cont
    /\ todo = <<>> /\ next = NoNext /\ about = {} /\ get = NoGet
    /\ reqs = 0 /\ faults = 0 /\ scar = FALSE

Request ==
    \E dir \in Dirs(Disk), n \in Names :
        \/ \E z \in 0..MaxSize, ow \in BOOLEAN : imgfs_inject(dir, n, z, ow)
        \/ imgfs_rm(dir, n)
        \/ imgfs_mkdir(dir, n)
        \/ \E to \in Names : imgfs_rename(dir, n, to)
        \/ \E to \in Dirs(Disk) : imgfs_move(dir, n, to)
        \/ imgfs_get_open(dir, n)
        \/ GuestRewrites(dir, n)

Next == \/ ~scar /\ Request
        \/ InjectNext \/ SdWrite \/ SdRefused \/ PowerLoss
        \/ imgfs_get_read \/ imgfs_get_close

Spec == Init /\ [][Next]_vars

-----------------------------------------------------------------------------
(* What the image must be. *)
\* The next write closes a window, or a fault has left one open.
Exposing == scar \/ (todo # <<>> /\ Head(todo).open)

Live(d) == UNION {Entries(d, x) : x \in Dirs(d)}
Owned(d, p) == ToSet(Chain(d, SlotAt(d, p).first))
Contents(d, p) == LET ch == Chain(d, SlotAt(d, p).first)
                  IN  [j \in DOMAIN ch |-> d.cont[ch[j]].piece]

\* The state is well-formed: FAT entries are clusters, free or the end, slots
\* and pieces have their shape, faults and requests stay within their bounds.
TypeOK ==
    /\ fat \in [Clusters -> Clusters \cup {0, Eoc}]
    /\ DOMAIN root = 1..RootSlots /\ DOMAIN cont = Clusters
    /\ \A c \in Clusters : cont[c].slots = <<>> \/ Len(cont[c].slots) = SubSlots
    /\ \A i \in 1..RootSlots : root[i].k \in {"00", "E5", "ent"}
    /\ get.left <= MaxSize /\ faults <= MaxFaults /\ reqs <= MaxReqs

\* Every file listed has the clusters its size asks for, and they hold the
\* pieces of one injection in order: whichever write of whichever request was
\* the last to reach the card, no listed file is a mixture, a stub or somebody
\* else's data (human68k.c writes the directory entry last and frees it first).
FilesWhole ==
    ~Exposing => \A p \in Live(Disk) : ~SlotAt(Disk, p).dir =>
        LET c == Contents(Disk, p) IN
            /\ Len(c) = SlotAt(Disk, p).size
            /\ \A j \in DOMAIN c : c[j] = <<c[1][1], j>>

\* No cluster belongs to two entries, every chain ends in the end mark, and the
\* clusters of a directory hold slots.
OwnedOnce ==
    ~Exposing => LET live == Live(Disk) IN \A p \in live :
        LET e == SlotAt(Disk, p)
            ch == Chain(Disk, e.first)
        IN  /\ ch # <<>> => fat[Last(ch)] = Eoc
            /\ e.dir => ch # <<>> /\ \A c \in ToSet(ch) : cont[c].slots # <<>>
            /\ \A q \in live \ {p} : Owned(Disk, q) \cap ToSet(ch) = {}

\* A directory lists no name twice: human68k.c answers -5 (inject: -6) when the
\* name exists.
UniqueNames ==
    ~Exposing => \A dir \in Dirs(Disk) : \A n \in Names : Cardinality(Named(Disk, dir, n)) <= 1

\* The image is a well-formed tree: slots, FAT and clusters are of their types,
\* no two entries share a cluster and no directory lists a name twice - after
\* every single write, whichever the card refuses or the power cuts off.
TreeSound == TypeOK /\ OwnedOnce /\ UniqueNames

\* Until something fails, what is allocated between two requests belongs to an
\* entry: delete, overwrite and a refused request give everything back.
NoLeak ==
    faults = 0 /\ ~scar /\ todo = <<>> /\ next = NoNext =>
        LET owned == UNION {Owned(Disk, p) : p \in Live(Disk)}
        IN  \A c \in Clusters : fat[c] # 0 => c \in owned

\* What is sent of a file is the beginning of the file that was opened, although
\* the sender yields between the pieces and other requests arrive.
GetWhole == get.on => IsPrefix(get.sent, get.want)

\* What the tree shows of the names a request is not about.
View(d, out) ==
    UNION {{[dir |-> x, name |-> SlotAt(d, p).name, sub |-> SlotAt(d, p).dir,
             holds |-> IF SlotAt(d, p).dir THEN <<>> ELSE Contents(d, p)] :
                p \in {q \in Entries(d, x) : <<x, SlotAt(d, q).name>> \notin out}} : x \in Dirs(d)}

\* No write, refusal or power failure of a request changes a file or directory
\* the request does not name: not its entry, not its contents.
Bystanders == [][~scar' /\ disk' # disk => View(Disk, about') = View(Disk', about')]_vars
=============================================================================
