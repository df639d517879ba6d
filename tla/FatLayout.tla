----------------------------- MODULE FatLayout ------------------------------
(***************************************************************************)
(* The geometry that fat32_format (src/pi/baremetal/sdimg.cpp) gives to a  *)
(* volume of n sectors: cluster size, sectors of one FAT, clusters.        *)
(***************************************************************************)
EXTENDS Integers

CONSTANT VolumeSizes        \* sizes of partitions, in sectors of 512 bytes

\* sdimg_expand wants 256 MB after the boot partition, and counts sectors in
\* 32 bits (2^30 is the power of two that TLC can still write).
ASSUME SizesAssumption ==
    \A n \in VolumeSizes : n \in Nat /\ n >= 524288 /\ n \div 1073741824 < 4

Reserved == 32
Enough == 65525 + 16        \* clusters: FAT32's minimum and a margin

Clusters(n, csize, fatsz) == (n - Reserved - 2 * fatsz) \div csize
\* Mutant: the two reserved entries are forgotten.
FatFor_MutantReserved(clusters) == (clusters * 4 + 511) \div 512

FatFor(clusters) == ((clusters + 2) * 4 + 511) \div 512

\* Four rounds from an empty FAT.
FatSectors(n, csize) ==
    LET round[i \in 0..4] == IF i = 0 THEN 0 ELSE FatFor(Clusters(n, csize, round[i - 1]))
    IN  round[4]

\* The largest cluster that gives enough of them, 4 KB if none does.
ClusterSize(n) ==
    LET fits == {c \in {128, 64, 32, 16, 8} : Clusters(n, c, FatSectors(n, c)) >= Enough}
    IN  IF fits = {} THEN 8 ELSE CHOOSE c \in fits : \A d \in fits : d <= c

Layout(n) ==
    LET c == ClusterSize(n)
        f == FatSectors(n, c)
    IN  [csize |-> c, fatsz |-> f, clusters |-> Clusters(n, c, f)]

Refused(l) == l.clusters < Enough

\* The entries the FAT is short of (negative: spare).
Missing(l) == l.clusters + 2 - 128 * l.fatsz

\* f_mount refuses a volume whose FAT has not an entry for every cluster.
Outcome(l) == IF Missing(l) > 0 THEN "bad" ELSE "mounts"
Outcomes == {Outcome(l) : l \in {m \in {Layout(n) : n \in VolumeSizes} : ~Refused(m)}}

\* Reserved sectors, FATs and clusters fill the partition and stay inside it,
\* FAT and clusters do not differ by a whole sector of entries, and no more
\* than one cluster is without its entry.
LayoutFits == \A n \in VolumeSizes :
    LET l == Layout(n) IN ~Refused(l) =>
        /\ Reserved + 2 * l.fatsz + l.clusters * l.csize <= n
        /\ n - (Reserved + 2 * l.fatsz + l.clusters * l.csize) < l.csize
        /\ Missing(l) \in -128..1
=============================================================================
