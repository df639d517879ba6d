------------------------------ MODULE MCImages ------------------------------
(***************************************************************************)
(* The instance of Images that TLC checks.                                 *)
(***************************************************************************)
EXTENDS Images, TLC

CONSTANTS n1, n2

Names == Permutations(Name)

\* Around the smallest volume and around sizes of 256 MB to 900 GB at which a
\* FAT comes out one sector too small.
MCSizes == (525300..526500) \cup (81749600..81749700) \cup (379057200..379057300)
           \cup (1844784900..1844785000)
=============================================================================
