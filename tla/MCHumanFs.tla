----------------------------- MODULE MCHumanFs ------------------------------
(***************************************************************************)
(* HumanFs with two names, listed as they are given, and two images: an    *)
(* empty one whose clusters still hold the slots of a deleted directory,   *)
(* and one with a full subdirectory that holds a file.                     *)
(***************************************************************************)
EXTENDS HumanFs

CONSTANTS a, b
MCNames == {a, b}
MCShown == [n \in MCNames |-> n]
MCLast == 5

\* A cluster of an old directory, full of entries.
Dirt == [slots |-> <<Dot(2), Dot(0), Slot("ent", a, FALSE, 0, 0)>>, piece |-> <<0, 0>>]
Old == [c \in 2..MCLast |-> Dirt]
Fresh == [fat |-> [c \in 2..MCLast |-> 0], root |-> <<Unused, Unused>>, cont |-> Old]
Used == [fat |-> [c \in 2..MCLast |-> IF c < 4 THEN Eoc ELSE 0],
         root |-> <<Slot("ent", a, TRUE, 2, 0), Unused>>,
         cont |-> [Old EXCEPT ![2].slots = <<Dot(2), Dot(0), Slot("ent", a, FALSE, 3, 1)>>,
                              ![3] = Piece(100, 1)]]
MCImages == {Fresh, Used}
=============================================================================
