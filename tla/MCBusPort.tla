------------------------------ MODULE MCBusPort ------------------------------
(* Instances of BusPort: two blocks of four words, a FIFO of two words.      *)
EXTENDS BusPort

Call(o, a, s) == [op |-> o, addr |-> a, size |-> s]
Streamed == {Call("read", 0, 2), Call("read", 2, 2), Call("read", 4, 2), Call("read", 6, 2), Call("read", 8, 2)}
\* streams that run to the end of a block, and what interrupts them
MenuStream == [calls |-> Streamed \cup {Call("write", 4, 2), Call("plain", 5, 1)},
               shared |-> {4}, writes |-> 1, foreign |-> 1, sets |-> 0]
\* the modes of the stream and of the line, a reload of the FPGA
MenuModes == [calls |-> Streamed \cup {Call("write", 4, 2), Call("cfg", 0, 2)},
              shared |-> {}, writes |-> 1, foreign |-> 0, sets |-> 1]
\* runs of writes up and down over the end of a block, in words and bytes
MenuRuns == [calls |-> {Call("write", 6, 2), Call("write", 8, 2), Call("sync", 9, 1),
                        Call("write", 8, 1), Call("plain", 8, 2)},
             shared |-> {}, writes |-> 3, foreign |-> 0, sets |-> 1]
\* writes nobody answers, acknowledges, the configuration port
MenuFault == [calls |-> {Call("write", 12, 2), Call("write", 14, 2), Call("iack", 0, 1),
                         Call("plain", 12, 2), Call("sync", 12, 2), Call("cfg", 0, 2),
                         Call("read", 8, 2), Call("read", 10, 2), Call("read", 12, 2)},
              shared |-> {}, writes |-> 3, foreign |-> 0, sets |-> 0]
MCMenus == {MenuStream, MenuModes, MenuRuns, MenuFault}
MCBad == {12}
=============================================================================
