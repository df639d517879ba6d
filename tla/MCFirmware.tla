----------------------------- MODULE MCFirmware -----------------------------
(* Firmware on a card that may meet three packages: the release in use, a new *)
(* kernel with a new bitstream, and the new kernel alone.                     *)
EXTENDS Firmware
CONSTANTS k0, k1, b0, b1

MCKernels == {k0, k1}
MCBitstreams == {b0, b1}
MCInstalled == {[k |-> k0, b |-> b0]}
MCLossy == {b1}
MCPackages == {[k |-> k0, b |-> b0], [k |-> k1, b |-> b1], [k |-> k1, b |-> None]}
=============================================================================
