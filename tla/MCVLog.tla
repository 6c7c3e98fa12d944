-------------------------------- MODULE MCVLog --------------------------------
(* VLog for TLC: one log that rotates by size, one that does by day, too. *)
EXTENDS VLog

BySize == [size |-> 1, day |-> 0]
ByBoth == [size |-> 2, day |-> 2]
MCSettings == {BySize, ByBoth}
==============================================================================
