----------------------------- MODULE MCDevices -----------------------------
(***************************************************************************)
(* The devices for TLC: two that may claim the same symlink, one of them    *)
(* with a symlink of its own and a number that udev may give to another     *)
(* piece of hardware.                                                       *)
(***************************************************************************)
EXTENDS Devices

CONSTANTS d1, d2, n1, n2, l1, l2, gpu, cam

E(node, lks, classes) == [node |-> node, links |-> lks, classes |-> classes]

MCEntries == [d \in Device |->
  IF d = d1 THEN {E(n1, {l1, l2}, {gpu}), E(n1, {}, {cam})}
            ELSE {E(n2, {l1}, {cam})}]
=============================================================================
