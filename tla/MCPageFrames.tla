----------------------------- MODULE MCPageFrames -----------------------------
(***************************************************************************)
(* PageFrames on 12 frames of 4 bytes, counters of 3 bits and a kernel that *)
(* ends in frame 2.  The memory maps hold up to two regions; bases and      *)
(* lengths sit below, across and above the kernel's end, and beyond what    *)
(* the counters and the map can express.                                    *)
(***************************************************************************)
EXTENDS PageFrames

Region(a, b, l) == [available |-> a, addr |-> b, len |-> l]

MCRegions ==
  {Region(TRUE, 0, 20), Region(FALSE, 1, 3), Region(FALSE, 4, 5), Region(FALSE, 0, 28),
   Region(FALSE, 8, 16), Region(FALSE, 16, 8), Region(FALSE, 36, 4)}

(* Regions whose bound the 16-bit counter reaches.                          *)
FittingMaps == {<<>>} \cup {<<r>> : r \in MCRegions} \cup (MCRegions \X MCRegions)

(* A long unavailable region, as a firmware reports for its PCI window.     *)
AllMaps == FittingMaps \cup
  {<<r, Region(FALSE, 32, 40)>> : r \in MCRegions}
=============================================================================
