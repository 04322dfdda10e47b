-------------------------------- MODULE MCAhci --------------------------------
(***************************************************************************)
(* Ahci with three tables of four entries and two buses of two devices: one *)
(* bus has a controller or nothing before a disk of another class, the      *)
(* other has up to two controllers, or its only one at function 1; a port   *)
(* in and one beyond the first page of registers; frames in the first table *)
(* and in the one that is not the identity, and one that no page maps.  A   *)
(* pointer never set may lead to NULL, to the program's one frame, to each  *)
(* table, behind them, or across two pages.                                 *)
(* kalloc's page has 64 bytes, of which the header takes 9, and the memory  *)
(* it reads may show all bits set, or all but four: room for a pointer that *)
(* ends in the next page, or lies there.                                    *)
(***************************************************************************)
EXTENDS Ahci

AllPlaces == {0, 1} \X {0, 1} \X {0, 1}
Instead == [p \in AllPlaces |-> CASE p = <<0, 1, 0>> -> "storage"
                                  [] p = <<1, 1, 0>> -> "other"
                                  [] OTHER -> "none"]
Controllers == SUBSET {<<0, 0, 0>>, <<1, 0, 0>>, <<1, 1, 0>>} \cup {{<<1, 1, 1>>}}
Maps == {[p \in AllPlaces |-> IF p \in C THEN "ahci" ELSE Instead[p]] : C \in Controllers}
Registers == [p \in AllPlaces |-> 20 + 4 * p[1] + 2 * p[2] + p[3]]
Ports == SUBSET {0, 2}
Frames == {2, 9, 12}
Unset == {{0}, {1}, {3}, {3, 4}, {9}, {12}}
Bitmaps == {0 .. 63, (0 .. 63) \ (51 .. 54), (0 .. 63) \ (59 .. 62)}
=============================================================================
