----------------------------- MODULE MCInterrupts -----------------------------
(* Interrupts with the timer, the keyboard and the disk on the slave.       *)
EXTENDS Interrupts

Disk == Request("slave", 6)
MCOtherDevices == {Disk}
=============================================================================
