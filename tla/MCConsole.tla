------------------------------- MODULE MCConsole ------------------------------
(***************************************************************************)
(* Console on a screen of 2 rows of 3 cells with 2 more rows of video       *)
(* memory.  The two texts end a line, as kernel_main's do; the names keep   *)
(* what strcmp looks at: "lspci" is compared with its terminating NUL, the  *)
(* other two are not.                                                       *)
(***************************************************************************)
EXTENDS Console

Line == <<"x", Newline>>
Wider == <<"x", "x", Newline>>
None == <<>>
Help == <<PromptChar, "h">>
Clear == <<PromptChar, "c">>
Lspci == <<PromptChar, "l", NUL>>
Invalid == <<"?">>
Listings == {<<>>, Line \o Line}
AllKeys == {"h", "c", "l", Tab, Backspace, Newline}

(* Long sessions at the command line: interrupts wait for the boot thread   *)
(* and stop where the row would leave video memory.                         *)
TypingSpec ==
  Init /\ [][Next /\ (interrupts' # interrupts =>
               BootDone /\ (terminal_row + 1) * VGA_WIDTH <= VgaCells)]_vars
=============================================================================
