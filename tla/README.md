# A verification project for OranGOS

OranGOS is a small 32-bit x86 kernel. It boots by Multiboot, installs an IDT and
turns interrupts on, remaps the two 8259 interrupt controllers, takes page frames
out of the boot loader's memory map, starts the PS/2 keyboard, probes PCI and AHCI,
and ends in an endless loop under a command line that runs entirely inside the
keyboard interrupt. It has one processor, no scheduler and no second thread. All
its concurrency is between **the boot thread** (`kernel_main`, interrupts on from
`idt_init`) and **the interrupt handlers**, which run to completion because every
gate is an interrupt gate, together with the hardware both of them talk to.

Paths below are relative to `src/src/`. A reference such as `int.c:30` is a file
and a line.

## 1. Inventory

| component | state | operations | interacts with |
|---|---|---|---|
| page frame allocator (`mem/pageframe`) | `global_page_map`, one byte per frame | `setup_pageframe_allocator`, `get_free_phy_page`, `reserve_addr` | memory map of the boot loader; called by heap, page tables, AHCI |
| heap (`mem/alloc`) | `cwpage`, page headers with a bitmap | `kalloc`, `kfree`, `kappend_page` | page frames, page tables; gives AHCI the room for a configuration |
| formatted output (`util/printf.c`) | locals of one call | `_vsnprintf` behind `printf`, `vprintf`, `sprintf`, `snprintf`, `vsnprintf`, `fctprintf` | every report of the kernel; gives the console its text |
| page tables (`mem/pagetable`, `mem/mmap`, `MMU`) | page directory and tables, TLB | `append_page`, `append_page_at_addr`, `map_page_at_addr` | page frames; AHCI's registers |
| interrupts (`cpu/interrupts`) | IDT, the stack of frames, interrupt flag | `idt_init`, the stubs, `interrupt_handler`, `exception_handler` | everything that is interrupted; PIC, PS/2, console |
| interrupt controllers (`cpu/pic`) | the 8259s' masks, vectors and requests | `PIC_remap`, `PIC_sendEOI` | boot thread remaps, handlers acknowledge |
| console, cursor, command line (`drivers/tui`) | `terminal_row`, `terminal_column`, `terminal_buffer`, `is_term_mode`, the CRTC's cursor | `terminal_putchar`, `clear_screen`, `flip_console_mode`, `update_cursor`, `read_line`, `run_command` | boot thread and every handler print |
| PS/2 driver (`drivers/PS2f`) | `is_caps`, `is_lshift`, `is_rshift`; the 8042's configuration | `init_ps2`, `handle_ps2` | boot thread and handler share port 0x60; gives the console its keys |
| PCI (`drivers/PCI`) | the address/data port pair | `pciConfigReadWord`, `lspci`, `get_pci_normal_device` | boot thread and, through `lspci`, the handler |
| AHCI (`drivers/AHCI`) | `ahci_bus`, `ahci_device`, `ahci_mem_base`; the controller's registers | `find_ahci`, `setup_ahci`, `probe_port` | PCI, page tables, heap |
| ACPI, IDE, PIT, GDT, vtty, system calls | none that changes, or nothing linked | printing, constants, stubs | – |
| `kernel_main` | its place | the boot sequence | all of the above |

Which behaviours are hard:

* **interrupts before the remap** (`idt.c:30` runs before `kernel.c:51`), and
  interrupts *between* the ten port writes of `PIC_remap`;
* **two contexts in one console**: `terminal_putchar` reads, changes and writes
  `terminal_column` and `terminal_row` without any exclusion, and the cursor's index
  and data ports are a pair;
* **re-entry by data**: a newline inside the command line runs a command whose output
  contains newlines; one flag, flipped and not set, stops the recursion;
* **two readers of port 0x60**: `init_ps2` and the keyboard handler, neither of which
  asks for the controller's status;
* **look-up, then reserve**: `get_free_phy_page` and `reserve_addr` are two calls, and
  address 0 doubles as NULL;
* **16-bit counters and mixed units** in the walk over the memory map;
* **page tables that are never flushed**: entries are filled with paging on and the TLB
  full of older translations, by a loop that tests another entry than it fills, while
  physical addresses are used as pointers;
* **pointers that are never set**: `prepare_page` makes a page's header behind one, and `kalloc`
  copies it through another: either may fault, or overwrite something; `kalloc` then searches whatever it finds behind it, with byte and bit counts mixed and an unsigned
  difference that makes too little room look the largest; it asks for a pointer's size
  where 64 bytes are written;
* **a formatter's boundaries**: flags that take each other's place, the sign's place in a
  zero-padded field, negative widths and precisions, digits that fill their buffer, the
  place of the NUL in a buffer that is full, state left by the directive before;
* **ignored failures**: `kernel_main` ignores `init_ps2`, `setup_ahci` goes on after a NULL from
  `kalloc` and writes to page 0, which is mapped.

What makes each component correct: a frame has one holder and is never the kernel's;
no frame of available memory is withheld while its counters fit; a handler ends exactly its own request, masks survive the remap, a vector names its
line, only real faults halt; the command line is on only when the boot thread has
finished printing and no command is running, a typed command is the command that
runs, `clear` recovers from everything; `init_ps2` reads its own answers and leaves a
working keyboard or none, the driver's shift state is the keyboard's; the kernel stays
mapped where it is, and what `probe_port` reads are the registers of the controller
`find_ahci` chose, whatever the TLB kept; a structure on the heap lies behind the page's
header if the header was read back, and never on the program; a directive prints what it says of its own argument.
The hazards, with their lines and the properties aimed at each, are the `hazards` list of
`PROJECT.json`.

## 2. Modules

| module | models | abstract / concrete |
|---|---|---|
| `FramePool` | what the frame allocator promises | abstract specification |
| `PageFrames` | `pageframe.c` and its callers in `alloc.c` | implements `FramePool` |
| `Interrupts` | `idt.c`, `exep.asm`, `int.c`, `exep.c`, `pic.c`, the boot sequence between them; the 8259s and the CPU's interrupt entry (external) | concrete |
| `Console` | `console.c`, `cursor.c`, `commands.c`, the printing part of `kernel.c` | concrete |
| `Ps2` | `ps2.c`; the 8042 and the keyboard (external) | concrete |
| `Heap` | the search of `kalloc` in its page, as a function of the bitmap it sees | pure definitions |
| `PageTables` | `pagetable.c`, `append_page` and `append_page_at_addr` of `pageframe.c`; address translation and the TLB (external) | concrete, no specification of its own |
| `Ahci` | `AHCI.c`, its use of `pci.c` and `alloc.c`; composes `PageTables` and `Heap` | concrete |
| `Printf` | `printf.c` without floating point, with a reference definition of what a directive means | concrete, and its meaning as an operator |
| `PageFramesProofs`, `InterruptsProofs`, `ConsoleProofs`, `Ps2Proofs`, `HeapProofs`, `AhciProofs`, `PrintfProofs` | – | theorems |
| `RecursionLemmas` | – | lemmas on functions defined by recursion, which the proofs of `Heap` and `Printf` rest on |
| `MCPageFrames`, `MCInterrupts`, `MCConsole`, `MCPs2`, `MCAhci`, `MCPrintf` | – | values of the constants |

A definition named `<X>Something` under a comment that begins "Mutant:" is a version
of the definition `X` below it with a plausible bug. No specification uses it; it shows
that the properties notice such a bug.

### PageFrames

`global_page_map` is a function from frames to BOOLEAN. `ReserveKernel` is the loop at
`pageframe.c:58` (one step: interrupts do not reach this data); `SkipRegion`,
`EnterRegion`, `ReserveRegionFrame`, `EndRegion` and `EndSetup` are the loop over the
memory map, one action for each turn of the inner loop, because this is where the
16-bit counter wraps. The bounds `FirstFrame` and `StopFrame` are the source's,
including the truncation of the first and the mixed units of the second. After set-up
a caller runs `GetFreePhyPage` and then `KallocReserve` or `KappendReserve`, with every
error path. `kappend_page` has no caller at this commit and no header declares it, but it is not
`static`: it is modelled as a second client. `held` is a history variable: who got what.

### Interrupts

Each chip has its request, service and mask registers, its vector base and the word it
expects next; devices raise and drop lines at any time, an edge is latched, a request
that vanishes under the CPU's acknowledge becomes the spurious interrupt 7. The CPU
may take an interrupt between any two instructions of the boot thread; the boot thread
is modelled port write by port write through `PIC_remap`. `HandleException`,
`HandleKeyboard`, `HandleOther`, `SendEoiSlave`, `SendEoiMaster` and `Iret` are
`interrupt_handler` and `isr_common`. `PIC_sendEOI` compares a *vector* with 8, so it
always addresses both chips, and the model does the same. A byte is the set of its one
bits.

Abstractions: a chip raises no request while it is being initialised (ICW1 to ICW4); the
timer does not tick again within its own handler (55 ms against microseconds); the race
that gives a spurious interrupt when a mask is written, and NMI, are left out;
`DriverFault` stands for a processor exception in the drivers set up after PS/2.

### Console

The boot thread runs `Script` (texts, `clear_screen`, texts, the prompt,
`flip_console_mode`) one memory or port access at a time: reading the column and the row,
each of the cursor's two index/data pairs, the cell, the column, the row, each cell that
`clear_screen` wipes. The column and the row are stored incremented, the screen's width and height
included, and set to 0 by a store of their own (`BootStoreColumn`, `BootWrapColumn`, `BootStoreRow`,
`BootWrapRow`): a handler in between finds a column behind the row, writes there and goes on past
the comparison with the width, until the second store. The handler runs one character at a time, which loses nothing: no one
can observe it in between. `isr` is what `terminal_putchar` still has to print on behalf of
the handler, so a tab, an echoed newline, `run_command` and the prompt after it are a
sequence of steps in the source's order; `cmd` says that `run_command` is printing.
`run_command` compares with `strcmp` at the lengths the code gives, on cells *read from
video memory* by `ReadLine`, exactly like the source.

Abstractions: colours are left out; the model starts after the banner (before the remap an
interrupt does not reach the console as a key, see `Interrupts`); a newline printed by
the boot thread is modelled with the mode off only, which `ModeDiscipline` justifies;
video memory ends after `VgaCells`: stores beyond it are lost, reads give any character;
16-bit indices wrap at `Wrap16`, which is the square of `CursorByte` because the cursor
has two 8-bit registers. Row and index wrap apart from each other, so several places of the
console can go on to the same one: `Before` is the set of all of them.

### Ps2

`init_ps2` is one action for each port access, `handle_ps2` one action (it reads the
port once). `Decode` is `__ret_ps2_key`; "letter" stands for all keys whose character
depends on the case, because they share one branch. The 8042 answers a command before the
next instruction unless its output buffer is full, port 0x60 keeps its last byte, a full
buffer interrupts if the configuration says so, for an answer as for a scan code, and a
pending "write configuration" survives the command that `get_status` sends in between, as
in QEMU, on which the Makefile runs the kernel. A slower controller only makes the self
test fail.

### PageTables, Heap and Ahci

`table` holds the tables of the directory slots that `paging_setup` makes present; an entry
is absent or names a frame. Addresses are page numbers, `create_virtual_address` is `Page`.
`append_page` is called by `kalloc` with three arguments and takes the second, an address,
for the flags: the entry it "fills" is still absent, and `append_page_at_addr`, which scans
for an absent entry too, gets the same one. `append_page_at_addr` tests the entry numbered
like the *slot*; the model does the same. The TLB is any set of translations that were
once in the tables; `TlbFill` and `TlbEvict` may happen between any two steps.

`SearchHeap` is the search of `kalloc`: `AfterBits` gives the state of the two loops after
each number of bits, from the first bit they do not skip. `Turn` is one turn of the inner loop,
`AfterSearch` the returns after it. The bitmap is a parameter, because `kalloc` copies the page's header through a
pointer it never sets: the header's copy if the memory behind it keeps what is written, and
anything else otherwise. The bits `kalloc` computes to mark the room are results nobody
keeps, so there is no heap state to carry from call to call.

`Ahci` follows the boot thread from `paging_setup` through `find_ahci` (one action per
device), `kalloc`, `prepare_page`, the search, `get_pci_normal_device`, `append_page_at_addr`
and `probe_port` (one action per port). `Reaches` says which frame an access reaches; an access
that reaches none is a page fault, in whose handler the kernel halts (see `Interrupts`).
`ahci_config` is the offset of the structure in `kalloc`'s page, `ConfigPages` the pages that
its 64 bytes touch. `seen` is a history variable: which frame each port's registers were read
from.

The pointers `prepare_page` and `kalloc` never set are choices of the model: each leads to one of
`UnsetPages`. A page that reaches no frame is a page fault (`StrayFaults`, and `stray` remembers
where); a page of `KernelFrames`, the program, its stack and its tables, is overwritten
(`StrayOverwrites`), and the behaviour ends there, at the place "lost", because nothing can be said
of what such a kernel does next; any other page is `Harmless`, keeps the copy or shows one of the
bitmaps in `Garbage`, and for the second pointer NULL makes `kalloc` return NULL. `setup_ahci` does
not stop then: the configuration goes through NULL to the first frame. `written` is a history
variable: the frames the configuration was written to.

Abstractions: a page of `UnsetPages` that is harmless holds nothing the model keeps. A PCI configuration word, an address write and a data read, is one step: the
handler uses the ports on the command line only, which is off (`ModeDiscipline`). A function of a
device is of one of four kinds: absent, another class, storage of another subclass, AHCI; `is_ahci`
looks at function 0 only, as the source does.

### Printf

A call is one behaviour: `Literal` gives a character, `Percent` starts a directive, and
flags, width, precision, length and specifier are a phase each, in the source's order, with
an action for each branch: absent, digits or star; one per family of specifiers. `flags`,
`width` and `precision` are the function's locals; they are assigned where the code assigns them, so
that a phase that forgot to would see the directive before. `sink` and `maxlen` are what the six
entry points choose; `out_char`, `out_buffer` and `_out_null` are the three sinks. `ntoa_long` and
`ntoa_format` stand for both pairs of the source's functions, which are the same code at two
widths; digits are a sequence with the last first, as in the source, cut at
`PRINTF_NTOA_BUFFER_SIZE`. The actions build a number as the source does;
`Meaning` says independently, from the directive's flags, numbers and argument, what its text
should be. `fields` is a history variable: where each directive's text lies.

What a call's format means is data of the call: `items` are its directives as the caller means
them, and `CallAssumption` says that the format is written that way (`Directive`: where the flags,
the width, the precision, the length and the specifier stand, and which arguments are the
directive's), with an argument for each use of one. That is what a caller of a C formatter
promises; `Regular` says which directives this formatter prints as the C library's do, and the
others are listed below (§4). Where the recursion of the code is over data, digits and characters,
the model has a recursive function (`DigitsOf`, `atoi`, `Shown`, and `Numeral` in the reference
definition).

Abstractions: a character is a member of `Characters` and a pointer to a string a number. The
types are known by how many values they have, constants that are even; the run gives them small
ones in the machine's order: the digit buffer (32) is exactly as long as an `int` has bits and
shorter than a `long long` has. `PointerDigits`, which becomes a width, is a value of an `unsigned
int`. The negation of the smallest `int` is taken to wrap, as compiled. Floating point, which no report of the
kernel uses, is left out, and so is a format that ends in a lone `%` (below, §4).

## 3. Runs

`tlc -config <cfg> <module>` in this directory.

| run | cfg | result | what it shows |
|---|---|---|---|
| `frames` | `MCPageFrames.cfg` | passes | four invariants, set-up's termination and the refinement of `FramePool`, on every small memory map; `AvailableNotWithheld` says that the loop's mixed units withhold too little, never a frame of available memory |
| `frames_setup` | `MCPageFrames_setup.cfg` | violated | set-up may never end (finding 2) |
| `frames_regions` | `MCPageFrames_regions.cfg` | violated | reserved memory is handed out (finding 3) |
| `interrupts` | `MCInterrupts.cfg` | passes | six invariants, one action property, two liveness properties, with interrupts at any instruction; boot completes unless an interrupt comes before the remap (finding 1) or a driver faults |
| `interrupts_exceptions` | `MCInterrupts_exceptions.cfg` | violated | a device interrupt reported as an exception (finding 1) |
| `console` | `MCConsole.cfg` | passes | boot thread and handlers interleaved in all ways, the window behind `console.c:127` included; handlers return and the boot thread arrives |
| `console_typing` | `MCConsole_typing.cfg` | passes | sessions of five keys, on and below the screen |
| `console_screen` | `MCConsole_screen.cfg` | violated | the row leaves the screen (finding 4) |
| `ps2` | `MCPs2.cfg` | passes | keys at any point of `init_ps2` |
| `ps2_keys` | `MCPs2_keys.cfg` | violated | one key leaves the keyboard off (finding 5) |
| `ahci` | `MCAhci.cfg` | passes | a controller at function 0 is found, its configuration placed on the heap and its registers read, through page tables that nothing flushes; a page fault has one of three causes |
| `printf` | `MCPrintf.cfg` | passes | 15825 calls, each format taken apart and compared with what it means |

**Bounds, and why they are enough.**
*frames*: 12 frames of 4 bytes, 3-bit counters, a kernel ending inside frame 2, so that
the counter is narrower than the map and wider than the kernel, as 2^16 is. The regions
lie below, at, across and above the kernel's end and beyond the counter; two of them in any
order cover what one leaves for the next (the inner counter keeps its value). The theorems
remove these bounds.
*interrupts*: a timer, the keyboard and a disk on the slave, any firmware masks. A third
line per chip adds no priority relation that two do not have. The theorems hold for any set
of devices.
*console*: a screen of 2 x 3 cells and two rows of memory below it; lines longer than a
row, at the last column and in the last row occur: the first text fills all but the last column of a
row, so that an echo makes it wrap. `MaxInterrupts` is 2 with the boot
thread running, enough for one echo inside each half of a torn update and for a command
meeting an echo; 5 keys after boot, enough for two commands with a tab or a row break
between them. `VgaCells` is 12 or 18 and the 16-bit wrap lies above it as in the machine
(32 KiB of video memory, 65536 cells).
*ahci*: three tables of four entries: the identity, the empty one and one that is shifted;
two buses of two devices of two functions, with the controllers of any set of places at function 0, or one
at function 1 only; a pointer never set leads to NULL, to the program's frame, into each table, across
two of them or behind all; frames in the first table,
at its end, in the shifted table and beyond all; a port in the mapped page and one beyond it,
as ports 0 to 29 and 30, 31 are. A third device or bus adds no order of search. `kalloc`'s page has
64 bytes, of which the header takes 9, so that, as in the machine (4096 and 513), the bits that are read
are one more than the bytes behind the header, and an empty page passes its test by that one bit; 4 bytes
are asked for and 8 are written (4 and 64); the garbage bitmaps leave room that ends in the next
page, room that lies there, or none.
*printf*: every combination of the five flags with each form of width and precision on
zero, a positive and a negative number; every length with values beyond its width; pairs of directives,
for what one leaves to the next; buffers from no byte to more than the text. Widths are 3, 4, 5 and 8
bits, a digit buffer of 5.
*ps2*: three key events (a shift down, a letter, the shift up; Caps Lock and a shift
and a letter), three configuration bytes firmware leaves, port tests that pass or fail.

**Deadlock** is not checked for `Console` and `Ps2`, whose inputs are bounded, nor for `Ahci` and
`Printf`, which end, nor for `Interrupts`, where `cli; hlt` is meant to stop the machine. `PageFrames` checks it.

**Fairness.** `PageFrames`: weak fairness of the set-up, straight-line code on the only
thread. `Interrupts`: weak fairness of the handler, which nothing interrupts; strong
fairness of the boot thread and of each acknowledge, because they are enabled again and
again but not continuously; the code justifies this by handlers of a few microseconds
against a timer of 18 Hz. `Console` and `Ps2`: weak fairness of the handler or the
controller, strong fairness of the boot thread, for the same reason. `Ahci` and
`Printf` state no liveness and no fairness. Where it matters, no fairness is
assumed of devices or of the user: they may stay silent.

The restriction in `TypingSpec` (`MCConsole`) lets interrupts come only after boot, and only
while the row is in video memory: it trades the interleavings for longer sessions.

**Mutants.** Each property of each passing run has a mutant of the code that violates it;
`PROJECT.json` names them.

## 4. Findings

1. `idt.c:30` enables interrupts before `PIC_remap`: a timer tick in between arrives at
   vector 8 and the kernel prints "Double fault" and halts.
2. `pageframe.c:67`: with a bound above 65535 the `uint16_t` loop never ends.
3. The same line mixes bytes and frames and truncates the start: memory that the boot
   loader reports as not available is handed out.
4. `console.c:87`: a newline never wraps the row.
5. `ps2.c:546`: a key pressed at the end of `init_ps2` is taken for the configuration byte;
   `init_ps2` still returns 0, and `kernel_main` reports success even when it does not.

Met and not claimed as findings, since nothing in the repository says otherwise:

* `strcmp` compares the NUL of "lspci" with a space or old text, so on a row that held text
  before the command is not recognised;
* both shift keys together fall to the last `else` of `is_uppercase`;
* the report of an unknown interrupt (`int.c:30`) ends in a newline, which on the command line
  runs whatever the row holds;
* `is_ahci` looks at function 0 only: a controller at another function, such as 00:1f.2, is reported
  as missing (`FindsLastBus` says exactly which are found);
* of several AHCI controllers `find_ahci` takes the first on the *last* bus, and ports 30 and 31
  have their registers beyond the page that `setup_ahci` maps;
* in `kalloc`, free bits add up over the used bits between them, room that is too small has the
  largest unsigned surplus, every call returns the same address, since the result of `set_bit` is
  dropped and the header's own bits are never marked, and `AHCI.c:55` asks for `sizeof` a pointer while
  `get_pci_normal_device` writes 64 bytes; `kfree` mixes bytes and bits;
* in `printf.c`, `#` overwrites digits of a number that fills its field, `-` drops the precision, a
  negative precision counts as 0 and not as absent, a sign or prefix is lost when the digits fill
  their buffer, `%llb` is cut at 32 digits, and a format that ends in a lone `%` is read beyond its NUL;
* `dbg_printf` passes its `va_list` as a variadic argument;
* an entry filled by `append_page` is not present, and `append_page_at_addr` called a second
  time would fill the same entry again without a flush; it is called once.

## 5. Proofs

`tlapm <module>` proves every obligation of `PageFramesProofs`, `InterruptsProofs`,
`ConsoleProofs`, `Ps2Proofs`, `HeapProofs`, `AhciProofs`, `PrintfProofs` and `RecursionLemmas`. A
module about a specification states an inductive invariant, `IInv` and what the later theorems add to
it, one lemma per action that it is kept, and the theorems that follow from it. Every safety invariant
and every action property that a passing run checks is a theorem here.

**PageFramesProofs**, for all values of `NFrames`, `PageSize`, `Wrap16`, `EndKernel` and
`MemoryMaps` under the module's assumptions (the counter is narrower than the map and wider than
the kernel, the page size is positive). `IInv` adds to `TypeOK`: the kernel's
frames stay reserved from the moment set-up leaves them (without it a grant could be one
of them); before set-up is over nothing is held; held frames are reserved; what the look-up
returned is still the first free frame or NULL; nothing free lies below a held frame;
`kalloc` asks only while `cwpage` is unset; and one frame above the counter's range is free
until then. From it: `TypeCorrect`, `KernelFramesSafe`, `GrantsAreFresh`,
`NullIsExhaustion`, `KallocFindsFrame`, `AvailableStaysFree`, `FirstFit`, `ReservationsLast`, and
`PageFramesImplementFramePool` (initial states map to initial states; every step is a
`Withdraw`, `Open`, `Grant` or stutters). `GrantsAreFresh`, `KallocFindsFrame`, `FirstFit` and
`ReservationsLast` are proved and not run. `AvailableStaysFree` adds where the inner loop stands:
its counter is never below the region's first frame (`WithheldInv`), and the mixed units keep its
bound within the region (`BoundInsideRegion`).

**InterruptsProofs**, for every set of other devices. `IInv` adds to `TypeOK`: what is in
service on each chip is exactly what the running frame still has to end
(`ServiceInv`), how far each chip has got in its initialisation as a function of the next
port write (`ProgressInv`), and where the keyboard's edge is (`KeyboardInv`). From it:
`TypeCorrect` (handlers do not nest), `NothingLeftInService`, `MasksRestored`,
`VectorsIdentifyLines`, `OnlyFaultsHalt`, `KeyboardNeverStuck`, `EoisRetireOwnRequest`.

**Ps2Proofs**, for every firmware configuration, test result and number of key events.
`OwnAnswers` is not inductive: it needs that no scan code can enter the output buffer
(`Exchange`), hence that the keyboard's port is stopped (`PortStopped`), hence that the byte
`newcb` writes back came from an answer in which it was stopped (`CopyStopped`), and that
nothing was asked before the buffer was emptied (`NothingAskedYet`). `Untouched` follows the
configuration from the port's start to the end as long as no key is touched. From them:
`TypeCorrect`, `AnswersAreOwn`, `FailuresLeavePortOff`, `UndisturbedInitEnables`, `FlagsFollowKeyboard`.

`FlagsFollowKeyboard` has an assumption, `BytesApart`: bit 3 of the configuration is zero, as the
8042 has it, and the results of the port tests are not the codes of a shift key; an answer the handler
reads could otherwise be taken for one. Its invariant, `FlagInv`, says where the truth about a shift key
is: in the key's last byte on the wire, else in the output buffer, else in the flag, unless `init_ps2`
has read that byte.

**ConsoleProofs**, for every screen, video memory, text, reply and command name, and any
number of interrupts. `ModeDiscipline` needs that a flip is only ever the boot thread's last operation
(`BootInv`, from the shape of `Script`); `PromptAfterCommand` that what a command has still
to print ends in a newline (`CommandInv`, from the texts' own ends, `ReplyShape`); `ClearLeavesOnlyLate` that
`move_cursor` writes back what it read (`PokeInv`); `CursorFollowsLine` that the cursor's two bytes, put
together again, are the last index written (`CursorInv`, `TwoBytes`) although rows wrap. `TypeOK` has the
column in the row except at the place "wrap", between `console.c:127` and 128, where a handler may take it
up to the counter's range: the boot thread never loads it there, and its next store is 0. From it:
`TypeCorrect`, `ModeDisciplined`, `ClearLeavesLate`, `CursorFollows`, `PromptFollowsCommand`,
`ClearRecovers`. `TypedNameRuns` needs more: `LineInv` follows the line from the prompt, cell by cell. Since
the prompt the handler is at rest, has the last key still to print, or prints a report, which will end the line; and
while no key so far moved the cursor back or to another line, the row holds the prompt and then the keys, and the
column stands behind them. So when Enter runs the line, `read_line` finds the name there, whatever
follows it. It assumes of the two names what the source's have (`NameAssumption`): they begin with the prompt's
character, are shorter than a row, contain no tab or backspace, and differ within the second.

**RecursionLemmas.** The library states induction with an operator as a parameter, which the provers
cannot instantiate. These lemmas say the same of sets and functions instead: a set of numbers that
contains 0, and n + 1 with n, contains all of them (`Induction`, `BoundedInduction`,
`StrongInduction`), proved from the least number of a set; and a recursion over numbers, step by step
or on any smaller number, has a function that satisfies it (`RecursionExists`, `Iteration`,
`CourseOfValues`). With them a recursive function of a module equals what its definition says, and
an induction over data is an induction over a set of lengths or values.

**HeapProofs**, for every page size, word size and size asked for. `SearchStaysClear`: by induction over the
bits, a returned place lies behind the header, whatever the bitmap; on the bitmap `prepare_page` wrote, which no
call ever changes, all bits count as free, one more than the page has behind its header, and the result is the
first byte behind it.

**AhciProofs**, for every table size, machine, port mask, frame and garbage. The second table is empty
until the registers are mapped, because `append_page` leaves its entry absent; what the TLB holds
agrees with the tables, because an entry is only ever filled where there was none; so the page
`append_page_at_addr` returns reaches the controller whatever was cached. From it: `TypeCorrect`,
`KernelStaysMapped`, `NoStaleTranslation`, `SearchFinds`, `RegistersReached`. `ConfigurationPlaced` takes
`SearchStaysClear` to the place where the configuration is written: in `kalloc`'s page or the next, which lie
behind the program (`FrameAssumption`), or page 0. `FaultsHaveThreeCauses` follows from both: every other
page the boot thread uses is mapped.
The sizes are assumed to be as in the source: header and configuration fit one page (`ConfigAssumption`).

**PrintfProofs**, for every number of values of each type, digit buffer, alphabet, strings and set of well
written calls. It has three layers.

* *Operators.* `ShownAppends`: what the console shows of two texts is what it shows of each.
  `NumeralDefined`, `DigitsOfNumeral`: the digits `_ntoa_long` collects are the numeral backwards, as long
  as they fit. `NumberRead`: `_atoi` reads back the numeral of every number an `unsigned int` holds.
  `PlainNumber`, `HashedNumber`: what `_ntoa_format` does to the reversed digits, zeros, the sign's place,
  the prefix that overwrites or not, the sign, the turn and the blanks, is the sign or prefix, the
  zeros and the numeral, aligned. `IntegerPrinted`, `PointerPrinted`, `PaddedMeant`, `OtherMeant`: this is what
  `Meaning` says of a regular directive.
* *The invariant.* `WalkInv` says where the walk is, phase by phase: between directives, all items before the
  pointer are printed and the next one lies ahead; within one, the pointer stands where the part it is about
  to read stands, the next argument is that part's, and `flags`, `width` and `precision` are what has been
  read of *this* item, nothing of an earlier one. `OutputInv` says that `idx` is the length of what was given out, that the
  screen shows it, and that the buffer holds exactly as much as fits, with the NUL at the end.
  `FieldInv` adds to `FieldsAsMeant` that later text does not move earlier fields. None of the three
  properties is inductive alone: that a directive prints its meaning needs that the flags at its
  specifier are its own, hence what they are in each phase.
* *The steps.* One lemma per action keeps `WalkInv`; an action of a specifier `Prints` a text which is the item's
  meaning if the item is regular, and `FieldsGrow`, `OutputGrows` and `WalkToText` carry that
  through `Finish`; `StoredCloses` is the place of the NUL, where for a buffer of size 0 the index
  wraps to the largest and is dropped.

From it: `TypeCorrect`, `OutputIsTheText`, `DirectivesPrintMeaning`.

**Only model-checked**: every liveness property (`SetupCompletesIfBoundsFit`, `BootCompletes`,
`KeyboardServed`, `HandlerReturns`, `BootReachesPrompt`, `KeysAreRead`), which need fairness and
ENABLED, out of the prover's reach. `ImplementsFramePool` is the refinement of safety, and proved.

## 6. Not modelled

* Floating point in `printf.c` (`_ftoa`, `_etoa`): no report uses it.
* `kfree`, which nothing calls, and the allocator's test, whose call is commented out.
* The handler's side of PCI, a word at a time: `ModeDiscipline` keeps the two contexts apart.
* `map_page_at_addr` and `remap_kernel` (which computes an entry and never stores it), the TLB
  routines, `start_cmd` and `stop_cmd`, the mask operations of the PIC, `__ensure_ack`, `strshft`, PIT,
  vtty and the deprecated `simplconsole.c`: no caller in the running kernel.
* ACPI reads tables and prints them. IDE is not linked. GDT and IDT encodings are constants.
* An 8042 slower than the next instruction: the self test then fails, and `init_ps2` gives up
  with the keyboard's port stopped.

## 7. Plan

Done, in this order: `FramePool`, `PageFrames` and its proofs; `Interrupts` and its proofs;
`Console`; `Ps2` and its proofs; `PageTables` and `Ahci`; `Printf`; `Heap`, and with it the memory of
`Ahci`; `AhciProofs`; `ConsoleProofs`; the shift flags in `Ps2Proofs`; `RecursionLemmas`, `HeapProofs` and
the place of the configuration; `TypedCommandRuns`; `PrintfProofs`.

Next, most important first:

1. An abstract specification of the command line as a line of typed text, for `Console` to implement:
   `LineInv` is most of the refinement's invariant. With it, tabs and backspaces.
2. The liveness properties' safety parts as theorems: a measure that each step of the handler lowers
   (`HandlerReturns`), and that each step of the set-up's loop lowers when its bounds fit.
3. The irregular directives of `Printf`: what each prints, and that none writes beyond the digit buffer.
4. `Kernel`: the composition of `Interrupts`, `Ps2` and `Console` at the level of `kernel_main`,
   with `Ps2` giving `Console` its keys.
5. A slower 8042 as a constant of `Ps2`; `Ide` as a pure definition, the register each access reaches.
