# KontolOS: a TLA+ verification project

KontolOS is a small 32-bit x86 kernel: a two-stage boot loader, a kernel with one thread and
interrupts, a heap, a file system in memory, a keyboard and a screen driver and a shell with an
editor. Everything runs in one address space; the only concurrency is that of interrupt handlers
with the one kernel thread. Code is cited by its path in the repository (`kernel/memory.c` is
`src/kernel/memory.c` there).

1. [The system](#the-system)
2. [Modules](#modules)
3. [What is checked](#what-is-checked)
4. [What is proved](#what-is-proved)
5. [Where the code and its comments disagree](#where-the-code-and-its-comments-disagree)
6. [What is not modelled](#what-is-not-modelled)
7. [Plan](#plan)

## The system

| Component | State | Operations | Called by |
|---|---|---|---|
| Boot loader (`boot/stage1.asm`, `stage2.asm`) | disk position, retry counter, memory, A20 | load stage 2 and the kernel, retry, switch to protected mode, copy, jump | BIOS |
| Interrupts (`kernel/idt.c`, `isr.asm`) | 256 gates, 16 handlers, the PICs' masks | `idt_init`, `irq_register_handler`, `irq_handler`, `isr_handler` | `kernel_main`, the CPU |
| Heap (`kernel/memory.c`) | block list, `used_memory` | `kmalloc`, `kcalloc`, `kfree`, `krealloc` | ramfs, shell |
| RAM file system (`fs/ramfs.c`) | `file_table[64]`, `current_dir`, contents on the heap | create, mkdir, delete, rmdir, chdir, read, write, append, truncate, list | shell |
| Keyboard (`drivers/keyboard.c`) | ring buffer of 256, modifier flags | interrupt handler, `getchar`, `readline` | IRQ 1, shell |
| Timer (`drivers/timer.c`) | `timer_ticks` | handler, sleep, uptime | IRQ 0, splash screen, shell |
| Screen (`drivers/vga.c`) | cell memory, cursor, colour | putchar, scroll, clear, print | everything |
| Shell (`kernel/shell.c`) | command line, arguments | read, parse, dispatch, the commands | `kernel_main` |
| Editor (`cmd_nano` in `kernel/shell.c`) | lines, cursor, scroll, modified flag | open, edit, save, exit | shell |
| Kernel start (`kernel/kernel.c`) | the order of initialisation | `kernel_main`, splash screen, `init_system`, panic | boot loader |
| Strings (`lib/string.c`) | none | copies, comparisons, conversions | everything |

**Interactions.** All calls are synchronous calls of the one thread, but for interrupts: IRQ 0
increments `timer_ticks` and IRQ 1 fills the keyboard's ring buffer. Handler and thread share these
two variables and the buffer, without locks. `hlt` is the only way of waiting, and every interrupt
ends it. The handlers never call the heap or the file system, so these are sequential; what makes
them hard is not interleaving but long sequences of calls and calls that fail half-way because there
is no memory. The file system is the heap's client and the editor is a client of both. Everything draws on
the one screen, whose cursor and colour each caller leaves behind for the next.

**Hard behaviours, and what makes each component correct.**

- *Heap*: splits and joins must keep a list that covers the heap without gap, overlap or cycle;
  blocks belong to one owner; freeing must undo fragmentation although there are no back pointers.
- *File system*: `fs_write` frees before it allocates; slots are reused; `current_dir` is a copy of
  a name. A name is in the table once, every region has one file, sizes match regions.
- *Keyboard*: a key may come between any two accesses of the reader, also between the test for a
  character and `hlt`. The buffer is a queue; no character is overwritten while it is read; waiting
  ends; no modifier is stuck.
- *Boot loader*: cylinder, head and sector carry into each other; a read that fails may have spoilt
  its block and is tried again; the image must arrive whole, and a bad disk must not be tried for ever.
- *Kernel start*: `idt_init` and `timer_init` run twice, the second time with interrupts on; the
  masks of the PICs are lost by their initialisation; lines of the slave need two acknowledgements;
  a key may come before the keyboard has a handler.
- *Editor*: text is shifted within fixed buffers of 80 bytes, loaded through a parser that cuts
  and drops, saved by a call that may fail, and drawn over what the screen showed before.
- *Screen and shell*: tab, wrap, scroll and Backspace meet at the edges; `keyboard_readline` keeps a
  line and shows it by separate code, so the two can come apart; the next prompt relies on every command
  to end its line and to put the colour back.
- *Strings*: no function knows the length of a buffer; regions may overlap in `memmove`; the smallest
  integer has no positive counterpart; `parse_args` cuts the line it reads and must stop at its limit.

The complete list, line by line with the properties that watch each one, is under `hazards` in
`PROJECT.json`.

## Modules

| Component | Promise (abstract) | Model | For TLC | Proofs |
|---|---|---|---|---|
| Heap | `Allocator` | `Heap` | `MCHeap` | `HeapProofs` |
| File system | `FileStore` | `RamFS` | `MCRamFS` | `RamFSProofs` |
| Keyboard | `KeyQueue` | `Keyboard` | `MCKeyboard` | `KeyboardProofs` |
| Boot loader | - | `BootLoader`, in `PowerOn` | `MCBoot` | `PowerOnProofs` |
| Kernel start, interrupts, timer | - | `Boot`, in `PowerOn` | `MCBoot` | `PowerOnProofs` |
| Editor, over the file system and the screen | `TextBuffer` | `Nano` | `MCNano` | `NanoProofs` |
| Screen | `Terminal` | `Vga`, in `Console` and `Nano` | `MCConsole`, `MCNano` | `ConsoleProofs` |
| Shell | `Words` (of `parse_args`) | `Console` | `MCConsole` | `ConsoleProofs` |
| Strings | `Words`, definitions in `Strings` | `Strings` | `MCStrings` | `StringsProofs` |

`Loops` models nothing: it has the lemmas about loops and folds that several of the proofs cite.

The components meet

- *through promises*: `RamFS` sees the heap as `Allocator` describes it (a fresh pointer or NULL,
  contents nobody wrote); `Console` cuts a line into `Words`, which `Strings` shows `parse_args` to do;
- *as modules*: `Nano` calls `RamFS` (`FS == INSTANCE RamFS`) and `Vga`, `Console` extends `Vga`;
- *one after the other*: `PowerOn` is `BootLoader` up to its jump and `Boot` from there on;
- *reduced to an effect*: `Boot` has of the keyboard handler the read of port 0x60, `Console` of the
  keyboard the characters that `keyboard_getchar` returned.

**A convention.** Definitions right before another one whose names extend its name (`DeleteKeepsData`,
then `Delete`; `AppendToFreesFirst` and `AppendToOnlyNewSize`, then `AppendTo`) are that definition
with a plausible slip: a dropped guard, a missing reset, an off-by-one. No specification uses them.
Each property is broken by one of them when it takes the definition's place (`mutants` in
`PROJECT.json`): a property that no such slip could break would say nothing about the code.

### Heap (`kernel/memory.c`)

`mem` maps the address of each header on the list to its `size`, `used` and `next`; addresses are
numbers and `size_t` arithmetic is modulo `WORD`. `live`, the clients' side, maps each pointer
handed out to the size asked for. A call is not one step: `kmalloc`'s search and `kfree`'s search for
the predecessor walk the list one block per step (`pc` = "fit", "prev"; `krealloc` is at "move"
between its allocation and its release), so that termination and the choice of block are questions
about the list and not built in. Locals are variables of the same names and are cleared on return.

`Kmalloc`, `Kcalloc`, `KmallocNext`, `KmallocTake`, `KmallocFail` are the parts of `kmalloc`;
`Kfree` (any block that is on the list, so also a second `kfree` of a block not yet absorbed),
`KfreeNext`, `KfreeMerge` those of `kfree`; `KreallocFree`, `KreallocInPlace`, `KreallocMove`,
`KreallocCopy` those of `krealloc`. Left out: the bytes of the regions, `kfree` of a pointer that
never was one, and requests of NULL and 0 that return at once.

### File system (`fs/ramfs.c`)

`file_table`, `current_dir`, and `heap`, the regions that ramfs asked for with their bytes. A slot
has the fields of `fs_file_t`; the flags are two booleans. One action per function, one disjunct per
return (`Return(-2)` is the code's -2). `kmalloc` may refuse at any time (`WriteNoMemory`, the -3 of
`AppendTo`). `fs_create` and `fs_mkdir` differ in a flag and are `Make`. `First` is the loops' "first
match"; `Copied` is what `fs_read` puts into the buffer as opposed to what it returns. A handle is
used by the command that opened it before any other call, as in `shell.c`. `fs_append` and
`fs_truncate` have no caller yet and are modelled like the rest of the interface.

### Keyboard (`drivers/keyboard.c`)

The handler is one step (`KeyDown`, `KeyUp`): its gate disables interrupts. The thread is cut where
a handler can run between two accesses to what they share: `Check` (`keyboard_has_key`), `Halt`,
`Take` and `Advance` (the two statements at lines 188 and 189), with `keyboard_readline` around it.
The kernel is built without optimisation, so the order of the accesses is that of the program,
although `keyboard_buffer` is not `volatile`. The scancode tables are abstracted to keys that behave
differently: a letter, a digit, Enter, Backspace, the modifiers. Right control is included; its prefix
0xE0 is read as the release of an unknown key and does nothing. The shifts that a keyboard fakes behind
that prefix are left out, so `NoStuckModifier` is about plain make and break codes.

### Boot loader (`boot/stage1.asm`, `boot/stage2.asm`) and `PowerOn`

Memory is cut into blocks of a sector; a block holds the number of the image's sector or `Junk`. `at`
is the place in the assembly, the other variables are the registers that the loop keeps. One action
per call of the BIOS: `ResetDisk` and `ReadStage2` (all of stage 2 at once) in stage 1, `EnableA20`,
`LoadKernel`, `Loop`, `ReadSector`, `ReadFails` in stage 2, then `Copy`. A read that fails may have
stored anything in its block (`Spoilt`). With A20 closed the copy to 1 MB goes to the blocks 1 MB below.
The code does not check that the gate opened (`stage2.asm:69-73`); `EnableA20` takes it as open.
`PowerOn` lets `Boot` run when `at` is "kernel"; the loader's own interrupts are the BIOS's affair.
No BSS is cleared by the loader or by `kernel_entry.asm`; `Boot` starts from C's initial values.

### Kernel start (`kernel/kernel.c`, `idt.c`, `isr.asm`, `drivers/timer.c`)

`pc` goes through `kernel_main`: `idt_init` (clear, exceptions, remap, ready, unmask, irqs, lidt,
sti), `timer_init`, the splash screen's sleeps (sleep, check, halt), then `init_system`, which runs
`idt_init` and `timer_init` again and `keyboard_init`, then the shell. `idt_set_gate` writes the
address before the flags, hence a gate can be "torn". The processor, the PICs, the keyboard
controller and the timer chip are external, modelled from how the code programs them: `Offered` is the
priority rule, `Accept` the entry through the gate with the faults that follow from a missing one,
`CallHandler`, `Eoi`, `Iret` are `irq_handler` and its stub.

### Editor (`cmd_nano` in `kernel/shell.c`)

`lines`, `num_lines`, `cur_line`, `cur_col`, `modified` are the function's locals. Each key is an
action with the bounds checks at the end of the loop (`Cursor`). Loading is the parser of lines
650-664 (`LineText`, `Count`), saving is lines 715-729 with `FS!Write`. There are no cursor keys; a
file that lost its contents (`fs_write` without memory) is read as whatever the buffer held, one of
`Stale`, which may have control characters. Between sessions the shell creates and deletes the file. The
line buffers are taken as allocated. A turn of the loop first draws (`Draw`, with the operators of `Vga`); since it clears the
screen first and nothing reads the screen, the screen is no variable: `TextIsDrawn` draws over every
screen of `Before`. The code does not scroll: it draws the first 22 lines, here `VISIBLE`.

The title bar (`TitleBar`) holds the command's argument, `NameText[filename]`, with the padding of line 682.
`Names` are names a file can have, shorter than 32 characters; with these the bar fits in its row. `TooLong`
is a name that `fs_create` refuses; the refusal is ignored (lines 617-619), and only the shell's line of 255
characters limits the name, so that the bar may wrap onto the rows of the text and never reaches the
end of the screen. What it leaves there, behind the lines drawn over it, is `Left`. An argument may
contain a carriage return (Ctrl+M); the assumption on `NameText` allows it. `TextIsDrawn` says nothing of a text with
a control character, which cannot be typed but may come from `Stale`.

### Screen (`drivers/vga.c`)

No interrupt handler draws, so every function of the driver is one operator on a record of its state
(`row`, `col`, `color`, the cells, the cursor the chip shows): `PutChar` is character, wrap, scroll and
cursor in the order of `vga_putchar`. `vga_print` is one step per character in `Console`.

### Shell (`kernel/shell.c`) and the line on the screen

`Console` is `shell_run`: the splash screen or the editor draws ("draw"), the prompt is printed
("next", "prompt"), `keyboard_readline` reads and echoes ("read": `Enter`, `Backspace`, `Type`), the
line is cut into words and dispatched ("execute"), and the command's output goes out ("print"). `out`
is what the thread has still to print, colours included. The commands are classes of equal effect on
the screen: `help`, `info`, `ls` and others are "report", `cat` and `cd` are "cat", `nano` is "draw",
`halt` and `shutdown` are "halt"; what they do to files is in `RamFS`, where every function may be
called in every order, and in `Nano`. Texts and numbers are stand-ins, since only where they leave the
cursor and in which colour counts. `home` (where the line begins on the screen) and `exact` (no tab,
carriage return or Backspace across a wrap so far) are auxiliary.

### Strings (`lib/string.c`, the memory functions of `kernel/memory.c`, `parse_args`, `vga_print_dec`)

Memory is a row of bytes, and a function is one turn of a loop per step, so that what it reads may be
what it has just written. `Call` makes the calls that callers may make: strings end, copies fit and,
but for `memmove`, regions do not overlap. `old` is memory at the call. Integers are modulo `WORD`.
What each function should have done is `AsSpecified`, stated with sequences and without loops, in five
parts: `SearchesSpecified`, `ComparisonsSpecified`, `CopiesSpecified` (with `MemmoveSpecified`),
`NumbersSpecified` and `WordsSpecified`. `itoa` has no caller in the repository and takes no size;
`RoomAssumption` gives it a memory that holds a sign, the digits of any number and the end.

## What is checked

| Run | States | Question |
|---|---|---|
| `heap` | 14 897 | Do the list, the flags, the count and the owners stay consistent through every sequence of calls, does every call return, is this an allocator? |
| `ramfs` | 59 562 | Do table and regions fit together when any allocation may fail, and is this a bounded map from names to contents? |
| `keyboard` | 210 552 | Is the buffer a queue under every interleaving, and does every wait end? |
| `boot` | 173 443 | Does the kernel start whole from a disk that fails at will, which interrupts can go wrong before the shell, and does the boot end? |
| `nano` | 80 142 | Does any sequence of keys, saves, failures and reloads overflow a line or bring back, lose or cut text, and is the text what is drawn, with nothing else but the rest of a long title? |
| `console` | 2 655 818 | Is the screen a terminal, is the line that is read the line that is shown, and does every prompt start a line, but after `cat`, `cd` and a cut line of blanks? |
| `strings` | 438 796 | Does every function return, and leave in memory what its definition says, for all contents and places of its arguments? |

The other runs (`ramfs_cwd`, `boot_gates`, `boot_keyboard`, `nano_save`, `console_color`) each end with
a counterexample; see [below](#where-the-code-and-its-comments-disagree).

**Properties.** One type invariant each (`Strings` has none besides), and:

- `Heap`: `HeapTiled`, `OwnersHold`, `NoFragments`, `Accounted`, `CopyInBounds`; steps: `FirstFit`;
  liveness: `CallsReturn`; refinement: `ImplementsAllocator`.
- `RamFS`: `NamesUnique`, `FilesHoldData`, `ListSafe`; steps: `ErrorsChangeNothing`,
  `OnlyRmdirLoses`; refinement: `ImplementsFileStore`.
- `Keyboard`: `TakenStays`, `LineFits`, `NoStuckModifier`; liveness: `WaitingEnds`;
  refinement: `ImplementsKeyQueue`.
- `PowerOn`: `KernelInPlace`, `Acknowledged`, `MasksRestored`; steps: `FaultOnlyInReload`;
  liveness: `KeysServed`, `BootEnds`.
- `Nano`: `LinesFit`, `SavesLoad`, `TextIsDrawn`; refinement: `ImplementsTextBuffer`, in which an edit
  changes the text in front of the cursor only and a save leaves it alone.
- `Console`: `EchoFaithful`, `OutputEndsLine`; refinement: `ImplementsTerminal`.
- `Strings`: `AsSpecified`; liveness: `Returns`.

**Bounds, and why they are enough.**

- `MCHeap`: 96 bytes with headers of 12 and a slack of 16 hold up to four blocks: a freed block with a
  neighbour on either side, on both, on none, a split and a remainder too small to split. The requests
  0, 8 and 20 (and 2 × those for `kcalloc`) round to different sizes. `WORD` is 1024, wide enough that
  nothing wraps; the wrap itself is excluded by `NoWrap` in the proofs and discussed below.
- `MCRamFS`: two slots with three names make the table full and names compete for slots; two
  pointers (interchangeable, hence the symmetry set; only safety is checked with it), files of two
  bytes with data of 0, 1 and 3 bytes give empty, fitting, appended to the limit and too large; the
  listing's buffer of 7 holds some pairs of names and not others.
- `MCKeyboard`: a ring of three slots is empty, half full and full within two keys, and wraps; lines
  of `max_length` 3 fill. Both shift keys, one control key and caps lock.
- `MCBoot`, loader: the code's own numbers, 18 sectors, 2 heads, 16 sectors of stage 2 and 48 of the
  kernel, so that sectors, heads and cylinders all carry; every read may fail, three times.
- `MCBoot`, kernel: gates 8, 13 and those of lines 0, 1, 14 (a slave line, for the double
  acknowledgement); a bar of two steps; 10 Hz; 32-bit values modulo 2000, which the ticks do not reach and the product in `timer_sleep_ms` does: the
  pause of 200 ms wraps to no tick and is rounded up to one. `MaxLate` = 2 bounds the ticks
  that arrive while the thread is awake: the model lets the thread be arbitrarily slow, and without the
  bound the counter would not be finite. Ticks that end a `hlt` are not bounded.
- `MCNano`: a screen of 5 rows of 3, of which 2 are the text's, so that the third line is drawn over
  the status bar; three lines of two characters and one file; the array is full, lines are full, and a merge
  can meet two full lines if the model lets it. `Stale` holds nothing, lines that fit, lines too
  long and too many, and a control character. The title with the file's name fills its row once it has
  the mark; with the name that is too long it covers the first text row and one cell of the second, or two
  with the mark, so that the second line, of up to two characters, is drawn over it or beside it.
- `MCConsole`: two rows of four cells (a multiple of the tab's four, as 80 is), so that a prompt of one
  character and a line of three wrap and scroll wherever they begin; two words, the rest is dropped; one
  command of each class; a drawing position on the screen and outside in either direction.
- `MCStrings`: five bytes of NUL, blank and a letter, in all combinations, and seven numerals: two
  strings side by side, every overlap of `memmove`, and `WORD` 32, which three digits exceed.

No invariant mentions a bound; the proofs below are for every value.

**Fairness.** `Heap`: weak fairness of the steps of a running call, since the one thread keeps running
and interrupts return. `Strings`: the same. `Keyboard`: weak fairness of the thread, and of the timer's tick (the chip was
programmed by `timer_init` and nothing stops it); none of the keys. `PowerOn`: weak fairness of the loader, since
the BIOS's calls return, and of the stub;
strong fairness of the thread, because interrupts disable it again and again, and of the acceptance of
lines 0 and 1, which the PIC prefers over all others; strong fairness of the tick because the bound
`MaxLate` disables it at times while the chip goes on. `RamFS`, `Nano` and `Console` have
safety properties only, which use no fairness. Deadlock is checked in every run; where the code hangs
on purpose (`Hang`, `Stopped`) the model repeats that state.

## What is proved

The proofs are checked by TLAPS and hold for every value of the constants that satisfies the modules'
assumptions.

**`HeapProofs`**, for all heap sizes and all requests that are more than 64 bytes below the wrap of
`size_t` (`NoWrap`). None of the properties is inductive, because the calls are walks. The invariant
`IInv` adds what each walk knows so far: `Searching` (no block before the cursor fits; the total size
covers the request; the block that `krealloc` moves is too small), `Moving` (both of `krealloc`'s
blocks are used), `Freeing` (no block before the cursor precedes the freed one) and `NearlyCoalesced`
(two free neighbours exist only while `kfree` looks for the first of them). `MarkTiled`, `CarveTiled`
and `JoinTiled` show that the three changes made to the list keep it a tiling, whatever the list. From
`IInv`: `TypeCorrect`, `ListCoversHeap`, `OwnersKeepBlocks`, `CopyStaysInside`, `NoFragmentation` (with
`Recovered`, the heap is one block again), `SearchIsFirstFit`, `PointersAreFresh`, and the refinement
`HeapIsAllocator`: owners' regions are disjoint since the blocks tile the heap and every grant fits.
`CounterIsExact`: `used_memory` is a sum over blocks, for which the prover has no induction; it is the
cardinality of `UsedBytes`, the union of the bytes of the used blocks, which are disjoint, and a split, a
grant, a release and a join change that set by the bytes of one block.

**`RamFSProofs`**, for tables, names, data and pointers of any number, with `kmalloc` failing at
will. `IInv` is types, `NamesUnique`, `DataOwned` and `DataSize` together; no part is inductive by
itself, since a slot is found by its name and the copy of `fs_append` is as long as the old size
says. Every function changes one entry and one region or nothing; `OneEntryChanges` proves the
invariant once for such a change, and the lemma of each function shows that it is one, with
`KeepsOthers` for the other files' regions. From `IInv`: `NamesStayUnique`, `FilesOwnTheirData`,
the step properties `NothingElseLoses` and `FailuresChangeNothing`, and the refinement `TableIsAMap`:
names of used slots are unique, so a changed entry changes one name of the map (`OneNameChanges`);
`MakeAdds`, `ClearRemoves` and `ReplacedChanges` are the three ways it does. A free slot means fewer
names than slots (`FS_Surjection`), which is the map's capacity. `fs_list` is a loop over the slots, a
recursive function in the model: what one round keeps (the text is within the buffer, and has the names
of slots already passed) all keep, hence `ListStaysInBuffer` and with its result `TypeCorrect`.

**`NanoProofs`**, for arrays of any number of lines of any length, files of any content, and saves that
may fail. `LinesFit` is not inductive: a merge concatenates two lines. `RestFits` adds that what is
behind the cursor fits behind each line above it: it was split off one of them, and no key makes it
longer or shorter, since there are no arrow keys. With `CursorInText` and the sizes of the files
(`FilesTyped`, for the loaded text) this gives `LinesStayInBuffers`, and `CursorStaysInText`: the bounds
checks at the end of the editor's loop never have anything to do.

For what the text is, `SInv` adds that no line has a line end in it, that buffers behind the last line are
empty, and that every file is a text that a save wrote (`Disk`). `FlattenSeq` is a recursive function, and
with one more line the text has that line more at its end (`FlatGrows`, `TextGrows`).
`LoadingUndoesSaving` is an induction on the lines of the file (`Loads`, `LoadsOneMore`: the places of one
more line are behind those of all others), in both directions (`SavedLoads`, `LoadedLine`). For
`EditorIsTextBuffer` the text is cut at the cursor (`TextAround`); each key leaves the lines above and the
text behind it alone, a merge and a split move one line end across (`ViewMerge`, `ViewEnter`), and a save
stores the two halves (`ContentIsView`). `UserSeesText` follows the drawing character by character
(`OneMorePrinted`) and line by line (`OneMoreRow`): lines are shorter than the screen is wide, hence
nothing wraps or scrolls, and no two positions share a cell (`PlacesDiffer`). The title may wrap: after k
of its characters the position is at most k cells from the top, and all cells from there on are blank
(`OneMoreOnTop`, `PrintsOnTop`); `TitleFits` says how long it is. `vga_print` and the loop over
the lines are folds, which are functions on sets of positions; `PrintsEach` and `DrawsEach` unfold them.
`ScreenAssumption` is what the code's numbers satisfy: 22 lines of at most 79 characters on a screen of 25
by 80; a title of 18 characters, 40 columns for the name and a mark of 11; names of files of at most 31
characters, others of at most 255; a status bar that fits in its row.

**`KeyboardProofs`**, for a ring of any size, lines of any length and any set of keys. `IInv` adds
`Filling` (while the reader waits for a character the line is short enough for one more) to
`TakenStays`, `LineFits` and `NoStuckModifier`. `%` is opened once (`ModIs`). For the refinement
`KeyboardIsQueue` the pending characters are described by start and length; a put appends to them, or
meets a full ring, and an advance takes the head. The handler runs at any of the reader's points.

**`PowerOnProofs`**. The loader, for a disk that fails at will and a kernel of any size that fits below
1 MB, and for the geometry stage 2 counts in (`RealDisk`: 18 sectors, 2 heads, 16 sectors of stage 2).
`Counting` says that all registers agree on how many sectors are done, `Holds` that these are in place; a
failed read spoils only the next block (`NextBlock`, `HoldsOutside`), and the carry of sector, head and
cylinder is `NextSectorStep`. Hence `ImageIsWhole`. The kernel's start, for all devices, masks and vectors,
any number of ticks and keys: `Serving` ties what is in service to where the stub is; `Masked` follows the
masks into the locals of `pic_remap` and back; `Table` says how far the gates are and that the first
`idt_init` runs with interrupts off. From these `EveryLineAcknowledged`, `MasksComeBack` and
`FaultsOnlyInReload`. With `Counters`, the ranges of the loops and the ticks, also `MachineTypes`.

**`ConsoleProofs`**, for a screen of any size, any prompt, any command table and lines of any length.
`Whole` says that the record is a screen with its cursor on it, and every driver function keeps it
(`CursorStaysOnScreen`). For `LineIsShown` the invariant follows the prompt while it is printed
(`Prompting`), then the line: a character moves the cursor by one and the text up by one row if the
screen scrolls (`Lift`), so that `home` moves with it (`TextMoves`, `TextGrows`). `TInv` adds that all
that is printed or still to be printed is a character or a colour (`Inked`, `MessageParts`), also the
joined words of echo, a recursive function (`JoinedTyped`), which gives `TypeCorrect`; and that what is
still to be printed ends in the first column (`EndsLine`, `EndRemains`), but for `cat`, which gives
`PromptStartsLine`. For `ScreenIsTerminal` the cells are cut into rows (`GridOf`): a store changes a
character of one row, a scroll drops the first row and adds an empty one (`GridStore`, `GridLift`), and a
character goes where the terminal's goes (`CharGoes`).

**`StringsProofs`**, for all sizes of memory, all contents, every width of an integer and all arguments
that callers may give (`Given`, kept by `Called`). Each function has an invariant of its loops that says how
much of its work is done, one lemma for a turn (`StrchrTurn`, `AtoiTurn`, ...) and one that says that what is
done at the return is what the definition names (`StrchrDone`, ...); the theorems are the parts of
`AsSpecified`, and `StringsAsSpecified` is their sum.
- `MemmoveCorrect`: the part already copied grows from the front or from the back and never reaches a byte
  that is still to be read (`CopyUp`, `CopyDown`).
- `SearchesFind`, `ComparisonsOrder`, `CopiesArrive`: the bytes passed, equal or copied so far. The source
  and what is still to be read stay as they were (`SourceStays`, `StillOld`), and no byte but the
  destination's is written.
- `NumbersConvert`: a numeral is known by the quotients that are left after each division (`Quotients`,
  `NumeralIs`); the loops of `itoa` and `vga_print_dec` compute these quotients, and `atoi` multiplies back,
  where the wraps of its sum do not matter modulo `WORD` (`SumWraps`). That `itoa`'s buffer has room
  comes from `RoomAssumption` (`Tens`).
- `WordsAreParsed`: `argc` is the number of words whose begin has been passed (`Count`), and each of them is
  in `argv` and ends at a NUL (`Between`, `Within`, `AllFound`).

**`Loops`** has what the proofs need of loops: a function that is given by what each round makes of the one
before exists (`LoopExists`), what one round keeps all rounds keep (`EveryRound`, from the library's
well-founded order of the numbers), the k-th element of a set of numbers exists (`NthExists`), and so does
a fold over a set of numbers (`FoldExists`). With these a recursive function can be used without the
library's induction theorems, which take an operator.

**Assumptions.** Besides the modules' named assumptions, which TLC evaluates on every run: `NoWrap` in
`HeapProofs` and `RealDisk` in `PowerOnProofs`, hypotheses of their theorems.

**Only model-checked.** Liveness: `CallsReturn`, `WaitingEnds`, `KeysServed`, `BootEnds`, `Returns`. The provers
reach neither fairness nor `ENABLED`. Every invariant, action property and refinement that a passing run checks is
also a theorem.

## Where the code and its comments disagree

Each is the counterexample of a run.

| Run | Code | What happens |
|---|---|---|
| `ramfs_cwd` | `fs/ramfs.c:356` | The current directory, which `pwd` prints, can be removed and its name given to a file. |
| `boot_gates` | `kernel/idt.c:167` | The second `idt_init` clears the table with interrupts on; an interrupt then faults. |
| `boot_keyboard` | `kernel/idt.c:290` | A key during the splash screen is acknowledged and not read; the controller stays full and the shell gets no key. |
| `nano_save` | `kernel/shell.c:728` | The result of `fs_write` is ignored: a failed save clears the mark of unsaved text. |
| `console_color` | `kernel/shell.c:158` | `cmd_color` prints a line in the new colour; the prompt that follows sets green and then white. |

Seen while modelling, and no property, because no caller is exposed or nothing in the repository
promises otherwise:

- `kmalloc` of a size within 18 bytes of 2^32 wraps and grants too small a block, and `kcalloc`'s
  product can wrap; the largest request in the repository is 64 KB. Hence `NoWrap`.
- The name of a file that cannot exist opens the editor, and from 63 characters on (52 once the text is
  modified) the title bar wraps onto the rows of the text (`kernel/shell.c:679-682`): its rest stays behind
  and below the lines. `TextIsDrawn` says how far.
- `keyboard_readline` returns without Enter at `max_length - 1` characters; the rest becomes the next
  line. Enter itself is dropped when the ring is full, and so `WaitingEnds` speaks of an Enter in it.
- `timer_sleep_ticks` compares with a sum that can wrap: a sleep begun in the last ticks before 2^32
  (497 days) returns at once.
- The second `timer_init` sets `timer_ticks` to 0, so that uptime counts from `init_system`.
- The splash screen sleeps 40 times 7 ticks and once 20; the comment's 300 ticks are exact only with
  the pause.
- A write that finds no memory has freed the old contents and keeps the old size (`fs/ramfs.c:164`):
  `fs_read` then returns that size and copies nothing, and `cat` prints what its fresh buffer held,
  perhaps without a line end. `FilesHoldData` and `ImplementsFileStore` cover what is left of the file.
- `fs_rmdir` clears `data` without `kfree` (`fs/ramfs.c:357`): the region of a directory that was written
  is lost. `OnlyRmdirLoses` says that nothing else loses one.
- The release of one of two held shift (or control) keys clears the flag of both (`drivers/keyboard.c:98`).
- `fs_list` leaves out names that do not fit into the 1024 bytes of `cmd_ls`, while the total printed
  with them is `fs_count`'s.
- `strncpy` writes n + 1 bytes when the source is shorter than n (`lib/string.c:63`); every caller has the
  byte. `vga_print_dec` prints the smallest integer as "-"; no caller prints one.
- The number of `color` wraps, and a word without digits is colour 0, black on black.
- `README.md:162` gives the stack 0x90000-0x9FFFF; `esp` starts at 0x90000 and grows down from there.

## What is not modelled

- Headers, linker script, port I/O and inline assembly, the descriptor tables of the boot loader and its
  switch to protected mode, the registers that interrupt stubs save: no state of their own that a
  property could be about.
- The character classes of `lib/string.c` (`toupper` to `isspace`) and `vga_print_hex`: no loop or no
  caller.
- Wording, layout and numbers of what is printed; in `Console` all drawings are white, as the last colour
  that `show_splash_screen` and `cmd_nano` set is.
- `keyboard_getchar_nonblock`, `irq_unregister_handler`, the `fs_` functions with NULL arguments, and
  `kfree` of a pointer that `kmalloc` never returned: no caller.
- Line buffers of `cmd_nano` that could not be allocated (`kernel/shell.c:629`): undefined from there on.

## Plan

Done, in this order: `Allocator`/`Heap` with proofs (everything else rests on it), `FileStore`/
`RamFS` with proofs, `KeyQueue`/`Keyboard` with proofs, `Boot`, `TextBuffer`/`Nano`; then
`Terminal`/`Vga`/`Console` with proofs, `BootLoader` and `PowerOn` with proofs, also for `Boot`,
`Strings`, the drawing of `Nano`; then the proofs of what is defined by recursion or folds, with `Loops`:
the count of the heap, the listing, the text and the screen of the editor, the terminal, the types of the
machine, and all functions of `Strings`.

Left: proofs of steps on the way to the liveness properties, such as measures that fall with every turn
of a loop, which are safety properties and within reach; the composition of `RamFS` with `Heap`, of which
`RamFS` uses the promise only (`Allocator`); and the editor with line buffers that could not be allocated.
