# A verification of the WinDOS kernel

TLA+ modules for the parts of this system that keep state: the boot loader and
the disks it chooses between, the window system, the page allocator, the NVMe
queue, the log on disk, the exFAT driver, keyboard and mouse, and the interrupt
stubs with the system call. TLC checks them on small instances, TLAPS proves the
theorems for every value of the constants. `PROJECT.json` maps every definition
to the lines it models and lists the runs, the mutants, the hazards and the
theorems.

    tlc -config MCDesktop.cfg MCDesktop.tla       # a run
    tlapm DesktopProofs.tla                       # the proofs of a module

## The system

A UEFI boot loader in Rust (`src/main.rs`) reads a disk image with the kernel in
it, leaves the firmware and jumps into a flat C++ kernel (`kernel/kernel.cpp`,
one translation unit with headers, plus `fs/exfat.cpp`). There is one processor
and no scheduler. Concurrency is the main loop, and later the user program,
against three interrupt handlers that run with interrupts disabled; after login
only the handlers and the system call are left of the kernel.

| component | state | operations | called by |
|---|---|---|---|
| boot loader, `main.rs` | firmware's video mode and memory map, the image, `BootInfo` | `start_kernel`, `parse_dp`, `read_memdisk`, `exfat_find_kern` | firmware |
| disk image, `tools/mkmemdisk.py`, `fs/memdisk.cpp` | sectors | `build`; read by the loader and by the driver | build, boot |
| boot storage, `kernel.cpp:380-880` | `g_nvme.ready`, `g_ok` and the geometry, `g_logdisk_ok` | the debug disk, two `exfat_init`s, the raw test, `TEST.TXT`, `NVME.TXT` | boot |
| sheet manager, `window/window.h` | `SHTCTL`: pool of 16 sheets, `sheets[]`, `top`, `height` | `sheet_alloc`, `sheet_updown`, `sheet_free` | boot, main loop, isr2c |
| compositor, `window/window.h` | `map` (owner of each pixel), the framebuffer, the shadows | `sheet_refreshmap`, `sheet_refreshsub`, `sheet_slide`, `sheet_refresh`, `shtctl_refresh_all` | sheet manager, main loop, isr2c |
| desktop, `kernel.cpp`, `sys/isr.h` | `g_wins[]`, `g_drag_sht`, `g_mmx`, taskbar picture, login line | mouse packet, F1, key, Enter, login done | isr2c, main loop |
| keyboard and mouse, `sys/ps2.h`, `sys/isr.h` | `kfifo`, `g_m`, the 8042's one output buffer | `init_keyboard`, `mouse_enable`, `fp`, `fg`, `md`, isr20, isr21, isr2c | boot, handlers, main loop |
| interrupt controllers, `sys/idt.h` | requests, interrupts in service | `pic_init`, the EOIs | boot, handlers |
| stubs and system call, `isr.S`, `sys/gdt.h` | registers and stack | push, call, pop, return; `syscall_entry_asm`, `jump_user` | processor |
| dead screen, `sys/exc.h`, `sys/dead_screen.h` | `entered` | `exc_handler`, `ds`, `panic` | exceptions, Ctrl+Shift+B |
| drawing, `sys/draw.h` | a pixel buffer | `fill_rect_c`, `blit_c`, `put_char_cs` | desktop, boot, dead screen |
| page allocator, `desk/page.h` | bitmap, pool, free count | `page_init`, `page_alloc`, `page_free` | boot, NVMe |
| NVMe, `fs/nvme.h` | queues, head, tail, phase, identifier | `nvme_io_cmd`, `nvme_admin_cmd`, `nvme_rw` | exFAT, log on disk |
| log on disk, `sys/logdisk.h` | one page of text, sectors written | `logdisk_init`, `logdisk_sink`, `logdisk_flush` | `out_str`, heartbeat |
| exFAT, `fs/exfat.cpp` | the volume: bitmap, root directory, clusters | `exfat_init`, `exfat_list_dir`, `exfat_find`, `exfat_read_file`, `exfat_write_file` | boot, Enter |

How they meet: a mouse packet reaches `isr2c_handler`, which raises, closes,
minimises or drags a sheet. It shares the layer table and the window slots with
the main loop, protected by `cli`/`sti` around most of the main loop's sheet
sections. `out_str` logs through the sink into the NVMe driver from wherever it
is called, the mouse interrupt included. Enter writes the login file through
exFAT and NVMe (or ATA) before user mode is entered. The block layer below exFAT
switches from ATA to NVMe the moment `g_nvme.ready` is set, whatever the
geometry in the driver was read from. Keyboard and mouse share one output
buffer, and each handler takes only what the status says is its own.

What is hard in this code: the interrupt against the main loop on the layer
table and in the log/NVMe path; the incremental map and screen, which must agree
with a picture nobody ever computes from scratch; a driver that trusts the next
completion to be its own; dependent disk writes with failures between them; two
disks behind one geometry; a memory map that changes while the loader leaves the
firmware; one data port with four readers; interrupts on the stack of a system
call; and the boundaries of every clip, wrap and limit. The hazards are
listed at their lines in `PROJECT.json`, each with the properties that would
catch it or the reason why none does.

What makes each component correct:

* loader: the kernel that runs is the one in the image, with a picture that fits
  its buffers; the boot ends, one way or another.
* boot storage: bare sectors and files go only where they are meant to go.
* sheet manager: `sheets[0..top]` and the `height` fields are one z-order; an
  operation moves one sheet and no other.
* compositor: `map` is the painter's algorithm; the screen shows the owners.
* desktop: slots, taskbar and drag target agree with the sheets; the login
  window is there until user mode is entered.
* keyboard and mouse: no key lost, doubled or overtaken; the decoder in step;
  the 8042 never stuck; no sleep with a key in the FIFO.
* stubs: the interrupted code does not notice; a system call returns.
* dead screen: painted once, undisturbed.
* drawing: what is visible of a rectangle, and nothing else, is painted.
* pages: no page twice, none lost, the count exact.
* NVMe: no entry lost or overwritten, every call gets its own status.
* log: in order, from its beginning, without a gap.
* exFAT: files that can be found stay what they were, whatever fails or crashes.

## The modules

`Sheets` holds the sheet manager as operators on one record (`ctl`), and three
state machines use it: `SheetStack` alone, `Compositor` with the pixels,
`Desktop` with mouse and main loop. `SheetRace` extends `Desktop` with the F1 key
split into its statements. `LogDisk` extends `NvmeQueue`: each write of the log
is a call of the driver. `Boot` extends `BootLoader`, which extends `MemDisk`:
one behaviour from the firmware to the main loop. `Input` extends `Isr`: devices,
handlers and programs on one processor with its registers and its stack.

| module | of the code | state | actions |
|---|---|---|---|
| `Sheets`, `SheetStack` | `window.h:13-74, 205-253, 297-300` | `ctl` | `Alloc`, `UpDown`, `Free` |
| `WindowOrder` | what `window.h:205-209` promises | `order`, `used` | `Open`, `Place`, `TakeOut`, `Close` |
| `Compositor` | `window.h:84-325` and its callers | `display` = ctl, pos, map, vram | cursor, click, drag, minimise, restore, close, clock, input box, login done |
| `Desktop` | `kernel.cpp:195-292, 906-1035`, `isr.h:59-125` | ctl, slots, drag state, taskbar, login line, `pc` | one `Packet` per mouse interrupt, the main loop's keys, Enter in three steps |
| `SheetRace` | `kernel.cpp:942`, `win_minimize` statement by statement | and `at`, `old`, `h` | `F1...`, `Interrupt` |
| `Draw` | `draw.h` | the memory of a buffer | `Fill`, `Blit`, `Char` |
| `LoginWindow` | `kernel.cpp:55-72, 111-179, 664-676, 942-1000` | and `at`, `name`, `longest`, `calls` | one per thing drawn: `Content` to `ShadowBand`, label and box; `Key`, `ClearBox`, `WriteName`; `OtherDraws`, `NextBuffer` for the other callers of `Draw` |
| `PageAlloc` | `page.h` | bitmap as a set, count, blocks held | `page_init`, `page_alloc`, `page_free` |
| `NvmeQueue` | `nvme.h:92-250` and the controller (external) | queues, doorbells, calls | `Call`, `Ring`, `Take`, `TimeOut`; `Fetch`, `Complete` |
| `LogDisk` | `logdisk.h`, `serial.h:11-19` | buffer, count, sectors on disk, what each command is to write | `logdisk_init`, `out_str`, `logdisk_sink`, flushes, heartbeat, and those of the queue |
| `ExfatVolume` | `exfat.cpp:49-288` | bits, directory, data, the call in progress | `Call`, `WriteData`, `WriteBitmap`, `WriteDir`, `DirFull`, `Fail` |
| `FileStore` | what a caller of `exfat_write_file` relies on (`kernel.cpp:872-885`) | files listed, what was promised, the call | `Ask`, `Return`, `GiveUp` |
| `MemDisk` | `mkmemdisk.py`, `memdisk.cpp`; `main.rs:107-180`; `exfat.cpp:292-362` | none: images as functions, and their two readers | - |
| `BootLoader` | `main.rs` | video mode, image, kernel copied, `BootInfo`, memory map | one per service used; `Refused` and `Firmware` (external) |
| `Boot` | `kernel.cpp:380-880`, `exfat_init`, `nvme_find` and `nvme_init` | page count, disks, `g_nvme`, the driver's geometry, log | `EnterKernel` to `WriteTest` in the code's order, `FlushLog`, `LogIn` |
| `Isr` | `isr.S`, `gdt.h:85-100` | registers, stack, interrupt flag, ring | `Interrupt`, `Handler`, `iretq`, `sysretq`, the parts of the system call |
| `Input` | `ps2.h`, `isr.h:18-60`, `idt.h:18-36`, `kernel.cpp:906-1035` for control, `dead_screen.h`, `exc.h` | 8042, devices, controllers, FIFO, decoder, place in the program | devices; the statements of boot, loop, user program; the handlers; exceptions |

`MCx` modules give constants their values for TLC, `xProofs` modules hold the
proofs.

Abstractions worth knowing:

* A sheet's buffer is the kind of each pixel (opaque, shadow, clear), and a
  framebuffer pixel is whose pixel it shows and how often it was darkened.
* The stale entries that `sheet_updown` leaves in `sheets[]` above `top` are in
  the model, because the code reads them back whenever an index is one off.
* In `Desktop` a packet says which sheet and which part of it the pointer meets;
  geometry and pixels are in `Compositor`, the bytes of the packet in `Input`.
* A log byte is its number, so lost, repeated and reordered bytes all show. A
  command copies what the page holds when the controller gets to it, so a call
  that gave up writes later text to an earlier place.
* A directory entry is its type and what the driver reads of it; a name entry
  has its characters, because a write replaces only as many as the new name has
  (`Overwritten`). A text is one cluster. A sector is written as a whole or not at
  all, a write of several sectors may stop with any of them written.
* A sector of an image is what some reader takes from it: the loader and the
  kernel's driver take the same fields from different offsets of an entry, and
  `MemDisk` has both.
* The kernel in an image is its length; whether a sector that was copied is the
  right one is what counts. The firmware's memory map is its length and its key.
* A disk in `Boot` is what is on it, the files written through the driver and
  the sectors written past it; what is on a disk decides what each reader says.
* A register holds the name of the register whose value it is, or "junk", so a
  value that returns to the wrong place shows.
* A key is its number and what it does; a mouse byte is its place in the packet
  and whether it is 0xFA or looks like a first byte, all that `md` looks at. Any
  byte of a packet may look like anything, and what it is shows when `md` gets it.
* In `Desktop` nothing says when `exfat_write_file` comes back from writing the
  login file, so nothing is said of Enter leading anywhere.

## The runs

| run | bounds | what it shows |
|---|---|---|
| `sheet_stack` | pool of 4 | z-order of the table after every call sequence; each call is an operation of `WindowOrder` |
| `compositor` | 4 by 1 pixels, four sheets, five positions | `map` is the painter's algorithm, the screen shows the owners, a drag keeps an exact picture exact, a full refresh makes it exact |
| `desktop` | the kernel itself: four sheets, a pool of 16, a name of 31 | stack, slots, drag target and taskbar stay consistent, also while the login file is written; a step takes one window at most |
| `sheet_race` (violation) | the same, pool of 8 | F1 runs with interrupts enabled and a mouse packet corrupts the table |
| `log_disk` | queues of 3, seven commands, one timeout, pages of two 2-byte sectors, a region of two pages, seven bytes | wrap and phase, no entry lost, results go to their calls until one times out; the log in order, its beginning untouched, nothing lost while there is room |
| `nvme_nested` (violation) | queues of 3, three commands | a call inside a call takes the other's completion |
| `page_alloc` | 6 pages, static pool of 2 | bitmap, count and blocks agree under every fragmentation; the scan is a first fit |
| `draw` | a buffer of 6 by 5 with stride 7; two calls with rectangles that stick out everywhere, or a window of 4 by 3 with a band of 1, names of 4 where the box has room for 2 and the window for 3 | clip and blit against their definitions, nothing outside is written; the box of the login window shows the name alone after every sequence of keys, the shadow is ring by ring what it should be, until a name reaches past the window |
| `exfat` | eleven clusters, sectors of four entries, room for three more files, the first three groups looked at, three names | files that are found stay, every listed cluster is marked and belongs to one file, through every failure and crash |
| `boot` | kernels of 513 bytes, 364 and 480 sectors; two descriptors a page, one of slack, maps up to 6; 64 pages; six kinds of NVMe disk, ATA disks beside, three buses, three sets of video modes | the kernel is whole, the picture fits, the page count adds up, files and bare sectors go where they should, the boot ends |
| `input` | FIFO of 2, three keys (a letter, Enter, Ctrl+Shift+B), one packet whose bytes look like anything, one tick, one exception, one key during the boot | keys in order, decoder in step or skipping, system call and interrupted code go on, dead screen once; the 8042 is emptied, keys are handled |
| `isr_rax` (violation) | the same | an interrupt in ring 0 changes RAX |

Why the bounds are enough. Four sheets are the kernel's own (desktop, one
window, cursor, login), and a hole, a neighbour above and a neighbour below fit
in them. The screen row lets the three moving sheets overlap in every order;
every routine treats rows alike, and `Draw` has the second dimension. Queues of
three wrap twice in seven commands, so both phases meet every index. A page of
two sectors has full and partial flushes, and a region of two pages has a full
page that does not fit before a partial one that does. In `exfat` the first new
group begins two entries before a sector's end and its name entry is the first
of the next sector, so a torn write can leave a name alone behind the end; a
write of the short name over the stale longer one then makes the third. Later
groups begin at every place a torn write can leave. Four clusters for three
groups reach "directory full", and torn calls use them up to "disk full"; the
third new group is behind what `exfat_find` looks at. In `boot` the
longest kernel is the longest that the loader's 256 KB hold, the shortest is one
byte more than a sector; the map can outgrow its buffer twice. In `input` the
keyboard's 0xFA and three keys overfill a FIFO of two, so that Enter may be lost
and Ctrl+Shift+B come through. One packet is enough for the decoder to begin at
any of its bytes, to skip it from its first byte on (overflow), and to take a
later byte for a first one; a tick and a byte can both interrupt the system call
at each of its parts.

Deadlock is not checked in `log_disk`, `exfat`, `boot`, `input` and `isr_rax`.
In the first two the bound on bytes, commands or clusters ends a run; the boot
really stops ("hang", the loader's blue screen), and so does the dead screen.

### Where the code and its words disagree

* `sheet_race`: `kernel.cpp:652-655` says that sheet operations cannot be
  re-entered, and `IDEAS.md:114` that the sections were wrapped; F1
  (`kernel.cpp:942`) was not.
* `nvme_nested`: `nvme_io_cmd` promises the result of its command
  (`nvme.h:163-164`), but the mouse interrupt reaches it through the log sink
  while the main loop is inside.
* `isr_rax`: `isr.S:53` uses RAX after restoring it, in ring 3 RCX and R11 as
  well. `GoesOn` in `input` says that everything else is kept. Symptoms that
  `docs/内核避坑手册.md:166` attributes to the compiler look like this.
* Without a run: `kernel.cpp:991-993` says that the input box is cleared before
  the name is written and that no ghosts remain; a name of more than 22
  characters is written beside the box (`kernel.cpp:999`, clipped to the buffer
  only), where nothing clears it. `LoginShown` is about the box.
* Without a run: `kernel.cpp:173` says that the shadow's depth goes from 16 to 1;
  the code makes it 18 to 3, and `ShadowKept` states what the code makes.
* Without a run: bit 0 of an exFAT bitmap is cluster 2, but `exfat.cpp:242, 259`
  test and set bit `cc` for cluster `cc` (`IDEAS.md:27`: "簇号空间起点永远是 2",
  cluster numbers always begin at 2). `exfat` therefore runs on a volume whose bitmap is
  numbered like the driver's own: it shows that the order of the writes, the
  directory search and the failure paths are right apart from that number.
  (`tools/mkmemdisk.py:87-90` numbers its used clusters in the same way, but
  writes them where the FAT is.)
* Without a run: the test at `kernel.cpp:872-885` reads back what it wrote when
  `exfat_write_file` returned 0. Two calls that return 0 leave nothing to find:
  `exfat_find` looks at 64 groups (`exfat.cpp:183-184, 123`) and a cluster of 8 KB
  holds 85; and a name is written without a 0 behind it (`exfat.cpp:277-280`), so
  that after a torn write a longer stale name shows its tail behind a shorter
  new one. Both are in the model (`Findable`), and `FilesKept` and `FileStore`
  promise nothing of such a file.
* Without a run: `ps2.h:16` drains the mouse's 0xFA so that "md() starts clean";
  but `md` waits for that very byte in phase 0, so it decodes nothing until some
  byte is 0xFA, in whatever place of a packet. And `ps2.h:47-49` says that a byte
  that is no first byte is skipped so that no wrong packet accumulates; the rest
  of the packet is not skipped with it, and a movement that passes the 0xC8 mask
  is taken for a first byte: after an overflow bit, or a 0xFA in the middle, packets
  are shifted from then on. `StaysInStep` holds up to that byte (`"lost"`).
* Without a run: `logdisk.h:4` says that the log stops when its region is full. A
  whole page that does not fit is dropped, but the shorter page of a later flush
  is still written if it fits. What is written stays in order (`StoredInOrder`)
  and the beginning stays (`FirstLogStays`).
* Without a run: `isr.S:17` pushes the arguments of a system call to preserve
  them, `addq $48` then drops them; to the caller they are what the dispatcher
  left. `SyscallReturns` promises only what a call must keep.

### Fairness

* `Boot`: weak fairness of the next step of loader or kernel, the only program
  on the machine. That the firmware refuses or accepts is not fair; the retries
  of `ExitBootServices` are bounded by the code.
* `Input`: weak fairness of the processor. It always executes something: a
  waiting interrupt if enabled, or the program; a halted processor with nothing
  to do is not expected to do anything. No device is assumed to send.

## The proofs

| module | theorem | for every |
|---|---|---|
| `SheetStackProofs` | `TypeCorrect`, `ZOrderInvariant`, `SheetsImplementOrder` | pool size |
| `CompositorProofs` | `MapAsPainted`, `ScreenAsMapped`, `LoginEndRepairs`, `DragIsExact` | screen, shapes of windows and cursor, places they are moved to |
| `DesktopProofs` | `DesktopStack`, `DesktopSlots`, `DesktopDrag`, `DesktopTaskbar`, `DesktopOneGoes` | pool of four or more, length of a name |
| `DrawProofs` | `FillIsExact`, `BlitIsExact`, `NothingElsePainted`, `LoginIsShown` | buffer, stride, rectangles, glyph; window, band, box, font, length of a name |
| `NvmeQueueProofs` | `LogUsesQueue`, `LogPhaseTells`, `LogOwnResults`, `NothingOverwritten` | queue length, width of the identifiers, number of commands, timeouts up to two less than the length |
| | `LogInOrder`, `FirstLogIsKept`, `LogIsKept` | and sector, page, region, lengths of messages |
| `BootProofs` | `KernelIsWhole`, `PictureInBounds`, `PoolAgreement`, `VolumesKept`, `FilesWhereMounted` | disks, buses, video modes, kernels, memory maps |
| | `PoolTyped`, `FreeCountExact`, `NoPageTwice`, `ScanAlwaysFirstFit` | bitmap capacity, static pool, heap |
| | `ClustersBacked`, `FilesAreKept`, `VolumeIsFileStore` | volume, directory, its sectors and the groups looked at, its system clusters, the file it had, names and texts |
| `InputProofs` | `DeadScreenOnce`, `InterruptedGoesOn`, `CallReturns`, `MouseStaysInStep`, `KeysKeepOrder` | FIFO, numbers of keys, packets, ticks and exceptions |

The parts of the boot, the page allocator and the exFAT volume have their
proofs in one module.

*Sheets.* `SheetsProofs` shows that each branch of `sheet_updown` (lower,
raise, hide, show), `sheet_alloc` and `sheet_free` keep `CtlType /\ ZOrderOf`.
Neither half is inductive alone: the renumbering loops restore heights only if
the table was in order, and the insertion stays in the array only because the
visible sheets occupy distinct slots of a pool of `MAX_SHEETS` sheets, so that
a hidden one leaves room (`RoomToShow`, by counting). Heights in range are what
the callers pass (`HeightsFor`).

*The refinement.* `WindowOrder` has a list of visible sheets; the mapping reads
`sheets[0..top]` as that list. `RemoveIs` and `InsertIs` say what taking out
and putting in do to a list, index by index, and each branch of `sheet_updown`
is shown to be one or both of them (`HideTakesOut`, `ShowInserts`,
`RaiseMoves`, `LowerMoves`).

*Compositor.* The invariant `Sound` is the frame of the sheets, the z-order
and, of every pixel, that `map` names the highest opaque sheet (`IsTop`) and
the framebuffer shows that sheet. No operation computes the picture afresh:
each goes through one rectangle, from the height it thinks is enough, so the
lemmas of `sheet_refreshmap` and `sheet_updown` say that where the pass does
not reach, the owner before is the owner after. Shadows are in none of this: an
ordinary refresh may darken a pixel twice. `LoginEndRepairs` is that a full
refresh makes them exact from whatever they were. `DragIsExact` is that a slide
keeps them exact: its pass over the old place counts the shadows below the
sheet, the one over the new place adds the sheet's own, once.

*Desktop.* Every handler is made of four operations on the stack, and
`ShowGood`, `RaiseGood`, `HideGood` and `FreeGood` say of each that the desktop
stays below and the cursor on top, and that no other sheet appears or
disappears. The inductive invariant `DInv` joins to that the slots (at most
two, distinct, one for each window in use, the min flag right), what may follow
the mouse, and that the login window is in use exactly until user mode: closing
is refused only for `g_login_sht`, so that pointer must be right as long as the
main loop runs. `StepIsOk` has one lemma per action; `OneWindowGoes` follows
from what they say besides.

*Pages.* The inductive invariant is the type, the exact count and the ownership
of blocks together, and that nothing is used before `page_init` (`page_init`
clears the bitmap, which would lose a block handed out earlier). Cardinalities
of the changed set come from the library's facts on finite sets. `Scan` is a
recursive function, and that it is a first fit is an induction over the pages:
its counter is the distance to the last page in use (`CounterIs`, by the least
page at which it would not be), so it first reaches `n` where the lowest free
run of `n` pages ends.

*Drawing.* `ClipAxis` is the clip in one dimension, for any integers; the
rectangle and the copy with its shifted source follow from it twice. Because
the stride is at least the width, two pixels never share an address
(`AddrInjective`), so writing pixels changes those, no other pixel
(`PaintedAt`) and nothing outside them (`PaintedOutside`). `WinInv` follows the
making of the login window: until the band is drawn no pixel has a mark,
afterwards the marked ones are the band's with their depths; nothing but the
name is ever in the box when the program waits for a key. The band is whole as
long as no name has reached past the window.

*Queues.* The phase bit is right because of `Ring_`: driver and controller are
less than a queue length apart, both positions are their counts modulo the
length, both phases are the parity of the wraps, and the entries between carry
the phase of their round. For the results, `Single` adds that until a timeout
there is one command on its way, in exactly one of the stages from the
submission queue to the completion queue. The log takes no step of the queue
that is not one of the queue's own (`LogUsesQueue`), so both hold under it.
`SqInv` counts the entries of the submission queue: what the controller has not
fetched is the command of the call that waits and those of calls that gave up,
less than the queue together, so the driver, which never looks at the head,
does not overwrite one (`NothingOverwritten`).

*Log.* `LogInv` holds while no call has timed out: what the page has are the
next bytes in order, what is on the disk are those before it, and while a call
is on its way it is the flush of this very page, whose text no step changes
meanwhile. For `NothingLost`, `AllKept` adds that every byte since the log
began is in the page, in the region or in the message being written, provided
that every write succeeded and there is room.

*Boot.* `BuiltHas` and `RootIs` say which sectors and directory entries an image
has that `mkmemdisk.py` builds of a kernel of any length, `KernelFound` that the
loader's search, with its own offsets and cluster arithmetic, comes out at the
kernel's first sector and length, `NoKernelFound` that it finds none in
`memdisk.cpp`'s image. `KernInv` carries that from the reading to the copy
(`CopyIs`: no sector copied is past what was read, because the builder refuses
images that do not fit) and through the rest of the boot. `PictureInv` is that
the loader sets a mode that fits before it goes on; `PoolInv` follows the count
through the self-test and the clearing of the bitmap; `DisksInv` is what is
known at each place of the kernel about the two results of `exfat_init`, the
geometry and the switch of the block layer.

*exFAT.* A directory write of several sectors may stop anywhere, so groups may
be half there or joined to older ones. `DiskInv` therefore speaks of single
entries: wherever in the directory a stream entry is, its cluster is marked,
and no other entry has that cluster. `CallInv` is what a call knows: the
directory it read is the one on the disk, and its cluster is in no entry. Every
write begins at the end of the directory, where older groups have ended
(`GroupStays`), so the first group of a name stays what it was (`FilesKept`) and
among the first that `exfat_find` looks at (`InfosStay`), and clusters in use are
never those of a call. A chain is a recursive function;
that the old file's is its list of clusters is again shown by a least
counterexample.

*The files as a caller sees them.* `ExfatVolume` implements `FileStore`, a map
from listed names to texts: the mapping lists what `exfat_find` finds and reads
it with `exfat_read_file`. A call's beginning is `Ask`; its data and its bit
are stutters, since no listed file has its cluster (`WritesHidden`); the whole
directory write is `Return`, which lists the call's name and no other
(`OneNewName`) as its only new group is the one at the old end (`OneNewHead`);
a full directory, a write that fails at any sector, and a crash are `GiveUp`,
which may list names nobody was promised but takes none away (`FailGivesUp`).
So is a directory write whose group is not `Findable`: nobody finds it, or under
a name that is not the call's.
`FilesKept` says this of the files that were promised; the refinement also of
those a failed call left behind, and that a call that succeeds adds nothing
else. No run checks it: evaluating the mapping in each step takes TLC longer
than the run `exfat` has. With nine clusters and one text, and two or three
groups looked at, it finds no counterexample.

*Processor.* `CpuInv`: by the place in the program the stack is `Base`, empty
or the frame of the system call, with that place's registers; in a handler or
on its way back, the stub's frame of the interrupted registers lies on top.
Return takes off exactly that, so the program goes on, whatever it was and
however often.

*Mouse.* `MouseInv`: the bytes on their way, from the 8042 to the device, are a
tail of whole packets, possibly after the acknowledgement. What `md` has been
given so far says which of four cases it is in: nothing has begun it; it is in
the phase of the first byte on its way; it skips, in phase 1, the second or
third byte of a packet whose first it did not take; or it took one of those for
a first byte. The third byte of a skipped packet leads back to the second case.
Before the mouse is enabled there are no bytes, and until the handlers are there
nothing interrupts.

*Keys.* `KeyInv`: the FIFO is a ring of `Count` bytes, also between the two
steps of `fg`, which nothing interrupts. On their path (queue, 8042, FIFO,
hand) keys rise, all that were handled came before them, and each key is on the
path, handled or dropped at a full FIFO. An exception ends this: what was being
handled is gone with it.

*Dead screen.* `DeadInv`: from the guard on, interrupts are disabled and no
handler runs, and painting begins only in the step that finds `entered` false
and sets it.

Assumptions are the named `ASSUME`s of the modules: positive sizes, the static
pool within the capacity, a stride of at least the width, a queue of two or
more, a heap that holds what boot takes, the five places for disks. The
kernel's four sheets come first and the background is opaque and covers the
screen; box and label lie in the login window; no more keys come during the
boot than there are; the file the volume had has a cluster or more, none of
them twice and none of the system's; a sector has four directory entries or
more, names are not empty and `exfat_find` looks at one group at least. TLC
evaluates them on every run.

Every safety property that a passing run checks is stated by a theorem. Only
model-checked are the liveness properties (`BootEnds`, `InputTaken`,
`KeysHandled`): the provers do not take fairness. The three
violations are TLC's counterexamples.

## Not modelled

* `desk/memory.h` and `desk/task.h` are included nowhere.
* Formatting (`stdio.h`, `log.h`), fonts, colours, the cursor's picture, and the
  bytes of `memdisk.cpp` that no reader looks at, among them its zero sectors.
* `drivers/mouse.h`, `serial.h`, `pid.h`, `WinDOS.h`: superseded.
* Polling of ports: an ATA or 8042 command is its outcome. The table entries of
  GDT and IDT, which are stored once. The registers that bring the NVMe controller
  up are its outcome as well.
* In the modelled parts: names of more than 15 characters, bitmaps and
  directories of more than one cluster, the end mark that `exfat.cpp:281` writes
  one byte behind its buffer when the last group fills a directory of 8 KB,
  dates, the addresses in `BootInfo`, the text of dead screen and log.

Firmware, PCI buses, disks, the NVMe controller, the 8042 and its devices are
external and modelled from how the code uses them; each may do whatever the code
has a branch for.

## What could follow

* The log sink in its statements, with the mouse interrupt between them
  (`logdisk.h:41`): the queue below it is checked that way in `nvme_nested`.
* An abstract specification of the log: a sequence of bytes that `LogDisk`
  implements.
