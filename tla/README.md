# A TLA+ verification of buhos

This directory models the kernel of this repository, a small i386 kernel
("buhos") to which the project adds a driver of the real time clock and three
functions over it, `time_get`, `time_set` and `time_sleep`.  The modules are
checked by TLC on small instances; the theorems of the eight `*Proofs` modules are
checked by TLAPS for every value of the constants.  Paths below are relative to
`src/src/kernel/` unless they start with `src/`.

Status: every part of the kernel that keeps state of its own is modelled, some of
them in part (section 5 says which parts are not).  Every safety property that a run
checks is also proved, except that of `time_sleep` (section 4).

## 1. Inventory

There is no multitasking.  One kernel thread runs from `kmain` on, a user program
replaces it for good in `proc_exec`, and the only concurrency is between that
thread, the interrupt handlers that preempt it, and hardware that changes its own
registers (the clock chip, the UARTs, the interrupt controller).  So the hard
behaviours are: interleavings with hardware and handlers; long sequences of calls
that build up linked lists, bitmaps and caches; operations that fail half way; and
arithmetic at boundaries.  Nothing is persistent, so nothing recovers from crashes.

| Component | State | Operations | What makes it correct |
|---|---|---|---|
| RTC driver, `drivers/rtc.c`, `include/rtc.h` | the chip's registers | `rtc_read`, `rtc_write`, the update flag, register B | transfers leave the interrupt flag set |
| Time functions, `time.c` | `century`, local buffers | `time_get`, `time_set`, `time_sleep`, `get_seconds` | a reading is an instant the clock showed; a setting is stored whole; calls return; a sleep lasts as long as asked |
| Interrupts and lock, `interrupts.c`, `include/lock.h`, `interrupts.asm`, `hw.asm` | IF, `itr_status`, handler table | `itr_interrupt_handler`, `lock`, `unlock`, `itr_set_interrupt_handler` | critical sections exclude handlers; handlers run uninterrupted; no request is left unserved |
| Interrupt controller, `drivers/pic.c` | IRR, ISR, masks | `pic_init`, `pic_send_eoi`, mask and unmask | each handler ends with one end-of-interrupt |
| Serial driver, `drivers/serial.c` | a ring and a UART per device, open counts | handler, `open`, `read`, `write`, `lseek`, `release` | the ring is a queue; a reader that waits is woken |
| Keyboard, `drivers/kb.c` | ring of 32 bytes, partial scan code | handler, `kb_scan_code` | complete scan codes, in order, none torn |
| Physical frames, `drivers/mem.c:65-278` | bitmap, frame count | `mem_setup`, `mem_allocate_frames`, `mem_release_frames` | blocks are disjoint memory, nothing leaks, reserved stays reserved |
| Kernel heap, `drivers/mem.c:280-420` | list of entries | `kalloc`, `kfree` | entries tile the heap; freed neighbours are joined; blocks do not overlap |
| Memory devices, `drivers/mem.c:422-466` | none | `/dev/zero`, `/dev/null` | what is read and discarded |
| VFS, `vfs.c` | filesystem types, superblocks, dentry cache (100), vnodes, open files | lookup, open, close, read, write, lseek, mkdir, mknod, stat, mount, unmount | counts match uses; nothing used is evicted; failures undo what they did |
| memfs, rootfs, `fs/` | tree of dentries and nodes in memory | lookup, mknod, create, mkdir, read, write, mount | names are unique in a directory; a size covers what was written |
| Device registry, `devices.c` | lists of block and char devices | register, look up, set operations | a number names one device |
| Segments, `gdt.c` | descriptor table | setup, alloc, dealloc, get | a used slot is not allocated again |
| Processes, `proc.c` | `proc_cur` | `proc_init`, `proc_exec` | a failed exec gives back memory and segments |
| Boot order, `kernel.c` | which subsystem is up | `kmain`, `kmain2` | no interrupt before its gate and handler exist |
| System calls, errors | `errno`-like variable | two calls without state | - |
| Timer, `drivers/pit.c` | none | programmed once, masked | - |
| Lists, `list.c` | a linked list | add, find, delete | used by memfs, devices and the VFS |
| Strings, framebuffer | library code and output | | - |
| Boot loader, image tools, user programs | outside the kernel proper | | - |

Interactions.  `time.c` calls `rtc_read` and `rtc_write`, which bracket their
port accesses with `hw_cli` and `hw_sti`.  The serial and keyboard handlers are
called by `itr_interrupt_handler` and send the end-of-interrupt to `pic.c`; the
serial driver uses `lock`/`unlock` around its rings, `kb_scan_code` does not.
`mem_allocate_frames` and `mem_release_frames` lock too; `kalloc` and `kfree` do not,
and are called from the thread only.  `kalloc` takes frames from the physical
allocator below `MEM_USER_FIRST_FRAME`, `proc_exec` above it.  The VFS calls filesystems
and devices through tables of operations, and allocates everything by `kalloc`:
any step of it can run out of memory.  A device driver registers its number with
`devices.c`, which makes a node for it in `/dev`, a second memfs mounted on a directory of the
first.  `proc_exec` reads a binary through the VFS, over frames and segments it asks
for.  `kmain` and `kmain2` bring all of this up, and every `unlock` on the way enables
interrupts.

Three facts of the repository decide readings of the source: it is compiled for
i386 with `char` signed and without optimisation (no option in `src/Makefile` says
otherwise); `kernel.c:13`, `kernel.c:88-98` and `src/Makefile:107` carry unresolved
merge markers, and the side `HEAD` is followed; and the clock
tests of `kmain2` (`kernel.c:128-169`) are the only callers of the time functions.

The hazards of the code, each at its line and with the properties that would catch
it going wrong, are the `hazards` of `PROJECT.json`.

## 2. The modules

    Calendar <- Rtc <- Time            MCTime     time_get, time_set over the chip
    Calendar <- Sleep                  MCSleep    time_sleep over the calendar
    Interrupts <- Serial => LossyQueue MCSerial   lock, handlers, one serial device
    Interrupts <- Keyboard => KeyQueue MCKeyboard the handler against kb_scan_code
    Interrupts <- Boot                 MCBoot     the order of kmain and kmain2
    Frames => FrameAllocator           MCFrames   bitmap and scan implement first fit
    Heap (over FrameAllocator) => Malloc  MCHeap  the entry list implements malloc/free
    FrameAllocator <- Proc             MCProc     proc_exec over frames and segments
    Lists <- Memfs, Dentries <- Vfs    MCVfs      mounts, walks, creation, open, close
    Files => ByteFile                  MCFiles    read, write and seek on one file
    SerialProofs, FramesProofs, HeapProofs, KeyboardProofs, FilesProofs,
    VfsProofs                      theorems about the module of that name
    TimeProofs                     theorems about Time and Sleep
    StartProofs                    theorems about Proc and Boot

(`A <- B` says that B EXTENDS A, `=>` is a refinement by INSTANCE ... WITH.)  `map` in
`PROJECT.json` gives the lines of each definition.  Definitions that a comment marks
*mutant* are plausible slips in the code, none of them part of a specification: for
every property of a passing run there is one with which that run finds the property
violated.

**Calendar, Rtc.**  `Calendar` is the Gregorian calendar that the MC146818 counts
in, its BCD, binary and 12 hour forms, and the bytes of its registers.  `Rtc` is the
chip: `reg`, seven registers; `mode`, register B; `upd`, the byte that an update in
progress has still to store in each of the registers that change; it has some exactly
while the update-in-progress flag is up.  The seconds are stored first.  `UpdateBegin` and `UpdateStore` are the chip's
steps.  They are external: they are what `rtc.c` and the comment `time.c:46-47`
assume of the chip.  The real chip raises its flag 244 microseconds before it changes a
register; the model does not count on that, so a load may start when the flag is
down and meet an update at once, which is what the double reading of `time_get` is for.

**Time.**  One step is one register access.  `pc` is the place in `time_get`
(`wait`, `read`, `century`, `compare`, `convert`) or `time_set` (`write`,
`wcentury`); `buf`, `tm`, `century` and `last` are the code's variables of these
names, `last` holding the six `last_*` copies and `last_century`.  `tm[6]` is the
`u32` year, which receives the sign extension of a `char`; a negative value stands
for the `u32` congruent to it.  `result`, `shown`, `loads`, `ticks0` and `setting`
are history.  What the code does to the interrupt flag is in, though no handler of
the kernel touches the clock.

**Sleep.**  `time_sleep` with one step per call of `time_get`, which is what Time
shows a call to be, per poll and per second.  Amounts of seconds are pairs
<<days, seconds>> because TLC's integers have 32 bits, and `Wrap32` is the `u32`
arithmetic of `get_seconds`.

**Interrupts.**  The operators `TakeInterrupt`, `LeaveInterrupt`, `lock`,
`unlock`, `pic_send_eoi` and `hw_hlt` that the modules of drivers use in their
actions.  The controller is edge triggered, as `pic_init` programs it.

**Serial.**  The UART (receive buffer, holding register, one interrupt line), the
handler in the steps `HandlerEnter`, `HandlerIdentify`, `HandlerFetch`,
`HandlerLeave`, and `serial_read` and `serial_write` step by step, preempted
wherever interrupts are enabled.  A handler cannot be preempted, so its step
`HandlerFetch` holds lock, store and unlock.  One device is modelled; the second line
(the keyboard's) stands for every other handler.  The exclusive open and
release of a tty are in Vfs, the order of `serial_init` is in Boot.

**Keyboard.**  The handler collects the bytes of a scan code in `partial` and
stores what is complete; `kb_scan_code` takes a byte out with interrupts enabled, so each
of its accesses of `kb_buf_head` and `kb_buf_count` is a step (`Take`, `Advance`, `Load`,
`Store`) between which the handler may run.  A byte of the buffer is a `char` and so
never equals 0xe0 or 0xe1 (`drivers/kb.c:95`): each call takes one byte.  `raced`
is history: a store of the handler fell between the thread's update of the head and its
update of the count, after which the buffer is out of step for good.  `cut` is history too: PRNTSCR was stored
in two parts.  The abstract `KeyQueue` is a bounded queue into which a chunk goes whole or not at all.

**Boot.**  `Program` is the list of what `kmain` and `kmain2` do that interrupts
can tell: what unlocks, loads the table, remaps, masks, installs, unmasks.  The devices
interrupt whenever they may; the state of the machine that the boot loader leaves is
chosen in `BootInit` (which lines are masked, which serial ports exist).  `hpc` is `hung` where
a vector without handler halts the CPU for good (`interrupts.c:62`) and `crash` while the
interrupt table in force is still the BIOS's.  After the program come the process, the
exit call and the idle loop.

**Frames.**  `mem_setup` is `Init`, from a memory map chosen in `Maps`.  A request
is `Call`, and each turn of the loop of `mem_allocate_frames` is one `Scan`, so that
the invariant of the loop is visible; `lock` keeps everything else out meanwhile,
which is why no other action is enabled then.  `AllocateStack`, `AllocateHeap`,
`AllocateUser` and `Release` are the four callers in the kernel, with the bounds they
pass.  `held` is history: the blocks handed out.  The code releases the memory of a
process twice (`proc.c:59-60`), which has no effect the second time.

**Heap.**  `kalloc` and `kfree` as one step each (the thread makes them, and no
handler does), over the list of entries in order.  `KallocFit` is a walk that finds
an entry, `KallocGrow` one that reaches the end and asks the physical allocator for
frames.  `kfree` takes any address: unknown and already free ones are ignored by the
code.  Units are the 16 bytes of a header.

**Proc.**  `proc_exec`, each call that it makes of another module a step.  The
frames are those of `FrameAllocator` and the segment table is `gdt.c`'s, `gdt_alloc` taking
the first slot that is all zero.  `memory` is what every byte holds, written in terms of the
offsets in the file, so that `LoadedRight` can say where each must go.  A `vfs_read`
returns any part of what is left, nothing at the end of the file, or an error.
`kmain2` calls `proc_exec` once.  It is written for any current process, and releases
what that one had; `Trap` lets the process ask for another exec, which no
system call of this repository does yet (external), so that this half is checked too.

**Lists, Memfs, Dentries, Vfs.**  `Lists` is `list.c` over sequences.  `Memfs` holds
operators over one filesystem in memory: its nodes, their directory entries, and the inode counter.
`Dentries` is the cache: a fixed array, `vfs_dentry_get` with its choice of a victim.
`Vfs` puts the calls over them.  A call is begun by `Call`; each component of its
path is a step (`Walk`) and the part of the call after the walk is another
(`CreateNode`, `Stat`, `Open`, `Mount`).  `room`, in each step, is how many of the
step's allocations succeed, in the order in which the code makes them: this is
how each failure half way comes about.  Calls that fail without changing anything
are no step.  After the code has followed a null or freed pointer (`wild`) nothing more is
modelled.  `accidents` is history: it records six things that the code has no
defence against, each of which breaks some of the properties and is described in section 5:
an entry in use was *evicted*, a failed mount *dropped* an entry that existed before it, a mount
*covered* a directory with cached children, a failure *freed* an object that
stays in a list, a failed mount *killed* its filesystem, a mount on what is no
directory *leaked* its vnode.  The properties say how
far each of them reaches.  The registry of devices is the set of numbers registered,
and `dev_register_char_dev` a call whose last part creates the node, and which is
undone when that fails.

**Files, ByteFile.**  What is behind an open file: `vfs_read`, `vfs_write`,
`vfs_lseek`, `memfs_file_read` and `memfs_file_write` on one node, and `/dev/zero` and
`/dev/null`.  Offsets and sizes are words (`Word` is 2^32 in the code), and sums wrap.
`v_size` is the vnode's copy of the size.  `broken` records the call that copied
outside a block or followed a null pointer.  `memfs_node_alloc` never sets the size of a new
node, so `Init` takes any of `NewSizes`.  Opening and closing are as Vfs shows them.

## 3. What is checked

### Runs that pass

| Run | Instance | Shows |
|---|---|---|
| `time_24h` | eight boots in BCD and binary at the carries of every register (New Year, February 28 of a leap year, noon, within a minute) and, binary, the two turns of century 1999 and 2099; two updates; two settings | `GetReturnsShownTime`, `FewLoads`, `SetStoresTime`, `CallsReturn` |
| `sleep_ordinary` | three seconds to midnight on every day of a leap year and the next that is not the last of its month of 31 days or of February; 0, 1, 5 seconds; and the call of `kernel.c:163` | `SleepsExactly` |
| `serial_ring` | ring of three slots, two bytes in the UART, four bytes received, two values, reads of 1 and 3 | `TypeOK`, `HandlersUninterrupted`, `CriticalSectionAlone`, `ImplementsQueue`, `InterruptsServed` |
| `frames_blocks` | up to 12 frames of 4 bytes, heap from 2 to 6, processes from 7; seven memory maps, one with a gap; requests of 1 to 3 | `TypeOK`, `HeldDisjoint`, `UsedIsHeld`, `KernelKept`, `HandsOutMemory`, `ImplementsAllocator` |
| `heap_blocks` | six frames of four units, three of them for the heap; requests of 0, 20, 48, 70 bytes | `Tiles`, `NoFreeNeighbours`, `ImplementsMalloc` |
| `vfs_cache` | four cache entries, "/" and a filesystem mounted below it, one tty, two open files, 4 nodes a filesystem; thirteen calls; 0, 1, 3 or 9 allocations left in each step | `StaysInC`, `MountsKept`, `CacheCoherent`, `NamesUnique`, `VnodesCounted`, `FilesListed`, `DeviceExclusive`, `DevicesHaveNodes`, `FindsNamed` |
| `files_bytes` | words of 0 to 4, blocks of up to three bytes, two handles, a new node's size 0 or 2 | `InBounds`, `SizeCopied`, `ImplementsByteFile` |
| `keyboard_keys` | a buffer of four bytes; a plain code, one with prefix e0, the four bytes of PRNTSCR and the six of PAUSE | `TypeOK`, `PrefixKept`, `QueueUnlessRaced` |
| `proc_exec` | nine frames of two bytes, one of them reserved or none; six binaries, three of them shorter than their header says; tables of 5, 7 and 8 segments | `SegmentsHoldFrames`, `LoadedRight`, `FailureHarmless`, `ExecEnds` |
| `boot_order` | the timer, the keyboard, two serial lines, any of the devices present; a BIOS that leaves timer and keyboard unmasked, or nothing | `HandlersInPlace`, `InterruptsServed` |

`TypeOK` is a conjunct of the first property of a row where it is not named itself (of
`GetReturnsShownTime`, `SleepsExactly`, `Tiles`, `StaysInC`, `InBounds`,
`SegmentsHoldFrames`, `HandlersInPlace`).

Why these bounds are enough.  *Clock*: an update is at most seven stores, and a
`time_get` makes two loads when nothing happens and two more per update that meets
it; with two updates there are torn first loads, torn second loads and torn
comparisons, and a third would start the same loop afresh.  *Serial*: four bytes
into a ring that can hold two overflow it, wrap both heads and leave a
full ring to be read; two values are enough to see a reordering.  *Keyboard*: a code of
two bytes meets the buffer with room for two, one or none, the head wraps, and PAUSE
is longer than what `partial` collects.  *Frames*: requests of three frames
in a user space of five make every broken run; maps begin and end inside frames,
have a reserved region across the boundary of the two spaces, regions that adjoin inside
a frame, a gap, too little memory for the bitmap, and less than the kernel's part.  *Heap*: the four sizes make an empty
block, a block that fits exactly, one with a unit to spare, one split off with a
rest, and one that needs a second frame; the frames admit two growths, so both
"found" and "grown" and "refused" occur, and every order of frees follows.  *Vfs*:
with the root, the mountpoint, the tty and the file the four entries are full, and a
fifth name evicts; 0, 1 and 3 allocations end the steps at their different places,
9 are enough for any step.  *Files*: offset and count wrap from every position.
*Proc*: the tables give no segment, both but no third, and the four that
a second exec needs; images take from two to
six of the seven frames of user space, so that a new one fits beside the old or does
not, or is kept out by the reserved frame.

Deadlock is checked where the system may not stop (Time, Serial, Heap, Keyboard, Proc,
Boot).  It is off in Frames, where `panic` stops the kernel, in Sleep, whose behaviours
end when the call returns, and in Vfs and Files, which stop where the code derails
or a bound is reached.

### Runs that end in a violation

Each shows a place where the code does not do what its documentation says; the
lines are quoted in the `findings` of `PROJECT.json`.

| Run | Property | What happens |
|---|---|---|
| `serial_wakeup` | `RingDataEndsWait` | the byte comes between the test and `hlt`; the reader sleeps on a ring with data |
| `vfs_evict` | `EvictionHarmless` | the entry of a directory is evicted and its place given to another name; the children, which point to the place, are then found under the new name, and a walk ends at the wrong file |

### Fairness

`Time`: weak fairness of the step in a call (the CPU goes on executing) and of
`ChipStore` (an update once begun ends; the oscillator runs by itself).  Nothing
makes the kernel call or the chip tick.  `Serial`: weak fairness of the thread, of a
handler's steps and of the transmitter; strong fairness of taking each latched
request, because the CPU looks at its interrupt input between any two instructions while IF
is set, and a request that finds IF set again and again is taken.  `Boot`: weak
fairness of the handlers, strong fairness of taking each request, as above, and of the
thread: handlers interrupt it again and again, but the devices are slower than their
handlers, so between two interrupts it gets on.  `Proc`: weak fairness of the steps
of `proc_exec`; not of a read's failing, nor of any call.
`Frames`, `Heap`, `Sleep`, `Keyboard`, `Vfs` and `Files` are checked for safety only.

## 4. What is proved

Each theorem holds for every value of the constants that satisfies the assumptions named
with it; the assumptions are checked by TLC on each run.  Each `*Proofs` module ends in the
theorems about the properties of its runs and has, before them, an inductive
invariant (`InitInv`, `NextInv`, `Invariance`) with one lemma or step per action.

**SerialProofs**: `TypeCorrect`, `Uninterrupted`, `MutualExclusion`, `Refinement`,
for every size of the ring of two slots or more, every set of bytes, and any bounds.
From `SerialAssumption`.  The inductive invariant `IInv` adds to `TypeOK` the
relation between the places of handler and thread and the flags (`LockInv`: a
handler runs with interrupts off and the flag set and one request in service; the
thread between lock and unlock has interrupts off and no handler above it; otherwise
they are on) and that the handler at `fetch` has a byte to fetch (`FetchInv`).
The two critical sections exclude each other only together: neither property is
inductive without the other, since `unlock` consults the handler's flag.  The
refinement rests on the lemmas of how moving one head changes the contents of the
ring as a sequence.

**FramesProofs**: `TypeCorrect`, `Disjointness`, `NoLeak`, `ReservedKept`,
`KernelSafe`, `MemoryHandedOut`, `Refinement`, for every number of frames, frame size,
placement of the kernel and memory map, from `FramesAssumption` and `MapsAssumption`.
`IInv` adds to the properties the invariant of the loop (`ScanOK`: the last `free_f` frames
are free, and every earlier place for a block contains a frame that is not), the range
of requests (`RequestOK`), that blocks lie within the memory counted, and that
what `mem_setup` reserved is still reserved (`SetupKept`).  `MemoryHandedOut` follows since the
frame of an address in a region that is not available is one of those reserved.
`Refinement` maps every turn of the loop that does not find a block to a stutter, the last to
the allocation.  `ReservedKept` states `ReservedForever`, which no run checks: what
`mem_setup` reserved stays reserved.

**HeapProofs**: `Tiling`, `FreeJoined`, `Refinement`, for every size of frames and of headers,
every set of requests, from `HeapAssumption` and `NoHole` (no reserved frame in the middle of
the heap, the demand of `drivers/mem.c:18-19`).  The invariant says where each entry begins,
that the last ends where the frames taken end, that free neighbours do not occur and that the
blocks of `Malloc` are the entries in use.  What the code does to the list, insertion, removal
and a change in place, is described by three lemmas element by element; that an entry found
is one of a least index, and that addresses grow along the list, use a least-element lemma
of natural numbers in place of induction.

**KeyboardProofs**: `TypeCorrect`, `PrefixesKept`, `Refinement`, for every length of the buffer
and every set of scan codes of the four shapes that the handler waits for, from
`KeyboardAssumption` and `ScanCodes`.  `IInv` adds that a handler about to fetch finds a byte
(`LineInv`), that `kb_scan_code` between its accesses still has a byte and, unless raced, the
count that it loaded (`CountInv`), and what part of which code has been collected and what
part is on the wire (`WireInv`), without which no prefix could be matched with its byte.

**FilesProofs**: `CopiesInBounds`, `VnodeSize`, `Refinement`, for every word and limit of size,
any number of handles, and all texts, from `FilesAssumption`.  `IInv` adds to the two properties that a
node's size is the length of its block or the block is empty (`NodeInv`).  Each step either goes astray
for one of the reasons that `InBounds` names or is one of a few shapes, which the lemmas
map to the operations of the array of bytes.

**StartProofs**: of Proc, `SegmentsOwnFrames`, `StartsRight`, `FailsClean`, for every frame size,
number of frames, size of the segment table, header and set of binaries, files cut short
included, from `ProcAssumption`.  `IInv` has the slots of the table that are taken
(`GdtInv`) and the frames in use (`FrameInv`) as those of the process and of the call, apart from
each other; that without the call's they are as they were before it (`BeforeInv`),
which is what a failure restores; and how much of the file is in its place (`LoadInv`), for which
the arithmetic of frames and addresses is collected in `PlaceLemma`.  `ExecShortens` says that each
step of a call leaves fewer before it, from a number that the header bounds (`ToGo`): this
is `ExecEnds` but for the fairness that makes the call take its steps.  Of Boot,
`NoInterruptLost`, for all devices present and every set of lines that the BIOS left masked, from
`BootAssumption`.  `BootInv` lists what is in place by each position of the program and that
a line rises only if its device is there; the theorem is that no position unmasks
a line that has no handler.

**VfsProofs**: `CountsFiles`, `ListsFiles`, `TtyExclusive`, `DevicesReachable`, `MountpointsStay`,
`NeverWild`, `CacheTrue`, `NamesApart`, `PathsFound`, for every size of the cache, all names, devices,
open files and calls, and memory that runs out anywhere, from `VfsAssumption` and
`CallsAssumption` (the calls name each filesystem with its own device).  The invariant has two
layers.  `Core` holds whatever happens: types, well-formed filesystems (`FsInv`), the call in progress
(`CallInv`), the shape of the cache while the code is not derailed (`CacheInv`), counts, files
and devices.  `Settled` holds barring the accidents (`Calm`): the code is not
derailed, the entries of the cache are the directory entries of the filesystems one for one
(`TreeInv`), and a filesystem whose type is registered is there (`RegisteredInv`).
That creation may ask the cache alone whether a name exists is the fourth part of `TreeInv`: nothing
is forgotten while nothing is evicted.  `PathsFound` needs a third, `Named`: the walk is where
the part of the path that it has consumed leads; a path is followed by a function from the
number of names to nodes, since recursion over a path is out of the prover's reach.

**TimeProofs**: `ReturnsShownTime`, `StoresTime`, from `RtcAssumption` and `TimeAssumption`
(24 hour mode, real or imaginary instants with fields in their ranges, fewer than 60 updates in a
behaviour), and `LoadsBounded`, which also needs `YearsReadable` (a BCD year below 80,
section 5).  `IInv` says of the chip that its registers are codes of fields in their
ranges, and what an update has yet to store too (`ChipInv`); of the code what its
variables hold at each place (`CodeInv`); of `time_set` how much is written (`StoreInv`); and of
`time_get`, that an update in progress from the first load on has just begun or had nothing
but zero to store in the seconds (`UpdateInv`), and, of what has been loaded so far, when it was in
the registers (`ReadInv`).  The argument: an update moves the seconds in one store, and fewer than
60 bring none back, so equal seconds in two loads mean that no store of the seconds fell between the two.
If they are not zero, no register but the seconds was about to change, and the registers stayed
as the first load read them.  If they are zero, a carry may have been under way during the first load,
but the wait of the second saw it finished, and the next is a minute away.  In both cases the loads agree on
the registers at the wait of the second.  `LoadsBounded` adds
to the invariant that a byte of the year is never negative (`YearInv`) and how many
updates the loads so far have cost (`CountInv`).

Of Sleep, `ReturnsOnTime`: `SleepsExactly` for every argument and instant with `OrdinaryCall`, from
`SleepAssumption`.  Such a call is made at a date of the calendar (`IsDate`); it is over before midnight,
or within a day of an evening after which the calendar moves on as months of 30 days do
(`Quiet`); and the sum stays below 2^32 to its end (`Unwrapped`).  Each part is
needed: section 5 says what happens without it.  TLC confirms by an `ASSUME` of MCSleep that the calls of
`sleep_ordinary` are of this kind.  The invariant `SleepInv` is that the count of the clock and what is left of
the sleep add up to `seconds_end`, and that what is left is again quiet; the argument,
that one second more on the clock is one second more in `get_seconds`, over a minute, an hour and a midnight.
The pairs of days and seconds stand for the seconds they amount to, and `Wrap32` leaves alone what is below 2^32.

Model-checked only.  Liveness (`CallsReturn`, `InterruptsServed`, `ExecEnds` and the
refuted one), which needs fairness and is beyond the prover.  Of the first and the third the
safety half is proved: `LoadsBounded` bounds the loads of a `time_get`, `ExecShortens` the steps of a `proc_exec`.

## 5. Known deviations and what is left out

### Where the code does not do what one would expect

The properties above are stated so as to hold of the code as it is, each with the
exception it needs; these are the exceptions, and what was met besides.

Clock.  In 12 hour mode 12:30 PM is read as 0:30 (`time.c:81`), so the boots are in 24 hour
mode.  A BCD year of 80 or more is a negative `char` that never equals its `u8`
copy, and `time_get` loops for ever (`time.c:64`).  An update that meets the writes of
`time_set` leaves a mixture on the clock (`time.c:112`).  `get_seconds` has months of
30 days and years of 365 (`time.c:120`): a sleep over New Year or over the end of
February ends early, one over the end of a month of 31 days ends a day late, and the sum
wraps on 24 October 2042.

Interrupts.  The controller is edge triggered and the serial handler takes one byte per
interrupt (`drivers/serial.c:292`): with a second byte in the UART the line stays up, no
other edge comes, and `InterruptsServed` speaks only of requests that
were latched.  A vector without handler halts with interrupts disabled, for good
(`interrupts.c:62`).  The first `unlock`, in `mem_allocate_frames` for the stack
(`kernel.c:45`), enables interrupts before the table is loaded and before the lines are
masked: the exception `Early` of `HandlersInPlace`.  The result of `kb_init` is not looked
at and the line unmasked all the same (`kernel.c:103`): the exception `nomem`.
Interrupts are long enabled at `hw_sti` (`kernel.c:114`).  A process runs with the `eflags`
of `proc.c:78`, that is with interrupts disabled as long as it runs, though `proc.asm:8`
says that iret will reactivate them; and the exit call halts in its handler.

Keyboard.  A handler that stores between the two updates of `kb_scan_code` has its count
overwritten (`drivers/kb.c:125`): the exception `raced`.  The comparison of a signed `char` with
0xe0 (`drivers/kb.c:95`) makes every code come out a byte at
a time, though `include/kb.h:21` promises the next complete one.  The handler never waits for
a fourth byte: PRNTSCR is stored after its third, which is the prefix of the fourth, and the fourth
later as if it were a code (`drivers/kb.c:59-71`): the exception `cut`.  When the buffer is nearly full, what
was collected of PAUSE is dropped and the rest of it, which comes as further codes, may be
stored (`drivers/kb.c:72`).

Memory.  Addresses between the regions of the memory map are counted as memory and not
reserved (`drivers/mem.c:134`): `HandsOutMemory` speaks of maps without gaps.  Both stack frames are computed from the
same top (`include/mem.h:54`, `:58`), so `kmain`, which asks for frame 766, gets 767.

Filesystems.  When the cache is full, an entry whose children are in use, or the new
entry's own parent, is a victim like any other (`vfs.c:286-309`): "evicted".  A failed
mount clears the entry of its mountpoint, which existed before (`vfs.c:989-1013`): "dropped".
A mount on a directory with cached children leaves them reachable under the mounted
root (`vfs.c:1031`): "covered".  Opening a node that is neither file, directory nor
character device frees a file that is already in the list (`vfs.c:620-623`), and
`vfs_fs_type_alloc` does the same to a type, whose removal compares the wrong key
(`vfs.c:103`, `:119`): "freed".  A first mount of a memfs that fails kills its superblock
twice and leaves its type registered (`vfs.c:1023-1024`): "killed".  Mounting a device that
has no memfs follows a null `sb_fs_type` (`vfs.c:214`); the calls of the instance name each
filesystem with its own device, as the kernel's do, so that only "killed" leads there.  A mount never releases the vnode of its
mountpoint (`vfs.c:965`), which is why `VnodesCounted` lets a directory be counted higher;
it is not even released when it turns out to be no directory (`vfs.c:969-975`), so that a
tty that was taken for a mountpoint can never be freed: "leaked".
An open that may create takes every failure of the lookup for absence (`vfs.c:1107`);
creation asks the cache alone whether a name exists (`vfs.c:741`), and
`NamesUnique` shows that this does no harm, barring the accidents.
`memfs_dentry_alloc` gives a name `sizeof(name) + 1` bytes, that is five, whatever its
length (`fs/memfs.c:67`); names are atoms here, so this is out of the model.

Files.  A new node's size is what `kalloc` left in the block (`fs/memfs.c:105-128`), an offset
and a count may wrap together (`fs/memfs.c:226`, `:247`), and a directory has no read but is
read all the same (`vfs.c:1174`): the exceptions of `InBounds`.  The size in the vnode is not
that of the node once a write has grown it (`fs/memfs.c:371`): `SizeCopied` speaks of the time before.
`/dev/zero` delivers the character `*` (`drivers/mem.c:434`).

Processes.  The limits passed to `gdt_alloc` count frames where the descriptor, with a
granularity of a frame, wants one less (`proc.c:167-193`): each segment covers a frame more
than the process owns.  The model gives a segment the frames that `gdt_get` would release.

### Not modelled

- Timer, strings, framebuffer, boot loader, image tools, user programs: no state that
  the kernel's own logic depends on, straight-line code, or host tools.
- `rtc_open`'s flag check, `rtc_init`, the unused NMI functions and `time_show`.
- Detection of UARTs, line settings, minor numbers, `ioctl`; the interrupt causes "line
  status" and "modem status", which the driver acknowledges without keeping
  anything; COM3 and COM4, which share the lines of the first two.
- Priorities among interrupt lines: one level stands for all.
- `vfs_sb_unmount`, which nothing calls and which refuses whatever it is given;
  `memfs_file_readdir`, `memfs_sb_write_vnode`, `memfs_sb_unmount`, which have no caller.
- Permissions beyond the test of `vfs_open`, and flags of filesystems: the two
  filesystems allow everything.
- The overflow of `(units + 1) * 16` in `kalloc` for requests near 2^32 bytes: no
  caller makes one.  The heap's frames are taken to have no reserved frame in their middle
  (`NoHole`), as `drivers/mem.c:18-19` demands.

## 6. Plan

The plan is carried out: each invariant and each action property of the passing runs, and each
refinement, is also a theorem; what the runs check beyond that is liveness.  The next
extensions would be the parts that section 5 lists as left out: the interrupt causes
that the serial driver only acknowledges, its `ioctl` and line settings, and the two ports that
share a line.
