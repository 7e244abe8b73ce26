# ButterflyOS in TLA+

TLA+ models of the kernel in `src/sources`, checked with TLC and, for the
keyboard driver, the heap, PCI, the EHCI transfers, mass storage, the list of USB
devices, the AHCI port, the drives and their cache, proved with TLAPS. Paths below are relative to
`src/sources`; line numbers are those of the files as they stand.

ButterflyOS is a small 32-bit kernel: it boots, sets up the interrupt
controller and a timer, a keyboard driver, a heap, PCI, USB (EHCI, hubs, mass
storage), ATA and AHCI disks and a block cache, and then runs one endless main
loop that prints keys and polls USB. There is no scheduler and there are no
processes. What runs at the same time as the main loop is the interrupt
handlers, the host controllers with their DMA, and the devices.

## 1. The system's parts

| Component | State | Operations | Talks to |
|---|---|---|---|
| Keyboard (`input/`, `interrupts.cpp`, `kernel.cpp`) | the ring `keys_queue` (`queue`, `length`, `head`, `tail`); `shift`, `last_code`, `pressed_keys`, `last_press` | `keyboard_handle`, `pit_timer`, `KeyQueue::insert`, `KeyQueue::get`, the main loop | handlers write, the main loop reads, no lock |
| Heap (`memory/tlsf.c`, `memory/memory.cpp`) | boundary tags in the pool, the matrix of free lists, two levels of bitmaps | `malloc`, `free`, `realloc`, `init_memory` | every other component, never a handler |
| EHCI (`usb/ehci.cpp`, `link.h`) | pools of transfer descriptors (32) and queue heads (8), the asynchronous ring, overlays written by the controller, toggles of endpoints | control and bulk transfers, the polling wait, retirement | shared memory with the controller; `time1024` for the timeout |
| Mass storage (`storage/msd.cpp`) | the shared command buffer `cbw`, `tag`, `bytesPerBlock` | initialisation per unit, `read`, `write`, sense, clear halt | `hcIntr` and `hcControl` of EHCI; the device |
| USB devices (`usb/usbd.cpp`, `usb/hub.cpp`, ports in `usb/ehci.cpp`) | the list of devices, addresses, parents and ports, parsed descriptors | `UsbDevInit`, `UsbPoll`, probe and poll of ports and of hubs, disconnect | EHCI, mass storage, heap |
| Storage cache (`storage/storage.cpp`, `std/map.h`) | a red-black map from LBA to cached blocks, a list of them | `disk_storage::read`, `write`, `cleanup`, `storage_add` | the four kinds of disk |
| Red-black tree (`std/trees.cpp`) | nodes, root, size | `insert`, `remove`, `find`, iterator | map, cache |
| Logical drives (`storage/drives.cpp`) | table of names, offset and length of each drive | add, remove, read, write | storage |
| AHCI (`storage/ahci.cpp`) | command list, command tables, port registers | find a slot, build the PRDT, issue, wait | controller by DMA |
| ATA (`storage/ata.cpp`) | task file registers | identify, LBA28 and LBA48 transfers | device registers |
| Console (`video.cpp`) | cursor, attribute, screen | print, scroll | everyone but the handlers |
| Formatting (`string.cpp`) | none | `vsprintf`, `btoa`, `str_fmt` | `printf`, `log_debug` |
| Time (`interrupts.cpp`, `ports.cpp`) | `time`, `time1024` | `pit_timer`, `rtc_time`, `Wait` | every timeout |
| PCI (`PCI.cpp`) | configuration space, the list of EHCI controllers | bus scan, sizing of BARs | EHCI and AHCI drivers, found by class; firmware |

### What is hard here

* **Interleaving.** The build is `-O0`; `length--` in `KeyQueue::get` is a load
  and a store that a handler can separate. `get` itself reads a slot, moves
  `head` and decrements in separate steps.
* **A concurrent reader and writer of descriptors.** The EHCI controller writes
  `token` and `nextLink` of a queue head while `ehci_process_qh` reads them
  one after the other; it may also hold a queue head that the driver has
  already reused, since no doorbell is rung.
* **Timeouts.** A transfer given up after 4000 ticks stays on the schedule and
  may complete later, into a buffer with other contents by then.
* **The world outside.** Devices come and go between any two reads of a port,
  while a hub is probed inside the initialisation of the hub's own device, and
  while `UsbPoll` walks the list that its poll routines change.
* **Failure in the middle of a protocol.** Mass storage keeps a command, data
  and status phase and two data toggles in step with a device that may stall,
  not answer, or not be ready. Most results are not looked at.
* **Long sequences.** Fragmentation of the heap; splits, merges and
  reallocations that must keep tags, lists and bitmaps in agreement.
* **Limits.** Rings, pools, size classes and rounding at their boundaries.
* **What devices say.** Descriptors are parsed as they come; pointers are set
  only by the descriptors that are there.
* **Sharing with the firmware.** The firmware may run a controller until it
  gives it away, in its own time.
* **Start-up.** `___main` runs no constructors (`caller.asm`), so initialisers
  of members of global objects never happen.

### What makes each part correct

* Keyboard: keys arrive once and in order; the counter agrees with the ring;
  an accepted key is fetched; only a key that is down repeats.
* Heap: regions in use are disjoint, long enough and keep their data; tags,
  lists and bitmaps agree; memory is found if it is there.
* EHCI: the ring the controller follows is the one the driver keeps; no
  descriptor belongs to two transfers; nothing is lost from the pools; success
  means done; toggles agree; every call returns.
* Mass storage: device and driver stay in step; success means that the device
  sent a status for it; initialisation ends.
* USB devices: a disconnect removes exactly the subtree that left; addresses of
  present devices differ and fit seven bits; parsing ends and yields the
  interfaces and endpoints of the descriptor.
* Cache and drives: a read returns what was last written, whatever the cache
  holds; the table leads to every drive that was added.
* Tree: it stays a balanced search tree with exactly the inserted keys, and is
  walked in order.
* AHCI, ATA: the command asks for the sectors that its buffers describe; an
  error ends the wait and the next command works.
* Console: the screen shows the end of the text that was printed; a number is
  printed as one that reads back as it.
* PCI: every device is found, its registers stay where they were, and a
  controller runs for the kernel only once the firmware gave it away.
* Time: a reader never sees a time that never was.

## 2. Plan

1. `Keyboard`, `KeyboardProofs` — **done**
2. `Heap` (abstract), `TlsfMapping`, `Tlsf`, `TlsfProofs` — **done**
3. `Ehci`, `EhciProofs` — transfers **done**; the ports are in step 5
4. `Msd`, `MsdProofs` — **done**
5. `UsbTopology`, `UsbTopologyProofs`: the list of devices, hubs and ports, connect and disconnect
   seen by `UsbPoll` — **done**
6. `UsbConfig`: the requests of `UsbDevInit` and the walk over configuration
   descriptors, with malformed ones — **done**, proofs in `UsbConfigProofs`
7. `DiskStorage` with its cache, `Drives` above it, `StorageProofs` — **done**; `storages[]` as
   state, filled on hot plug, is left
8. `OrderedSet` (abstract), `RbTree` — **done**
9. `Ahci`, its proofs also in `StorageProofs` — **done**; `Ata` is dropped (section 7)
10. `Text`, `Console`, `Pci`, `PciProofs` — **done**; `Clock`, the 64-bit counter against
    its handler, is dropped (section 7)

Theorems: the safety properties of the runs `keyboard`, `ehci`, `msd` and `ahci`, of `Pci`
and of the drives and their cache, of `UsbTopology` that the list stays
whole, addresses differ and the list agrees with the ports, of `UsbConfig` that no
unset pointer is followed and ordinary devices are served, and of `Tlsf` that its tags
and lists are right, its size classes fit and that it implements `Heap` (**done**).

Modules keep parameters as `CONSTANTS` with named assumptions and use
recursive functions rather than `RECURSIVE` operators, so that each can have a
proof module beside it.

## 3. Modules

### Keyboard

Interrupt gates keep interrupts off in a handler, so each handler is one
action: `Make` and `Break` (`keyboard_handle`), `PitTimer`. The main loop is one
action per access to shared memory: `GetEmpty`/`GetCheck`, `GetRead`,
`GetAdvance`, `DecLoad`, `DecStore`, `Use`. `backlog` (keys accepted, not yet
fetched) and `lost` (increments overwritten by the store) are ghosts; `held` is
the keyboard. `since` is `time - last_press` as far as the timer's test looks
at it, so the timer needs no bound. `TailInit` is the value of `tail` at boot: -1 as written in the
class, 0 as the build leaves it. The LEDs, the controller's acknowledgement and
the printing of a key touch none of this state.

### Heap, TlsfMapping, Tlsf

`Heap` is what callers expect: pointers to disjoint regions of a pool.
`TlsfMapping` is the arithmetic of sizes and classes, in words of `WordMod`.
`Tlsf` has the heap as one value: `hdr` (the boundary tags at each address),
`matrix`, `sl` and `fl` (the bitmaps as sets). `Malloc`, `Free` and `Realloc`
are one action each since nothing else allocates during them; each is the whole
of `malloc_ex`, `free_ex`, `realloc_ex`. A header left inside a payload by a
merge becomes `Blank`: reading it would show as a TLC error. `ImplementsHeap`
states the refinement with the ghost `live` as the mapping.

`TlsfAssumption` keeps to machines and callers within the range of the lists
(`LargestSize`, 1 GB): the code checks neither the memory it found
(`memory.cpp:25`) nor the size of a request. `MappingAssumption` has what the
arithmetic needs of the constants of `tlsf.c:132-148`: powers of two, and lists for
small blocks that are no further apart than blocks are aligned.

Not modelled: `calloc`, `add_new_area`, `destroy_memory_pool` and the
`tlsf_*` entry points, which nothing calls; that `init_memory_pool` keeps an
old heap if its signature survived a warm restart.

### Ehci

The driver performs one transfer at a time: `DeviceControl(n)` or
`DevInterface(e)` take descriptors and a queue head (`Prepare`) or run out
(`Starve`, or `wild` for a null queue head); then `InitToken`, `InsertAsyncQh`,
and the wait: `WaitTest`, the three reads `ReadHalted`, `ReadLink`,
`ReadActive`, `Retire`, `Leave`. `Tick` is `time1024` advancing. The controller
interleaves with all of it: `HcMove` follows the horizontal links, `HcFetch`
loads a descriptor, `HcRetire` completes it, `HcHalt` stalls. A device that
never answers is a controller that does not step. `toggle` is the driver's data
toggle, `devToggle` the device's. No caller passes `w = 0`, so the periodic
schedule stays empty and is left out.

`pc = "wild"` stands for the read through a null queue head at
`ehci.cpp:341`. What happens then is up to what lies at address 0; the
model stops there, which is why deadlock is not checked.

### Msd

One action per request to the host controller: `Reset`, `ClearHalt`,
`SendCommand`, `MoveData`, `ReadStatus`. `rt` is the routine of `msd.cpp` that
runs and `st` the transfer it is at; `NextAfter` is the control flow of
`usb_storage_init`; `Call` is a caller of `read` or `write` afterwards. Outcomes
of a transfer (`HcOut`, `HcIn`) are those that module `Ehci` exhibits: success,
a halt, success reported as failure at the deadline, or a transfer given up
that stays on the schedule (`stuck`) and is completed by `Late` when the device
lets it. When `MaxStuck` transfers are held there, no queue head is left and the
driver goes on with a null pointer (`wild`), as in `Ehci`. The buffer `cbw` is
shared by commands and statuses, as in the code: `test_unit_ready` does not
clear it and so repeats the previous command, and statuses overwrite its first
13 bytes. `bytesPerBlock` starts as whatever `malloc` left (`Garbage`).

The device is external. It follows the bulk-only transport: it halts on what is
not a command, ends a command early or with an error if host and command
disagree on the length, and drops a packet whose toggle it has seen already.
The tag is left out because the driver never compares it. `Command` puts the
count of blocks in the command cut to one byte (`% CountMod`, for
`(count & 0xFF) << 8` at `msd.cpp:348`, `:414`), while the driver goes on to move as
many as it was asked for.

### UsbTopology

The kernel is one thread, so its position is a stack of port loops (`stack`):
the root ports (`ehci_probe_ports`, `ehci_controller_poll`) or the ports of a
hub (`UsbHubProbe`, `UsbHubPoll`), where a probe runs inside the initialisation
of the hub. One action is one access to a port register or one request; `st` of
the top loop is the next one. `Look`, `RootGone`/`HubGone`, `RootCame`/`HubCame`
and `HubCheck` are the polls, `RootReset` to `FinalStatus` the two
`...ResetPort` routines, `GetDescriptor` to `InitFails` are `UsbDevInit`. `main`
and `cursor` are `UsbPoll`: its round over the ports and its walk over the list.

The list is modelled as memory: `head`, `next`, and the set `live` of cells that
are allocated. `Freed` and `After` say what `free` leaves in a cell: its first two
words may be overwritten by links of the allocator, and `next` is the second, so
`UsbPoll`, which reads `next` from an entry that its own poll routine may have
freed (`usbd.cpp:343`), goes on, ends, or reads a pointer to something else
(`main = "wild"`, where the model stops). `Malloc` may hand out any free cell
that a variable still points to, or one of the others, which are all alike.

Two facts of the hardware matter. The change bits of root ports are cleared by
writing ones: `ehci_port_clear_bit` (`ehci.cpp:640`) writes a zero and clears
nothing, while `ehci_port_set_bit` writes back what it read and so clears them
by accident (`RootReset`). And a hub forgets the state of its ports when it is
reset. `Plug` and `Unplug` happen at any moment.

`fresh`, `lost` and `used` are ghosts that say what the driver could know:
`fresh` is set by an event and reset when the driver reads the port, `lost`
collects the ports where the hardware hides an event from any driver that
works this way (a second event before the first was seen, an arrival during the
reset of a root port, an arrival that was acknowledged but not followed by a
reset, what is below a hub that goes), and those whose device got no memory.

Addresses are taken from a counter that nothing limits (`usbd.cpp:146`), and the
field they go into, in a queue head and in SET_ADDRESS alike, has seven bits
(`ehci.cpp:221-226`, `ehci.h:225`). `nextAddr` and the `addr` of an entry are the
driver's numbers; a device answers at the `Field` of them, modulo `AddrMod`.
Once a number is `Wide`, its upper bits fall into the I bit and the endpoint
number, so a request to it reaches the device with the same field, another one
included, or fails: `FailsIf` and `Unanswered` allow both.

Left out: the content of descriptors (module `UsbConfig`), the start of a
disk (module `Msd`), the hub's own structure (one more `malloc`, unchecked at
`hub.cpp:287`), and hubs behind hubs.

### Ahci

One port. `ClearSt` to `SetSt` are `port_rebase` with `stop_cmd` and `start_cmd`;
`Begin` to `CheckAgain` are `ahci_read_sectors`, `ahci_write_sectors` and
`AHCI_identify`, which are the same steps with other commands, one action per
register access (`Build` writes a header and a table that the controller does
not look at, which `PendingUntouched` checks). `Allowed` is the order of
`ahci_probe_port`: a read of 16 sectors, an identification whose result is
ignored, and calls afterwards if the read was done. The controller is external:
CR follows ST and FR follows FRE in its own time, whatever state the firmware
left them in; a command runs to its end or halts the port, with or without
a task file error, until ST is cleared, which the driver never does again.
PxSACT stays 0, since no command is queued in the drive.

### UsbConfig

`UsbDevInit` for one device, one action per request and per descriptor parsed:
`Identify` (the first eight bytes, the address, the whole descriptor),
`Strings`, `ReadConf`, `ParseIntf`, `ParseEndp`, `ParseOther`, `SetConf`,
`StartDrivers`. `UsbTopology` has the same function as a few steps among the
rest of enumeration; here is what it builds: `intfs` and `endps` are the lists
that hang from the device, in the order they were parsed, with `next` as the
code links it. `pickedIntfDesc` and `pickedEndpDesc` are the last of each. The
device is external and says anything: `Devices` enumerates what. `undefined` is
where the code goes on from a pointer that is null or was never set, or writes
past a buffer; `Starves` is the request of a device with a packet size of 0,
which `Ehci` has as a transfer of more packets than there are descriptors.

### OrderedSet, RbTree

`OrderedSet` is what `trees.h` promises. In `RbTree` each turn of the loops of
`rb_tree_insert_node`, `rb_tree_remove_with_cb` and `rb_tree_dealloc` is one action
and `call` holds the locals between two turns; `rb_tree_find` and the iterator
are one action each. `Rotate` and the operators on it return the memory after
the C function. Calls do not overlap, as no handler uses a tree. `leaked` and
`drift` are ghosts for two things the code does on purpose or by accident: a
node made for a present value is neither linked nor freed, and `size` counts
insertions and removals whether or not they changed anything.
`ImplementsSet` is the refinement: the set is what hangs below the false root
or the root, through every intermediate turn.

### DiskStorage, Drives

A map is a set of pairs, each with the address `malloc` gave it, since the
comparison that the cache installs subtracts addresses of pairs (`map.h:27-32`);
`Read` and `Write` are `disk_storage::read` and `write` down to the driver of
the disk; the disk (`platter`) is external. `res` is what the driver answers and `part`
the sectors it moved, and the one does not follow from the other (`Moves`): an AHCI
driver (`type`) that answers true has moved the share of the last entry of its
PRDT, which is everything up to `PerEntry` sectors (`Whole`) and less beyond (the
run `ahci_sectors`); a USB driver that answers true may have moved any part of
them, as `read` looks only at the status that comes after the data
(`msd.cpp:430-460`), and an ATA driver, of the same kind here, answers true whatever happens.
What a driver did not move is `Other` in the buffer, and in the block of the cache. `la_val`
starts at 0 and not at -1e18, as no constructor runs. `Drives` adds the table of
names (`device_names`), whose comparison looks at the bytes of addresses, and
the checks of a drive. `pairs`, `dropped`, `reads`, `done` and `registered` are
ghosts; `dropped` and `reads` are kept for each disk, so that the account of
pairs holds for each cache by itself. `DrivesSpec` is the specification of the
drives alone, about which the theorems are. `storage_add` and the disks of `storages[]` are given from the start:
the kernel adds them at start-up and on hot plug and never takes one away.

### Text, Console

`Text` is pure: `Btoa`, `Llbtoa`, `Atob`, `StrFmt` and `Vsprintf` as functions on
sequences of characters, over words of `WordMod` values. `Console` is the
screen: a call becomes the characters it prints (`Work`), and each
`print_char` is one action (`PrintNewLine`, `PrintReturn`, `PrintOther`), with
scrolling inside it as in the code. `lines` is the text as a reader would have
it, `lost` the characters that missed the screen; both are ghosts.

### Pci

The scan of one bus: `ReadHeader` and `NextSlot` are the loops of `PciInit`,
`Visit` is `PciVisit`, `SizeBar` and `RestoreBar` are `PciGetBar`, and `Reset`
to `Register` are `_ehci_init` around the probe of the ports. The controllers
follow reset, run and halt in their own time, and the firmware runs one as long
as it owns it and releases it some time after it was asked. Two buses differ in
nothing the code looks at. ATA and the other classes `PciVisit` names change no
state that is kept: for IDE the code means to set an interrupt line, but the
arguments of `outportd` are exchanged, and what it writes is ignored.

## 4. Runs

| Run | Checks | Size |
|---|---|---|
| `keyboard` | `Accounting`, `FifoOrder`, `RepeatsOnlyHeldKey`, `KeyEventuallyFetched`; ring of 2, one letter and a shift key, at most one lost increment | 811k states |
| `keyboard_noctor` | refutes `FetchesOldest`: with `tail = 0` at boot, `get` returns a slot that holds no key | violation |
| `ehci` | `RingIsList` (with types), `ChainsApart`, `NothingLeaks`, `SuccessIsSettled`, `TogglesAgree`, `CallsReturn` | 338k states |
| `msd` | `InStep` (with types), `SmoothCallsComplete`, `TrueMeansStatus`, `WaitEnds` | 1.2M states |
| `ahci` | `ResultsMean` (types, what true and false mean), `ListMovesAtRest`, `PendingUntouched`, `CallsReturn` | 6k states |
| `ahci_sectors` | refutes `AllSectorsMoved`: a call for more than 16 sectors moves only the last entry's share | violation |
| `topology` | `ListIntact` (with types), `AddressesDistinct`, `PortsAgree`, `SeenInTheEnd` | 193k states |
| `topology_width` | refutes `AddressesFit`: the counter of addresses outgrows the field of a queue head | violation |
| `rbtree` | `TestPasses`, `NodesAccounted`, `ImplementsSet` | 34k states up to renaming of nodes |
| `services` | `ShowsText`, `FieldsRight` on the console; `ReadsFresh`, `TablesAccounted` on cache and drives | 897k states up to exchange of the two equal names |
| `usbconfig` | `SoundDevicesSafe`, `OrdinaryDeviceServed`, `InitEnds` | 323k states |
| `boot` | `BoundaryTags` (types, tags, ownership), `FreeLists`, `CallsAsPromised` (failure only when nothing fits, data kept by `realloc`, no waste), `ImplementsHeap` of the heap; `GoodFit` at the kernel's own constants, for all pairs around powers of two; `StartedIsOurs`, `AllFound`, `EndsUnlessAwaited` of PCI | 34k states, of which 10k are each a whole heap |

### Bounds, and why they are enough

* `QueueMax` 2 and 3: wrap-around, a full ring and an empty ring happen within
  two or three inserts. The proofs are for every size. `MaxLost` bounds how
  many increments a store may overwrite (the guard `MayInterrupt`); 2 are
  enough to overwrite a key in a ring of 2.
* `PoolSize` 34 with `Align` 2 is a pool of 17 units, room for up to four
  blocks with gaps on either side; the requests are one unit, two sizes in the
  middle and one that takes half of the pool. Lists of two and more blocks,
  merges on either side and on both, and reallocation in place, by
  growth into a neighbour and by moving all occur.
* In `GoodFit` (`GoodClass` of `TlsfMapping`) the constants are those of `tlsf.c:132-148`, except that
  `WordMod` is 2^31 - 1, TLC's largest integer; no size there wraps.
* `MaxQh` 2 and `MaxTd` 3: one abandoned transfer beside a live one, and both
  pools run out. `Packets` is {0, 4}: a control transfer is setup and
  status, two descriptors, which is enough for a chain; four packets are more
  than the pool holds, as for a device with a packet size of 0. `Timeout` 1: a tick before, at and after the deadline.
  One tick may stand for many: `pit_timer` and `rtc_time` add more than one
  unit at a time.
* `ahci`: three slots, and the three values of CAP.NCS at which four bits of five
  matter: 0 and 16 look like no slots, 1 like one. `Counts` are one sector, a full
  entry of the PRDT, one sector more, and three entries. `MaxSpin` 2 stands for a
  million looks. `MaxCalls` 5: the two of the probe, one that fails, and what
  follows it. After an error no further command runs, so more errors do not
  happen.
* `topology`: a hub with two ports whose numbers are those of the two root
  ports, and a disk that fits anywhere. `MaxEvents` 2 with any initial
  population gives removal and insertion in either order, at the root, behind
  the hub, and of the hub with the disk behind it. Four `Cells` are two
  devices, an entry whose initialisation failed, and one that is stale.
  `MaxFaults` 1: one failed request or allocation at any place. `AddrMod` 4
  stands for 128: devices started by the first population and after two events
  use up the field, and what the driver does with the addresses beyond it
  is part of the run. `topology_width` has the same instance without faults.
* `MaxStuck` 3 and `MaxFaults` 2 in `msd`: each fault can leave a transfer
  behind or put a toggle out of step, and two can do so in either order. A
  device that is not ready is no fault and is not bounded. Two
  units are needed for `InStep`, which depends on the number of commands
  between two resets of a toggle. `MaxCalls` 2 lets a call follow a failed one.
  A block of two packets tells blocks from packets. `CountMod` 3 stands for 256:
  of the `Counts` 1, 3 and 4 the first fits the byte, the second is cut to 0
  and the third to 1.

* `rbtree`: six values and six nodes: trees of height three and four, in which
  every case of both loops occurs, single and double rotations on either side
  included. `MaxOdd` 1: one insertion of a present value leaks one node; and
  one removal of an absent value more than that.
* `services`: words of 8 bits, so that the sign bit, the largest and the
  smallest number are within the widths 0, 2, 5 and 10; `Some` are the numbers
  around the edges. A screen of 3 by 2 is filled by one word and scrolls at the
  next; five lines are two more than it can show at once. `LaMax` 0 and
  `LaReset` -10 stand for 1e9 and -1e18: the first read raises `la_val` above
  the limit, the next empties the cache. `MaxPairs` 6 lets two reads succeed, with
  the cache emptied between them. `PerEntry` 1 stands for 16: of the calls for one
  and two sectors the second is one that AHCI moves in part. Of three names two
  compare equal, and TLC may exchange them (`EqualNames`). The console and the drives
  share no state and do not call each other, so a behaviour of this run uses
  the one or the other; it is two questions in one run.
* `usbconfig`: all sequences of up to three of nine kinds of descriptors, of
  four of the four common ones, and pairs of configurations; one request may
  fail at any place. `StringMax` 127 and the length bytes 0, 1, 2, 18 and 255
  are those of the code. `MaxNodes` 8 is reached only by a parser that does not
  advance.
* `boot`: two slots of two functions. Function 1 of a slot without the
  multi-function bit must not be visited, so four functions are enough for
  each order of controllers. BARs are of 32 bits, of 64 bits and of i/o ports.
  The heap belongs to the same run and is another question: `Pci` allocates
  nothing, so callers use the heap once an empty bus was scanned, where no step
  of the scan, the controllers or the firmware is left.

### Fairness

* `Keyboard`: `WF(MainLoop)`. Handlers are finite and return; the main loop has
  no blocking step. Handlers themselves need not happen.
* `Ehci`: `WF(Driver)` because a call polls in a busy loop with interrupts on,
  and `WF(Tick)` because the real-time clock keeps interrupting. None for the
  controller: a device may never answer, and `CallsReturn` must hold all the
  same.
* `Msd`: `WF(Driver)`, which `CallsReturn` justifies. Late completions need not
  happen.
* `Ahci`: `WF(Driver)`, a busy loop. None for the controller: the code has no
  timeout for a command, so `CallsReturn` is about calls that do not wait for it.
* `UsbTopology`: `WF(Kernel)`. The main loop calls `UsbPoll` for ever
  (`kernel.cpp:23`), every request returns (`CallsReturn`), and every wait has a
  bound. Nothing has to be plugged in or out.
* `UsbConfig`: `WF(Next)`: one thread, and every request returns (`CallsReturn`).
* `Pci`: `WF(Scan \/ InitEhci)`, the one thread. None for the controllers and
  the firmware: `EndsUnlessAwaited` says that these are the only ones that can
  keep the scan from ending, in one of four waits that have no limit.
* `Tlsf`, `Heap`, `RbTree`, `OrderedSet`, `DiskStorage`, `Drives` and `Console` are
  sequential and have no liveness property.

### Deadlock

Not checked for `boot` (the scan ends, or waits for the hardware, and callers of the
heap may stop), `Ehci` (see `wild`), `Msd` (after `MaxCalls` calls no one has to
call), `Ahci` (the same), `UsbTopology` (see `wild`), `services` (callers may stop) and
`UsbConfig` (an initialisation ends). `keyboard` and `rbtree` check it.

## 5. What the checks found

* `length--` in the main loop races with `insert` (`input.h:33`); each lost
  increment leaves a key in the ring until another one arrives, and enough of
  them let `insert`, whose overflow check trusts `length`, overwrite keys that
  were never fetched. `Accounting` says precisely how wrong the
  counter can be; `KeyEventuallyFetched` what still holds.
* Without constructors the first key is returned as an empty slot
  (`caller.asm:6`, `input.h:15`).
* EHCI may report a stall as success: `ehci_process_qh` reads `token` for the
  halted bit (`ehci.cpp:276`) and again for the active bit (`:283`), and the last
  descriptor may stall in between. `SuccessIsSettled` is what remains true: only
  the last descriptor can be affected.
* One "not ready" from a disk ends the wait for it (`msd.cpp:226`): the status
  of `request_sense` is never fetched, the next command finds the device out of
  step, and its failure is returned as 0, which means ready. `WaitEnds` holds
  for this reason and not because the loop has a bound.
* AHCI calls for more than 16 sectors return true and move at most 16
  (`ahci.cpp:132`): `count` has been reduced by the loop over the PRDT by then.
* After an AHCI error the port stays halted and the failed slot pending, so the next
  call waits for ever for a command that never runs (`ahci.cpp:156`);
  `CallsReturn` excludes just this wait. What holds is that such calls do not
  disturb the pending command (`PendingUntouched`) and do not take the old error
  for theirs.
* `find_cmdslot` takes four of the five bits of CAP.NCS as the number of slots,
  which is one more (`ahci.cpp:329`): the last slot is never used, and with 1 or
  17 slots none is found and the drive is not registered.
* A disconnect removes the first entry in the list with the same port number and
  controller (`ehci.cpp:643`, `hub.cpp:196`): it may be a device behind a hub, or the
  hub itself while it is being polled. `PortsAgree` is what remains: ports whose
  number no other port in use shares are followed correctly, as long as no
  event falls in a window where the hardware hides it.

* Addresses of devices come from a counter without a limit (`usbd.cpp:146`), and are
  ORed into a field of seven bits (`ehci.cpp:221-226`, `ehci.h:225`): the 128th
  device to be started since boot, wherever and however often it was plugged, is
  talked to at address 0 with the I bit set, and later ones at the addresses of
  others. `AddressesFit` is refuted for this; `AddressesDistinct` and `PortsAgree`
  are about the time before it.
* A descriptor of length 0 is parsed for ever (`usbd.cpp:289`): one of an
  interface or endpoint takes a node each time until `malloc` returns null, which is
  not checked. `InitEnds` excludes it.
* `dev->intfDesc` is set by the first interface only (`usbd.cpp:302`), so a
  configuration without one leads the walk through whatever `malloc` left; a
  storage interface without endpoints reads through a null `pickedEndpDesc`
  (`:319`), and one whose endpoints were chained to an interface before it has
  none of its own. A string descriptor of length 0 makes the loop over its
  characters run to 2^32 (`:86`, `:121`). `SoundDevicesSafe` says which devices are safe.
* The comparison of the cache subtracts the addresses of pairs, not their keys
  (`map.h:27-32`), and every search is made with a fresh pair: the cache never
  hits. This is why no read is answered from the past (`ReadsFresh`), although `write`
  updates nothing (`storage.cpp:76`), the block of a read that was done in part
  is kept as if it were whole (`:63`), and a block read for one sector would be copied
  for two (`:35`). What a read may return instead is what a driver did not
  move: true from `disk_storage::read` says that all sectors are there for AHCI calls of up
  to 16 sectors only. Each read costs one pair, and a good one three, none of which is freed: `clear`
  and `erase` free neither nodes' values nor blocks. `TablesAccounted` counts them.
* The limit of 4097 records and 2.5 MB (`storage.h:11`) is looked at nowhere: the block
  goes into the cache at `storage.cpp:72` whatever its size, and `cleanup`, the routine
  for it, is empty.
* A call for more than 255 blocks asks the unit for the count modulo 256
  (`msd.cpp:348`, `:414`) and moves as many as it was asked for, so a transfer
  of the call fails: `SmoothCallsComplete` counts no such call among the smooth ones.
* Names of drives are compared by the bytes of their addresses, up to the first zero
  byte (`drives.cpp:3-6`): two copies of one name are two drives.
* A drive with an offset is addressed twice as far as meant: the check wants an LBA
  from `disk_offset` on, and the access adds `disk_offset` again
  (`drives.cpp:17-19`, `:24-26`). No document says which of the two is right.
* Inserting a present value into the tree leaks its node and counts it in `size`, and
  removing an absent one reduces `size` (`trees.cpp:252`, `:370`); balance and
  contents are not disturbed (`TestPasses`, `ImplementsSet`). The kernel's maps
  search before they insert, but `erase` does not.
* A newline printed when the last cell of the screen has been written puts the cursor on the row
  beyond it (`video.cpp:36`: the row is compared with `==`), and the next
  character scrolls; with two such newlines characters are written behind the
  screen. `ShowsText` says how many are lost at most.
* `print_int` prints the smallest number as `-0` (`video.cpp:58-72`); `%05d` puts
  its zeros before the sign (`string.cpp:482-484`); a return (13) prints nothing, so
  Enter on the keyboard is not echoed as a new line.
* The reset of an EHCI controller and the sizing of its registers come before the
  hand-off, and none of the waits has a limit (`ehci.cpp:684`, `:690`, `:810`, `:838`). What holds
  is that a controller which was started is the kernel's (`StartedIsOurs`), because the firmware
  stops it when it releases it.
* With no AHCI controller on the bus, register 0x24 of device 0 is taken for the
  address of one (`PCI.cpp:436`); with several, only the last is used. The high
  half of a 64-bit register is read, restored and dropped.

The rest of what was checked holds; in particular the allocator's structures
survive every sequence of calls in the model, the EHCI schedule stays
consistent whatever is abandoned on it, and the list of USB devices stays whole
although entries leave it while it is walked, and addresses stay distinct in
nested probes while they fit their field; the tree passes its own test after every call.

## 6. What is proved

`KeyboardProofs` proves, for every ring size, every set of keys and every number
of lost increments:

* `TypeCorrect`: `TypeOK` (a lemma of the others, no longer a property of a run), with `length` in `0..QueueMax` although `get` stores
  a value computed from an older one;
* `AccountingHolds`: `length + lost` is the number of keys owed;
* `FifoOrderHolds`: keys leave in order and unchanged while nothing was lost;
* `RepeatsOnlyHeldKeyHolds`: the timer repeats only a key that is down.

They assume what the module assumes of its constants (`QueueMaxAssumption`,
`TailInitAssumption`, `CodesAssumption`, `BoundsAssumption`).

`TypeOK` and `Accounting` are not inductive by themselves. `CountInv` adds
`GetInv`: past its check `get` knows `length >= 1`, since handlers only add, and
the register it decrements lies between 1 and the present `length`. From this
`DecStore` keeps the counter in range, and `Racing` is what it overwrites.
`InsertType` and `HandlerCount` say once what an insert does to the state that
all handlers share.

`FifoOrder` says nothing of the slot the next insert fills. `FifoInv` adds that
`tail + 1` is the slot at distance `Len(backlog)` from `head`; with
`BacklogFits` (nothing lost, so at most `QueueMax` keys are owed) and
`SlotInjective` (different distances are different slots) an insert disturbs no
key that is owed. `RepeatsOnlyHeldKey` is inductive once types are known.

`PciProofs` proves two theorems for every bus, machine and firmware that
`ScanAssumption`, `MachinesAssumption` and `BarsAssumption` (a function that answers has
six base address registers) allow. For `StartedIsOursHolds` the inductive
invariant `OursInv` joins to the property and the types:

* `Asked`: a semaphore is asked for and not yet given only at the controller whose
  hand-off is waited for, so no controller is left in between;
* `AllBehind`: controllers in the list lie before the scan, so the reset of a
  later one is not the reset of one in use;
* `Established`: what each wait of the start has settled for the steps after it:
  the reset is over, the firmware is gone before the lists are written, and the
  lists are the kernel's before the controller runs.

`AllFound` speaks of the end of the scan only. `FoundInv` says the same of every
moment: the list has the wanted controllers that lie behind the scan (`Listed`),
`iddd` is the last AHCI controller behind it (`LastSeen`), and the registers are
as found but for the one that is being sized, whose value is in `address`
(`Sized`). `Kept` and `Passing` are the two ways in which a step moves what is
behind; leaving a slot passes nothing because `funcCount` functions are all that
answer (`Counted`).

`StorageProofs` proves about `Ahci`, for every number of slots in `0..31`, every set of counts and
every state in which the firmware left the port (`AhciAssumption`):

* `ListMovesAtRestHolds`, from `StopInv`: what the waits of `stop_cmd` have seen
  stays so, because the controller starts nothing while ST and FRE are clear. The
  wait for CR that goes back to the wait for FR is what makes it inductive;
* `PendingUntouchedHolds`, from `SlotInv`: nothing is pending when the list moves,
  and the slot that `find_cmdslot` chose stays free until its command is issued.
  That the least free slot exists is `SlotFound`, by the well-foundedness of `<`;
* `ResultsMeanHolds`, from `AhciInv`. A completion that the driver sees must be
  that of its own command: `CallInv` says that a slot which has left `ci` while it
  is waited for has moved what its table asks, `TablesInv` that this table was
  built for the present call, and `EngineInv` that an older command is pending
  only on a port that is halted for good and runs nothing.

`EhciProofs` proves all five safety properties of the run `ehci` from one
invariant, `EhciInv`, for pools of any size, any endpoints, transfers of any length
and any behaviour of the controller (`EhciAssumption`, and `NamesAssumption`: an
endpoint is neither endpoint 0 nor the absence of one). Its parts lean on each
other:

* `Ring`: the links follow the list, also while a queue head is unlinked; the last
  of the list is linked to the head;
* `CallAt`: where the queue head of the call is at each place of the driver, which
  only ever unlinks the last of the list;
* `Pools`: what is taken from the pools is the chains of the queue heads in use,
  and these are disjoint. `LinkedChain` is the lemma that a new chain consists of
  the descriptors just taken: `Reach` is the least closed set, so the argument
  (`ReachStart`, `ReachClosed`, `ReachLeast`, `ReachStep`) needs no induction over
  the chain;
* `Overlays`: the controller works inside the chains in use and finds nothing to do
  in a queue head that was retired, where it may still stand;
* `Settling`: a descriptor that is not done lies ahead of the controller, so a
  driver that finds the end of the chain has none left to run. With it
  `RingHolds`, `ChainsHold`, `PoolsHold` and `SuccessHolds` follow;
* `Toggles`: of the transfers of an endpoint without trouble only that of the call
  is in use, and the device is one toggle ahead exactly when its descriptor is
  done. From this `TogglesHold`.

`MsdProofs` proves `InStepHolds`, `SmoothCallsCompleteHolds` and `TrueMeansStatusHolds` from
`MsdInv`, for blocks of any length, any counts and any bounds on calls, faults and transfers
given up (`MsdAssumption`). `Signed` follows the shared buffer: a status signature in it
at the end of a read or write can only come from the device after the present
command, because the command overwrote the one before. `OnTrack` says, at each
place of the driver, what the device waits for as long as all went well: `MidData`
that both count the same bytes or the device has refused and will halt, and `Parity` that a
unit has taken an even number of commands when the next one starts, for
`inquiry_request` resets the device's toggle and not the driver's. `Short` is the
place of a call whose count was cut (`CountCut`): unit and driver still agree on
the toggles, but the unit will send or take too little, so the call meets a fault
before its end (`ShortTaken`, `ShortMoves`). The lemmas named
`...Fits` say what a step of the device or the bus preserves, those named `...Safe`
and `...OnTrack` what a step of the driver does.

`StorageProofs` also proves `ReadsFreshHolds` and `TablesAccountedHolds` of `DrivesSpec`, the
cache and the table of drives without the console (with which the run `services`
interleaves them, on separate state). `ReadsFreshHolds` says, for every driver that
`Moves` allows, that a sector in the buffer of a read is what the disk holds or was
not moved at all, and that an AHCI disk asked for no more than one entry of the PRDT
describes moved everything (`MovedIsHeld`). `DrivesInv` adds that every pair in a map is
older than the next one (`Maps`), so a search, which compares addresses, finds
nothing (`NothingFound`), and an insertion adds exactly one pair (`Assigned`); and
that a drive is in the table under its own name (`Table`).

`UsbTopologyProofs` proves three theorems, for any hubs, devices, ports and entries that
`TopologyAssumption` allows. `ListIntact` speaks of `Walk`, which is recursive:
`Walks` shows that the recursion has a solution, and `WalkIs` what it is, with
induction in the form of `AllNumbers` (a set with 0 that is closed under the
successor has all numbers, by the well-foundedness of `<`). The inductive form is
`Whole`: there are entries `s[0]` to `s[n-1]`, all different, that are the live ones and
that the pointers lead through. `CreateWhole` and `UnlinkWhole` shift `s` by one,
wherever the entry is that the code picked; `StackInv` says that only the innermost
loop is inside a port, so that what it creates is what it initialises.
`AddressesDistinct`, and with it `PortsAgree`, is about the time in which the counter
of addresses fits the field (`Smooth`); then the field of an address is the
address (`FieldHolds`). It needs to know who has no address yet: `InReset` says that a device
at address 0 is behind the port that the innermost loop has just reset, or the
one it initialises, so no other port is reset before it is named. `Wiring`
adds that a device is at one port and hubs are at root ports.

`PortsAgree` speaks of the end of a round only, where a port has settled; its invariant
(`PortInv`) has to say what is true of a port at any moment. `Stage` gives each port
one of nine stages: *due*, while a loop has still to reset it or its hub is
not started; the step the innermost loop is at, while it visits the port; and otherwise
*at rest*. `Signals` says for each stage how the status bits of the port, the
device and what the driver has seen of it go together, and `Shown` which entries
there are; `Follows` says both of every port that could be followed. The rest of the
invariant carries this through the steps:

* `Nested`: a hub is probed inside the loop over the root ports and nothing deeper,
  so passing a port or returning from a probe changes the stage of that port only;
* `Probed`: the entry of a hub stays while it is probed, as only polls remove
  entries, so the loop goes on talking to the same hub;
* `Unnamed` and `Greeted`: the device being initialised is behind the port its
  entry says, and alone with the address in the entry; so the hub that is probed
  next is the one just enabled, and a port is not passed with a hub unstarted;
* `InUse`: entries, and changes, come only from ports that were in use; so a
  disconnect, which goes by the number alone, takes the right entry
  where the number is that of one port only.

The lemmas named `...Follows` say of each step of the kernel, and of an event, that
it keeps `Nested` and `Follows` (`FollowsKept` puts them together); `InPlace`, `Onward`
and `EventStage` say once how a step moves the stages of all ports. `PortsAreMeant`
concludes: between two rounds no loop runs, so a port whose hub could be
followed is at rest.

`UsbConfigProofs` proves two theorems about `UsbDevInit` in detail,
`SoundDevicesSafeHolds` and `OrdinaryDeviceServedHolds`, for all devices that
`ParametersAssumption` allows: descriptors of any number and content, and a heap that has room
for the descriptors of each configuration, were it the longest. `Sound` and `Ordinary` say of
which of them the properties speak. `ConfigInv` keeps the place of the parser:
`data` is what follows the first `Parsed` descriptors, and the endpoints are
chained in the order they came. For a sound device `SoundInv` adds that the lists are no longer
than the descriptors parsed so far (`Space`, from which `HasSpace`), and what is
known of their shape: nothing before the first interface, then that one with
the endpoints seen (`Shaping`), and, once its second endpoint has come, `Shaped`,
which nothing undoes, in that configuration or a later one. For an ordinary device
without failures `OrdinaryInv` adds that the lists are the interfaces and
endpoints among the first `Parsed` descriptors (`Built`). `ChainIs` and `AmongIs` solve the
recursions of `ChainFrom` and `Among` with `AllNumbers`.

`TlsfProofs` proves five theorems for every pool, set of requests and constants that
`MappingAssumption` and `TlsfAssumption` allow: `BoundaryTagsHolds`, `FreeListsHolds`,
`CallsAsPromisedHolds`, the refinement `ImplementsHeapHolds` and, of the size classes
alone, `EveryClassIsGood`. The inductive
invariant `Inv` is that the heap is `Sound` and its blocks in use are `Owned`, each by
one caller. `Sound` has three parts that a merge or split disturbs one after another:

* `Layout`: from each block the next one begins where its size ends. `JoinedIs` and
  `CutIs` say what joining two blocks and cutting one do to it;
* `Lists`: the free lists hold a given set of blocks. `Ranked` numbers the blocks
  along their list, so that a list cannot close on itself and no recursion is
  needed; `UnlinkedLists` and `LinkedLists` take one block out and put one in;
* `Tag`: each block's successor knows whether it is free and, if so, where it is.

In the middle of an operation a block is in no list and its tag is being written:
`Loose` says that everything else is sound, and there are three ways back,
`ClosedIsSound` (the block is handed out whole), `SplitIsSound` (a rest of it is
free) and `ReleasedIsSound` (it is free). `MallocIs`, `FreeIs` and `ReallocIs` put the
calls together from these, and `Granted` concludes that the new region meets no
other. `init_memory_pool` is the same as a release (`AreaIsLoose`).

That a block from the list found is long enough is arithmetic: `ClassesGrow` (a larger
size is in no earlier list) and `ClassIsEnough` (the rounding in `MAPPING_SEARCH`
is up to the next list) are proved for all constants, and with `RoundingIsSmall` give
`EveryClassIsGood`: the formula `GoodClass`, which `GoodFit` evaluates at the kernel's. The prover knows nothing of `2 ^ n`; `PowerDoubles` has it as the
number of subsets of a set of `n` elements, and `AllNumbers` gives the induction.

In all of these the invariant was first checked by TLC on the instance of the run.

Only model-checked, and why:

* the liveness properties (`KeyEventuallyFetched`, `CallsReturn` of `Ehci` and
  `Ahci`, `WaitEnds`, `SeenInTheEnd`, `InitEnds`, `EndsUnlessAwaited`), which rest on
  fairness;
* `TestPasses`, `NodesAccounted` and `ImplementsSet` of the tree, and `ShowsText` and
  `FieldsRight` of the console: what recursions over trees and strings compute (the
  test and the search of the tree, numerals and directives) for every input
  needs inductions over that data; the provers take none, and only one over
  numbers was built from a set (`AllNumbers`), which reaches lists
  (`Walk`, `ChainFrom`, `Among`) and no further;
* `GoodFit` as it stands, since it evaluates the kernel's own constants beside the small
  heap's; `EveryClassIsGood` has the same formula for all constants.

## 7. What is not modelled

* **ATA** (`storage/ata.cpp`). `identify_drive` returns 0 whatever the drive says,
  because `(result | 1)` is never 0 (line 60); so no ATA drive is registered, and
  its reads and writes cannot be reached. The wait for the flag `busy` looks at bit 1
  while the code sets bit 0, so it never waits, and the flag that an early
  return leaves set (line 40) harms nobody.
* **The clock.** `time1024` is 64 bits wide and is read in two halves
  (`interrupts.cpp:99`, `ehci.cpp:344`); a carry between the halves can make one
  wait end early or late, and comes once in weeks. `Ehci` has the counter as a
  step that may happen at any time.
* **A warm restart** that finds the heap of the last run (`tlsf.c:484`): the
  blocks in use then are never given back. No document says they should be.
* **`storages[]`**: `storage_add` has no bound (256 entries), and a disk that was
  unplugged keeps its entry and is freed (`msd.cpp:322`). Nothing in the kernel reads through
  `storages[]` after start-up, as no drive is ever added to the table of names.
* **What properties leave out** although the model has it. `NothingLeaks` does not
  count the descriptors taken by a request that ran out of them (`starved`), and
  no property speaks of what follows a null queue head (`wild`); `SuccessIsSettled` is
  not about a queue head that was reused while the controller held it
  (`recycled`), nor `TogglesAgree` about an endpoint after a stall, a timeout or such a reuse
  (`upset`). `AddressesDistinct` and `PortsAgree` are not about the time after a
  request failed or the field of addresses was used up.
* **Failed `malloc`** outside the modules that say so: most callers do not look at its
  result.
* **Formatting beyond `Text`**: `printf.cpp` is not among the Makefile's sources,
  `FLOATINGPT` is not defined, and the rest of `string.cpp` is copies, comparisons
  and searches, or has no caller. `%lld` takes one word of its argument's two
  (`string.cpp:391`); no format of the kernel uses it.
* **PCI**: names of classes, `pci_scan_bus`, `get_mmio_space_size` and `pcibar` are printing
  or never called.
* **Boot code** is assembly that runs once; what the kernel depends on, that no
  constructor runs, is in `TailInit` and in the initial `la_val`.
* **Hubs behind hubs**, several EHCI controllers and several AHCI ports at once.
* `ehci.s`, `project.*`, `a.cpp` and `rewriteboot.cpp` are a compiler listing,
  reports and host tools.
