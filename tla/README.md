# d2xl cIOS in TLA+

A verification project for the custom IOS under `src/d2xlcios`. The cIOS is a
patched copy of Nintendo's IOS for the Wii's ARM core: seven threads with
message queues (ES, DIP, FFS, FAT, MLOAD, SDHC, EHCI/USB) of which three are
plugins hooked into Nintendo's closed modules. All paths below are relative to
`src/d2xlcios/source`. (`src/source` is a partial copy of the same files.)

## 1. Inventory

| Part | State | Operations | Talks to |
|---|---|---|---|
| MLOAD (`mload-module`) | `running_title`, `es_request`, `stealth_mode`, table of thread rights | software interrupts for every module, ioctlvs for loaders | asked by all |
| DIP plugin (`dip-plugin`) | `config` (mode bits, disc type, offsets, error, cover, reset lock), `dipCfgState`, `ffsCfgState`, fragment list and its index, open WBFS disc | disc commands (`DI_EmulateCmd`), reads, ioctls, restore at boot (`DI_EmulateInitDrive`) | USB/SD modules, FFS (SETMODE, GETMODE), FAT (MOUNT, GETPARTITION), NAND files |
| ES plugin (`es-plugin`) | `config` (block enabled, title asking, IOS to boot, system menu replacement) | boot, DIVERIFY, LAUNCH, fake launch settings, ticket views | DIP (SAVE_CONFIG), FFS, MLOAD, NAND files |
| FFS plugin (`ffs-plugin`) | `config` (mode, path), `forceRealPath`, table of FAT descriptors | SETMODE/GETMODE, file and path calls redirected to FAT, hook in the kernel's open | FAT, MLOAD |
| FAT module (`fat-module`) | one `FATFS` object with one sector window, volume tables, open `FIL`s, NAND folder, LED state | mount, unmount, file and directory calls, blink thread | SD and USB modules |
| SD card (`sdhc-module`, `cios-lib/sdio.c`) | descriptor, card address, type and started flag, once in each of the two modules that link the driver | start, read, write, shutdown | the kernel's `/dev/sdio/slot0` |
| EHCI module (`ehci-module`) | device, toggles, buffer, `handshake_mode`, `unplug_device`, mode of the module, WBFS partition and disc, watchdog timer | open, ioctls, reads, writes, watchdog | the host controller |
| USB module (`usb-module`) | table of attached devices, open handle, mounted model, WBFS handles, one queue for everything | open, ioctls, mount messages to itself, device changes | the kernel's `/dev/usb/ven` |
| Timer and heap (`cios-lib/timer.c`, `mem.c`) | queue of 16, one timer per module | sleep, alloc, free | kernel |
| Host tools, web configurator | - | - | not part of the running cIOS |

What is hard here:

* **Order across a reboot.** A disc game that asks for another IOS gets the
  cIOS again ("IOS reload block"). The state travels in three files written by
  two modules, while NAND emulation is being switched off; the power can go
  between any two of them, every write can fail, and no result is looked at on
  the way back.
* **Stale copies.** What is saved is a copy made when the source was set
  (`dipCfgState`), not the state at the moment of the reload. One sector window
  is a copy of a sector that direct reads and writes go round. A driver's idea
  of the card in the slot outlives the card.
* **Global flags for all threads.** `es_request` and `forceRealPath` say
  nothing of who asked.
* **Half-done operations.** A set command closes the old source first and may
  then fail; a rename is up to four calls; a file that grows is three sectors
  written at three times, and the power may go between any two.
* **One object for two users.** Two volumes share a file system object, two
  drivers share a card, all clients of the EHCI module share its thread.
* **Retries.** A SCSI command is sent up to eleven times with resets between;
  the device may be pulled out, or replaced by another, in the middle.
* **A queue to itself.** The USB module sends messages to the queue it empties.

Per component, what makes it correct: DIP - a mode bit means an open source, a
game cannot switch it, the copy names the live source, a read delivers the words
of the image. ES - the reserved commands are open only in its own launch, the
title kept is the one that asked. Reload as a whole - the next session reads the
same disc and stores in the same place. FAT - a handle never reaches another
partition; a read returns what was written; a closed file survives a power cut.
FFS - a path goes to the NAND the mode says, and the emulated NAND is one file
system. Storage - an answer of success is true, no other device or sector is
touched, everything asked is answered, nothing is left awake or selected.

## 2. Modules

| Module | Models | Kind |
|---|---|---|
| `Stealth` | the three flags of MLOAD and their operations | component |
| `Dip` | the DIP plugin's commands (EXTENDS `Stealth`) | component |
| `SdCard` | the SD card in its slot and the two drivers that share it | component |
| `DiscRead` | what the DIP plugin reads: fragments on USB and SD, the drive (EXTENDS `SdCard`) | composition |
| `Ffs` | the FFS plugin: hook in the kernel's open, queue, opens, closes, SETMODE (EXTENDS `Stealth`) | component |
| `Fat` | mounts, volumes, handles and the sector window of the FAT module | component |
| `FatPromise` | what the FAT module promises of a volume: a tree of files and folders | abstract specification |
| `FatVolume` | a mounted FAT32 volume sector by sector; implements `FatPromise` | detailed specification |
| `FfsPaths` | FFS's operations on paths over `FatPromise`; implements `FatPromise` again, in the names of titles | composition |
| `ReloadSpec` | what the reload block promises | abstract specification |
| `Reload` | ES, DIP's save and restore, FFS's mode, the files, power (EXTENDS `Dip`); implements `ReloadSpec` | composition |
| `UsbStorage` | the USB disk driver of the EHCI module and the device at its port | component |
| `Ehci` | the EHCI module: its loop, clients, watchdog, WBFS disc (EXTENDS `UsbStorage`) | composition |
| `UsbModule` | the USB module: queue, clients, kernel, mounts | component |
| `Calls` | a call of many steps as one operator, for `FatVolume` and `UsbStorage` | helper |
| `DipProofs`, `FatProofs`, `FfsProofs`, `FfsPathsProofs`, `UsbModuleProofs` | theorems about the module of the name | proofs |
| `ReloadProofs` | theorems about `Reload` (EXTENDS `DipProofs`), and that it implements `ReloadSpec` | proofs |
| `DiscReadProofs` | what `FragPlan` and `DvdPlan` compute, theorems about `SdCard` and `DiscRead` | proofs |
| `EhciProofs` | what each function of the disk driver leaves, theorems about `Ehci` | proofs |
| `MCDip`, `MCDiscRead`, `MCEhci`, `MCFat`, `MCFatVolume`, `MCFfs`, `MCFfsPaths`, `MCReload`, `MCUsbModule` | constants and views for TLC | model checking |

### Dip

`config`, `dipCfgState` are the structs of the same name. An image (what a read
delivers) is the ID of a WBFS disc or the size of a fragment list: enough to
see that another disc, no disc, or a list of another size is read. Each custom
command has its guard `~GetRunningTitle`; a hidden command goes to Nintendo's
handler and has the effect of `OtherCmd` (it clears the last error). The
answers of devices, of the allocator and of the drive are `\E ... \in BOOLEAN`.
Commands are atomic: the DVD driver is one thread with one queue, and nothing
it calls calls back. `GC_MAGIC` and the encrypted-disc hash are answers of the
drive. What a read transfers is in `DiscRead`.

### SdCard and DiscRead

`card`, `wide` and `slot` are the card, the host controller and the slot;
`drv[d]` the statics of `sdio.c` in module `d` (`up` is `__sdio_initialized`
together with the start that set it); `op[d]` where its thread stands. A start
is `Reset`, `Status` and then either `Width` or, for a card the kernel does not
know, `Host`, `Identify`, `Address`; a transfer is `Select`, `Transfer`,
`Release`, up to `Tries` times. Each is a command or a group of register writes,
so those of the other driver fall between any two, and each may fail. A failed
CMD7 may have been taken by the card or not; a deselect (`Deselect`) that fails is
noticed by nobody, in the code as here; a failed read of the status is taken for
the status of an initialised SDHC card, or of an empty slot (disagreement 20). A
card publishes an address (`Rca`) each time it is initialised, and two may publish
the same. History: `got` remembers of a transfer whether it was `right`, whether
the sector had been multiplied `again` and whether the card selected was another
one of the same address (`twin`); `of` and `read` in `drv[d]` which card the driver
has the address of and whether it has read its type; `stuck` in `card` that it
stayed selected after a CMD7 that failed. What is left out: a status or a response
that a failing command overwrites with another card's bits, and a failed
`os_open`, which is a start that fails at once.

In `DiscRead` a read is a plan and its execution. `FragPlan` is the loops of
`Frag_Read`, `__Frag_ReadSect` and `__Frag_ReadPartial` over `FragGet` with its
index; `DvdPlan` is `DI_ReadDvd` with `DMA_CheckRange`. USB transfers and the
drive's are moved at once, any of them may fail; each part of a read from SD is
a transfer of the SDHC module's driver, in steps. `DiscReadTrue` compares the
buffer word by word with `Wanted`, which is written down from what a fragment
list means and not from the loops.

### Reload

`pc` is where ES stands in its LAUNCH handler; every call on another module and
every file is a step, so `PowerCut`, disc commands and other requests fall
between any two. A launch of the system menu is four steps too: the flag goes up
(`LaunchSystemMenu`), FFS is told to leave the emulated NAND (`MenuModeOff`, which
may fail unseen), the flag goes down (`MenuClear`), the title is launched
(`LaunchMenu`). `power` is the boot: ES's main, then DIP's two restores.
`nand` holds the files, `Partial` a torn one. `lowmem` is the disc ID that
survives a reload in the console's memory at address 0 and which the restore
reads. A `dip.cfg` whose fragment list is torn is in `dipCfgState` before the list
is found missing (`TornCopies`). A full NAND emulation swallows a file written while it is on
(`SaveFile`), which is why SAVE_CONFIG must switch it off first. `owed` is a
history variable: what a launch that began owes to the game, reset to
`NothingOwed` at the first step that fails. `mounted` is the FAT module's
`VolToPart` (one device at a time; see `Fat` for two).

`Restorable` names what the files can carry; the reload is only held to its
promise for such sessions. Each conjunct is a real limit of the code:

* `saved = live`: a source that was set and then closed or replaced leaves its
  mode in `dipCfgState`;
* `live = {} => nand.dip = None` and the same for `ffs.cfg`: nothing is
  written for a mode that is off, so an old file would be taken;
* not both modes: the restore opens WBFS only;
* `dipCfgState.mode = {"FRAG"}`: the list is written only then (disagreement 2
  below);
* the disc at address 0 is the WBFS disc: the restore opens that one;
* an emulated NAND on a device that is mounted.

`ReloadKeepsPromise` shows that `Reload` implements `ReloadSpec` under
`up <- InSession, src <- Source, store <- Store, kept <- owed.ok`.

### Fat

`fatFs` is the one `FATFS` object of `fat_wrapper.c`, `volumes` the entries of
FatFs's own `FatFs[]` that point to it, `VolToPart` the table of the same name,
`files` the `FIL`s, whose addresses are the descriptors. `chk_mounted` is in two
halves: `UsePath` (is the object bound?) and `Bind` (read the partition, take a
new mount ID). `Mount` is the loop of `FAT_Mount` over the partition table,
told by the last partition tried and whether it was good. The sector window is
followed by where it was read from (`window`), because the object keeps it over
a failed mount. `at` and `path` are history: `FIL` itself knows only the ID.
The module has one thread for requests; the blink thread (`led.c`) touches none
of this. What is on a mounted volume is in `FatVolume`.

### FatPromise and FatVolume

`FatPromise` is a map from paths to files and folders, with open files that have
a position. What a file open for writing is on the volume is not said before it
is closed; after a power cut every path is as it was, except files that were
open for writing and what is at or below the one path the cut call was about.

`FatVolume` is FatFs with `fat_wrapper.c` around it. `vol.disk` are the sectors
(allocation table, FSInfo, clusters), `win`, `winsect`, `wflag` the window,
`free`, `last`, `fsi_flag` the fields of `FATFS`. The functions of `ff.c` are
operators of the same names that take `vol` as a record and return it, with
`disk_read` and `disk_write` in the same order as the code: `MoveWindow`,
`GetFat`, `CreateChain`, `DirRegister`, `FWrite`, `FSync`, `FUnlink`, `FRename`
and the rest; a call of the module is one action. In each call the power may go
before any of its first `MaxAccess` writes: the disk keeps what was written, all
else is gone, and the next call mounts again. `stored` and `handle` are computed
from `vol` and `file` (`Stored`, `Handles`) and are the refinement mapping;
`KeepsPromise` is `FatPromise!Spec` of them. Directories have entries with a
long name before the short one; a name is a value, found only by the right kind
of entry.

Left out of the fault model, each by a guard: a cut inside `f_rename`, which the
code itself calls a critical section; a cut that leaves a directory's new
cluster linked and uncleared ("torn"), and one between the two entries of a
long name. An access that fails without a cut (`"error"`) is in the operators
and in no run: see disagreement 15.

### Ffs and FfsPaths

A request is a record in `queue`. `SendOpen` is the hook `__IOP_SyscallOpen`
followed by the kernel's enqueue, in the thread that opens; `HandleOpen`,
`HandleClose`, `HandleSetMode` are the plugin's handlers in the thread of
Nintendo's file system. A path is one of four kinds that `FS_CheckRealPath`
tells apart; the real path of a `#` request is remembered by `hash`, which the
code does not have (it is what the flag is for). `emuNandPath` is the FAT
module's folder, `mode.folder` the plugin's `config.path` with its device.
`MODE_REV17` is forced by `FORCE_MODE_REV17`, so the branch of the hook that
rewrites paths itself is dead code and left out. Who registers rights (ES, DIP,
FFS) and when is in the model, because `SETMODE` ignores the answer of a full
table.

`FfsPaths` is the other half of the plugin: creation, deletion, rename, listing,
usage, attributes, open files and SETMODE's folders. `todo` is the calls to the
FAT module that a request still has to make; each call is a step of
`FatPromise` or refused, so a loader's own calls and power cuts fall between two
of them. Titles use the names of the NAND; the volume holds those of
`FAT_Escape`. `NandKeepsPromise` is `FatPromise` once more, of the volume as
titles see it: the second refinement of a chain FatVolume - FatPromise -
FfsPaths - FatPromise.

Assumed of the kernel, which is not in the repository: a thread sends one
request at a time; the hook and the enqueue are one step; the descriptor of a
close that FAT refuses may be freed or not.

### UsbStorage and Ehci

`usb` is one record: `struct ehci_device`, the statics of `usbstorage.c`, the
port and the device with its own address, configuration, toggles and phase of
the Bulk-Only protocol. The operators are the functions of `ehci.c` and
`usbstorage.c`: `ehci_reset_port`, `USBStorage_Reset` (soft, then hard),
`Cycle` (`__cycle`: up to eleven attempts, `Again` after a reset), `USBStorage_Open`, `MountAny`,
`unplug_procedure`. Once in a call a transfer may find the device gone, get no
answer, be done but reported as timed out, end early or end in garbage, or the
device may answer a read or a write with a status of failure ("failed"): it then
has stored nothing, or sent `Junk`. `refused` is history of that: the driver never
finds it out. A port at which no device is seen is handed over to the other
controller (`HandOver`, `port_owner`); when a device is plugged in the controller
takes the port back by itself or does not, and a port that is not the driver's
shows no device. `Cut` is the `u16` that the sector count of a request passes
through, `Wrap` stands for 65536.

`allocs` counts the buffers of transfers and the descriptors of
`USB_GetDescriptors`, these as one block. `udd` says that the static `udd` of
`USBStorage_Open` has pointers, and `refreed`, history, that an error of the first
request had them freed a second time; what such a heap does then is not modelled,
the model goes on as if it were sound.

The loops are `Retry` and `Repeat` of `Calls`, recursive functions over the number
of attempts or of commands. A hard reset of a disk in use would mount its unit
again (`usbstorage.c:583`): this call is left out because it is never reached. With
a disk in use `handshake_mode` is 0, a control message that fails is `ENODEV`, and
so a reset ends with the soft one (`ResetStaysSoft` in `EhciProofs`).

`Ehci` is `loop.c` and `wbfs.c`. `queue` is the message queue; its head is under
work until it is answered. A read or a write of a device that is away is a loop
without end in the code (`usbstorage.c:1375`): each turn is a step (`TurnAgain`),
and devices are pulled out and plugged in between two. After an error with the
device there the code turns without reading again; the only such error is that of
a count that is 0 in 16 bits, so reading again changes nothing, and it does not end
(`Endless`). `Fire` is the timer's
message, `Watchdog` its handler. `home` (which device was mounted) and `answer`
are history.

### UsbModule

One queue carries the clients' requests, the kernel's asynchronous answers and
the mounts that the module sends to itself. `attached` is the kernel's table of
devices, which the kernel overwrites while the module works (`KernelChange`,
`Overwrite`); `awake` the devices that were resumed, `forsaken`, history, those of
them that the kernel refused to suspend, `usbfd` the open handle, `work` where the
thread stands in its search of the table. `Close` clears the handle whatever comes
of the suspend, and an open may fail behind the resume. `Startup` with a kernel of
an unknown version succeeds and never asks for devices. `due` is history:
whose INIT was answered and whose mount is not done. A SCSI command is one step
that succeeds or fails; its retries are in `UsbStorage`, of which the USB
module holds a relative. Memory does not run out here.

## 3. Runs

Every run takes the answers of drives, devices, allocator and files from
`\E ... \in BOOLEAN`; so every order of successes and failures within the bounds
is covered. Deadlock is checked in all of them.

| Run | Asks | Bounds |
|---|---|---|
| `dip` | is a mode bit always backed, the copy the live source's, and the disc out of a title's reach? | one device and disc, lists of 7 and 9 entries with room for 8, reads at 0 and at both layer ends, `CRYPT` and `COVER_OVERRIDE` |
| `reload_disc` | does the next session read the same disc, and are the files gone after? | one device, disc and list, no NAND emulation |
| `reload_nand` | does it store in the same place, is the right title kept, does ES's flag stay ES's, while SETMODE and other requests of other threads fall between its steps? | two titles, one device for FAT, partial and full emulation, no emulated disc |
| `fat` | does a handle, or a dirty sector, ever reach another partition? | two drives, two partitions, two files, 3 bindings |
| `fat_volume` | does a file hold what was written, over window and direct writes, a full volume and power cuts? | two names, one open file, 3 clusters of one sector of two units, one cut before any of the first 4 writes of a call |
| `fat_folders` | do folders and names stay sound, is no cluster lost? | a folder with a file in it, one short and one long name, 4 clusters of two entries, one cut; no open files |
| `ffs` | do the flag, the table, the rights and the mode hold under interleaving? | ES and a game, one place in the table, two descriptors, one folder, paths of a title and of the system |
| `ffs_paths` | is the emulated NAND one file system, and does no title lose what it did not name? | two system folders, a folder or file and a name that FAT forbids in each, files of up to 2 units, one power cut, any call refused |
| `ehci` | is the right device served, is every request answered once the device is back, does the disk keep spinning? | two clients of the disk, one also writes and reads a WBFS disc; two devices of different models, one with a WBFS disc; spans of 2 sectors and of 3, which are none in the 16 bits of the model (`Wrap` 3); the timer; no transfer fails but for the unplugging |
| `ehci_faults` | do retries and recovery tell the truth and leave nothing behind? | one client that sends every message but those of WBFS, two devices, spans of 1, 2 and 4 sectors, which are 1 in the 16 bits of the model; one transfer of any call gone, lost, late, short, bad or refused by the device |
| `usb_module` | does the queue to itself work, are devices put to sleep, does the table settle? | two clients (one a library's, one a loader's), two device ids of one model, a queue of 5, any suspend refused, a kernel of another version |
| `disc_read` | does a read deliver the image, and do the two SD drivers keep off each other's transfers? | two cards (SDHC and SD), two addresses that either may publish, 2 attempts, one failing command, one swap; three lists of up to 3 fragments with and without holes; every read of 1 to 7 words from USB, of 1 to 9 words of the drive into 3 places |

Why these are enough. *Dip*: the two sources are each open or closed and the
copy names neither, one or both; one disc and two lists, one of which is too
long, give every such state, and a second device would only rename. *Reload*:
the product of both halves is out of reach; they share the files, the launch
and the boot, but each restore reads its own file and `SAVE_CONFIG` treats them
one after the other. What only their product shows, NAND emulation on while
`dip.cfg` is written, no run reaches; the theorems of `ReloadProofs`, the promise
among them, are of the product. *Fat*: a stale file needs two bindings, a file over a
failed mount three. *FatVolume*: three clusters are a root and a file that fills
the volume or two that share it; a sector of two units makes a write begin or
end inside a sector, or cover one and go round the window; two entries to a
sector make a directory grow at its second name; a call writes at most 4
sectors before the last that matters. *Ffs*: a full table needs a second file;
two clients are enough for one request to overtake the flag of another.
*FfsPaths*: a rename has four calls, and two folders and two levels give every
relation of its two paths. *Ehci*: the device and a stranger; a second fault in
one behaviour falls into the same loops; a transfer has 2 sectors in commands of
1 so that it can break in the middle; counts just below, at and above `Wrap` are
all that the cut to 16 bits tells apart. *UsbModule*: more than the two ids only
lengthen the list; the real queue has 32 entries and a client at most two in it,
which is `QueueSize > 2 * Cardinality(Client)` for the fifteen clients there may
be. *DiscRead*: sectors of two words and chunks of two sectors bring every read
across a boundary of a sector, a fragment, a hole, the index and DMA.

Bounds on counters: `MaxId` (bindings), `MaxAccess` and `MaxFault` (faults),
`MaxSwap` (cards), `Batches` (the stress read, 2 for 512), `Tries` (2 for 10,
with one fault the same). `Client` bounds the queues, as a thread waits for its
answer.

Views. `MCDiscRead`, `MCFatVolume`, `MCFfsPaths`, `MCEhci` and `MCUsbModule` compare states by
`State`, which leaves out what neither a guard, nor a next value of what is kept,
nor a property reads of an old state: results that only the step that gives them
is judged by, histories that are functions of the rest, variables that are
written before they are read. `MCFat`, `MCFfs` and `MCDiscRead` (the addresses of
cards) use symmetry, with invariants and action properties only.

Each property of a passing run has a mutant in `PROJECT.json`: an operator
marked `Faulty` in the module, a small mistake in the code it stands for, that
makes the property fail in that run. Type invariants: those of `FatVolume` and
`Ehci` are checked in their runs, those of `Dip`, `Fat`, `Ffs`, `Reload`,
`SdCard`, `DiscRead`, `UsbModule` and `Ehci` are proved; `PathsTypeOK` documents the
variables of `FfsPaths`, and what a proof needs of it is in `PathsInv`.

### Fairness

* `Ehci`: weak fairness of `Step`, the thread ending a message or making one
  more turn of its loop. The thread waits for nothing but its queue. `Served`
  speaks of a device that stays plugged in from some time on, at a port that is
  the driver's and not the other controller's, with a driver that kept its handle
  and has not hung, and of requests that are not `Endless` (`Healthy`): without that
  the loop of the code has no end, and does not promise one.
* `UsbModule`: weak fairness of the module's thread and of the kernel's answers
  to requests it can answer. Nobody has to plug anything or to ask.
  `KernelRefuses` and a kernel of another version have no fairness, and end what
  `ListSettles` promises (`refused`).

### Known disagreements

What the code does otherwise than it, or its caller, says. The models do what
the code does; where a property would fail for one of these, its comment names
the exception.

1. Both FAT volumes share one file system object (`fat_wrapper.c:106`). After the
   USB device is mounted beside the SD card, `fat/0:...` opens a file of the USB
   device, while GETPARTITION goes on naming the card's partition.
2. A fragment list set while another mode bit is on (`MODE_CRYPT`, say) is not
   written to `dip.cfg`, because `DI_Config_Save` compares the whole mode with
   `MODE_FRAG`; the reload opens an empty list.
3. The layer probe of a READID is bounded by the disc type of the READID before,
   so a dual layer disc after a single layer one is taken for single layer.
4. `dip.cfg` is restored whoever left it. Power cut between `dip.cfg` and
   `esp.cfg` makes the next boot restore it without a game that asked.
5. `forceRealPath` belongs to no request (`ffs-plugin/iop.c:96`). A `#` open that
   waits behind a SETMODE, or next to another thread's open, is emulated, and the
   other thread's file comes from the real NAND. What holds is `HashAloneReal`.
6. FAT is told the folder once (`ffs-plugin/fat.c:101`). After a second SETMODE
   with another folder, opens stay in the first one while all other operations
   move.
7. `sector *= PAGE_SIZE512` is inside the loop of attempts (`cios-lib/sdio.c:639`):
   on a card that counts in bytes the second attempt reads, or writes, another
   sector and succeeds. `MovedIsAsked` excludes it (`again`), and the cases of 20
   and 21 (`read`, `twin`).
8. The SDHC module answers a failed read with 1, and `sdhc_Read` takes only
   negative answers for errors (`dip-plugin/sdhc.c:75`): the game goes on with
   what was in its buffer. `DiscReadTrue` excludes it (`lost`).
9. `DI_ReadDvd` goes on after a chunk that failed, and the result of the last
   one is returned (`dip-plugin/dip.c:170`). Also `lost`.
10. `__usbstorage_GetCapacity` says "If 0 is returned then an error has occurred"
    (`cios-lib/usbstorage.c:139`); the USB module answers 1 when it fails
    (`usb-module/main.c:100`), and an INIT without a device succeeds.
11. A rename deletes its target before it is known that the source exists
    (`ffs-plugin/plugin.c:568`): renaming a missing file loses the target.
    `ContentKept` counts the target as named by the request.
12. `retval > 0 && status` (`tinyehci/usbstorage.c:1032`, `usb-module/usbstorage.c:566`)
    is never true: a command that the device reports as failed, with a good
    transfer, is taken as done. The fault "failed" is this, in reads and writes;
    `AnswerIsTrue` excludes it (`refused`). A failed inquiry, capacity or request
    for sense is not modelled.
13. `__cycle` of the USB module goes on in a retry from the buffer and length the
    failed attempt left (`usb-module/usbstorage.c:170`), and a negative result is
    added to both.
14. Two disks of one model are one disk to both USB drivers: pulled out and
    replaced by its twin, the second is written to with the first one's
    sectors. `ehci` has two models; `usb_module` two devices of one, and the
    stale handle, which only fails.
15. `create_chain` (`ff.c:986`) takes the error value of `get_fat` for a link, and
    `f_write` keeps its own error value as the file's first cluster; and a call
    that fails at its second access leaves the effect of the first. The promise
    that `FatVolume` keeps is that of a disk that works until the power goes.
16. `idx_off > MAX_IDX` lets index 640 of 640 pass (`dip-plugin/frag.c:92`); no
    disc is that long.
17. `FAT_GetUsage` descends into the name it has unescaped, which is not the one on
    the volume, and stops there (`fat_wrapper.c:682`): `Countable` in `FfsPaths`.
18. The close of any one descriptor of the SDHC module shuts the driver down for
    all (`sdhc-module/main.c:202`): their transfers fail until the next start.
19. `qh_end_transfer` uses `qtd` after the loop that ends with it `NULL`
    (`ehci.c:374`), on a transfer error only.
20. The result of `__sdio_getstatus` is used as a status unchecked
    (`cios-lib/sdio.c:213`, `:406`): an error is a negative number, whose bits say
    that the card is initialised and counts in sectors. `StartedAgrees` and
    `MovedIsAsked` exclude the type that was taken from it (`read`).
21. A driver keeps the address that its card published (`cios-lib/sdio.c:338`). A
    card swapped in and initialised by the other driver may have the same one, and
    then answers to it. `MovedIsAsked` excludes it (`twin`).
22. Nobody looks at what a deselect returns (`cios-lib/sdio.c:535`, `:542`, `:547`,
    `:645`, `:678`), nor deselects after a select that failed: a card can stay
    selected, and then refuses the select of every transfer until it is reset.
    `CardReleased` excludes it (`stuck`).
23. The sector count of a request is a `u32` that is passed as a `u16`
    (`tinyehci/usbstorage.c:1365` and `:1410` to `:1061` and `:1087`): of 65537 sectors one
    is moved and the request is answered as done. `AnswerIsTrue` speaks of counts
    below `Wrap`.
24. With a count of 0, or of 65536, no command is sent, the result is -1, and the
    loop of the request turns for ever without reading (`tinyehci/usbstorage.c:1391`,
    `:1437`), with the device plugged in. `Served` excludes it (`Endless`).
25. A port reset that finds no device hands the port over to the companion
    controller (`ehci.c:718`, `:822`), for good if that controller keeps it.
    `Served` excludes it (`port_owner`). That the second attempt of
    `ehci_init_port` takes the port over itself changes nothing here: it writes to
    the port only where a device is seen.
26. `udd` is static and keeps its pointers (`tinyehci/usbstorage.c:674`): when the
    first request for descriptors of a later open fails, `USB_FreeDescriptors`
    (`tinyehci/usb.c:155`) frees them a second time. `BufferBalance` holds up to
    there (`refreed`).
27. `USB_CloseDevice` clears the handle and `USBStorage_Close` drops its result
    (`usb-module/usb2.c:347`, `usb-module/usbstorage.c:487`): a device that the kernel
    refuses to suspend stays awake. `NoDeviceForgotten` excludes it (`forsaken`).
28. `USB_Init` with a kernel of another version frees `host` and returns 0
    (`usb-module/usb2.c:275`): `__inited` is set, nothing is ever asked of the kernel,
    and the read of `host->fd` through `NULL` is modelled as no descriptor of it.

### Hazards without a property

`PROJECT.json` lists the hazards the properties are for. These are real too and
no property is about them:

* FAT: a failed close never frees its `FIL` (`fat_wrapper.c:238`); the mount ID
  wraps after 65536 mounts (`ff.c:2145`); a card swapped while mounted is taken
  for the old one (`ff.c:2037`); `dir_next` links a cluster before it clears it
  (`ff.c:1136`); a cut in `f_rename` leaves two names on one chain (`ff.c:3453`).
* FFS: the 21st open file has no place in the table and goes to Nintendo's
  handler (`plugin.c:265`, in the model); a refused close keeps its entry
  (`plugin.c:303`); a rename with one real path (`plugin.c:538`); the terminator
  behind `emuNandPath` (`fat-module/main.c:79`); one static path for the hooks of
  all threads (`iop.c:68`); an escaped name is four times as long
  (`cios-lib/fat_tools.c:48`).
* EHCI: no timer after a failed allocation (`loop.c:298`); the wait for a port to
  settle has no end (`ehci.c:936`).
* USB module: one error of the kernel ends the requests for changes
  (`usb2.c:204`); a replugged device keeps its old handle (`usbglue.c:83`).

## 4. Proofs

Everything here is proved for every value of the constants: any number of
devices, discs, clients, descriptors, faults, swaps and power cuts, and any
sizes of sectors and lists that the assumptions below allow.

| Module | Inductive invariant | Proved of every instance |
|---|---|---|
| `DipProofs` | `DipInv`: types and `SourceInv` | `DipTypeOK`, `ModeIsBacked`, `SnapshotMatchesSource`, `TitleCannotSwitchDisc` |
| `FatProofs` | `FatInv`: types, the three invariants, `NoFileAhead`, `BoundSomewhere` | `FatTypeOK`, `FileStaysPut`, `WindowGoesHome`, `VolumeHasPartition` |
| `FfsProofs` | `FfsInv`: types, `HashReady`, `AloneFirst`, `ThreeThreads`, the two invariants | `FfsTypeOK`, `OldFilesForgotten`, `EmulationAuthorised`, `HashAloneReal`, `TitleCannotSwitchNand` |
| `FfsPathsProofs` | `PathsInv`: `Shaped`, `Writers`, `Pending` | `ContentKept` |
| `FfsPathsProofs` | `NandInv`: `PathsInv`, `Typed`, `Busied` | the refinement `NandKeepsPromise` |
| `ReloadProofs` | `ReloadInv`: types, `DeviceInv`, `EmulationIsSaved`, `EsRequestIsOurs` | `ReloadTypeOK`, `EmulationIsSaved`, `EsRequestIsOurs` |
| `ReloadProofs` | `PromiseInv`: `ReloadInv`, `SourcesAgree`, `Fresh`, `Promised` | `FilesReadOnce`, `ReloadingTitleKept`, the refinement `ReloadKeepsPromise` |
| `UsbModuleProofs` | `UsbInv`: types, `WorkInv`, `DevicesInv`, `QueueInv`, `QueueHasRoom` | `TypeOK`, `QueueHasRoom`, `MountedBeforeAsked`, `NoDeviceForgotten` |
| `EhciProofs` | `EhciInv`: `DriverInv` (`Ready`, `Session`), `QueueInv`, `TurnInv`, `NewInv`, `ServiceInv`, `WatchdogArmed`, `HomeInv` | `EhciTypeOK`, `BufferBalance`, `SessionAgrees`, `WatchdogArmed`; `NoStranger` and `AnswerIsTrue` for devices of different models |
| `DiscReadProofs` | `DiscInv`: `SdInv` (types, `BusOK`, and for each driver `DriverOK`, `WiresOK`, `MoveOK`), `DipTyped`, `AskOK`, `ReadOK` | `DiscTypeOK`, `MovedIsAsked`, `CardReleased`, `StartedAgrees`, `DiscReadTrue` |

Why the invariants are stronger than the properties:

* `SourceInv` speaks of each source while the other may be live too: when one of
  two is closed, the copy must not be left naming the other with the wrong
  device.
* `NoFileAhead`: a failed mount leaves the object with a new drive and its old
  ID; only because every file's ID is at most the object's does the next
  binding, with a greater one, make them all stale.
* `HashReady` and `AloneFirst` carry what the hook did on an empty queue to the
  step that answers: such a request stays first and nobody takes the flag.
  `ThreeThreads` bounds the table of rights by a cardinality argument, so that
  `AddRights` never refuses FFS.
* `Writers` and `Pending`: a file that is written is out of sight until it is
  closed, so that the content a title sees changes by calls on the path alone;
  and what a request has still to call is about the paths it names, with nothing
  open there. A renamed folder is followed path by path: escaping is injective
  on names and keeps prefixes, so what moves on the volume moves alike in the
  NAND that titles see, and nothing else does.
* `Typed` and `Busied`: a cut makes of what is busy on the volume a file with the
  data of the descriptor that writes it, or an empty one. There must be such a
  descriptor, and one only (`Writers`), for the promise's cut to leave the same.
* `DeviceInv`: the copy and `dip.cfg` name a device whenever they name an
  emulation; without it a restore could set a mode for no device, and
  `EmulationIsSaved` would not survive the boot.
* `Promised` says for each place where a launch or a boot can stand which part
  of what is owed is in memory still, or again, and which in a file.
  `SourcesAgree` makes the copy worth saving; `Fresh` is what a reboot forgets.
  A change of a source maps to `Configure`, the first step of a launch to
  `Suspend`, a step that fails to `Spoil`, the restore that ends to `Resume` or
  `GiveUp`, every other to a stutter.
* `DevicesInv`: the kernel writes the table over from its start and clears what
  it did not write, so a device that is open and at its port stays in the table
  and its handle can be closed. `QueueInv` is each client's one request, its
  mount behind it and never twice; with it `QueueHasRoom` is an injection of the
  queue into the requests, the mounts and the kernel's one message, and a
  comparison of cardinalities.
* `DriverOK`, `WiresOK` and `MoveOK` say what each of the two drivers knows of the
  card at each of its steps, whichever of the other's steps fall between. `BusOK`:
  the card is selected only while some driver stands between its two CMD7s, unless
  one of them failed.
* `AskOK` and `ReadOK`: while a read goes on, the buffer is right up to the next
  part of its plan, the plan's rest is right behind it, and the driver of the
  card, if it is at it, moves that part.

`ReadOK` rests on lemmas about the plans: for every list of fragments and every read,
the parts of `FragPlan` follow one another and each takes its words from where
`ImageWord` has them or is a hole (`FragPlanRight`), a read behind the disc is
refused, and `DvdPlan` reads each word of the drive once, through the bounce
buffer or not (`DvdPlanRight`). These plans are recursive functions over the
length left. That each is well defined, and what it returns, is proved by
induction on sets of numbers, from the fact that a set of naturals has a least
element (`LeastOfSet`, from well-foundedness of inclusion among finite sets).
This form of induction needs no operator parameter.

`NandKeepsPromise` says that the emulated NAND is `FatPromise` in the names of the
titles. Each request makes up to four calls, each step one; one call on escaped
names is one call of the promise on names (`CreateSeen`, `RenameSeen`, `ReadSeen`
and so on, one lemma per call, from `SeenPut`, `SeenDir`, `SeenChildren` and
`SeenBelow`: what a path is, what is in it and below it). A cut inside the deletion
of a folder is a cut of the promise below that folder. Usage is a sum over a set of
paths on one side and over that of their escaped names on the other, each taken
in an order that `CHOOSE` gives: `SumExists` and `SumIs` prove, by the smallest
subset of a finite set for which it fails, that such a sum exists and that the
element it starts with makes no difference, and `SumAcross` carries it over an
injection.

`EhciProofs` goes through the driver function by function, from a transfer up to a
request. `Same(w)` is what every function below mounting makes of the driver w,
however it ends: buffers, handle, mounted model and `handshake_mode` as before, no
lost device found again, no hang forgotten. It is closed under composition and
under each round of a loop, and so under the loop (`LoopRuns`: the recursive
function exists; `LoopStays`: it stays in a set its rounds do not leave; `LoopEnds`:
the same for a loop whose first round always runs).
`Checked`, `Lun`, `Opened`, `Tried` and `Moved` say the same of a command, of
mounting and of a request, with what a success adds: after a command that succeeds
host and device agree (`Agrees`), because its status block arrived with the right
toggle. Of the invariant, `Ready` balances the buffers and keeps
`handshake_mode` 0 beside a mounted disk, which `Session` needs: only so does every
failed transfer mark the device as lost. `NewInv` (nothing but opens is asked for
before the device was looked for) excludes a WBFS disc on a device nobody has
enumerated; `QueueInv` (each client at most once, and the timer) bounds the queue by
an injection into the clients. `WatchdogArmed` is its own induction: the timer is
set again by every message that reads.

`NoStranger` and `AnswerIsTrue` need of each function which device's sectors it
writes and what it reads. Below mounting nothing is written at all, which `Same`
says. A transfer is of the device at the port, and a request asks it only after
`Known`: a device that is enabled while the handle has its buffer is of the model
that was mounted, because the handle loses its buffer before any other device is
enumerated. So `Moved` bounds what a request writes by the model; `There` says of
one that succeeds that the device was at the port when it did; `ReadChunksReads`,
`WriteChunksWrites` and `StressReads` join the parts of a request that is split into
commands: each part read is where the last one ended (`HoldsJoin`), and each part
written stays while the later ones are. `HomeInv` (the model that was mounted is
that of `home`) turns this into the history variable of the properties. What is
proved without any assumption is that a device that is written to, and one that an
answer is true of, is of the model of `home` (`OnlyTheModelWritten`,
`AnswersTrueOfTheModel`): the code compares the descriptors of a device that is
plugged in with those it has kept, so it cannot tell two disks of one model apart,
and with two devices of one model `NoStranger` is false (TLC: the disk is pulled
out, the other plugged in, and the next write goes to that one). Both hold if no two devices are of one model (`Distinct`: `StrangersSpared`,
`AnswersTrue`), as in the runs, which give each device its own.

What the proofs changed in the models. The proof of `StartedAgrees` failed: a
start by hand left `holder` (whom the wires of the card and of the host
controller were set up for) with the other driver, and TLC found with two faults
what it could not with one. `Host` now names the driver that tries. `SdInv`
was checked by TLC at the bounds of the run (914,741 states), `PathsInv` at those
of `ffs_paths` and with a second descriptor (212,894 states), before either was
proved.

Assumptions on the constants, each `ASSUME`d in its module and evaluated by the
runs:

* `MaxId <= 65535` (the ID is a `WORD`; the wrap is outside); `MaxTids >= 3`
  (`MAX_NUM_TIDS` is 8); `QueueSize > 2 * Cardinality(Client)` (32 entries,
  fifteen clients); the file system's thread is not a client.
* A fragment list is sorted and none of its fragments overlap or end behind its
  size: the code relies on this too (`__Frag_Get` takes the first fragment of the
  list that begins among the sectors asked for, and fills what is before it with
  zeros) and checks only the size of the list; it is the loader that makes it. A read is of at least one word. Blocks of the drive's
  reads are whole sectors (`MAX_SECTOR_SIZE` is a multiple of `SECTOR_SIZE`).
* A path has at least one name, none of its names is one that escaping yields,
  and escaping is injective on the names it is about. The paths are finitely many
  and not none, and the folder of each is one of them: a title can make nothing
  in a folder that it cannot name.
* `None`, `Partial` and `Off` are no data.

Only model-checked:

* `FatVolume` and its refinement of `FatPromise`: its loops over chains are
  `RECURSIVE` operators.
* `Served` and `ListSettles`: liveness under fairness, as `ENABLED`,
  is out of the prover's reach.

## 5. Not modelled

* `led.c`, `cios-lib/timer.c` and `mem.c`: nothing modelled depends on them.
* ES's faked ticket views and its replacement of the system menu's IOS.
* MLOAD's loading of code, its main loop and patch detection.
* Reads of WBFS discs inside the DIP plugin (the modules' side is in `Ehci` and
  `UsbModule`), the command A8, and the patches of Nintendo's code at start.
* FAT12 and FAT16, code pages, long names as characters, `f_mkfs` and what else
  of FatFs nobody calls; the second copy of the FAT, which is never read.
* USB hubs, several LUNs, queue heads and transfer descriptors in memory; the
  release of the other ports at start (`ehci_release_ports`, `ehci.c:1028`), the power
  write after a reset that failed with a device in sight (`ehci.c:1000`), and what a
  descriptor that was not filled contains.
* `libwbfs` (third-party) beyond the calls the modules make.
* Host tools and the web configurator: not part of the running cIOS.
* In `Reload`, one FAT device is mounted at a time and SETMODE is one step; the
  queue in front of it is in `Ffs`, its folders are in `FfsPaths`.

## 6. Plan

1. `FatVolume`: what a write of one sector leaves of `WindowIsCopy`, and the lemmas
   on chains that `NoCrossLink` needs, on chains as functions.
2. `Led`: `led.c`'s `state`, changed by the request thread and the blink thread.
