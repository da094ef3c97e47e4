# Formal model of atari800-spinalhdl

TLA+ modules, TLC runs and TLAPS proofs about the Atari 800 core in SpinalHDL
(`src/hdl`) and the supervisor firmware that configures, boots and feeds it
(`src/firmware/supervisor`). Everything of the two in which several actors meet
is modelled: the disk path and the load path over SPI, the card and its FatFs
volume, the staging and configuration of the FPGA, the web server, the menu, and
the video path through SDRAM. Of all of them but the card, what the runs check is
also proved, with the exceptions named in section 6.

To check it: `tlc -config sio_link.cfg MCSioLink` (and the other runs in
`PROJECT.json`), and `tlapm` on each of `Loops`, `SioLinkProofs`,
`SpiLoaderProofs`, `BlasterProofs`, `FpgaConfigProofs`, `HttpServerProofs`,
`SupervisorProofs` and `FrameBuffersProofs`.

## 1. The system

An RP2040 or RP2350 (the *supervisor*) sits beside an FPGA (the *Atari*). They
share one SPI link with the supervisor as master, the SD card, and a JTAG
header through which the supervisor configures the FPGA. The firmware is one
cooperative loop on one core (`main.c:1181-1209`): USB device, USB blaster, USB
host, console, `sio_poll`, WiFi. Nothing preempts anything but interrupts of
the USB stacks, so a handler that waits, waits for everybody. The FPGA is
clocked logic in three reset domains (boot, system, pixel).

| Component | State | Operations | Interacts with |
|---|---|---|---|
| SIO disk emulator `sio.c` | drives (mounted, file, geometry) | mount, unmount, poll, read/status/speed/nak answers | bridge (SPI registers), FatFs |
| SIO bridge `SioBridge.scala` | tagged RX FIFO, TX FIFO, serializers, command index, enable bit | bytes in and out, COMMAND edges, register reads and writes | POKEY/PIA lines, SPI slave |
| SPI slave `RpAtariKeyboard.scala` | frame position, key image, load queue, verify sweep, control bits | K, C, W, Z, B, V, R, Q, S, T, G, X, P frames | every FPGA block |
| Loader and boot `main.c` | file being streamed, checksums | `stream_file`, `boot_run`, `do_boot` | SPI slave, FatFs, SIO |
| SD volume (FatFs) | mount generation, open files | `f_mount` by a dozen callers, reads, writes | SIO, HTTP, push, config, USB mass storage |
| Menu `supervisor.c` | active, pending pick, turbo, live config | hot key, menu keys, boot, save | SPI control frame, config, WiFi |
| Configuration `config.c` | `/config.json` and machine file | load, select, save | FatFs |
| FPGA staging `fpga_config.c`, `jtag.c` | flash header and image | stage if changed, configure | flash, JTAG, SD |
| HTTP manager `httpsrv.c`, `wifi.c` | connections, one upload slot | list, upload, delete, mkdir | lwIP callbacks, FatFs |
| USB: `msc_disk.c`, `blaster.c` | write gate; shift mode and byte count | block read/write; bit-bang and shift | SD, JTAG pins |
| SDRAM arbiter `SdramArbiter3.scala` | pending latches, port served | requests of ports A-D, completion | CPU, scaler, loader, controller |
| Framebuffer `VideoFbWrite/Read2.scala` | three buffers, row ring | capture a frame, publish, prefetch, display | arbiter, video clock |
| Core chips (6502, ANTIC, GTIA, POKEY, PIA, cartridge, freezer, MMU) | registers | bus cycles | each other |

What is hard here: two processors that share FIFOs and registers without a
lock (SIO, loader, video); a reset of one that the other does not notice; one
cooperative loop in which a wait stops everything; a file system remounted
under its users; checksums that do not cover what they are trusted for; flash
written across a power loss. `hazards` in `PROJECT.json` lists each at its line.

What makes each component correct, and the properties that say so:

- **SIO**: a command frame is believed only if its five bytes were sent as one
  (`NoForgedFrame`); frames are answered in order, at most once, and each answer
  is heard whole (`ServiceSpec`); `sio_poll` returns (`PollReturnsUnlessReset`).
- **Loader**: after an undisturbed boot every file reported as loaded is in the
  memory it was meant for (`QuietBootLoadsFiles`). Under resets, console reads and
  card errors so is a file of which every byte was sent, counted and drained, unless
  a reset took the destination back between the frame that set it and the first
  byte (`CleanLoadIsWritten`).
- **SD volume**: the card is a sound file system at every moment (`CardSound`);
  what was closed stays on it (`Durable`); nobody works through a stale file
  (`OpenFilesOwnTheirChains`, `SectorsAreOfTheImage`, `ListingTrue`).
- **Staging and configuration**: what is configured is a complete image, and the
  newest one (`StagedIsWhole`, `StagedIsNewest`, `FlashConfigures`), without
  needless wear (`NoNeedlessErase`); the host reads back what the chip answered
  (`ReadbackInOrder`, `FirstIdcodeGenuine`).
- **HTTP**: one upload at a time, answered ok only if it is stored; requests are
  answered and the slot is freed (`SlotHasOneOwner`, `NeverTouchesFreed`,
  `UploadOkIsStored`, `Answered`, `SlotFreed`).
- **Menu and configuration**: the machine is halted exactly while the menu is
  up, the screen tells the truth, keys go to one side only and whole, what is
  booted and saved is what was selected (`MenuOwnsControl`, `ScreenIsTrue`,
  `KeysAreWhole`, `NoStuckKey`, `MenuKeysStay`, `PickedIsShown`,
  `BootedAsSelected`, `SavedComesBack`, `MapKept`).
- **Video and arbiter**: a line shown is of the right row of one finished frame
  (`ShownRowIsRight`, `ReadsFinishedCaptures`); no port waits for ever
  (`NoPortStarves`).

## 2. Modules

| Module | What it is |
|---|---|
| `SioService` | abstract: what the disk emulator promises the Atari |
| `SioLink` | detailed: Atari line, bridge, SPI register accesses, `sio.c` |
| `MCSioLink`, `MCSioLast` | its instances; the second adds a history variable |
| `SioLinkProofs` | theorems: type and frame invariants; `SioLink` implements `SioService` |
| `SpiLoader`, `MCSpiLoader`, `SpiLoaderProofs` | loading the Atari's memory: `stream_file`, `boot_run`, console reads, the SPI slave's queue and its drain |
| `FatFs` | the FatFs functions in use, as operators on a machine (card, FATFS, DIR, FIL), access by access |
| `SdVolume`, `MCSdVolume` | everybody who uses the card, composed over `FatFs` |
| `FpgaStage` | the flash region with the copy of the FPGA image |
| `Blaster` | the USB blaster's engine, `jtag.c`, the wires, and the FPGA's TAP |
| `BlasterProofs` | lemmas: what byte strings do to the engine, the wires and the TAP |
| `FpgaConfig`, `MCFpgaConfig`, `FpgaConfigProofs` | start-up, JTAG configuration, USB endpoints and console, composed over the two |
| `HttpServer`, `MCHttpServer`, `HttpServerProofs` | `httpsrv.c` under the callbacks of lwIP, `wifi.c` |
| `MachineConfig` | `config.c`: what the JSON files say, and the selection |
| `Supervisor`, `MCSupervisor`, `SupervisorProofs` | the menu, keyboard, console and the slave's key and control registers |
| `SdramArbiter` | three ports before one SDRAM |
| `VideoFbWrite` | capture into three buffers, and batched writes |
| `VideoFbRead2` | the display's row ring, and the fetch from SDRAM |
| `FrameBuffers`, `MCFrameBuffers`, `FrameBuffersProofs` | the three composed, with loader, menu and reset |
| `Loops` | induction for the recursive functions that stand for loops |

A property stands beside the module it is about; `map` in `PROJECT.json` gives
the lines of source for each definition. A definition with a comment that begins
`(mutant)` stands just before the one it varies: these are plausible bugs that a
property was seen to catch, and no specification uses them.

### How SioLink corresponds to the code

*Atari and line.* `CommandFall`, `CommandByte`, `CommandRise`, `DataByte`. The
Atari may give a frame up after any of its bytes and send data bytes (a write)
only after a whole frame, as its operating system does. A byte is named by
the frame it was sent in. What the frame asks for (drive, command, checksum) is
chosen when the firmware has assembled it: nothing looks at it earlier.

*Bridge.* `rx` holds `[idx, f]`: the tag `cmdByteCount` of `SioBridge.scala:130`
and, as history, the frame. `RxPush` drops the byte when the FIFO is full while
the index goes on counting (`:131`, `:217`). The serializer is `p2s`;
`SerializerDone` puts the byte on the line if the output is enabled (`:185`).

*Firmware.* `pc` walks through `sio_poll`: `idle`, `drain`, `enable`, `send`,
`busy`, `disable`. Each step is one register access, so bytes arrive and leave
between any two. The loop that assembles the frame from `raw` (`sio.c:247-255`)
runs over what was drained in the same order and touches no shared state; its
passes are joined to the pops. A status read and the data read of one drain
pass are one step: only the firmware pops. `AnswersTo` gives the bytes of every
handler; sector data is a run of `"data"` bytes whose length is one of
`SectorLens`, and a read may end in ERROR because the number is out of range or
FatFs fails.

*Reset.* The console button resets the whole system domain, bridge and SPI
slave included (`Atari800Rp2040HdmiLgTop.scala:152-180`), and not the
supervisor. `Reset` clears the bridge; until `Release` a register read gives 0
(which `sio.c` takes for "not empty, not full, not busy") and a write is lost.
An SPI frame that straddles the edge of the reset is not modelled: an access
falls wholly before or after it.

`SioLink` is untimed, with one exception. `DrainKeepsUp`: from the first pop of
a drain on, no more bytes arrive than have been popped. One pass of the loop is
two register reads, 0.49 ms on the 1 MHz link, and a byte on the line takes
0.52 ms at 19200 baud. Interrupts of the USB host stack could stretch a pass;
without the assumption the proof of `NoForgedFrame` does not go through.

### How SpiLoader corresponds to the code

*SPI slave.* `wq`, `wqOvf`, `ldCnt`, `drainCnt`, `servingWq`, `ldIsRead`,
`wrValid` are the registers of the same names; an entry of the queue is its
address, counted from the start of the file, and stands for its data. `vBusy` is
`vLen > 0`. `ldSum` is left out: the link is taken to be free of bit errors, so
the sums agree if the counts do. `flight` is `ldInFlight` with what the request
is for; it is `"lost"` when the request went out in a cycle in which the core's
load port does not take it (`Accepted`): `LOAD_ENABLE` needs the halt bit, and
`ldWrite` is computed from the request before (`RpAtariKeyboard.scala:394`).
Nothing but a reset ends a lost request. Port D of the SDRAM arbiter remembers
the pulse and looks at the write line a cycle later, so SDRAM loses none.

*Firmware.* `pc` walks through `stream_file` (`open`, `dest`, `zero`, `stream`,
`status`) and `boot_run` (`ok`, `finish`, `failed`), and through the console's
`v` (`verify`); `work` says whether a boot or the `L` command is loading. Opening
a file can fail at any attempt and reading it after any byte. `stray`, which no
program variable holds, records a reset that was pressed, or still held, between
`fpga_set_dest` and the first byte of a file (`Aimed`).

*Reset.* `Button` and `Release` as in `SioLink`, with every register of the
slave; `Finish` is the reset `boot_run` asks for itself, over (1.1 ms) before
the next command has been typed and has found its file.

*Time.* `BlockKeepsUp`: a block of the core takes a request in four cycles of
the system clock, a byte on the link takes some 460, so at a byte boundary the
drain is done or stuck; SDRAM may take as long as it likes. `Settled` in `Open`
and `Begin`: the card is slow enough for the queue to empty between two loads.

### How FatFs and SdVolume correspond to the code

*FatFs.* Each operator is the function of `ff.c` with its name (capitalised ones
are parts of a function). A machine record passes through; one that has failed
(`rc`) passes unchanged, as `if (res == FR_OK)` does. The window, the FSInfo
sector, the private buffer of a FIL, `last_clst` and `free_clst` are kept, since
what the card holds between two writes depends on them. A sector has `SS` cells;
a cell is an entry of the FAT or of a directory, or a piece of a file that says
which. Long names are one entry of `LfnEnts` parts; a short-name clash numbers
the name as `gen_numname` does, without its hash for n > 5. The lock-free build
(`FF_FS_REENTRANT` 0, `FF_FS_LOCK` 0) is the one modelled.

*Users.* `HttpUpload/Body/Close`, `PushBegin/Data/Timeout`, `config_save`,
`HttpDelete`, `HttpMkdir`, `HttpList`, `Stage`, `do_boot`, `SioRead`, and
`HostWrite` for the USB host, a driver of its own on the same sectors. The
firmware is one thread: a handler is a step; but a push pumps the USB stack and
so leaves room for `HostWrite`. Every user but `config_save` mounts by force,
which makes the FILs of all others invalid (`id`).

*Faults.* In any handler the n-th access of the card fails, the write having
landed or not, or power goes in it (`fuse`, `lands`, `gone`); power may also go
between handlers. A directory cluster left half cleared by a failing
`dir_clear` is flagged (`torn`) and ends the behaviour: its remaining entries
are whatever the cluster held before.

### How FpgaStage, Blaster and FpgaConfig correspond to the code

*Staging* is a step per flash operation: erase (header first in address, any
sector may survive a power failure in it), a sector at a time, the header last.
A program only clears bits. *JTAG.* `Blaster` steps the TAP on each rising TCK;
bit-bang, PIO and `jtag.c` share the wires, and a byte from the PIO only moves
them if it owns them. Cyclone and Artix differ by `Family`. *Host.* A host opens
the device at any time, also in the middle of another's session; packets, the
reply buffer and the IN endpoint are separate queues. `CONF_DONE` of
`fpga_config.c:206-209` is computed as the code does it: it samples TDO outside
a shift state, so it answers TRUE always (the retry of `main.c:1133` never
runs).

### How HttpServer corresponds to the code

An action is one callback (`on_accept`, `on_recv` with one or two buffers,
`on_recv` of NULL, `on_sent`, `on_err`), `wifi_on` or `wifi_off`. `srv.conn[c]`
is the `conn_t`, freed when `live` is FALSE; using it then sets `touched`.
Requests are streams of header units, an end, and body units. `luck` is what
fails in the callback. Of the card there is the size of each file, and whether
a mount made the open one stale; `SdVolume` has the rest.

### How MachineConfig and Supervisor correspond to the code

A handler is a step with all the frames it sends; the `K` frame takes one per
byte, because the machine's keyboard scan runs meanwhile (`KeyByte`, `CsRise`).
`ctrl` is the control register; its reset bit erases the register it is in
(`Reset`), and while the button is held the slave takes no frame. `Draw` is the
picture the overlay has after the handler; `shown` is compared with what the
menu now is. `config_load` answers with what could be read when one of the
files fails; names are sequences of characters, so that filters and the folder
lists are real.

### How the video modules correspond to the code

*Writer.* `Sweep`, `Pixels`, `HSync`, `VSync` are the capture side, a step per
quad or sync; `PopFirst`, `PopNext`, `FlushPartial`, `WriteRequest`, `WriteDone`
the drain side. `mem` says of each cell what it was captured as ("new" of the
last capture of its buffer, "old", "black" of the sweep, "bad" of a disturbed
one), and an address error shows as a "bad" or misplaced cell. *Reader.*
`Prefetch`, `Fetched`, `LineEnd` are the pixel domain, `StartFetch` to `RowDone`
the fetch domain; toggles that cross are flags, the two-bit buffer number may be
sampled with its bits mixed (`Mixed`). *Arbiter.* A request is latched at once,
and one of the waiting ports is served when the controller is free.

*Time.* The composition has no handshake; what keeps it right is timing, named
in its guards: `Prompt` (the drain side acts between two quads), `LineOver` (a
line of the core lasts until its quads are written), `FrameCaptured` (a frame of
20 ms contains a frame boundary of the display's 16.7 ms), `InTime` (a row is
fetched within an output line, two if late, and the ring is full at the end of a
frame), `owed` (unloading 32 bytes outlasts a waiting write). Each of them fails
on purpose in one of the `Faults` but `FrameCaptured` and `owed`, which are
margins of the clocks.

*Normalised.* What nobody tells apart any more is made one value, or the states
would not be finitely many in practice: memory after a reset, a disturbed
capture, registers of a disabled reader.

## 3. Runs

| Run | Module and bounds | Question | Result |
|---|---|---|---|
| `sio_link` | `MCSioLink`; 3 frames, 1 reset | frames, refinement, and the return of `sio_poll` | pass, 413,715 states |
| `sio_reset` | `MCSioLink`; 1 frame, 1 reset | `PollReturns` | violated |
| `sio_last` | `MCSioLast`; 3 frames, no reset | `LastFrameFound` | violated |
| `spi_loader` | `MCSpiLoader`; 2 resets, 2 reads, 1 card error | is what counts as loaded in memory? | pass, 340,135 states |
| `spi_reads` | `MCSpiLoader`; 1 read | `BootLoadsFiles` | violated |
| `spi_short` | `MCSpiLoader`; 1 card error | `BootLoadsFiles` | violated |
| `sd_volume` | `MCSdVolume`; 4 operations, 1 fault at any access | is the card sound and does it keep what was closed? | pass, 113,194 states |
| `sd_host` | `MCSdVolume`; 3 operations, no fault | `Durable` with the host's write gate as it is | violated |
| `fpga_config` | `MCFpgaConfig`; 3 actions of the environment | staging, configuration, read-back | pass, 175,010 states |
| `http` | `MCHttpServer`; 2 clients at once, 2 requests, 1 fault | the slot, the answers, the stored file | pass, 34,661 states |
| `supervisor` | `MCSupervisor`; 6 inputs, 1 fault | menu, keys, control register, configuration | pass, 1,035,929 states |
| `video` | `MCFrameBuffers`; 3 rows of 6 quads, one disturbance at a time | what is on the screen; starvation | pass, 2,068,686 states |

*Bounds of SioLink.* `FrameLen = 3`, `RxDepth = 4`, `TxDepth = 2`, one drive, sector
lengths 1 and 3 (code: 5, 16, 16, four drives, 128 and 256). Depth 4 with
frames of 3 keeps what matters: a whole frame and the start of the next fit,
two do not, so the FIFO overflows in the middle of a frame. Answers of three to
six bytes overrun a TX FIFO of 2. Three frames are enough for one to be dropped
between two that are kept. `MaxFrames` and `MaxResets` bound the two counters;
the theorems hold for every value of all of these.

*Bounds of SpiLoader.* A queue of 2, quads of 2, an OS block of 4 bytes, a
cartridge of 3 (its last byte is cut), an SDRAM file of 4, sweeps of 1 and 2. A
file is twice the queue, so a slow SDRAM overflows it in mid-file and again
after it has drained a little; two files show the change of destination; two
resets fit into one load, or one into each of two attempts. Commands may follow
each other without bound.

*Bounds of SdVolume.* Eight clusters of one sector, sectors of four cells, files of
two clusters arriving in chunks of 3 and 5 cells (in mid-sector, across one), two
colliding long names, one of them in a subdirectory: a directory grows over its
first cluster, a file is truncated and rewritten, the FAT nearly fills up.
`MaxOps = 4`: open, two chunks or another user, and a look at it. `MaxFuse = 16`
is more accesses than any handler makes. With `HostWaits` the host keeps away
while the firmware has the volume mounted; `sd_host` shows what happens if not.

*Bounds of FpgaConfig.* Two images of one length (so that only time tells them
apart) and a longer file that is no image; sectors of two bytes, so that an image
is two sectors, the second partial; shift commands of at most two bytes; an
IDCODE of four bits. Three actions of the environment, faults included, in any
order from power-on: torn erase, then restart, then a new card, and the like.

*Bounds of HttpServer.* Header room 2, bodies of 0 and 2, a send buffer of 2 below a
page of 3: a header overflows, an upload comes in pieces, a response needs
`on_sent`. A second client is what takes, loses or is refused the slot.

*Bounds of Supervisor.* Six reports or characters: open, pick, filter, choose, save
or boot, reload. Two drives, of which the card's configuration leaves the first
empty; two disks, one the prefix of the other's name; a filter of one character.

*Bounds of FrameBuffers.* Rows of six quads in batches of three: two quads of margin
(`xStart`), one written singly, one batch; when a quad is lost the batch is flushed
in part. 3 rows on 7 lines step after two and after three lines, as 288 on 720 do.
Two banks and a queue of one entry are the smallest that still run ahead and still
drop. A disturbance (menu, reset, lost quad, late row, mixed sample, loader
access) strikes a calm picture and the next only when it is calm again
(`Strikes`); it strikes while buffer 0 is captured, the other two being a
rotation, and at the lines in `CoreLines` and `ResetLines`. `Calm = 4` frames
after it every buffer and the cache have been filled anew.

*Fairness.* `WF(Serializer)`: the baud generator runs freely. `WF(Poll)`: the
main loop comes round and each wait in `sio_poll` polls again. `WF(Release)`:
the reset is stretched by a counter that runs out. `WF(Callback(c))` in
`HttpServer`: the main loop calls `wifi_poll` for ever, and lwIP its callbacks
for what has arrived. The Atari and the clients are under no obligation. The
other specifications state none: their properties are of safety.

*Deadlock* is checked in `spi_loader` and `video`. In the others the environment may
stop, or its bounds be used up.

### What the violations show

`sio_reset`: the button is pressed during an answer
and released before the answer is written. The bridge has forgotten `txEnable`;
the firmware goes on writing bytes, which nobody sends any more, and waits in
`tx_byte` (`sio.c:122`) or `tx_wait_done` (`:127`) for a FIFO that never drains,
until somebody presses the button again. (A press that outlasts the answer does
no harm: while it lasts registers read as 0. Only the button can come in
mid-answer: F8 and the console's reset go through the loop that is busy.) `sio_last`: the FIFO holds a whole frame and the
first byte of the next (a retry). The comment at `sio.c:240` promises the last
complete frame; the loop restarts at each index 0 and returns with none.

`spi_reads`: an `x`, `y` or `v` on the console, then a boot. The slave's read
flag is still set, so the first write to the OS block goes out without its write
line, nobody completes it and the queue stands still; the count goes up on the
way in, the checksum agrees, the boot says ok and resets the machine into the
memory it had before. That reset clears the flag: the next boot works.
`spi_short`: the card fails in mid-file, the loop of `stream_file` ends as it
does at the end of the file, and the part passes for the whole. A press of reset
during a boot leads to the same violation in two ways: the halt bit is cleared and
the load port with it, so that nothing drains any more and the retry matches; or,
pressed or held over the frame that sets the destination and released before the
first byte, it takes the destination back to SDRAM, and the whole file goes there.

`CleanLoadIsWritten` says which of these can be told apart afterwards. A lost halt
bit and a dropped push show in the drain count (a dropped push in the overflow flag
as well): the status frame carries it and `stream_file` does not look. A card error leaves all counts
clean, and only the length of the file tells. A lost destination shows nowhere: the
history variable `stray` marks it (a reset pressed or held while `Aimed`), the
property excludes it, and the code has no way to notice it. Without any one of the
conditions on the drain count, the length and `stray` TLC refutes the property.

`sd_host`: `msc_disk.c` refuses writes only while a drive is mounted. An upload
opens its file, the host writes one of its own, the upload is closed: the FAT and
directory sectors FatFs held in memory go back to the card, and the host's file is
gone.

### What the passing runs leave open

Facts met on the way that a property excludes by name, each in the code:

- *Card.* A core of the same size that the firmware itself writes to the card
  (upload or push) carries the one constant time of `ffconf.h:252-255`, and
  `fpga_stage_if_changed` takes it for the staged one, though `main.c:1120` calls
  the card the source of truth. `StagedIsNewest` speaks of files with a time of
  their own.
- *FPGA.* Quartus broken off in mid-shift leaves TCK and TDI to the PIO, and the
  console's F then shifts into nothing (`clean` in `FlashConfigures`). An FTDI
  reset does not clear the reply buffer. `main.c:1122-1123` says "a bad/absent SD
  image is safe: it just leaves the EPCS bitstream running", and `main.c:1135`
  prints "FAILED, EPCS bitstream stays". Neither is so for a staged file that is no
  bitstream: `fpga_config.c:177` gives the instruction that clears the FPGA before
  a byte of the file is shifted, `fpga_staged_len` vouches only for the copy, and
  nothing looks for a bitstream in it. In the model such a file (`fpga_config` has
  one) leaves the FPGA with nothing, and `fpga_config_from_flash` returns success
  all the same: the bit it takes for CONF_DONE (`fpga_config.c:207-209`) is read
  in Run-Test/Idle, where TDO is pulled up. `FlashConfigures` therefore speaks of
  bytes that are an image. A shift command of length 0 (`blaster.c:198`) is in the
  model and sent by none of its hosts. The `memcpy` of `main.c:1022` has overlapping
  ranges when more than 62 bytes stay, which C leaves undefined; `Keep` moves them,
  as a copy from the front upwards does.
- *HTTP.* The error of `f_close` is not looked at ("200 ok", `unsynced`). A client
  that vanishes with nothing in flight keeps its connection, and the upload slot,
  for ever (there is no poll callback), and so does one cut off by `wifi_off`. If
  the first `tcp_write` finds no memory no `tcp_sent` comes to resume it
  (`httpsrv.c:87`). An upload without Content-Length creates an empty file and
  says ok. A header that does not fit is neither answered nor closed.
- *Menu.* After a load of `/config.json` that failed, `s` overwrites the root's
  `/config.json` and the card no longer boots, though `config.h:81` says the
  memory map is left intact; a machine file that could not be read is saved
  without its memory map (`spoiled`). Drives come back without their gaps
  (`Dense`). A key held when the menu is closed from the console stays pressed in
  the machine until the next report. The reset button, pressed while the menu is
  open, clears the display bit: an invisible menu eats the keys. A boot, F8 and
  the console's control commands let the turbo bit go while the menu shows it on.
- *Video.* The top `NumBanks` rows of every frame come from the buffer shown
  before, though `VideoFbRead2.scala:54` says the buffer never switches in
  mid-frame: they were prefetched. A sample of the buffer number with mixed bits
  (1 to 2) shows for a frame the buffer being written, or buffer 3, which nobody
  writes. A capture that resumes after the menu, or starts after the sweep, begins
  its first row at x = 0 instead of `xStart`; no later capture reaches that
  margin, which then keeps a stale piece of picture, although the sweep is there
  to prevent it (`VideoFbWrite.scala:163`). `NoPortStarves` counts accesses that
  follow each other without a pause: a refresh between two of them
  (`SdramArbiter3.scala:156`) would let the display ask once more before the next
  is chosen (`Request` leaves it out). While the menu is open the buffers go
  on rotating with nothing captured. A stale tag in the row ring could match again
  only if the fetch stood still for `SrcH - NumBanks` rows.

## 4. Proofs

Every theorem holds for all values of the constants under the one assumption its
modules state (`SioAssumption`, `LoaderAssumption`, `HttpAssumption`,
`ConfigAssumption` and `SupervisorAssumption`, `WriterAssumption`,
`ReaderAssumption` and `FaultAssumption`, `BlasterAssumption`, `StageAssumption`
and `FpgaAssumption`): depths that are not zero, lengths that are numbers, a
start-up that takes a clock at least, a ring shorter than the picture, the shape
of the tables. For each component follow what is proved, the invariant, and why
it takes one.

**`Loops`.** Loops of the code are recursive functions on `0..n` in the models.
`SetInduction` is induction for a set, from the theorem that the order of the
naturals is well founded; `LoopExists` says that a function defined by
its first value and a step exists, `LoopKeeps` carries a fact from round to round.
What these loops compute is therefore proved for every input: the reads of the
JTAG reader, the bytes of a packet, the pieces of an image, the sums of a file, the
entries of the drives.

**`SioLink`.** `TypeCorrect`: `Spec => []TypeOK`.

`FramesAreGenuine`: `Spec => []NoForgedFrame`. The property is not inductive:
that two entries with consecutive indices are of one frame depends on where
bytes can have been dropped. The invariant `IInv` (`Inductive`) says it:

- `GapsAtDepth`: counted from the first entry of the current drain, bytes are
  missing after entry `RxDepth` at most. The FIFO drops only when full, and
  once the drain has begun there is room for each byte that arrives
  (`DrainCredit`, from `DrainKeepsUp`). `raw` has `RxDepth` places, so the drain
  ends before it could read across the gap. That `raw[16]` is just as long as
  the FIFO is deep is what makes the assembly sound: with two more places (the
  mutant `RawLenLong`) a frame is forged.
- `PendingFrame`: the entry after a half-assembled frame, in the FIFO or still
  on the line, continues it or begins another.
- `HeldIsQuiet`, `FramesInOrder`, `AnswerStages`: a machine in reset holds
  nothing; bytes keep the order of their frames through FIFO, assembly and
  answers; which parts of an answer can be where at each `pc`.

`LinkIsService`: `Spec => ServiceSpec`. The abstract answer is what has been
heard, what is in the serializer, what is in the TX FIFO and what is still to
be written, concatenated, while an answer is going out and the bridge is
enabled; a reset that clears the enable bit is the abstract cut-off. Each step
maps to a step of `SioService` or a stutter, using `FramesInOrder` for "never a
frame it has gone past" and `AnswerStages` for "heard whole".

**`SpiLoader`.** For every depth of the queue, list of files and number of resets,
reads and errors: `TypeCorrect`, `CleanLoad`
(`Spec => []CleanLoadIsWritten`) and `QuietBoot`
(`Spec => []QuietBootLoadsFiles`). Neither property mentions the queue, and both
depend on what is in it. The invariant `LoadInvariant` says: while a load goes
on, what was drained, what is queued and the next byte to be sent are
consecutive addresses (`OrderInv`), as long as drained and queued together are as
many as were counted; what was drained is written to the current destination
(`WrittenInv`); that is the file's unless a reset took it back, in time for no
byte (`stray`) or later, and then it took the count with it (`AimInv`); a load begins
with an empty queue or a stuck one (`QueueInv`), since the destination changes
under what is left in it. For a quiet boot, `QuietInv` adds that a block is
selected only with the 6502 halted and the read flag clear, so no request is
lost; that no push is lost there is `BlockKeepsUp`.

**`HttpServer`.** `HttpTypes`, `OneOwner` (`SlotHasOneOwner`), `FreedStaysFreed`
(`NeverTouchesFreed`) and `OkMeansStored` (`UploadOkIsStored`), for any number of
clients and requests, any bodies and buffers. The callbacks are long and call each
other, so the proof follows the functions: for each of them a lemma says that from
a `Good` server it gives a good one, leaves the other connections alone (`Kept`)
and promises nothing that is not stored (`Told`). `ServerInv` adds to `Good` what
the client has still to send: a stream whose body is exactly as long as its
header said (`StreamGood`), of which no more is to come than the upload still
waits for (`Left`). Without `Left` an upload could end short of the length it answers
for, and ownership of the slot must say that the owner is live, so that
`conn_close` is known to give the slot back before it frees.

**`Supervisor`.** All its properties, for any lists of cartridges and disks, keys,
filter length and number of inputs: `TypeCorrect`, `MenuControl`
(`MenuOwnsControl`), `WholeReports` (`KeysAreWhole`), `TypingStaysInMenu`
(`MenuKeysStay`), `NoKeySticks` (`NoStuckKey`), `TrueScreen` (`ScreenIsTrue`),
`BootsSelection` (`BootedAsSelected`), `CardKeepsMap` (`MapKept`), `SaveIsLoaded`
(`SavedComesBack`), `PicksWhatIsShown` (`PickedIsShown`). Each rests on an
invariant of its own, since they depend on different parts of the state:
`ControlInv` (a slave in reset has no register set), `KeysInv` (a frame under way
has shifted in what it was to say and has the rest to come, and while the menu
is open it says nothing), `ReleaseInv` (the last report said what is held, unless the
console closed the menu), `ScreenInv`, `BootInv`, `MapInv` (a selection loaded whole
from a card that was not spoiled has the map), `TypeInv`, and `SavedInv`: the machine
file holds what was saved, in the form in which `config_save` writes it, and reading it
back gives the drives again (`KeptAgain`, by induction over the drives, which is
where `Dense` is needed).

**`FrameBuffers`.** For every size of the picture, queue and ring: `Served`
(`NoPortStarves`), from `ArbiterInv`: who asks is latched or is served and has
been waited for as often as the ports before it allow; a reader that has
unloaded its data has let a waiting write through (`owed`). The loader waits for
two others at most, not for one: a write may be served, and a read latched, before
its turn. `ThreeBuffersSuffice` (`ReadsFinishedCaptures`), from `RotationInv`: at
which point of the four-phase handshake both domains are, and that the buffer being
written follows the one ready, which is the one displayed or the one after it as
long as a frame has not been shown since. `RegistersInRange` (`TypeOK`), from
`RangeInv`: the row shown is an accumulator divided, not a counter, and that it ends
within the picture is the equation of the scan, `vc` lines times `SrcH` being
`curSrcY` times `VActive` and the remainder (`ScanRange`).

`PictureIsRight` (`ShownRowIsRight`) rests on two more. `PictureInv` is about the
SDRAM: the batch is a run of consecutive quads (`BatchRun`), what is in the queue is
black in the margin and of this capture while that is undisturbed (`QueueRight`),
every quad the capture has passed is in its cell or on its way there (`Captured`,
with `Holding`; `WriteLands` is what a completed write, wide or single, does to both),
and so is every black quad the sweep has passed (`Margins`). With `Prompt` this makes
a whole buffer of each undisturbed frame (`Finished`): the buffer ready after one, the
one before it after two. `CacheInv` is about the display. From the bank on show
onwards the banks hold consecutive rows, as many as have come, and behind them
those of one turn before (`Window`); the row on show is the one the next line needs or
the one before it (`Lag`), whatever is late, so the ring moves on by a bank
exactly when the scan does, or starts again (`LineRing`). What has come of a row being
fetched is of the buffer on show (`FetchInv`), since no frame ends while one is
being fetched, and a finished capture lies there (`ReadIsRight`). At the end of a frame
the rows in the ring become rows of the buffer shown before; `BanksRight` bounds
them by `NumBanks` and says that the frame is over before the ring comes back to
one. That bound is where the ring must be shorter than the picture (`NumBanks <
SrcH`; 4 and 288). The values of `calm` are what a disturbance costs: at 2 the
buffer ready is whole, at 3 the one before it, and at 4 the display has not shown
any other.

**`FpgaConfig`.** For every set of files and images, IDCODE, packet and queue
size, sector size and number of actions of the environment, faults included:

- `StagedFileIsWhole` (`StagedIsWhole`) and `StagedFileIsNewest`
  (`StagedIsNewest`), from `StageInv` and `WholeInv`. Behind a header is nothing but
  bytes of one file of its length, each in place or erased again (255): this survives
  an erase in which power fails, after which any sector may be gone and the header
  not. Erasing bytes can only raise their sum, so the plain 32-bit sum the code
  takes is enough: equal sums mean equal bytes (`SumTells`, by induction over the
  file; the sum is modelled without its wrap, which needs 16 MB). While a
  file is programmed there is no header (`HalfStaged`), and time stamps do not repeat.
- `FlashIsSpared` (`NoNeedlessErase`): what was staged last is what the header says.
- `AnswersInOrder` (`ReadbackInOrder`) and the bound of `tx_buf` in `ConfigTypes`
  (`TypeOK`), from `UsbInv`: one more packet is taken only when what it can answer
  fits, which needs that a packet reads back a byte for each of its own at most
  (`ProcessType`).
- `IdcodeIsGenuine` (`FirstIdcodeGenuine`): the pulses of `jtag.c` bring the TAP to
  Shift-DR from any of its sixteen states (`ComesHome`), provided the pins are
  in its hands, and the register comes out bit by bit (`ReadIdReads`).
- `FlashGivesCore` (`FlashConfigures`): a configuration that found the pins with the
  bit-banger and says it went well has the FPGA running the very image, if the bytes are
  one (nothing is said of others: see "What the passing runs leave open"); at boot, in a second attempt or by F, on both boards, with PIO
  or without. `BoardInv` says that the FPGA is of the family its board's path
  configures. The rest is about the byte strings, in `BlasterProofs`. `TapOf` is the part of the
  wires the TAP keeps, `Calm` an engine between two commands, and
  `Leads(P, rx, Q)` says that from any wires in `P` the bytes `rx` end in `Q`; strings
  joined compose (`LeadsOn`). Two bytes are one clock (`PairClocks`), so a string of
  levels is a walk of the TAP (`SpelledLeads`): reset from any state (`ResetLeads`), an
  instruction shifted in (`ScanLeads`), the data (`ChunksLead`, by induction over
  commands and bytes; `LastByteLeads` for the one clocked with TMS high), the start
  (`StartLeads`). `CycloneLeads` and `ArtixLeads` put them together; for the Artix the
  pieces of `ReadBuf` bytes and the reversed bytes come on top. Bits determine bytes
  (`BitsGiveByte`, `WiredTells`), so the FPGA starts the image and no other
  (`StartedRight`), and neither the read of CONF_DONE nor `blaster_reset` clocks
  the TAP (`DoneRead`, `ResetKeepsTap`).

Where a proof did not go through it was the model that changed: two cases of a
definition overlapped (`CASE` then chooses for itself), the loader's bound in
`NoPortStarves` was one too low for some depths of the queue, and `Kept` of
`MachineConfig` was written so that nothing could be said about it by induction.


## 5. Not modelled, and why

- Of SIO: the Atari's own timeouts (needs its side of the protocol; until then
  a stale answer is not told from a timely one), writes to a disk (the code has
  no handler: they get NAK), the baud divisor, framing errors and the sticky
  COMMAND flag (read by nobody), the debug counters.
- The wrap of the 8-bit index after 256 bytes in one COMMAND pulse: the Atari
  sends five.
- Of the loader: bit errors on the link, a frame that straddles a reset, the
  16-bit wrap of the counters (the firmware's wrap with them), the verify sum
  (only the sweep's length is kept), the console's `w` self test, the
  framebuffer flush (`fpga_fb_begin` and its fellows use the same queue).
- Of FatFs: exFAT, FAT12/16, formatting, labels, rename, relative paths, code
  pages and time stamps, which are not compiled in or not used. `ffunicode.c`,
  nearly half of the firmware's lines, is code-page tables, and some 4,000 lines of
  `ff.c` are compiled out or never called; what is called of `ff.c` is modelled,
  with its data abstracted to cells. This is why `map` reaches about a fifth of
  the C lines, though most of the lines of the firmware's own modules.
- Of the USB stack: enumeration, descriptors, sense data, constant answers.
  TinyUSB, PIO-USB, lwIP, the WiFi driver and the SD card's SPI commands are
  external; they appear as what they deliver and how they fail.
- Of the menu: a configuration cut off at 512 bytes, the intermediate picture
  while WiFi connects, the console's `k`, a button released in mid-frame, the
  waiting times (the 15 s of `wifi_on` need a timed model).
- Of the video path: horizontal scaling, palette, overlay compositing, meters and
  debug patterns, `VideoFbRead` and `FbPipeline` (not used by this board), and the
  SDRAM controller, whose correctness is in nanoseconds.
- Chips whose correctness is cycle exactness against a table (6502, ANTIC and
  GTIA pixel logic, POKEY, PIA, cartridge decoding): a model of them would be
  their source again.
- Board tops, testbenches, PLLs, TMDS encoding and vendor IP.

## 6. What is model-checked only

- *Liveness*: `PollReturnsUnlessReset`, `Answered` and `SlotFreed`. The proof system
  has no `ENABLED`, so nothing can be concluded from weak fairness.
- *`SdVolume`*: its six properties. Its operators, and those of `FatFs`, are
  recursive operators, about which this version of the proof system does not reason.
