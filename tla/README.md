# sptsmuxer in TLA+

`sptsmuxer` is a GStreamer element, in C, that multiplexes one H.264 and one
AAC stream into a single program MPEG transport stream. Its README promises a
stream that is *self indexed*: every group of pictures (GOP) is padded to a
fixed number of packets, so that a player finds GOP *k* at packet
*k* * 2102 without an index file. This directory holds TLA+ models of the code,
TLC configurations that check them on small instances, and proofs, checked by
TLAPS, of what matters most for every instance.

Paths below are relative to the root of the repository; its C sources are in
its directory `src/`.

## 1. The system

### Components

| component | state | operations |
|---|---|---|
| **Transport stream writer**, `spts.c`, `spts.h` | `SpTs`: PAT and PMT packet, null packet, `packets_counter`, `gop_counter`, pointers to the current video and audio `SpTsStream`; each stream: packet template, `pcr_reference`, packet, frame and GOP counters, `pes_packet_length` | `spts_new`, `spts_add_stream`, `spts_write_frame` (and in it `spts_psi_write`), `spts_set_write_func`, `spts_release`; `spts_pcronly_write` is empty |
| **Packet headers and adaptation fields**, `spts.c:112-247` | four header bytes in each template | set payload unit start, set adaptation control, step the continuity counter, write an adaptation field |
| **Program specific information**, `psi.c`, `psi.h` | the PMT section, edited in place in the PMT packet, and a copy of its length and PIDs in `section_info` | `psi_pat_section_set`, `psi_pmt_section_init`, `..._pcr_pid_set`, `..._stream_add` |
| **PES header**, `pes.c`, `pes.h` | none | `pes_header_set`, `pes_header_length` |
| **CRC-32**, `crc.h` | none | `calc_crc32` |
| **Push buffer**, `sptsmuxer.c:63`, `207-247` | the memory `pushbuf`, *one global of the plugin*; `pushbufsize` and `pushbufused` of each element | `sptsmuxer_push_packet_cb`, the property `pushbufsize` |
| **Element**, the rest of `sptsmuxer.c` | `first`, the numbers of pads, `GstCollectPads` | request a pad, the collected callback, properties, state changes |

### How they interact

The application requests pads (`sptsmuxer_request_new_pad`) from its own thread;
that adds a stream to `SpTs` and an entry to the PMT, with no lock. When every pad
has a buffer, `GstCollectPads` calls `sptsmuxer_collected` on a streaming thread.
The first call chooses the stream that carries the clock; each call pops the
buffer with the lowest timestamp and hands it to `spts_write_frame`, which calls
`write_func`, that is `sptsmuxer_push_packet_cb`, once per packet. The callback
stages packets in the push buffer and pushes a buffer downstream whenever
`pushbufsize` of them are there. Several elements of one process share the
staging memory, each on a streaming thread of its own.

### What is hard

- **Interleaving.** A pad can be requested between any two packets of a frame, and
  while the bytes of the PMT packet are being sent or the clock is being chosen;
  `pushbufsize` can be set between any two reads of it; several muxers use the
  same memory.
- **Ordering and stale state.** One template per stream is reused for every
  packet, with bits set and cleared on five paths; the clock is chosen once; the
  PMT reaches the receiver at IDR frames only; a frame in progress keeps a
  pointer to a stream that may have been replaced.
- **Boundaries.** Four layouts of a packet depend on the bytes left, in unsigned
  arithmetic; the PCR is clamped near zero and wraps with the PTS; GOPs may
  underrun, fill or overrun their slot.
- **Protocol.** Programs without audio or without video; sizes never set; buffers
  without timestamps; pads that GStreamer refuses half way through a request; a
  second session after PAUSED to READY to PAUSED, for which only the pads are reset.

The hazards, each at its line with the properties that watch it, are in
`PROJECT.json`.

### What correct means, by component

- Writer: on each PID the continuity counter steps by one; packets parse and
  carry each accepted frame exactly once, whole and in order; GOP *k* begins at
  packet *k* times the slot size unless a GOP outgrew its slot, and never
  earlier; the counters the padding relies on are the true counts; the writer
  never stops half way.
- PSI: every PMT sent is valid, and names the streams and the clock in use; one that was
  caught in the middle of an edit is recognised as such by its CRC.
- Clock: on the PID announced, with every frame of it, not ahead of the frame, and not
  so far on that a later frame comes too late.
- Element: each buffer is taken in its turn, no pad is starved by the others, and no null buffer
  is used.
- Push buffer: writes stay inside; every packet accepted is pushed or held, but for what a
  failed allocation costs; what
  is pushed is what was staged; a full buffer does not wait.

## 2. The modules

| module | what it is |
|---|---|
| `TsPacket` | pure definitions: header bits, the adaptation field, the layouts of the first and of later packets of a frame, `mpegtime`, `pcr_base`, the 33-bit fields |
| `Psi` | the PAT section and the PMT section as `psi.c` edits it, as records |
| `TsReceiver` | *environment*: a demultiplexer written from the format alone; `Receive(rx, p)` is its reaction to a packet. It shares no state with the writer |
| `Spts` | **the core**: `spts_write_frame` step by step, pad requests and the choice of the clock. Composes `TsPacket`, `Psi` and `TsReceiver` |
| `SptsProps` | the properties of `Spts` |
| `FrameDelivery` | abstract specification: an accepted frame reaches the receiver, whole and in order |
| `SpTsMuxer` | the element: pads, the collected callback with its selection loop, state changes |
| `EarliestFirst` | abstract specification: a multiplexer that takes an earliest buffer |
| `PadRequest` | a pad request and the streaming thread at the grain of their stores into `SpTs` and the PMT packet |
| `PushBuf` | the push buffer and its callback, for any number of muxers |
| `Crc32` | pure definitions: `calc_crc32` with its table, and a receiver's division by the generator polynomial |
| `SectionBytes` | PAT and PMT as bytes, edited as `psi.c` does, with the CRC of `Crc32`; a receiver that finds the fields and checks the CRC |
| `FrameStamp` | the bytes of the PES header and of the PCR |
| `MCSpts`, `MCPushBuf`, `MCSpTsMuxer` | values and symmetry for TLC |
| `SptsProof`, `PacketProof`, `AnnounceProof`, `PushBufProof`, `SpTsMuxerProof`, `PadRequestProof`, `SectionBytesProof`, `FrameStampProof` | theorems and their proofs |

### Spts and the code

`Spts` splits `spts_write_frame` at its calls of `write_func`; `pc` says where it
is. A packet template is a record of the header bits the code keeps in it. The
payload is not represented: a packet says where its PES header and its payload
begin, how many bytes it carries and from which offset of which frame, which is
what tells a right packet from a wrong one.

| action | code |
|---|---|
| `RequestPad(kind)` | `sptsmuxer_request_new_pad` with `spts_add_stream` and `psi_pmt_section_stream_add` |
| `FirstCollected` | the block under `if (muxer->first)`, `sptsmuxer.c:258-273` |
| `WriteVideo`, `WriteAudio` | entry of `spts_write_frame` (`spts.c:367-404`); which pad was popped, its size and its timestamp are free choices |
| `WriteNull` | one turn of the padding loop, `381-384` |
| `WritePat`, `WritePmt` | `spts_psi_write` |
| `CloseGop` | `gop_counter++` and the statistics, `386-397`; with no audio stream the code dereferences NULL and `pc` becomes `"crashed"` |
| `WriteHead` | first packet of a frame, `406-459`, both with and without a PCR |
| `WriteTail` | one turn of the loop `462-483` |
| `CollectedNothing` | the callback finds no buffer |

Conversions are modelled by what they do: `mpegtime` rounds nanoseconds down to
90 kHz, `TimeField` keeps what the 33-bit field keeps, the stuffing length of
`adaptation_set` is computed modulo 256 as in the `guint8` of the code. The CRC is
kept as the bytes it was computed over, so a section is valid exactly when a
receiver would compute the same. The 2102 packets of a GOP slot and the 2^33 of the
time fields are the constants `GopPackets` and `PtsWrap`.

`Spts` writes its packets to the receiver, which is a state component, `rx`. The
receiver records `faults` (things it could not make sense of), its own counts, and
the frames it put together. Most properties compare what the writer believes with
what the receiver saw.

### SpTsMuxer and the code

Here a buffer is its timestamp (or `None`), a pad holds at most one, and
`spts_write_frame` is one step that says whether a packet is sent and with which
clock.

| action | code |
|---|---|
| `RequestPad(kind)` | `sptsmuxer_request_new_pad` |
| `RequestPadNotCollected`, `RequestPadNotLinked` | its error returns, when `gst_collect_pads_add_pad` (`336`) or `gst_element_add_pad` (`341`) fails: what was done before stays done |
| `Start`, `Stop` | READY to PAUSED and PAUSED to READY in `sptsmuxer_change_state`, `372-397` |
| `Chain`, `Eos` | upstream brings a buffer, or ends (external) |
| `Collected` | GstCollectPads calls back, and the first call chooses the clock, `258-273` |
| `SkipEmpty`, `FirstCandidate`, `Candidate` | one turn of the loop `277-296`, in any order of the list, with the `break` at a first buffer without a timestamp |
| `WriteFrame` | pop and write, `298-303` |
| `WriteIdrFrame` | the crash of `CloseGop` above |
| `FoundNothing` | `305` with no buffer on any pad: nothing is written, nothing goes downstream |

GstCollectPads is external and modelled from how the element uses it: it keeps one
buffer per pad and makes upstream wait for it to be taken, calls back when each of its
pads has a buffer or has ended, and holds its lock during the callback, so that nothing
arrives and no state changes then. Pads may be requested at any time.

`PicksEarliest` is the refinement of `EarliestFirst` with `members <- data`, the pads
on the list of the callback, `queued <- head` and `ended <- eos`: the turns of the loop
are stutters, and the pop takes a buffer that is earliest, or has no timestamp.

### PadRequest and the code

Two threads, with one action for each store that the other can see. The application's
is in `sptsmuxer_request_new_pad`: `Request` (`spts->video_stream = ...`), `InitHeader`,
`Grow` and `WriteLength` (`section_length` in `section_info` and in the packet),
`WriteType`, `SetPid`, `WriteEntry`, `ComputeCrc`, `StoreCrc`, `CollectPad`. The
streaming thread's is in the first callback, `PickClock`, `SetPcr`, `ComputePcrCrc`,
`LocatePcrCrc`, `StorePcrCrc`, `MarkReference`, and then writes frames (`WriteFrame`, which looks only
at the template it would copy) and PMT packets, which `write_func` copies part by part
in any order: `BeginPmt`, `CopyLength`, `CopyPcr`, `CopyCell`, `EndPmt`.

Lengths count stream entries, and the bytes behind the fixed fields are cells of five:
the entry of stream *i* is cell *i*, and the CRC of *n* streams is in cell *n* + 1, where
the next entry will overwrite it. `psi_pmt_section_pcr_pid_set` reads `section_length` for
the CRC and again for its place: `ComputePcrCrc` (`psi.c:189`), `LocatePcrCrc` (190, which
keeps the place in `place`) and `StorePcrCrc` (191-194) are three steps. `clash` remembers that
both threads were between their first store into the section and the CRC that covers it, the one
case in which the CRC in the packet may be wrong for good (`PmtClash`).

`displaced` remembers the worst of these cases: a request put its entry where the CRC of the
first callback is due, after that place was found, and the CRC then went over the entry. If the
request computes its own CRC after that, it computes it over the damage, and a receiver
accepts a PMT that has garbage for a stream. `AcceptedFresh` excepts this order of steps, and
only this one; without the exception TLC shows it.

### PushBuf and the code

`sptsmuxer_push_packet_cb` is split where it reads a field that another thread may
write: `Call` (is `pushbuf` NULL), `Allocate`, `Store` (lines 228-231), `Compare`
(233) and `Push` (234-246). `pushbuf` is one variable for all muxers, a sequence of
packets, `<< >>` being NULL; `g_malloc (0)` is NULL. Every size is 0 at first, and
`SetProperty` may come between any two of these steps. `out` keeps, for the buffer
pushed last, the bytes it really has (`data`) and the packets that were staged for it
(`staged`). `overrun` records a write outside the memory.

Three history variables say what befell the sizes. `inUse` has every size that a muxer had
once its packets came. `misset` has the muxers whose size the callback missed: it was 0
when a packet came, or a size came at which `pushbufused == pushbufsize` is passed by
(`Misses`: at or below what is held before the store, below it before the comparison, any other
between the comparison and the reset). `failures` counts the allocations that failed, of
any muxer: each sets the one `pushbuf` to NULL, and the next call of every other muxer then
allocates again and forgets what it held (`sptsmuxer.c:217-225`).

`Accounted` and `HeldBack` are for the muxers outside `misset`. `Accounted` allows for
each failed allocation a loss of less than one buffer, and TLC shows with a bound of 0 that packets
for which the callback returned TRUE are really lost so. `StagedInOrder` and `OutputIsPackets`
speak of a muxer that is `Undisturbed`: outside `misset`, and no allocation failed.

### Crc32, SectionBytes, FrameStamp and the code

These justify abstractions that the other modules make. `SectionBytes` has the section as the
184 bytes of the packet's payload, edited at the offsets of `psi.c`, and a receiver that
finds the fields and the CRC where the section syntax puts them.
`ImplementsPsi` decodes the bytes to a record of `Psi` and states that the PAT is that of
`Psi` and that each call of `psi.c` does what the operator of `Psi` does.
`ReceiverAccepts` is about a receiver that shares nothing with `psi.c` but the bytes: it
divides the section by the generator polynomial, a bit at a time.
`TornRejected` justifies `Accepts` of `PadRequest`: of all mixtures of the
fields (length, PCR PID, type, rest of the entry, CRC) before and after a call, the
CRC accepts only those that say what one of the two said.

In `Crc32` a word of 32 bits is the set of the numbers of its bits that are 1, which TLC's
integers could not hold and which the prover can reason about. `calc_crc32` is the loop
of `crc.h` over its table, copied as it stands; `CrcTabAssumption` compares each of the
256 words with what the polynomial gives.

`FrameStamp` has 64-bit times as three digits of base 2^15, which is how the shifts of
the code cut them: the lead and its borrow, the clamp, the 33-bit cut of PTS and
PCR, and the 16-bit length of the PES packet.

## 3. The runs

| run | expected | asks |
|---|---|---|
| `Program` | pass | a program of video and audio: do frames of every critical size parse and arrive, are counters, padding, GOP grid and statistics right when GOPs underrun, fill and overrun, is the clock where the PMT says? Refinement of `FrameDelivery`, liveness included |
| `LatePads` | pass | what pads requested at any moment may not disturb |
| `Element` | pass | is each buffer taken in its turn and no pad starved on streams that never end, over two sessions, with pads that come late or are refused? Refinement of `EarliestFirst` |
| `PadRequest` | pass | can a receiver be misled by a PMT edited while it is sent, can a stream be used too early? |
| `PushShared` | pass | two muxers on the shared memory, with sizes set at any moment or never: does every packet stay counted, in its place and inside, and what does a failed allocation cost the others? |
| `SectionBytes` | pass | are PAT and PMT, byte for byte, what `Psi` says, and does the CRC do its work? |
| `FrameStamp` | pass | does a receiver read the PTS, the PCR and the length that were meant? |
| `VideoOnly` | violation | a program without audio crashes at its first IDR frame |
| `Stuffing` | violation | the frame of 169 bytes |
| `PmtClash` | violation | a request that overlaps the first callback leaves a PMT with a wrong CRC, or with an entry overwritten by it |
| `PushContents` | violation | the buffer pushed is not filled |
| `PushSizes` | violation | a muxer with a larger size than that allocated, its own raised since or another's, overruns the shared memory |

The violation runs each check one statement of a comment, quoted in the findings of
`PROJECT.json`. More limits of the code are built into the models and bound what
the properties claim, without a run of their own:

- two pads of a kind share a PID, so continuity, the counts and the clock are stated for
  `OneStreamPerPid`, and `TemplatesReady` for `OnePerKind`: a second pad replaces the
  pointer before its template is initialised, while buffers of the first arrive.
  `doc/sptsformats.txt:9` plans several "audio pids", which the code, with one `AUDIO_PID` for all,
  does not provide;
- the clock is chosen at the first collected callback, so a video pad requested
  later leaves it on the audio PID, although `doc/sptsformats.txt:11` wants the video PID;
  `ClockAnnounced` follows the PMT, not the video;
- audio is dropped until a packet was written (`AudioKept`, `Sends`), so a program with
  only audio outputs nothing;
- the default of `pushbufsize` is declared and never assigned: an element for which nobody
  sets it refuses its packets, or drops them once another muxer has allocated; and a size
  that comes where the comparison has passed it by (`Misses`) strands the fill level. `Accounted` and
  `HeldBack` are for the muxers to which neither happened (`misset`); their sizes may change
  while packets come, and those of the other muxers in any way. An allocation that fails
  costs every other muxer what it holds, which `Accounted` bounds and `StagedInOrder` leaves
  out;
- a pad that the element refused stays with GstCollectPads and stops the callback for
  good: `NoneStarved` excuses it (`Stalled`);
- a live stream without timestamps starves the others if its pad is first on the list, by the
  `break` at `sptsmuxer.c:286`, and is starved by them if it is not. `NoneStarved` is for buffers
  that have a timestamp, and excepts the loop taking one without again and again; with that
  exception removed TLC shows the starvation;
- `InTimeOrder` and `NeverTooLate` excuse (`excused`) the rest of a session once a pad came
  after its first buffer, or a buffer without a timestamp.

For every property of a passing run there is a mutant: a faulty variant of a definition
(`header_cc_stuck`, `SlotOpenTooLong`, `LaterInstead`, `StoredOverEntry`, ...) that stands
next to the one it replaces, is used by no action, and makes TLC report that property
violated. `PROJECT.json` lists them.

### Bounds, and why they are enough

- The sizes of `Program` are those around every change of layout: 162 bytes fit a head
  with a PCR, 170 one without, 184 a later packet; each boundary and its neighbours are
  there. 169 without PCR is left to `Stuffing`, where it fails. Video carries the PCR, so
  its sizes go through the PCR layout, audio through the plain one. An audio frame of 3200
  bytes takes 18 packets, which takes its continuity counter past 16.
- `GopPackets` is 4 instead of 2102, so that a few frames underrun, exactly fill
  and overrun a slot; the grid depends on it only through comparisons, and the
  theorems about it hold for every value.
- `PtsWrap` is 2^15 instead of 2^33 in the models of packets. The time of `Program` lies
  beyond the wrap, that of `LatePads` is the last under the clamp at 10250 ticks.
- `MaxFrames` 3 and 4 and `MaxPads` 1 and 2 bound the length of a behaviour; two frames
  of a stream and one of the other are enough for every reuse of a template.
- `Element` has one pad of each kind and two sessions. Streams never end by themselves: a pad
  brings up to three buffers of 0 and 100 ms, and buffers from 200 ms on (`Far`, one value for
  all later times) and without a timestamp for ever. Times are 0, 100 and 200 ms, and `Reorder` is 100 ms, 9000 ticks, so a pad may go back by one step,
  which is within the 10250 ticks of the lead.
- `PadRequest` has three requests, so that a second pad of a kind comes at every point of
  the first callback; `PmtClash` needs two.
- `SectionBytes` adds up to six streams in every order of kinds, with the clock set at
  every point. The table is compared word by word with the polynomial.
- `FrameStamp` has digits on both sides of the lead, of 2^15 and of 2^33; sizes are 1, the
  longest ADTS frame and the longest that the field can hold.
- `PushShared` has two muxers, the sizes 1 and 2 and three packets each: at size 2 a buffer
  is filled, pushed and begun again, a size is raised with a packet held and lowered
  without, and each muxer allocates, stores and pushes at every point of a call of the
  other.

`LatePads` and `Element` set `CHECK_DEADLOCK FALSE`: the program crashes when an IDR frame
comes before the audio pad, and in `Element` the sessions and streams end.

### Fairness

`Spts!FairSpec` assumes weak fairness of `WriteStep` only: a streaming thread that has
entered `spts_write_frame` keeps running, since nothing in it blocks on this side of
`write_func`. Nothing is assumed of the arrival of buffers or of pad requests.
`FrameDelivery!FairSpec` then follows: both loops end.

`SpTsMuxer!FairSpec` assumes weak fairness of `Callback`, for the same reason, and for each
pad of `Upstream`: a pad that waits gets a buffer or the end of its stream. Without that
one silent pad stops the others, by design of GstCollectPads. Nothing is assumed of the
application. Streams need not end; what is assumed of them is that a pad brings only finitely
many buffers before any given time (`MaxBuffers` of them before `Far`). `NoneStarved` follows
from the choice of the loop: a buffer before `Far` is taken although the other pad
brings later ones for ever, which a loop that takes any other buffer does not achieve (its mutant
`LaterInstead` starves it). A buffer may also go because `Stop` empties the pads.

## 4. What is proved

All proofs are for arbitrary constants: any frame sizes, timestamps, slot size,
`PtsWrap`, any number of frames, pads, buffers, sessions, requests and muxers, under the
named assumptions of the modules (`ProgramAssumption`, `GopPacketsAssumption`,
`PtsWrapAssumption`, `SpTsMuxerAssumption`, `PadRequestAssumption`, `PushBufAssumption`,
`FrameStampAssumption`, `SectionBytesAssumption`), which only say that they are natural
numbers of the right kind. Two facts about fixed values are assumed beside these and
evaluated by TLC, in full: that each word of `crc_tab` is that of the polynomial
(`CrcTabAssumption`), and that what fills the packet behind a PMT without streams is not its
CRC (`SectionBytesAssumption`). Assumptions of a single theorem are in the table.

| theorem | states | inductive invariant |
|---|---|---|
| `SptsProof!TypeCorrect` | `[]TypeOK`; no packet takes more than its frame has left | `TypeInv`: and while a frame is written, `Stream` is one that was allocated |
| `SptsProof!CountersContinuous` | `[]Continuity` | `CountInv`, with `TypeInv` |
| `SptsProof!PacketsCounted` | `[]PacketsAccounted` | the same |
| `SptsProof!PatsNotEarly` | `[]SlotNeverMissed` | `SlotInv`, with `CountInv` |
| `SptsProof!GopsOnGrid` | `[]SelfIndexed` | `GridInv`, with `SlotInv` |
| `PacketProof!EveryPacketParses` | `[]PacketsParse` if no frame has 169 bytes (`NoFrameOf169`) | `ContentInv`, `TailInv`, `FrameInv` |
| `PacketProof!ImplementsFrameDelivery` | `Spts` implements the safety part of `FrameDelivery`, if in addition audio is requested before the first buffers (`AudioInTime`) | the same, and `ReadyInv` |
| `AnnounceProof!TablesValid` | `[]PsiValid` | `PsiInv` |
| `AnnounceProof!StreamsAnnounced` | `[]EsAnnounced` | `ListedInv`, `AnnInv` |
| `AnnounceProof!ClockNamed` | `[]ClockAnnounced` | `ClockInv`, `TemplateInv` |
| `AnnounceProof!StatisticsTrue` | `[]GopStatistics` | `StatInv`, with `CountInv` |
| `SpTsMuxerProof!TypeCorrect` | `[]TypeOK`; what is popped is what the loop read | `PickInv` |
| `SpTsMuxerProof!ImplementsEarliestFirst` | `SpTsMuxer` implements `EarliestFirst` | the same |
| `SpTsMuxerProof!OutputInTimeOrder`, `FramesNotTooLate` | `[]InTimeOrder`, `[]NeverTooLate` | `OrderInv`, with `PickInv` |
| `PadRequestProof!PadRequestTypeCorrect`, `ClockAlwaysHasStream` | `[]TypeOK`, `[]ClockHasStream` | `Progress`, `Pointers` |
| `PadRequestProof!NoRawTemplates` | `[]TemplatesReady` | the same |
| `PadRequestProof!AcceptedAlwaysFresh` | `[]AcceptedFresh` | `Fresh` and `Kept`, with `Progress` |
| `PadRequestProof!AcceptedAlwaysReal`, `SettledAlwaysComplete` | `[]AcceptedReal`, `[]SettledComplete` | `Section`, `Beyond` and `Clocked`, with `Fresh` and `Kept` |
| `PushBufProof!PushBufTypeCorrect`, `PacketsAccounted`, `FullBufferPushed` | `[]TypeOK`, `[]Accounted`, `[]HeldBack` | `IInv`: `Begun` and `InUse` of every muxer, `Memory` until an allocation fails, `Fill` and `Solvent` of those outside `misset` |
| `PushBufProof!PacketsStagedInOrder` | `[]StagedInOrder` | and `Staged` |
| `PushBufProof!WritesStayInside` | `[]WritesInside` | and `Room`: the memory has the one size in use |
| `SectionBytesProof!CrcIsRemainder` | `calc_crc32` computes `Remainder`, for every message | induction on its length |
| `SectionBytesProof!BytesImplementPsi` | `Spec => ImplementsPsi` while the packet has room (`RoomInPacket`: up to 33 streams) | `PmtInv` |
| `SectionBytesProof!ReceiverTakesSections` | `[]ReceiverAccepts`, with the same room | the same |
| `FrameStampProof!PtsAlwaysArrives`, `PcrAlwaysBeforePts`, `PacketAlwaysEndsWithFrame` | `[]PtsArrives`, `[]PcrBeforePts`, `[]PacketEndsWithFrame` | `StampInv`: header and PCR are those of the frame |

Why the properties need strengthening:

- *Counters.* `Continuity` only says that no fault was recorded. `CountInv` adds what makes
  the next packet right: each template holds the counter that follows the last one received
  on its PID, templates never change their PID, each stream's counter is the receiver's
  count, and the frame in progress writes to a stream that exists. A pad request keeps it
  because a new stream starts on a PID where nothing was received.
- *Grid.* `SelfIndexed` speaks of the moment a PAT arrives; `GridInv` says what holds
  between PATs: the packets received so far are the slots before plus the packets of the
  open GOP, or, while padding, at most the next slot. That padding stops exactly at the
  slot is where `packets_counter < gop_counter * GopPackets` is needed, and `SlotInv` ties
  `gop_counter` to the PATs received.
- *Contents.* That a tail packet continues its frame depends on what the head left behind:
  `TailInv` says that the template has its start bit off and its adaptation bits reset, and
  that the receiver's open frame is the one being written, up to `frame.at`, with
  `pes_packet_length` the rest. The refinement follows: only the packet that uses a frame
  up changes what `FrameDelivery` sees.
- *Clock.* `ClockInv` says that after the first callback exactly the stream that carries
  the PID of `PCR_PID` is marked, and that the section the receiver has names that PID.
- *Tables.* `PsiInv` says that the length of the section in memory is that of its entries and,
  from the first callback on, that its CRC is that of its bytes; `ListedInv` that every pad
  is in it; `AnnInv` that without late pads a section the receiver has lists every pad.
- *Statistics.* Between the PAT and `CloseGop` the receiver has closed the GOP and the
  stream has not; `StatInv` follows both, which is why `GopStatistics` leaves that gap out.
- *Selection.* `LoopInv` says that no pad the loop has passed holds an earlier buffer than
  its candidate, or else the loop is over; `Snapshot`, that nothing arrives meanwhile.
- *Order.* `OrderInv` carries it from one callback to the next: upstream of every pad that
  has not ended has got as far as what was written, and the clock is that of it at most.
- *Edits.* `Kept` says, until a CRC is `displaced`, that the entries in front are those
  requested (`Laid`) and that the copy of the PMT being made has each entry of a flowing stream
  as soon as it has that cell (`Held`); it does not care whether the threads clashed. `Section`
  adds, unless they did, that any CRC, in the packet, in the copy or not stored yet, was
  computed over a list that was real (`Covered`), and that the CRC behind the last entry, or
  about to be stored there, covers all of them and the clock (`Complete`); since no entry is
  `Beyond` the end of the section, a CRC is displaced only when they clash. So a copy put together
  from several versions either says one of them or has a CRC that is not its own.
- *Push buffer.* `Loss` is what came and was neither pushed, nor is held, nor about to be stored.
  A failed allocation loses nothing itself; it makes the next allocation of every other
  muxer due, which forgets what that one holds. So `Budget` says that the loss so far is
  within less than a buffer for each of *n* failures, where *n* leaves one failure over for
  a muxer that is `Threatened`: whose memory is gone while it holds packets. The fill level reaches
  the size only inside a call (`Fill`). Until the first failure nothing is held while
  there is no memory (`Memory`), and an allocation forgets nothing. `Staged`
  says that each place up to the fill level has the packet of this muxer for it, or one
  that another muxer wrote, or lies outside the memory, and that what is left of older
  packets beyond it is never taken for a new one.
- *Bytes.* `PmtInv` says that the two copies of the section length agree, that the length is
  13 and 5 for each entry, that a PMT with entries has a PID for the clock to name, and that
  a receiver accepts it. With it the lemma `EntryAdded` follows a call through the packet: what
  it stores is found where the new length says, and nothing before it moves;
  `StreamAppended` turns that into the list of streams.
- *CRC.* The division is linear (`ByteInXor`), and a byte equal to the upper one of the
  register only shifts it (`OwnByte`); so what any byte does is the shift, and what the
  difference of the two does to an empty register, which is the word of the table
  (`TurnIs`). Two loops with the same step are the same (`CrcIsRemainder`), and the
  four bytes of a remainder, each of them the register's own, shift it out
  (`NothingLeft`). How the prover is brought to follow a loop over any number of bytes is in the
  first lemmas: `Least` and `Induction` come from the well-foundedness of `<`, with a
  set in place of a predicate, and `RunIs` gives the values that a loop goes through.
- *Stamps.* The invariant of `FrameStamp` is only that what was sent belongs to the frame; the
  work is in the arithmetic. `Split` and `Joined` say that quotient and rest are the only
  way to put a number together, `MarkedDigit` that 15 bits and a marker survive two bytes,
  `PcrFields` the same of the PCR, and `LeadPaidBack` that the borrows of the subtraction are
  the carries of the addition. A top digit of any size stands for all 64 bits of the code's
  times.

The layouts are covered by the lemmas `PcrHeadLayout`, `PlainHeadLayout` and `TailFits`
for every size. The first lemmas of `SptsProof` say field by field what the receiver does
with each kind of packet, so that the proofs about `Spts` never open `Receive`.

Every invariant of the passing runs is proved, and every action property and refinement but
`TornRejected`. What that one says depends on the values of particular CRCs: two different
contents of a section may have the same, and TLC finds that those which a torn copy can
produce do not. With it only `DeliversEventually` and `NoneStarved` are left to TLC,
since liveness under fairness and `ENABLED` are outside what the prover handles.

## 5. What is not modelled

- The bytes of the payload, which are copied as they are.
- `spts_release`, which nothing calls, so that no pad is ever taken back; the empty
  `spts_pcronly_write`; `muxrate`, which nothing reads.
- `version_number` and the section numbers, which are constants of the packets; what a
  receiver makes of a PMT that changes under one version is its own affair.
- The PMT beyond its packet: the CRC of a 34th stream lies outside it, and the code, which has
  no limit, does not notice. `BytesImplementPsi` says how far it goes well (`RoomInPacket`).
- Downstream: the result of `gst_pad_push` is ignored by the code, and neither the end of
  the stream nor the rest of the push buffer is ever sent, so the models end at the push.
- The caps and segment event of the first callback, the property system apart from
  `pushbufsize`, the registration of the plugin and the build. The sources use calls of
  GStreamer 0.10 beside those of 1.x; the models take the calls as they are meant.
- Two pads of a kind in the properties that name PIDs (see section 3).

## 6. The plan

Done: the modules and theorems above. What could come next, in this order:

1. Composition of `Spts` with `PushBuf` through `write_func`: what goes downstream is a prefix
   of what was written. Today the two meet only in that `Spts` calls once per packet and
   `PushBuf` takes one packet per call.
2. Two sessions through `Spts`, where the counters, the GOP grid and the clock are kept and
   times start again.
3. `PadRequest` without the exception of `clash`, as a specification of the lock that the
   code would need.
