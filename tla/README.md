# Verification of the ACMI PZED back end

The program is the software and gateware of a Zynq board that sits between a
beam-current monitor (the "Artix" front end) and its clients (an EPICS IOC,
operator tools).  The software (`src/src/sw/src`) runs on FreeRTOS with lwIP; it
serves clients over a TCP protocol of framed messages ("PSC"), pushes status and
waveforms to all of them, and passes their settings on to the Artix over an SPI
link.  The gateware (`src/src/hw/hdl`) holds the register block, the SPI master,
the waveform FIFO and the timing event receiver.

This directory holds TLA+ models of the parts in which several threads, or
software and gateware, meet; TLC runs that check them on small instances; and
TLAPS proofs for every instance.

## Inventory

| Part | State it keeps | Operations | What is hard | What makes it correct |
|---|---|---|---|---|
| PSC server, `listener.c` | client table (bits and slots), mutex `sendguard`, socket numbers | accept loop, one handler thread per client, `psc_send` from status and waveform threads, `psc_send_one` | threads share a table that is only partly locked; socket numbers are reused by lwIP; every send may block or fail | a slot has one owner; no socket leaks; messages are not mixed on the wire; nobody waits for ever |
| Message layer, `pscmsg.c` | position in a byte stream | `psc_sendmsg`, `psc_sendmsgsingle`, `psc_recvmsg` and helpers | partial and failing `send`/`recv`, messages longer than the buffer | messages arrive in order and whole; what is discarded stays in its buffer; a dead peer is noticed |
| Waveform readout, `wvfmdata.c`, `artix_data_rdout.vhd`, latch in `evr_top.vhd` | FIFO, its reset, latched timestamp, static buffers | poll, read 8192 words, read timestamp, reset, send | triggers come whatever the reader is doing; reset is not synchronised; FIFO overflow | a set of messages is one waveform, with a timestamp not older by a second, sent once |
| Artix control, `control.c`, `artix_spi.vhd` | three SPI registers, latch and shift register, the Artix's EEPROM | `eeprom_settings`, `write_adc_table`, `reg_settings` | no lock, no read-back, only waits; several clients at once | a setting that was handled is in effect |
| Register settings and console, `control.c`, `console.c` | latch-reset, force-trip, key-lock registers | one-second pulses, toggles | console and clients pulse the same register | pulses last; registers return to rest |
| Event receiver, `event_rcv_chan.vhd`, `event_rcv_ts.vhd` | delay and width counters, timestamp shift register | detect an event, count, assemble seconds | retrigger while counting, counters at 0, events lost | one pulse per event; a timestamp is whole |
| Trigger pulses, `gen_soft_trig.vhd`, `stretch.vhd` | counters | stretch a pulse | input again while stretching | pulse length |
| Start-up, `main.c`, `i2c.c`, `net_setup.c` | clock and event-receiver registers, network interface, DHCP timers | `main`, `realmain`, `on_startup`, `dhcp_client` | a bus polled without a limit before the scheduler runs, errors that are passed over, power loss | the unit comes up |
| SD card, `sdcard.c` | network configuration, `EEPROM.NEW`, `EEPROM.DAT` | parse, update, dump | order of the lines; any call may fail; power loss between two calls | the configuration means what the file says; the card is in order after the next start |
| Discovery, `discover.c` | lwIP's packet buffers | answer a UDP request | buffers are a fixed pool, and the callback frees none | nothing is claimed: see below |
| Status, `lstats.c` | none | read sensors, push | one of the senders of the PSC server | see there |
| TFTP, `tftp_server.c`, `tftp_handler.c` | transfer state, timeouts, the open file | requests, data, acknowledgements, timer; not started by `main.c` | lost, late and repeated packets, retries, a card that fails | blocks in order, an acknowledged content is stored as the beginning of the file, silence frees the server |
| Superseded software, `sw_old` | two I2C multiplexers, EEPROM, clock chips | start-up, menu, status thread | select-then-transfer without a lock, ignored errors | a transfer reaches its device; settings are stored |

Threads and their meeting points: `main.c` starts `psc_run`, which starts the
status, waveform and console threads and one `handle_client` thread per client.
Handlers call back into `main.c` (`client_event`, `client_msg`), which calls
`psc_send_one`, `reg_settings`, `eeprom_settings` or `write_adc_table`.  All but
the console have the same priority, so FreeRTOS may switch between them at any
tick.  `sendguard` is the only lock.  The software and the gateware meet in the
registers of `ps_io.vhd`.

`src/src/sw_old` is the software of an earlier unit; its I2C code, with the threads
that share the bus, is modelled because it is the largest piece of unlocked shared
state in the repository.  `src/src/hw/hdl/evr`, `gth_artix_*.vhd` and `artix_cntrl.vhd`
are not built any more and are not modelled.

## Modules

**PscServer** (with **ClientPool**, **MCPscServer**, **PscServerProofs**) models
`listener.c`.  `clients_used` is the set of bits, `sock[i]` is
`clients[i].sock`, `lock` the holder of `sendguard`.  `fdtab` is lwIP's socket
table: `accept` takes the lowest free number, `close` frees it, and a number kept
in a local variable (`hsock` of a handler, `sfd` of a sender, `client` of the
accept loop) may afterwards name another connection.  That table, and what `send`
and `recv` do with a number, are external and follow lwIP 2.1.  One action is one
access to shared state: `Accept`, `ClientAlloc` (a critical section),
`SpawnHandler` (the unlocked `C->sock = client`), `HandlerStart`, `RecvCall` and
`RecvMsg`/`RecvError` (recv looks the number up, then blocks), `ClientFree`,
`HandlerClose`, and for `psc_send` and `psc_send_one` `SendLock`, `SendPick`,
`SendHead`, `SendBody`, `SendError`, `SendClose`, `SendMark`, `SendUnlock`.  `SendError`
and `RecvError` may happen at any call: peers and timeouts are not controlled.
`ClientPool` says what clients are promised: a seat while one is free, refusal
only when all are taken.

**PscMsg** (with **MCPscMsg**, **PscMsgProofs**) models `pscmsg.c` on one stream.
Bytes are known by their position; `frames` remembers where headers were written
and what they announce.  `SendSome` and `RecvSome` move any number of bytes.  A
header read where none was written is arbitrary.  `SkipFail` is a `recv` that fails in
the loop of `psc_recvskip`: the loop ends, its error is dropped (`skipfail`), and the call
behind the loop asks `recv` for all that is left, into `char buf[128]`.  If more than the
buffer holds is left, `RecvPast` may write past it (`over`); that is undefined, so the
reader then goes on, goes on with a garbled count of what is left, or crashes.

**WvfmReadout** (with **WvfmReadoutProofs**) models `wvfmdata_push` against the Artix: `WaveBegin` and
`WaveWord` put words into the FIFO (dropped when full or in reset) and latch the
timestamp.  A word is `<<waveform, place>>`.  The only timing assumed is that the
100 ms delay of the polling loop outlasts a waveform that was coming when it began.
The two halves of the timestamp are read by address, first 0x5C and then 0x58
(`ReadTs0`, `ReadTs1`).  `pl_regs.h` calls them nanoseconds and seconds, but in
`pl_regs.rdl` and `ps_io.vhd` 0x5C is `lat_ts_s` and 0x58 `lat_ts_ns`; the model goes by
the gateware, so the seconds are read first (and the software sends each half under the
other's name).

**ArtixControl** (with **MCArtixControl**, **ArtixControlProofs**) models `eeprom_settings` and
`write_adc_table` as the sequence of SPI commands they become, each one four
register writes and a `usleep`; the latch, load, shift and clear of
`artix_spi.vhd`; and, as external parts, the Artix's command registers and the
EEPROM with its write-enable latch and write cycle.  The latch samples at 100 MHz
and so belongs to the register write; the state machine is slower, so loading,
shifting and clearing interleave with the software.  A `usleep` outlasts the transfer
(about 15 us) that is under way when it begins, and the 10 ms one also the EEPROM's
write cycle (5 ms); nothing else is assumed of time.

**RegSettings** (with **MCRegSettings**, **RegSettingsProofs**) models `reg_settings` and
the console's menu on the unit's own registers.  `Pulse` and `PulseEnd` are the two halves of a latch reset
or forced trip around `sleep(1)`; any other thread may step in between.  `rxbuf[s]` is
the start of a slot's buffer, and every word of it remembers the connection that sent
it.  `SendFails` is a `psc_send` that closes a slot's socket: `handle_client` goes on with
its copy of the number, and from then on (`gone[s]`) `Senders(s)`, the connections whose
bytes it may receive, includes every later one, a refused one too (`Refuse`).
A `soft_trig_artix` exists in the code but has no caller.

**SdCard** models `sdcard_handle`: one action per FatFs call (`Mount`, `NetOpen`,
`NetLine`, `NewOpen`, `NewUnlink`, `DatOpen`, `DatRead`, `DatTruncate`, `DatWrite`,
`DatSync`), each with its failure.  `card` is what is on the card, `conf` is
`net_config`, `ParseLine` one line of `NET.CNF`.  `SdPowerLoss` may tear what was not yet
written out.  The call of `ee_read` is commented out, so `DatWrite` fills `EEPROM.DAT`
with what the stack buffer held (`junk`).  **Discover** models `discover_prep` and
`disco_recv` over lwIP's pool of receive buffers (external).  **Boot** (with **MCBoot**, **BootProofs**) extends both: `main` up to the
scheduler (`InitI2c`, `WriteLmk`, `EvrSetup`), then `realmain` (`SdStep`, `net_setup`,
`discover_setup`, `on_startup`), the DHCP thread, the network, and a power loss at any
point.  `psc_run` may return because `socket`, `bind` or `listen` failed (`psc_run_fails`);
`realmain` then ends too.  `XIicPs_LookupConfig` may give NULL, which `init_i2c` uses
unchecked (`InitI2c` to `crashed`).

**Tftp** (with **MCTftp**, **TftpProofs**) models `tftp_server.c` over the card callbacks of
`tftp_handler.c`.  All of it runs on lwIP's thread, so a callback is one action:
`RecvBusy`, `RecvRequest`, `RecvData`, `RecvAck`, `RecvOther` are the cases of `recv`, and
`tftp_tmr` is the timer.  `s` is `tftp_state` with the number of timeouts pending in
lwIP.  `net` is the set of datagrams ever sent and is never emptied, so that a datagram
may be lost, late, repeated or overtaken.  The peers are external and follow RFC 1350.

**OldI2c** (with **OldI2cProofs**) models the I2C bus of `sw_old`.  What a thread does
there is a sequence of operations: select a port of a multiplexer, write, read (each made
for one device), or, for an entry of the Si5347's table on the page of the one before it,
no page write (`Keep`).  `Hearing` says who answers with the multiplexers as they are.
`MainStep` programs the clocks and reads the network settings; then `MenuStep` and `StatusStep` share the bus.
A transfer or a selection may go unanswered; `i2c_set_port_expander` ignores that, and the
multiplexer keeps its port (`deaf` remembers it).
The status thread has the higher priority and does not block inside a burst, so a burst
may come between any two steps of the menu, or inside one, but not the other way round.
One inside a polled transfer of the menu that has not been started yet leaves the
controller's FIFO empty, and the transfer then carries nothing (`torn`, `MenuTorn`).
`i2c_read` of more than the controller's FIFO keeps the bus until the thread has drained
it (`MenuHolds`, `MenuReleases`).

The mutants (`...NoLock`, `...PastEnd` and so on) stand in front of the action they
alter.  Each is a plausible mistake that the property named in `PROJECT.json` detects.

## Runs

| Run | Shows |
|---|---|
| `psc_server` | `TypeOK`, `SlotOwnership`, `FramesWhole`, `NoSocketLeak`, `OwnWhileOpen`, with three connections, two slots, a broadcaster and socket numbers 0 to 3; no deadlock |
| `psc_live` | the refinement `PoolSpec`, and `SendReturns`, `AcceptorReturns`, `HandlerEnds` under `Fairness`, two connections and one slot |
| `listener_open` | violated: a broadcast between `psc_client_alloc` and `C->sock = client` closes socket 0, the listening socket |
| `psc_msg` | `TypeOK`, `Contiguous`, `InOrder`, `SkipInBuffer`, and under fairness `PeerGoneNoticed` |
| `wvfm_readout` | `TypeOK`, `WholeWaveform`, `TimestampRecent`, `SentInOrder`, `FifoDrained`; no deadlock |
| `artix_control` | `TypeOK`, `NoTornCommand`, `SettingApplied`, `SettingEnds` for one client: its waits are enough even if it is preempted while `ARTIX_SPI_WE` is 1 and the command is sent several times |
| `setting_applied` | violated: with two clients a setting is lost although `eeprom_settings` returns |
| `reg_settings` | `OwnWords`, `PulsesInStep`, `KeylockInStep`: short messages never use the words of the slot's earlier client, and nothing foreign while the socket is open; overlapping pulses never leave an output low; a wrong copy of the key lock never unlocks |
| `boot` | `TypeOK`, `ConfMeaning`, `CardSettled`, and under fairness `ComesUp`, with failing calls and power losses |
| `eeprom_updated` | violated: `EEPROM.NEW` is removed although `ee_write` is commented out |
| `tftp` | `WriteSafe`, `WriteInOrder`, `ReadWhole`, `TimerGuards`, and under fairness `QuietCloses` |
| `old_i2c` | `NoStray`, `PageInStep`, `NetAsStored`, `SavedUnlessLost` |

The violated properties state what a comment or a document says; `PROJECT.json`
quotes it.

### What the properties except

Several properties hold only with a proviso, and the proviso is something the code does:

- `NoSocketLeak` speaks of a server that listens: see `listener_open`.
- `OwnWhileOpen` speaks of open connections.  After a send error has closed a socket,
  the handler's next `recv` uses the number, which lwIP may have given to another client.
  What the handler may then do, close another client's live socket included
  (`HandlerClose`), is in the model, and no property forbids it.
- `InOrder` and `PeerGoneNoticed` except what follows a write past the buffer of
  `psc_recvskip` (`over`).  `SkipInBuffer` says when that can happen: after a `recv` that
  failed in the loop with more than a buffer to go, and TLC reaches it; for no other length
  or order of partial reads.  `pscmsg.h` documents the function as "receive and discard".
- `WholeWaveform` and `SentInOrder` except what is read after a FIFO reset that met a
  waveform coming in, whose tail then stands in front of the next one, until a reset falls
  between two waveforms.
- `TimestampRecent` allows a torn pair: a trigger between the two reads gives the seconds of
  one and the nanoseconds of the next, which may be earlier than both, by less than a second.
  With two triggers before a readout the timestamp is the newer one's.
- `SentInOrder` has a word count of exactly the threshold as a case of its own: it ends the
  polling loop, fails the test behind it, and the last set is sent again, whole.
- `OwnWords` lets `reg_settings` use the words of a later client once `psc_send` has closed
  the slot's socket, since `handle_client` may then receive on a number that is in use again.
- `KeylockInStep` lets the console's copy be unlocked after a client's lock; its next toggle
  then changes nothing.
- `PulsesInStep` lets a pulse that overlaps another on its register be cut short.
- `CardSettled` asks that `EEPROM.NEW` is gone and `EEPROM.DAT` is not empty or torn when no
  call failed.  It does not ask that the file holds the EEPROM's contents: the comments of
  `sdcard.c` (lines 6 and 160) say that it is written if it is there with no bytes, from the
  EEPROM; the code also creates it when it is missing, overwrites it when it differs, and
  takes the bytes from a buffer that nothing has filled.
- `ConfMeaning` is about lines that fit the 64 bytes of `f_gets`.
- `ComesUp` excepts an I2C bus that stays busy, a missing I2C configuration and a `psc_run`
  that cannot open its socket.
- No property says that the unit goes on receiving: `disco_recv` never frees the buffer it
  was given, and after as many datagrams as there are buffers the unit is deaf until the
  power is cycled.
- `WriteSafe` is about the beginning of the file: `tftp_handler.c` opens without truncating,
  so a longer file keeps its tail behind the new content (the run has that case).  It excepts
  a failing `f_close`, which comes after the last acknowledgement;
  `ReadWhole` a lack of memory in `send_data`, after which a late acknowledgement gives
  one block two numbers, and a file that changed between two requests of the reader.
- `QuietCloses` is about reception that stops altogether, not only the gone peer's.
- `PageInStep` and `NetAsStored` except a device that does not answer: no caller looks.
- `NoStray` and `SavedUnlessLost` except a multiplexer that does not answer: another device
  with the same address, an SFP for the EEPROM, may then take a transfer, and TLC finds it.
  `SavedUnlessLost` also excepts, setting by setting, a burst of the status thread between
  selection and write or inside either, and a write that the EEPROM did not answer.
- No property says that a burst ends: one that interrupts the menu's long read polls the bus
  for ever, above the thread that could release it.

Bounds.  Two slots and three connections are the smallest numbers with a client
refused, a slot reused by a later client and a socket number reused while its old
owner is alive.  The messages of `psc_msg` are of both kinds, empty, short, and
longer than the buffer by more than two skip chunks, so that the loop of
`psc_recvskip` fails at its start, in the middle and between rounds.  Four
waveforms of four words and a FIFO of nine (two waveforms and a bit) give pile-up,
overflow, and a count exactly at the threshold.  `artix_control` has messages of four
bytes as in the code, a table at its limit and one above it, three in a row.
`reg_settings` has three connections over two slots and three messages or keys: a slot
reused, a number reused by a seated and by a refused client, and three pulses at once.
Its bodies cover each register, and none, one or two
words.  `boot` has every `NET.CNF` of up to two lines that decide the kind of address
and two with the other settings, both partitions, one power loss between any two steps,
and as many datagrams as buffers (two).  `tftp` has a file of two blocks with the last one
short, and a shorter one to replace it, of two blocks too, a timeout and one retry, two timeouts pending, one failure of
the card or the memory; the 16-bit block number does not wrap.  `old_i2c` has two of six
SFP slots, two of the clock's registers, all the pages of the Si5347, all other devices,
a menu command, two bursts and one unanswered transfer in each of two power-ups.  A
second menu command repeats the first: the multiplexers are selected anew.

Fairness.  FreeRTOS runs equal priorities round robin, so a thread that can run
does (weak fairness of thread steps).  `send` and `recv` return within
`SO_SNDTIMEO` and `SO_RCVTIMEO`.  A waiter for `sendguard` gets it when it is released
again and again (strong fairness): the broadcasters sleep between calls.  Nothing
is assumed of peers, of `accept`, of new triggers, or of new messages.  `main` and
`realmain` go on when they can (`Boot`): above them only threads that block.  lwIP runs
a timeout that is pending (`tftp_tmr`).

## Proofs

TLAPS proves the theorems below for every value of the constants that satisfies the
module's assumptions.  Each proof module begins with its inductive invariant (`Inv`, or `IInv`), whose
parts TLC checked on the run's instance before they were proved; then `Init => Inv`, one
lemma per action, and the theorems.  Almost no property is inductive by itself: what
follows says what `Inv` adds to it and why.

- `PscServerProofs`: `TypeCorrect`, `SlotsOwned`, `FramesAreWhole`, `NoLeak`,
  `OwnMessages` and `ImplementsPool`, for every number of slots, connections, broadcasters
  and sockets (assumed: at least one slot and one socket number besides the listening one,
  and that the names differ).  `Inv` adds
  `SenderInv` (who is inside `psc_send` holds the mutex and its index and socket agree
  with the table; the number it sends on is the slot's, or 0 if it was taken before
  `C->sock` was set), `AcceptInv` (the accept loop's locals against the phase of the
  connection in hand), `FdInv` (a connection has one socket number and never 0) and
  `MarkInv` (a slot about to be marked has lost its socket).  `FramesWhole` needs the
  first three: a recycled number cannot put a message inside another because the
  holder of the mutex sends on the slot's own number, which only that slot's handler
  or sender closes.  `OwnMessages` adds `RecvInv`: as long as a connection is
  open, its handler's number is that connection's or -1, and what the handler waits on or
  has received is its own.  The refinement maps a
  seated phase to its slot; every step is `Admit`, `Refuse`, `Lose`, `Leave` or a stutter.
- `PscMsgProofs`: `TypeCorrect`, `SentContiguous`, `ReceivedInOrder`, `SkipsInBuffer` for every list of
  messages and every size of header, buffer and chunk (assumed positive where the
  code has them so).  `FramesInv` says the frames lie end to end, `WriterInv` how much
  of the last one is unwritten, `ReaderInv` where in the frame after the last
  delivered one the reader is.  The key step is `HeaderFound`: a header read in full
  ends before `wr`, so a frame begins where it began, and only one does.
- `WvfmReadoutProofs`: `TypeCorrect`, `WholeWaveformsSent`, `TimestampsRecent`,
  `NewerEachTime`, for waveforms of any length, any threshold below it, any FIFO that
  holds a waveform and any number of triggers.  `FifoInv` says that after a reset that cut
  nothing the FIFO holds the first words of one waveform, and that less than a whole one
  is the one still coming; the delay of the polling loop then completes it, and the words
  read and those still in the FIFO are together that waveform.  `StampInv` bounds the
  words read by the seconds and those by the nanoseconds, `OrderInv` what was sent by what
  is in the FIFO or was just read; `AgainInv` says that the buffers hold the last set until
  words are read again.
- `ArtixControlProofs`: `TypeCorrect` for any number of handlers; `CommandsWhole` and
  `SettingsApplied` under the hypothesis `OneHandler`.  The hypothesis is needed: with two
  clients the second one fails, as `setting_applied` shows.  `LinkInv` ties each register
  access to the place of the command on the link (latched, shifting, cleared) and to what
  the wait still owes, `DoneInv` says which commands of the message have taken effect;
  doing one twice changes nothing, which is why sending it again while `ARTIX_SPI_WE` is 1
  does no harm.  `JobAssumption` gives messages their types.
- `RegSettingsProofs`: `WordsAreOwn`, `PulsesKept`, `KeylockKnown`, for any number of slots,
  connections and messages.  `BufferInv` says that every word of a buffer is a zero of
  `memset`, came from the slot's present connection, or came after `psc_send` closed its
  socket from a connection accepted later; `OverlapInv` that two threads in
  the pulse of one register are both noted as overlapping.
- `BootProofs` (with `SdCard` and `Discover`): `TypeCorrect`, `ConfigurationMeant`,
  `CardInOrder`, for every set of `NET.CNF` files, any number of buffers,
  datagrams and power losses.  `CardInv` says what is still missing of a settled card at
  each point of `sdcard_handle` if no call failed; `BufferInv` bounds the buffers for the
  type invariant.
  `NetFilesAssumption` says which arguments a command can have in the model's alphabet:
  `eeprom` is a word only `hwaddr` knows, so for another command it counts as `bad`.
- `TftpProofs`: `TimerPending`, `WrittenInOrder`, `WrittenSafely`, `ReadInOrder`, for any
  peers, files, block and timer sizes, and any number of pending timeouts and failures.
  `OpenInv` relates `blknum`, `fpos`, `last_data` and the file of the open transfer;
  `NetInv` says of every datagram ever sent what it meant then (a block of a writer is
  that block of its content; an acknowledgement of a last block was sent when the content
  was on the card or its `f_close` had failed; a block for a reader is that block of the
  file, if only one version of it was ever opened for the reader); `ClientInv` says what
  the peers made of it.  Since `net` is never emptied, `NetInv` has to be of a kind that
  no later step can spoil (`MessagesKept`), and that is what makes late and repeated
  packets harmless.  `FilesAssumption`: the files have fewer than 2^16 - 1 blocks (32 MB);
  above that `blknum` wraps, which neither the run nor the theorems cover.
  `NoDataAssumption`: NULL is not a packet.
- `OldI2cProofs`: `NothingStrays`, `RegistersOnPage`, `NetworkAsStored`, `SettingsSaved`, for
  any number of SFP slots up to six and of LMK registers, and any number of menu commands,
  bursts, unanswered transfers and power-ups; of the Si5347's table only that its pages
  are numbers is used.  The invariant is `BaseInv` (the types, and that an unanswered
  selection was counted), which holds always, and `IInv`, which holds until a multiplexer
  does not answer and again after the next power-up.  `IInv` speaks of what each thread still has to do.
  `Aimed`: the last selection of a multiplexer before a transfer behind it, or else how
  the multiplexer is now, is the transfer's device.  `Paged` and `Pointed`: what relies on
  a page or on the EEPROM's pointer comes right after what sets or keeps it, or the chip is
  there now.  Such facts pass from a program to the rest of it (`AimedTail`, `PagedTail`,
  `PointedTail`) and from two programs to one after the other (`ProgConcat`, `Extended`);
  that the threads' programs have them (`MainProgFacts`, `ReadSysInfoFacts`,
  `MenuProgFacts`) is shown call by call.  Two facts replace the missing lock: no address
  is behind both multiplexers (`FirstAnswers`, `SecondAnswers`), and a burst, which the
  menu cannot interrupt, ends with the first multiplexer closed (`StatusInv`), so that the
  rest of an interrupted menu command meets the EEPROM or nobody (`HeardByEeprom`).
  `MenuInv` follows each setting of `program_ip`: it is stored, still to be written, or in
  `lost`; if its write is next, the EEPROM is selected and no burst is on or it is in `lost`
  already (`NextSet`), and so it is if its selection is torn (`TornSet`).

Every invariant and every action property of the passing runs is the subject of one of these
theorems.  Model-checked only, and why:

- all liveness properties (`SendReturns`, `AcceptorReturns`, `HandlerEnds`,
  `PeerGoneNoticed`, `FifoDrained`, `SettingEnds`, `ComesUp`, `QuietCloses`):
  fairness and `ENABLED` are out of the provers' reach;
- the three violations, which are counterexamples.

## Not modelled

The event receiver and the trigger pulses: gateware counters driven by one clock each,
whose latched timestamp is in `WvfmReadout`.  The readings of `lstats.c` and the layout of
messages and byte order: data without control.  The waveform and control threads of
`sw_old`, which `wvfmdata.c` and `control.c` replace.  Functions nobody calls:
`soft_trig_artix`, `uart_read_line`, `receive_console_cmd`, `menu_get_ipaddr`,
`tftp_cleanup` and the Si570 code.  The superseded gateware, the top level and its
constraints.
In `PscServer` a message is a header and a body, each sent in one step; their splitting
is in `PscMsg`.  The accept loop's `close` of a refused
client takes no mutex, so a number may change hands between a sender's header and its
body and the body then goes to a connection that never got the header; that takes five
connections, which is beyond the instance TLC checks, and `FramesWhole` (which is about
headers waiting for their body) does not speak of it.

## Plan

1. `EventRcvChan`: `event_rcv_chan.vhd` with a second event while the counters run, and
   counters at 0.
2. Compose `WvfmReadout` with an abstract `psc_send` from `PscServer`, so that the reader's
   delays come from the server.
