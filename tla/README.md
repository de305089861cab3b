# Verification of the AER handshake firmware

TLA+ models, TLC configurations and machine-checked proofs for the receiver of a
delay-insensitive address-event (AER) link: the polling receiver on the Pico, the raw ring
buffer, the 1-of-4 codec, the burst assembler and the main loop that joins them; the pins and
clocks underneath; the way of the events over USB to the viewers on the host; and the host's
replay of waveforms.

    tlc -workers 2 -config RxSkew.cfg MCAerRxPoll.tla     # one run; the table below names them all
    tlapm AerRxPoll_proofs.tla                            # one proof module

`PROJECT.json` lists the components, runs, properties with a mutant each, the source lines
behind every definition, the findings, the hazards and the theorems.

## 1. The system

    sensor --DATA (12 wires)--> aer_rx_poll_step --raw words--> ring buffer
           <------- ACK -------                                     |
                                    main(): pop -> aer_decode_word -> aer_burst_feed
                                                                    | (row, col) callback
                               aer_event_sink -> usb_stream -> hal_stream_write -> USB -> viewers

| component | state | operations | interacts with |
|---|---|---|---|
| polling receiver, `pico_aer_rx/aer_rx_poll.c` | statistics, timeouts; the ACK wire | `init`, `reset`, `step`, `service` | reads DATA and writes ACK through the GPIO layer, pushes into the ring buffer |
| ring buffer, `common/src/ringbuf.c` | slots, `head`, `tail` | `init`, `reset`, `push`, `pop`, `peek`, `is_full`, `is_empty`, `count`, `free` | shared memory of one producer and one consumer |
| GPIO layer, `pico_aer_rx/hal/hal_gpio.c` | configuration, masks; the pins | `init`, `idle`, `read_all`, `read_data_raw`, `ack_write`, `ack_is_asserted` | called by receiver and main loop |
| time layer, `pico_aer_rx/hal/hal_time.c` | cycles per microsecond, whether the cycle counter counts | deadlines, cycle counts, `wait_until`, `spin_cycles` | called by receiver and USB stream |
| codec, `common/src/aer_codec.c` | none | `aer_decode_word`, `aer_encode_payload` | called by main() and the host tools |
| burst assembler, `common/src/aer_burst.c` | parser state, row, columns, flags, counters | `init`, `reset`, `feed` | called with decoded words, calls the event callback |
| main loop, `pico_aer_rx/pico_aer_rx.c` | its place in the loop | poll, one step, drain | all of the above, and the USB stack |
| event sink and USB stream, `aer_event_sink.c`, `usb_stream.c`, `hal/hal_stdio.c` | counters of both layers, enabled, record type | one packet per event: header, then payload | callback of the assembler; framed bytes to the host |
| host viewers, `scripts/*.py` | byte buffer, what was shown | find the magic, cut packets, extract events | USB |
| transmitter model, `host/aer_tx_model.c` | waveform, time, ACK | `init`, `emit_word(s)` | gives the waveform to the replay |
| replay, `host/aer_rx_replay.c` | statistics, last ACK, one static variable | `run` with a fault injector, load a trace | codec and assembler, on the host |

What is hard here: the receiver acts on reads of the bus that are past when it acts; wires of
one word rise at different times; a timeout cannot tell a slow transmitter from a hung one;
the ring buffer is shared without locks; a lost word changes the meaning of the words after
it; everything waits for the sensor; a packet is written in two pieces to a port that may
close in between, and read in others; one assembler and a static variable outlive a replay;
clocks wrap between the taking of a deadline and its test; the pins of one word may lie in two
registers.
What makes each part correct:

- link: four phases in step; each word latched once, stored or counted; a garbled word never
  passes for another one; progress. With timeouts: no wait cut short, each latch in a statistic and
  in the value returned, the budget kept, the call always over some time.
- pins: ACK follows DATA whatever its polarity and whatever the pins; no torn read passes for neutral.
- clocks: no deadline missed or met early, spans measured right, across every wrap.
- ring buffer: a FIFO under concurrent push and pop, no slot race, answers that stay true.
- codec: bit tricks compute the 1-of-4 code; no part of a word is a word.
- assembler: exactly the events of each burst, exact flags, bounded buffer, no unaccounted column.
- main loop: each burst reported exactly and in time, no drops, the USB stack always served.
- USB path: counters that tell the truth about the bytes; a viewer shows what was sent, once
  and in order, and a cut packet costs only what its missing bytes overlap; it shows all, and its window lives.
- transmitter model and replay: four phases for every word and every delay; exactly the words
  emitted are latched, or what the fault makes of them; a run owes nothing to earlier ones.

## 2. Modules

| module | models | state and actions |
|---|---|---|
| `AerRxPoll` | link: `aer_rx_poll.c` and the transmitter of `aer_tx_model_emit_word` | `data` is the set of high wires, `ack` the wire; `rx_pc` is where `aer_rx_poll_step` stands; each bus read, ACK write and ring buffer call is an action |
| `HandshakeChannel` | abstract: words cross one at a time, stored once or dropped on a full queue | refined by `AerRxPoll` |
| `RxService` | `aer_rx_poll_service` over the step of `AerRxPoll`, with the clock | `svc` holds the locals of the call, `clk` the clock, the step's one `deadline` and, as history, the beginning of the wait; one action per test of the budget, beginning of a step, return, store, test of a deadline |
| `HalGpio` | `hal_gpio.c`, under the handshake of the step and a four-phase sensor | `pins` are the levels and directions of all GPIOs, `hal_pc` the place of the caller; each register access is an action |
| `HalTime` | `hal_time.c` at parametric width | `clock` counts cycles, `call` is the wait or spin under way; one action per test of a loop |
| `RingBuf` | `ringbuf.c` | `p_pc`, `c_pc` with the locals of push and pop/peek; each index and slot access is an action |
| `BoundedFifo` | abstract: a bounded queue | refined by `RingBuf` |
| `AerCfg`, `AerCodec` | `aer_cfg.h`, `aer_codec.c` over sets of wires | operators |
| `CodecBits` | `aer_codec.c` with masks and shifts; walks through all raw values | one variable, the raw word |
| `AerBurst` | `aer_burst.c` | `burst` is `aer_burst_t`, `emitted` the callback calls of the latest call; one action per path of `aer_burst_feed` |
| `BurstParser` | the assembler under every stream of words, with the stream as history | `AerBurst` plus history |
| `AerFirmware` | `main()`'s loop: `AerRxPoll`, `AerBurst` and `AerCodec` composed | `main_pc`; the sensor sends ROW, COLs, TAIL |
| `BurstPipe` | abstract: bursts in, exactly their events out | refined by `AerFirmware` |
| `EventStream` | `aer_event_sink.c`, `usb_stream.c`, framed packets, log lines and markers of `hal_stdio.c`, `FramedStreamReader` and the two viewers | `dev.pc` is where the firmware is in a call of the sink, `port.wire` the bytes under way, `host.pc` where the viewer is; one action per test of the connection, write, and round of the reader |
| `HostReplay` | `aer_tx_model.c`, `aer_rx_replay.c`, with `AerBurst` and `AerCodec` | `wf` is the waveform, `run` the locals of a run; one action per word emitted, line loaded and sample replayed |
| `MCAerRxPoll`, `MCAerFirmware`, `MCHostReplay` | values of the constants for TLC | |
| `MCLayers` | `CodecBits`, `HalGpio`, `HalTime` and `RxService` side by side: they share no state, so one moves while the others rest | |
| `*_proofs` | theorems about the modules they extend; `Layers_proofs` holds those of `HalGpio`, `HalTime` and `RxService`, `Common_proofs` those of `AerCodec` and `AerBurst` | |

Abstractions. A word is a set of wires. In `AerRxPoll` a deadline is a choice made each time the
code tests it, so a timeout may come at any time, early ones included; `RxService` takes the choice
away and puts the clock of `hal_time.c` in its place, with a receiver held up by at most `MaxDelay`
between two actions. A wait loop is a cycle of a read and a test. The counters of the receiver wrap
at `StatMod`, those of the assembler at `CounterMod` (2^32 in C). In `AerRxPoll` the ring buffer is
the sequence that `RingBuf` is shown to implement, and its full check and push are two actions, so a
consumer may run between them. Errors for null pointers and the busy-wait hints are left out.
`cols[]` starts unwritten (`-1`), as `aer_burst_init` leaves it.

`HalGpio` has the sensor raise and lower the wires one at a time, and reads the register of
GPIO 0-31 before that of 32-63. Pulls are left out: the bus is always driven. `GpioAssumption` takes
`ack_deasserted_level` for the inverse of `ack_active_high`, which the code does not check. `HalTime` wraps at
`Word` and `Long`, 2^32 and 2^64 in C; its clock counts whole cycles, and the cycle counter is that clock or,
where there is none, the microseconds times `cycles_per_us`.

`EventStream` is about bytes, because the reader takes lengths and types from whatever follows a
magic; the n-th event is the pixel `<<n, 31 - n>>`, so that order can be seen. A short write takes
the first bytes of a piece, of a plain log line too, where `printf`'s result is ignored; a viewer may be started and ended anywhere, with some of the bytes
flushed. The tick bytes of a record are 0. A log line is thirteen bytes, enough to overlap another packet
when it is cut; whether it is framed, as `hal_stdio_set_packetized` decides, is a free choice; a marker may be
empty, and is then a header alone. In `HostReplay` a fault injector is a record of its
parameters, `enabled` of `drop_neutral` among them, and a trace file is a choice of lines, already parsed.
`neutral_word` is the word without wires: `aer_tx_model.h` documents it as 0 and nothing sets another.

Definitions commented `mutant` are plausible bugs in the definition after them; they are used
only to show that a property notices that bug.

## 3. Runs

Passing runs.

| run | question | bounds |
|---|---|---|
| `RxSkew` | with skewed wires and no neutral timeout: are both sides in step, is ACK right, does the step implement the channel, does each word complete? | two groups of two wires, three words (pairs that share a wire), two buffer elements |
| `RxTimeouts` | with both timeouts due at any test: do the statistics account for every latch, and is a double latch always announced? | as above with one buffer element, counters wrap at 2 |
| `RingBuf` | is it a bounded FIFO without races whose answers hold? | four slots, two values |
| `CodecBits`: codec | do the bit operations compute the code; round trip? | the real configuration, all 13-bit raw values |
| `CodecBits`: pins | is ACK right on every pin and polarity, are torn reads harmless, does each word complete? | four wires on pins 2-5 beside ACK as in main(), and on 30-33 with an active-low ACK; two words |
| `CodecBits`: time | are deadlines, spins and measured spans right across wraps? | clocks of 3 and 4 bits, one and three cycles per microsecond, gaps of at most 2 cycles |
| `CodecBits`: service | does the value returned account for every latch, does each wait last its timeout, does a call keep its budget and return even if the transmitter hangs? | one word, one buffer element, timeouts of 1 and 2, calls for one word without and two words with a budget of 1, delays of at most 1, clock up to 13 |
| `BurstParser` | buffer, flags, counters, events for every stream? | 3 rows, 2 columns, 4 indices with 4 pad patterns, bursts of at most `MaxHeard` = 4 words, counters wrap at 3 |
| `FwExact` | does main() report every burst exactly and in time, and never drop? | payloads 0..3, one index bit, bursts of 1 or 2 columns, one buffer element |
| `FwSkew` | with skewed wires: is a burst with no garbled word exact, and main() in step with the receiver? | as `FwExact` |
| `EventStream` | do the counters tell the truth, is what is shown sent, once and in order, what does a cut packet cost, and do the viewers keep up? | three packets, one of them possibly a text, one short write after 0, 2 or 5 bytes, reads of 5 bytes or all; after the first event one text, change of a setting or reset |
| `HostReplay` | is the waveform four-phase, is what is latched what was emitted, what does each fault change, and is a run independent of the one before? | four words, three sets of delays (zeros included), two runs, three trace lines, statistics wrap at `CounterMod`, eleven fault settings (one glitch lies above the bus) |

Why these bounds are enough for what they are to show: two words that share a wire and a third that
does not are what makes a partial word ambiguous; two words in flight (one stored, one latched) and
a capacity reached make every case of the full check; the ring buffer of four slots wraps with
three, two, one and no values in it; a burst can be empty, partial, exactly full and too long;
counters wrap within a run. A cut packet, the one that pays for it and one that must not pay make
three packets; cut points lie before, inside and behind the magic and inside the payload; reads of five
bytes split a magic. `ClockEnd` is 13, past the bound of 12 that `ServiceIsPrompt` puts on
a call for one word and on one with the budget of 1. In clocks of 3 and 4 bits a wait, a spin and a
gap of every length in proportion to the range begin at every distance from every wrap. Four words
are a burst with a column too many, or a burst and the beginning of the next, which the second run
must not see. The proofs remove most of the bounds of the receiving side.

Runs that end in a violation. Each checks one sentence of the repository that the code does not keep.

| run | sentence | what happens |
|---|---|---|
| `RxLost` | README.md 4: ACK follows the latch | after a neutral timeout the old word's ACK answers the next word |
| `FwPhantom` | README.md 9: a COL makes an event of the most recent ROW | a garbled ROW makes a COL the row |
| `ViewLate` | view_events.py:152: "pull as many packets as are available quickly" | of two packets read together the second stays in the reader's buffer until more bytes come |

`RxLost` is why the theorems about ACK and order on the link assume the neutral timeout off, which is how main()
configures it.

More disagreements were met that have no run of their own:

- With the neutral timeout a word can be latched twice, against "Latch DATA once per word" (README.md
  4.1); `DuplicateOnlyAfterTimeout` confines it to steps after a reported timeout.
- `aer_rx_poll.h` asks for no ACK when the buffer is full; `aer_rx_poll_step` raises ACK first and
  then drops the word, as the comment in main() wants ("drop-and-continue").
- README.md 4.2 recovers from DATA held high by timeouts; main() sets both to 0 and would wait for ever.
- An index past the last row or column of a geometry that is no power of two is flagged
  (`FlagsAreAnomalies`) but still emitted, against the ranges in README.md 9 (32x32 is not affected).
- "host can resync using magic" (hal_stdio.c:25): a header cut after its magic makes the reader take
  the next magic for a length of some 17000 to 21000 bytes. `CutCostsItsLength` and
  `PrinterCatchesUp` exclude this cut (`NoHeaderCut`); all others cost the packets that the missing
  bytes overlap, one if it was an event.
- A long log line cut early costs every event within its missing bytes, not only itself;
  `CutCostsItsLength` says exactly that.
- `aer_rx_poll.h:80`: "Returns number of words successfully pushed". `aer_rx_poll_service` returns completed
  handshakes: words dropped on a full buffer are counted, and a word stored before its neutral timeout is not
  (`ReturnAccounts`).
- `time_budget_us` is tested between steps only: a call outlasts it by a whole step
  (`ServiceIsPrompt`), and for ever if the timeouts are 0.
- `hal_gpio.h:49`: "Read all GPIO inputs as a single snapshot". It is two reads. With DATA across
  the two registers and a word latched before its last wire was up, a read that falls between the
  last wire's rise and the first one's fall sees a neutral that never was, and ACK is released
  early. `AckEdgesFollowData` leaves these histories (`early`) out; the pins of main() lie in one
  register.
- `hal_gpio_init` makes ACK an output, low, before it writes the deasserted level: an active-low ACK
  is asserted for a moment. main() has an active-high one.
- `hal_time.h:69`: `hal_time_spin_cycles` is "wrap-safe", but a spin for nearly 2^32 cycles starts
  anew if the counter runs past its range between two tests; `SpinsAsAsked` promises a prompt end
  where the cycles and one gap fit the range.
- `hal_time_remaining_us` compares absolute times: across a wrap it would call a pending deadline past, which
  `hal_time_expired` does not. 64 bits of microseconds do not wrap (`DeadlinesHold`).
- The 12-byte record of `hal_stream_write_event_u16` is sent as EVENT_BIN, but both viewers take its
  first byte for a record type they do not know or know as another. Nothing calls it.
- `view_events.py:156`: "Stop pumping after a small time slice to keep UI responsive". The time is tested only
  between packets: the window stops in `read_packet` while a packet is unfinished, after a cut, when
  started in the middle of a packet, or behind a plain log line. `WindowIsServed` excludes these
  and says that nothing else stops it.
  Neither reader checks version or type when it resynchronises, so that `print_events.py` may print
  rows off the screen after a cut; `ShownAreSent` therefore speaks of the pixels of the screen,
  which is all that `view_events.py` draws.

Deadlock is checked in every run but `HostReplay`, where the tool ends after its runs.

### Fairness

- `Fairness` (`AerRxPoll`), `FwSpec`: the receiver's code keeps running (weak fairness of
  `Receiver`, of `Main`), and a transmitter that began a word completes it (README.md 4). Nothing makes the
  sensor send, nor the consumer pop.
- `ServiceSpec` (`RxService`): the receiver runs and time passes, nothing else; the transmitter may
  stop. No fairness of an expiry is assumed: that a deadline is found expired follows from the
  clock.
- `GpioFairness` (`HalGpio`): the caller keeps running, a sensor that began a word completes it.
- `MCSpec` (`MCLayers`) states these two only while their layer is the one that may move: a layer kept at
  rest and asked to move would leave no fair behaviour of the others to check.
- `Spec` of `EventStream`: a call of the sink returns (its code has no loop), and a viewer's program
  goes on: it draws, its pump ends when nothing waits, and its reader reads. `PumpReads` is strongly fair:
  a pump that again and again finds bytes within its 5 ms reads some time. Nothing makes events occur
  nor viewers open or close the port.

## 4. Proofs

TLAPS proves the following for every value of the constants that the modules' assumptions allow.

- `AerRxPoll_proofs`: in all configurations `TypeCorrect`, `DuplicatesAreAnnounced` (by `LatchedOnce`: a
  word latched by a step that did not give up is off the bus before the next step can read it)
  and `StatisticsAddUp` (by `Balanced`: the sums of the counters, taken modulo their range, lag the
  latches by the word in hand). With the neutral timeout off:
  `StaysInStep`, `AckCorrect`, `NeverForges` and `Refinement` to `HandshakeChannel`. The inductive
  invariant is `TypeOK /\ InStep`. `TypeOK` alone says nothing about the other side; `InStep` ties
  the receiver's phase to the transmitter's: ACK is high exactly from latch to release, a word in
  hand is a nonempty part of the one being sent and its wires stay up until ACK, and after the
  release DATA is neutral. Only `NeutralExpired` breaks it. `NeverForges` also assumes
  `DelayInsensitive`: no word is part of another one.
- `Common_proofs`: the codec for every number of groups and wires. That assumption holds of it
  (`CodeWordsAntichain`), code words are not neutral, the decoder accepts exactly them
  (`DecodeAcceptsCodeWords`) and no proper part of one (`PartsAreRejected`); every payload is encoded
  as a code word (`EncodeIsCodeWord`), encoding and decoding invert each other
  (`DecodeInvertsEncode`, `EncodeInvertsDecode`), and nothing on the bus but the tail word is the tail
  (`OnlyTheTailIsTail`). The loops over the groups are recursive functions, as `payload |=` builds the
  payload in `aer_decode_word`, because the library has no facts about its folds and about `^`. Their
  values are obtained by induction over the groups: `NatSetInduction` derives it from the
  well-foundedness of `<` with a set where the library's theorem takes an operator. Also what any
  caller of `aer_burst_feed` needs: types, and the counter of events.
- `RingBuf_proofs`: types, `NoRace`, `Promises` and `Refinement` to `BoundedFifo` for every
  capacity. The invariant `IInv` adds to the types that each side's copy of its own index is current,
  that a passed full (empty) check stays true until the side's own next move, because the other
  side only makes room (only adds values), and that what the consumer read from the slot is
  still the oldest value.
- `BurstParser_proofs`: types, `BufferCorrect`, `FlagsCorrect`, `EmitsCorrect`, for every geometry
  and stream. `BufferIsHistory` is the core of the invariant: the buffer is the part of the stream
  since the last TAIL; the events follow from it. `ColumnsAccounted` needs, besides types, only that
  adding modulo the counter range at each step is the same as reducing the sum once.
- `AerFirmware_proofs`: `NeverDrops` for every capacity, geometry, timeout setting and skew, from
  `Drained`: the buffer is empty whenever main() is not draining or past the push of a step.
  With the neutral timeout off, as in main(): `FirmwareNeverForges` carries the link's result into the
  main loop, for the words that the encoder makes. `IntactBursts` (skewed wires) and `FirmwareReportsEveryBurst`
  (wires that switch together; the refinement of `BurstPipe`) rest on `FwInv`, which follows the words from the
  assembler back to the sensor. The assembler's `Partial` burst, the word in the ring buffer and the word on
  the bus put together are what the sensor sent (`Owed`, by `Carries` from each place to the next),
  as long as no garbled word came in since the last TAIL (`Clean`); `Accounted` says that the flag
  `garbled` is right for as long as the word it is about is under way. `NextOwed` needs
  `EncodeInvertsDecode` and `OnlyTheTailIsTail`: what is drained is the index that was sent.
- `Layers_proofs`, service: `ReturnCorrect` and `WaitsLastTheirTimeouts` for all words, timeouts, calls and
  delays, from `Accounts` (a step runs inside a call, each completed turn counted once, a word in hand
  counted as latched) and `DeadlineIsCurrent` (the one local deadline is that of the present wait).
  `KeepsItsBudget` assumes both timeouts on and adds `Paced`, `OnTime` and `InBudget`: the place of the
  step bounds the time since its wait began, and steps follow each other within `StepBound`.
- `Layers_proofs`, pins: `EdgesOfAckFollowData` for DATA and ACK on any pins, either polarity and any words,
  from `AckLevel` (the level of the pin is the caller's place in the handshake), `BusOfSensor` and
  `FourPhases` (wires only rise while a word is read and only fall while neutral is awaited, so a
  torn read is a part of the word, or neutral; the second needs `~early` where DATA lies in both registers).
- `EventStream_proofs`: `CountersCorrect`, `ShownCorrect` and `ResyncCorrect` for any number of events, texts,
  settings, short writes at any byte, reads of any size and connections.
  - Counters (`IInv`): `PacketOfCall` ties the call to the last packet of the log (what it has of its bytes, and
    that only texts change its type); from it a write completes a packet exactly when the call returns
    success, so that `Counts` moves an event from the call to one counter.
  - Reader (`RInv`): `Layout` lays the packets of the log end to end, so that each byte ever written is
    `ByteOf` one of them, and `InStream` says that the reader's buffer and the bytes on their way are the end of
    what was written, all behind the first `Done` bytes. The reader finds a magic only at a header whose four
    letters were all written (`MagicIsHeader`), and at each of these (`HeaderIsMagic`): no other byte is an
    `A` but the row of an event off the screen, and no column is an `E` beside it. So what
    `Sync` finds is the header of a packet of the log, and if that packet was cut, the
    bytes that it lacks are taken from what follows. `FromPackets` says that a pixel of the screen was
    written by a packet that begins before `Done`; since `Done` only grows and packets follow each other
    in the order of the events, none is shown twice or out of order (`ShownAreSent`). `OwedAreShown`
    keeps what `CutCostsItsLength` says of the packets behind `Done`, from `SkipsNoHeader` (no header that has
    arrived whole is thrown away) and `TakenPacket` (a whole packet that is taken is read as one
    record of its event).
  - `OnEvents` is a recursive function over the records of a payload, which the prover unfolds by the domain
    of its argument: `NatSetInduction`, as in `Common_proofs`.
- `Layers_proofs`, time: `DeadlinesAreKept` and `SpinsAreKept` for clocks and counters of any width, any
  rate and any wait. `HalTimeAssumption` asks that a `uint64_t` is a multiple of a `uint32_t`'s
  range, at least twice it, and that no caller is held up for half the range of the 64-bit clock.
  `TimeInv` says of a call under way that there are a microsecond `u` of the clock and `r` cycles into it at
  which it began, that the clock is `e` microseconds on after `n` wraps, and that the last test
  came too early (`NotYetDue`); the rest is that differences may be reduced modulo the width before or after
  (`Reduced`, `MultiplesVanish`). `Horizon`, where the history of a call ends, is past everything that the
  properties tell apart.
- `HostReplay_proofs`: `FourPhaseWaveform`, `ReplayLatchesTheWords`, `StuckAckLatchesNoMore`,
  `StatisticsAddUp` and `EventsOfThisRunOnly` for all words, delays, faults, configurations, trace lines and numbers of runs.
  `WaveInv` describes the waveform as a transaction of five samples per word that has an edge, behind a
  `Lead` of one sample, or of four if ACK was high at first; `ReplayInv` says that after `i`
  samples the words latched are those whose rise lies before, as the fault leaves them
  (`EdgesLatched`), until an injector holds ACK (`HeldLatched`); `CountInv` that the statistics count
  `latched` and that the assembler's counter goes on; `EventsInv` that the assembler holds the row and the
  columns of the burst that the words latched in this run have begun (`Holds`), in the order of their ranks. Proving `StatsAddUp` for every mask showed that
  it took a word for neutral only when no wire at all is high; the code masks first ("raw==0 after mask",
  aer_rx_replay.c:55), which matters for a glitch above `AER_DATA_WIDTH`. The property now says so, and the run
  has such a mask.

Model-checked only, and why:

- all liveness (fairness and `ENABLED` are outside the prover);
- the bit-level codec, `BitsMatchSets` and `RoundTrip`: `Bitwise` is outside the prover. What it is shown to
  compute, `AerCodec`, is proved about;

`EventStream` identifies an event by its pixel `<<n, 31 - n>>`: the theorems hold for any number of events, but only
the first 32 lie on the screen, so what they say of the screen is about these, between any number of others.

## 5. Not modelled

- The store order of `ringbuf_u32_push` beyond program order: the slot is written through a plain
  pointer before the volatile `head`, and the code has no barrier.
- `ringbuf_u32_reset` beside a running push or pop; main() resets before it starts.
- A sensor that withdraws a word before ACK, or a glitch on an idle bus, between the poll of
  main() and the first read of the step.
- Bytes that the USB driver drops inside `fwrite` while it reports them written; ticks or texts that spell the
  magic; records of several events, which the firmware does not send.
- `AER_PAYLOAD_BITS` above 8, which would not fit the `uint8_t payload`; the repository's configuration has 6.
- `hal_stdio_wait_connected` and `hal_stream_write_event_u16`, which nothing calls; formatting of log lines.
- Failed allocation and growth of the waveform, parsing of trace files.
- Pulls of the pins, `hal_time_sleep_us` and `hal_time_spin_us` (calls of the SDK), the LED, the log
  macros of `log.h`, finding a port and drawing in the viewers.

## 6. Plan

Order of work, most important first.

1. Link, ring buffer, codec, assembler, main loop, with their abstract specifications and first
   theorems: done, as described above.
2. `EventStream`: the event sink, the framed output and the readers on the host: done.
3. `HostReplay`: the waveform, the replay and the fault injectors: done.
4. `RxService`, `HalGpio`, `HalTime`: the service loop on a clock, pins and clocks: done.
5. Proofs of the statistics, of duplicates with the neutral timeout on, of the service loop and of the
   pins: done. The refinement of `BurstPipe` by `AerFirmware` without skew, and `IntactBurstsAreExact`
   with skew: done.
6. Proof of `CountersAgree`, of the waveform and of the replay with every fault: done.
7. Proof of `DeadlinesHold` and `SpinsAsAsked` for every width of the clock: done.
8. Proof of `ShownAreSent`, `CutCostsItsLength` and `EventsAreOfThisRun`: done. For the last one the history
   `events` is kept word by word, which makes the property say at which word the events come, and no
   longer needs sequences to be filtered and flattened.
9. Open: an abstract specification of the host's view of `EventStream`, a lossy ordered stream of whole
   packets, where the refinement would need the wire's bytes as a function of the packets that are sent.
10. Open: a model of the bit operations in a form that the provers know (sums of powers instead of `Bitwise`),
   which would put `BitsMatchSets` within reach of a proof by induction over the bits.
