# A verification project for radiostuff

radiostuff is a collection of amateur-radio programs. This directory holds TLA+
models of the parts with logic of their own, TLC configurations that check them
on small instances, and TLAPS proofs of the safety invariants of seven of the parts.
Paths below are relative to the repository.

- `PROJECT.json` lists components, runs, the source lines each definition
  stands for, hazards, findings and theorems.
- To check a run: `tlc -config X.cfg MCModule.tla`. To check the proofs:
  `tlapm M.tla` for `FoldFacts.tla` and each of the modules `*Proofs.tla`.
- Modules `MC*.tla` only give the constants values.

## 1. Inventory

### Programs that are modelled

| component | state | operations | talks to | what is hard |
|---|---|---|---|---|
| pskreporter `ThreadPool` (`pskreporter/src/lib.h`) | `done_`, `work_`, `mu_`, `cv_`, `threads_` | constructor, `add`, destructor, `thread_main` | `gridsquares` adds closures | lost wakeups, drain at destruction, exceptions, a constructor that fails half way |
| pskreporter `StreamMapLines` (`pskreporter/src/lines.h`) | `start_`, `end_`, `done_`, a huge mapping; `cur_` of the iterator | reader thread; iterator's `read_`, unmapping | an istream; a range-for loop | snapshots gone stale, a missing notification, pages unmapped behind string_views |
| tun-ax25 (`modem/tun/src`) | `queue_` of both sides, `unparsed_` | `selectloop`, `KISSIngress::read`, `UDPIngress::read`, `send` of both queues | kernel AX.25 over a pty, a UDP peer | reads that cut frames anywhere, broken escapes, short and failed writes |
| loratnc (`loratnc`) | KISS state, `buf`, `send_in_progress_` | `cmd`, `send`, `process`, the poll loop | a pty, a LoStik radio chip over a serial line | lines the chip writes of its own accord between a command and its reply; refused transmissions |
| nlwrap (`ax25/nlwrap`) | two `Buf`s, the child's life | `mainloop`, `maybe_add`, `maybe_do`, `close` | stdin and stdout, a child process over two pipes | the child's death at any moment, short writes, blocking writes both ways |
| dsax (`ax25/dsax`) | `parent_state` (in an escape or not) | `encode`, `decode`, `copy`, `mainloop` | a pty, a D-Star serial line with flow control | escapes cut by reads, two programs blocked in writes at once |
| gr-habets stream blocks (`gr-habets/lib`, `gr-habets/python`) | `queue_` of the sources; bits, counters, `buffer_` of the sinks | message handlers and `work()` of pn_source_f, float_streamer, pn_decode_f, ook_decode_b, pn_decode_identity_b, packetize_burst, tagged_stream_to_large_pdu_f, prototype_tagged_stream_to_vector | the GNU Radio scheduler, PDU blocks | the scheduler cuts the stream into calls as it likes |
| gr-habets PDU blocks (the same directories) | none | message handlers of bitunpacker, bitpacker, packet_size_filter, preamble_adder, preamble_stripper | the blocks above | what one end adds the other must find and remove, and nothing else |
| doxyxml (`gr-habets/docs/doxygen/doxyxml`) | the objects of an index, `_parsed`, `_error`, `_members`, `top._refs` | `_parse` of index, file, class and group, `from_refid`, `get_member`, `in_category`; text.py | the XML that doxygen wrote; a client | parsing when first asked, one object per refid, an exception half way |
| doxyxml's generated classes (`doxyxml/generated`) | an object per XML element | `build`, `export`, `exportLiteral` of ninety classes; the program in compoundsuper.py | minidom, a file | mixed content, unknown elements, what is quoted and what is not |
| swig_doc (`gr-habets/docs/doxygen/swig_doc.py`) | the entries collected, `make_funcs` | `make_swig_interface_file` | doxyxml, SWIG's interface file | which exceptions it survives; who is documented once, twice, never |

### Programs that are not modelled (yet)

| component | what it does | what would make it correct, and why it waits |
|---|---|---|
| tun-ip (`modem/tun/src/tun-ip.cc`) | the same `selectloop` with a tun device | as tun-ax25; planned as a variant of it |
| loratun, lostik scripts | IP over the LoStik, three copies of the command exchange | as loratnc; planned as a variant |
| gridsquares, todistday | read reports line by line; draw frames through `ThreadPool`; sum distances per day | each record is counted in the frame of its time; every index is inside its table; planned |
| wxlog, mapper | log WSJT-X datagrams; average reports per grid square | a decode is logged with its own instance's status; a malformed datagram harms nothing; planned |
| alextune | lower the radio's power, press TUNE, restore | whatever fails, the settings are restored; planned |
| text2radio, simplex-repeater | key the transmitter, play, unkey | the transmitter is unkeyed at the end; planned |
| gr-habets stairclocker, magic_decoder, wpcr, file_pdu_generator | stair and phase clock recovery; a PDU read once from a file and published for ever | floating point; a constant. magic_decoder returns one empty list where its caller takes two values, when nothing was found |
| gr-habets JT65 | message packing, interleaving, Gray code, decoding | pack and unpack are inverse; planned for the integer parts, the sync search is floating point |
| Reed-Solomon, build files and swig bindings of gr-habets | third-party or generated code | not this project's logic |
| `.grc` files, plots, chat, remote, tools, test drivers | drawings of flow graphs, batch scripts, a few short loops | no state of their own |

### Interactions

`gridsquares` is the owner of a `ThreadPool`. tun-ax25 and loratnc both speak KISS
with the kernel, through different parsers; `Kiss` holds what they share and the
kernel's decoder. The gr-habets blocks only meet through streams and messages of
a flow graph. swig_doc is a client of doxyxml, which reads every file through the
generated classes; compoundsuper.py also runs by itself. The other programs are separate processes that never meet.

## 2. The modules

A step of a model is what a program does between two points at which another
actor can interfere: from one lock operation to the next, from one system call
to the next, or one call of `work()`.

**ThreadPool**, **Executor**, **ThreadPoolRefinement**, **ThreadPoolProofs**. The
pool with its mutex and condition variable, spurious wakeups included. `Spawn` and
`SpawnFails` are the constructor; `EnterAdd`/`Add` and `EnterDtor`/`Dtor`/`Join` are
the owner's calls, split where `mu_` is acquired and where a jthread joins;
`Enter`, `Acquire`, `Take`, `Exit`, `Wait`, `Run` are `thread_main`. `Throw` and
`AffinityFails` leave `thread_main` with an exception, which ends the process.
`Executor` is the promise without threads: every closure submitted is executed once,
and closing returns after all of them were. `ThreadPoolRefinement` maps one on the
other: submitted is what was added, the phase follows the owner.

**MapLines**. `ReadChunk`, `SetEnd`, `Trigger`, `SetDone` are the reader thread, each
accessor of `ReadState` a step; `Snapshot`, `FindLine`, `FindEnd`, `FindNothing`,
`WaitEnter`, `Recheck`, `Body` are the iterator. Offsets stand for pointers.

**Kiss**. The escaping done by tun-ax25, its parser with its cursor arithmetic as
in the code (`Parse`), and the kernel's decoder (`PeerDecode`, external).

**TunAx25** (extends Kiss). `Select`, `Read1`, `Read2`, `Send1`, `Send2` are one turn
of `selectloop` in the code's order; reads take any part of what is there. Side 1
is the socket, side 2 the pty.

**LoraTnc** (extends Kiss). An exchange with the chip is a list of things still to
be written and read (`todo`); `Write` writes the next command, `Read` takes the next
line, whatever it is. `Poll`, `Kiss`, `Stik`, `Receive` are the loop of `mainwrap`.
The chip answers commands (`ChipAnswers`) and also speaks unasked (`ChipHears`,
`ChipSent`, `ChipErr`), between any two steps of the program.

**Nlwrap**. `Select`, `FromChild`, `FromReal`, `Close`, `Wait` are one turn of `mainloop`;
the child writes, reads, and dies at any moment.

**Dsax**. Two programs at the two ends of a line that holds a few bytes.
`CopyIn`, `CopyOut`, `Put` are `copy()` towards and from the line: a write puts what
the line takes and waits for the rest.

**Positions**, **SymbolDecoders**, **TagBlocks**, **PduBlocks**, **Flowgraph**. The middle
three hold the blocks' transition functions, sample by sample, window by window and PDU by
PDU, and beside them what the blocks are for, in terms of positions in the
signal; `Positions` lists positions in order and takes the samples there. `Flowgraph` is the scheduler: `Relay(i)` runs the handler of a PDU block,
`Handle` that of the source, `SourceWork(n)` asks the source for n samples,
`PnDecodeWork(n)` and its siblings hand n samples to the sink. `mail` holds the PDUs
that are posted to a block and not handled. A constant set of graphs says which
blocks are wired to which; the one that runs is chosen in the initial state.

**Dom**, **SchemaRows**, **CompoundSchema**, **IndexSchema**, **GenerateDs**. `Dom` is a
document (external: minidom's). The ninety generated classes repeat the same five
methods with other names in them. `CompoundSchema` and `IndexSchema` have a row per
class: its attributes, those exported without a guard, those that are numbers,
and for each child element how `buildChildren` keeps it (a string, one object,
a list, an item of mixed content). `GenerateDs` has the methods, once, driven by a
row. Each row is mapped to the class it was read from, each branch of a method to one class that
has it.

**DoxyXml** (extends Dom, instantiates GenerateDs for the schemas with the subclasses of compound.py
and index.py). The library's memory is a record that every operation returns
changed: objects by creation, `refs`, the files read, the exception raised last.
An exception ends an operation where the code leaves it, with all that was done
before it, the `_parsed` of an index that is not read to its end included.

**SwigDoc**. `CollectBlocks`, `DocumentBlock`, `CollectFuncs`, `DocumentFunc`,
`CollectClasses`, `DocumentClass`, `WriteFile` are `make_swig_interface_file`, one
iteration a step. `ClientAsks` and `ClientLooksUp` are another client that asks any object it can
reach, in any order. **CompoundMain** is the program in compoundsuper.py:
`ParseDocument`, then `WriteXml` or `WriteLiteral`. **DoxyPrograms** starts one of the
three.

**FoldFacts** has no model in it: it proves what a fold over a sequence returns, once,
for all modules that fold. **ThreadPoolProofs**, **MapLinesProofs**, **TunAx25Proofs**,
**LoraTncProofs**, **NlwrapProofs**, **DsaxProofs** and **FlowgraphProofs** each extend one
component. The two that extend `Kiss` begin with what they need to know of the framing and
the kernel's decoder.

## 3. The runs

| run | instance | states | shows |
|---|---|---|---|
| pool | 2 workers, 3 closures, one throws, 1 spurious wakeup, a constructor that may fail, fairness | 7 thousand | `FifoStart`: closures start in order; `DrainedWhenGone`: the destructor drains; `SleeperMeansServed`: no queued closure waits for a worker that sleeps; `FailedCtorStuck`: a constructor that fails after spawning a thread hangs; `AddedIsRun`, `DtorReturns`; the refinement `ImplementsExecutor`; `TypeOK` |
| maplines | every stream of up to 6 bytes, chunks and pages of 2, fairness | 250 thousand | `BodySeesLinesInOrder`, on lines that are mapped, and `LoopSeesAll`: the body sees every line but the first; `WokenByNextChunk`; `EndsIfAwakeAtEof` |
| tun | 2 frames with noise between them, 2 datagrams, reads of up to 4 bytes, one fault | 1.9 million | `FramesInOrderUpToCommand`, `NoFrameLost`, `PtyStreamDecodes` |
| tun_live | 1 frame, 2 datagrams, one fault, fairness | 23 thousand | `BothDirectionsProgress` |
| lora | 2 frames with noise, 1 packet heard, one refusal, one error, any mode of the chip at the start, fairness | 1.4 million | `EveryFrameReachesSend`, `TransmittedAreFrames`, `HeardReachesPty`, `DeafOnlyAfterRefusalOrSwallow`, `FlagIsTrueAtRest`, `TransmissionEnds` |
| nlwrap | 5 bytes each way, buffers and pipes of 3, fairness | 95 thousand | `OutputConserved`; `InputConserved`, the end of input last; `EofReachesChild`, `EndsAfterChild` |
| nlwrap_lost | 3 bytes each way, buffers of 2 | | violates `OutputComplete` (finding 1) |
| dsax | 28 pairs of inputs of 2 or 3 bytes, buffer and line of 2, one failing program, fairness | 91 thousand | `UserGetsWhatWasTyped` over a line that never carries XON or XOFF, `TypedArrives`, `TypeOK` |
| flow | all signals of 7 samples through pn_decode_f and of 9 through ook_decode_b, of 12 around one word through pn_decode_identity_b, tagged streams of 6, 7 and 24 samples, two PDUs from a source to pn_decode_f, also with preambles and with the chain of `chat/fsk_chat.grc` from bytes to bytes; every cut | 450 thousand | `SymbolsDecoded`, `BurstsPublished`, `TaggedPacketsPublished`, `DeliveredIfNotCut` |
| flow_cut | the same | | violates `Delivered` (finding 2) |
| doxy | 722 directories, 31 of them also for the other client, and 730 documents for compoundsuper.py | 8 thousand | `DiesOnlyIfFatal`: which oddities of the input cost the whole file; `EveryoneDocumentedOnce`; `BlockTextEverywhere`; `AsIfAskedFirst` and `OneObjectOneRead`: the order of questions does not matter; `ExportKeepsTheKnown`, `WellFormedUnlessMixed` |
| doxy_broken | a directory with a header that is no XML | | violates `BrokenFileIsParsingError` (finding 3) |

### Why the bounds are enough

- *pool*: two workers let a notification reach one while the other is busy or asleep;
  three closures leave a queue that is not empty
  when the destructor runs. One spurious wakeup shows the re-evaluation of
  the predicate. The safety half and the refinement hold for every size (section 5).
- *maplines*: six bytes are three chunks and three pages, so a line can be cut
  by a chunk, span one, and be unmapped behind the body.
- *tun*, *lora*: two frames are the least for one to be damaged by what is left
  of another. Reads cut the pty's stream at every byte. One packet is made of
  nothing but bytes that need escaping.
- *nlwrap*, *dsax*: buffers shorter than the text, so each fills, empties and
  wraps; the dsax line is shorter than one escaped read, so writes stop half
  way.
- *flow*: windows up to the whole stream. The signals contain packets at any
  place, edges earlier and later than the nominal symbol, silence shorter and
  longer than the end of a packet; tagged packets lie back to back and apart, and
  overlap for the block that allows it. The chain of fsk_chat carries 26 samples and
  more per packet and is cut in windows of 10 and 32 only: what cuts do to either
  end is shown by the short links.
- *doxy*: a directory has one block with its header, a second header and a second
  class, two groups, a source file and a struct; the 722 are every combination of
  a make function in no, one or two headers, a class that is whole, broken,
  without constructor or friend, or whose friend hides behind a function of its name,
  a second header of the same name or with the same function, none of the block's name,
  documented or not, a member or an index entry of a kind nobody parses, and a broken
  class beside it; one broken header and one broken index. A class of the schema sees each of
  its children, up to six at a time, in both orders, with text, CDATA, markup,
  unknown elements, and elements where a string is expected.

CHECK_DEADLOCK is FALSE throughout: each of these systems may stop, because the
input ends, the program exits or the pool is destroyed.

Assumed of doxygen: every refid has a file with a compounddef, compounds and
members have both descriptions. Assumed of the flow graph: preamble_stripper gets its
prefix as a list, as its test gives it; a tuple would equal no slice of a packet.

### Fairness

- *pool*: each worker that can step does (threads are scheduled and a free mutex
  is handed on), and so does the owner once it has something it must finish: the
  destructor, joining, and a queued `add`. Nothing obliges it to call `add`.
- *maplines*: both threads are scheduled. The stream is read to its end.
- *tun*: the loop runs; a descriptor that is asked about for writing is reported
  writable again and again. Faults are bounded, so what is shown is recovery from
  transient ones; a datagram the kernel always refuses blocks the queue for ever.
- *lora*: the loop runs, the chip answers commands and finishes transmissions.
- *nlwrap*: the loop runs; typed input arrives; a child that lives ends the writes
  it can end and reads again and again. Nothing obliges it to die.
- *dsax*: both programs run. The users oblige nobody.

## 4. What the checks found

Three runs show the code at odds with its own comments.

1. `ax25/nlwrap/nlwrap.cc:136` ends the loop when the child is dead and
   `from_child` is empty, without reading the pipe to its end: the child's last
   output is lost (run nlwrap_lost).
2. `pn_source_f_impl.cc:92` and `float_streamer_impl.cc:89` erase
   `packet_size - packet_part` samples under the comment "Delete sent bits from
   queue", when `packet_part` were sent. Samples are lost or sent twice as soon as a
   call takes only part of the queue, unless it takes half of it (run flow_cut). The
   passing property `DeliveredIfNotCut` says that this is the only way to lose a
   packet.
3. `doxyindex.py:163` asks the file it could not parse for its compounddef before it
   asks for `_error`: a header that is no XML ends swig_doc.py with an
   AttributeError, where classes and groups in the same state raise the
   ParsingError that swig_doc.py catches (run doxy_broken).

The passing properties are worded so that they say what the code does, exceptions
included. The exceptions a reader should know of:

- `ThreadPool`: if a thread cannot be started, the constructor joins threads that
  wait for a `done_` nobody sets (`FailedCtorStuck`).
- `StreamMapLines`: the first line is read and dropped by the constructor of
  `Iterator`; a loop that sleeps when the reader leaves sleeps for ever, since
  `set_done` is not followed by a `trigger`.
- tun-ax25: whether the KISS command byte is passed on depends on how reads cut
  the stream. A short write to the pty is followed by the whole packet again.
- loratnc: a line of the chip's own taken for a reply loses a packet, shifts all
  later replies by one, and can leave `send_in_progress_` set for ever. After
  a refused transmission the receiver stays off. What a broken escape leaves in
  `buf` is sent in front of the next frame.
- nlwrap and a child that writes while its input pipe is full wait for each other
  (`CircularWait`); so do two dsax that write at the same time (`MutualWait`).
- pn_decode_f: after a click too short for a symbol, the next packet is sampled at
  its first sample instead of at `offset`; `PnClean` leaves such signals out.
- tagged_stream_to_large_pdu_f: packets that overlap have no answer (`Apart`); a window that
  reaches beyond a packet's end eats the rest; one with two tags, the first at offset 0, skips the first packet; outside
  packets each call publishes an empty PDU.
- packetize_burst: a start inside a burst drops the samples between the start of the window
  and the tag, so that the packet depends on where windows begin; which of two tags at one
  sample is seen is left to the sort. `BurstsPublished` is about tags that take turns
  (`TakeTurns`). An end outside a burst publishes an empty PDU.
- ook_decode_b: with an offset beyond the silence that ends a packet (`offset` > `nulls`)
  a symbol it still waits for when the packet is over comes before the next one;
  `SymbolsDecoded` is about the others.
- prototype_tagged_stream_to_vector asks for ten times `packet_len` samples per call, so
  the last packets of a stream that ends are never published (`ToVectorWork`).
- pn_decode_identity_b drops the bits after the last whole byte, and publishes an
  empty PDU for a packet of less than a byte.
- preamble_stripper takes the last prefix in the first twice its length: a packet that
  begins so that the prefix shows up again comes out cut short (`Unambiguous`).
- doxyxml keeps the first of several members of one name: overloads are documented
  as one, and a class whose friend stands behind a function of the same name is not taken for
  a block. Names with `::` are never blocks. A member of a kind nobody parses is
  a None among the members, and looking up a name next to it raises
  AttributeError. An index entry of such a kind, or a header that raises, leaves an
  index that counts as parsed and holds the entries before it (`AsIfAskedFirst` says that
  this is the same for everybody who asks later).
- swig_doc.py ends without a file if a block's make function is in no header or in two, or
  if a block has no constructor (`Fatal`). Words marked up in a paragraph, except references,
  are not in the docstrings.
- The generated classes write the text of mixed content unquoted, so a `<` in a
  paragraph makes a file nobody can read; what was CDATA is quoted inside its brackets;
  the title of a compounddef is written as the name of a Python object; and
  exportLiteral raises for any object of mixed content.

## 5. What is proved

Each proof module holds an inductive invariant (`IInv`) or, where a program has
several independent paths, one for each path; one lemma per action or group of actions
that it is kept; and the theorems that follow from it.

| module | theorem | statement | for every |
|---|---|---|---|
| `ThreadPoolProofs` | eight, below | | set of workers and closures (`PoolAssumption`) |
| `MapLinesProofs` | `LinesInOrder` | `BodySeesLinesInOrder` | stream, chunk, page and unmap size (`MapLinesAssumption`) |
| | `NoLineMissed` | `LoopSeesAll` | |
| | `WokenInTime` | `WokenByNextChunk` | |
| `LoraTncProofs` | `FlagIsTrue` | `FlagIsTrueAtRest` | packets, garbage, refusals and errors (`LoraAssumption`) |
| | `DeafOnlyThen` | `DeafOnlyAfterRefusalOrSwallow` | |
| | `HeardArrives` | `HeardReachesPty` | |
| | `FramesReachSend` | `EveryFrameReachesSend` | |
| | `OnlyFramesOnAir` | `TransmittedAreFrames` | |
| `TunAx25Proofs` | `InOrderUpToCommand` | `FramesInOrderUpToCommand` | packets, datagrams, broken frames, mtu, faults (`TunAssumption`) |
| | `NothingLost` | `NoFrameLost` | |
| | `PtyDecodes` | `PtyStreamDecodes` | |
| `NlwrapProofs` | `NoOutputLost` | `OutputConserved` | texts, buffer and pipe sizes (`NlwrapAssumption`) |
| | `NoInputLost` | `InputConserved` | |
| `DsaxProofs` | `NoReadBlocks` | `ReadsNeverBlock`, a part of `TypeOK` | input, buffer and line (`DsaxAssumption`) |
| | `TypeCorrect` | `TypeOK` | |
| | `TypedIsGot` | `UserGetsWhatWasTyped` | |
| `FlowgraphProofs` | `SymbolsAlwaysDecoded` | `SymbolsDecoded` | flow graph, arguments, signal, tags and cuts (`FlowgraphAssumption`) |
| | `BurstsAlwaysPublished` | `BurstsPublished` | |
| | `TaggedPacketsAlwaysPublished` | `TaggedPacketsPublished` | |
| | `TypesHold` | `TypeInv`: mail, queue and stream are typed, no sink eats what is not there | |

The assumptions are what the code and its surroundings justify. Packets and datagrams
are sequences of bytes, any bytes, those that need escaping included; the kernel
frames no empty packet, while a datagram may be empty. What may stand between two frames on
the pty is, for tun-ax25, a frame with a broken escape (`BrokenFrame`): its parser
enqueues whatever else it finds, so any other noise would be a frame of its own. For
loratnc it is any byte sequence that does not end in FESC, which would swallow the FEND
of the next frame and with it the frame. A flow graph has any blocks, any arguments
the constructors take (`sps` and `nulls` positive), any tags whose values have the type of their
key, and windows of any positive sizes; the signal of a symbol decoder consists of the samples
the model reduces it to (-1, 0, 1, or off and on), and what drives ook_decode_b, whose input is
bytes, is no source of floats.

**MapLines.** The properties speak of the i-th line of the stream, the code only of
offsets. `CountInv` links them: the number of newlines before `start_` is the number
of times the body ran (one less while it is running), except on a stream without a
line, whose one empty line comes from the constructor of `Iterator`. `LineIs` is the
lemma underneath: the first newline at or after a line's start ends the line whose
number is one more than the newlines before it. `DoneInv` says that a loop that saw
`done_` saw the last `end_` with it, as `end_` is not set after `done_`; without it
the last line could be missed. `WokenByNextChunk` is inductive as it stands.

**LoraTnc.** Nothing can be said of the flag at rest without saying what is under
way. Until a line of the chip's own is, or is about to be, taken for a reply
(`Mistaken`), program and chip are in step (`InStep`): at most one command is on its
way, at most one line of the chip's own is unread, and it stands behind the reply.
`FlagInv` then is an equivalence: the flag is set, or the reply that will set it is
unread, exactly if the chip transmits or its `radio_tx_ok` is unread. `ListenInv`
accounts for an idle chip in the same way. `Mistaken` is stable, which is why both
properties name `swallowed`.

Three more invariants follow the bytes. *From the chip to the pty* (`HeardInv`):
what the pty's decoder has got, what `process()` is about to write and the packets in the
chip's unread lines are, in this order, embedded in what the chip received, and only packets
of swallowed lines are missing; this needs that `process()` waits for a line
before it has a packet (`LineInv`) and that it writes whole frames (`PtyInv`).
*From the pty to `send()`* (`FramesInv`): the state machine of the pty is
written as a function of state and byte (`Run`), and `Final` is the state it will be in when
everything on the pty is read. Reading a byte leaves `Final` alone, and a frame or garbage that
arrives is a lemma about `Run` only: from any state that is not inside an escape,
a frame is handed over as the end of what is in `buf`. *From `send()` to the air*
(`SentInv`): what was transmitted, what the chip has not handled and what is still
in `todo` is embedded in what was handed over; a refusal or an exchange cut short only
takes elements away. Without garbage, `Final.handed` is the frames themselves, so
`OnlyFramesOnAir` follows.

**TunAx25.** `KISSIngress::read` starts its parser afresh on every call, over what the last call
could not parse and what is new, and then keeps a part of it. So no parser state
survives a call, and there is nothing to be inductive about. The proof compares it with a reader
that sees each byte of the pty's stream once (`ReadByte`, `Reading`). `Sim` says that at each
byte a call is where that reader is, that what it would keep is what the reader has seen
since the last frame ended, and that what it enqueued are the reader's packets, with or
without the command byte of the first; `SimStart`, `SimStep` and `SimRun` prove it for a call,
`OneCall` sums it up. `OnTheWay` then is the invariant (`ToSockInv`): a reader that has the packets
sent and queued gets from what is kept and what is still to be read exactly
the frames written, so that reading, however cut, changes nothing, and both theorems are instances.
It needs that the reader never gets stuck, which is where `BrokenFrame` is used, and that what
`select()` reported still holds when it is acted upon (`SockReady`).

In the other direction (`ToPtyInv`) the queue holds the frames of the datagrams received last
(`Queued`), and `Decodes` says what the decoder at the pty made of the bytes written so far: the
other datagrams in order, and after short writes left-overs that begin the one
to be written again. `Explains` states this with one index per packet decoded. The
decoder is between two frames or inside the one at the head of the queue (`Between`); the FEND
that begins the next write ends either.

**Nlwrap.** `OutputConserved` and `InputConserved` are inductive together with
`TypeInv` (a child in the middle of a write has something left to write) and `EofInv`:
stdin's end is seen only when stdin is empty, the pipe to the child is closed only
when stdin and the buffer are, and the child sees the end only of an empty pipe.
`InputBytes` is the first half of `InputConserved`; the second follows from it by `EofInv`.

**Dsax.** Of the two `copy()` calls in a round, the second reads by what `select()`
said before the first: its report survives because nobody else reads the line (`IInv`).
`CodecInv` is the whole path: what was typed and read is what the other user got, then the
rest of an unfinished write to that user's pty, then what `decode()` makes, from the present
`in_esc`, of the line and the rest of the write to the line. Two
lemmas about the codec carry it: `decode()` can be stopped anywhere and carried on, and
undoes `encode()` from between two codes; and `encode()` emits no flow control.

**FoldFacts.** The parsers and codecs are folds, and what a fold returns is
a matter of induction over data, for which the library's theorems cannot be used (they take an
operator as a parameter). `SeqInduction` has a set instead: a property is the set
of the sequences that have it, and the shortest one outside leads to a contradiction, as
every non-empty set of numbers has a least element. On it rest that a fold is a step from the
fold of all but the last element, that a fold may be stopped anywhere and carried on, and what
a fold collects (`FoldCollects`). The proofs about the framing apply them: whatever the packet,
the decoder of a framed packet adds that packet and is between frames again. So do those of the
symbol decoders, whose `work()` is a fold over its window.

**Flowgraph.** The properties compare what a sink publishes, call by call, with positions in
everything it consumed. Each sink has an invariant of its own, which says what its
buffer and counters are in terms of positions, and that what is out is what the definition gives for
the signal so far; none of the properties is inductive without the half about the buffer.
`InOrder` and `Part` get their facts once: what is listed is unique, a position behind all
others adds one element at the end (`PartAdd`), and samples nobody names do not matter
(`PartSame`).

`BurstInv`, for packetize_burst: either no burst is open and the buffer is
empty, or the buffer is the stream from the last start on. With tags that take
turns, a call that returns behind the first tag of its window keeps it; a call
without a tag moves the end of the slice. `VectorInv` and `LargeInv`, for the two blocks that follow
length tags: the buffer is the packet so far, of the tag that was passed last. `LargeInv` keeps
a set of the packets published, as the block loses those whose beginning was in
another packet's window; as long as `alone` holds, that set is all.

The symbol decoders run through three lemmas each: one sample takes the invariant for
a signal to that for the signal with one more (`IdStep`, `OokStays`, `PnStays`),
a window does by the fold (`IdWindow`, `OokWindow`, `PnWindow`), and so does a call of `work()`
(`IdCall`, `OokCall`, `PnCall`); that is why the scheduler's cuts do not matter. The invariants
(`IdHolds`, `OokHolds`, `PnHolds`) replace the counters by distances.
With the last sound at `Sound` and the packet's beginning at `Began`, the silence counted is the
distance to the last sound, or to the beginning before the first one; a packet ends exactly
where that distance reaches `nulls` (`Passes`). `next_expected_` is the
time to the next beat of a clock that the last edge started: `Metronome` proves that counting
down, starting again at `sps` and at every edge keeps that clock, by arithmetic modulo
`sps` (`ModNext`, `WaitIs`), so that a sample is taken exactly if its distance to the last edge
is the offset and some whole symbols. Of pn_decode_f this holds while there is sound only,
and its signal must be clean (`PnClean`): then a sound follows a sound or begins
a packet (`NoPause`), and the packet that ends has bits, so that the counters are reset.
A signal that is clean was clean before (`CleanBefore`), which makes the condition one
that the induction can use. `SignInv` says that the samples are those the decoders are made for.

**ThreadPool.** For every finite non-empty set of workers, every set of closures and every bound on
spurious wakeups:

| theorem | statement |
|---|---|
| `TypeCorrect` | every variable keeps its type; no closure is called twice |
| `StartsInOrder` | `FifoStart` |
| `HandedOutOnce` | no two workers hold one closure, none holds one that has run |
| `Drained` | `DrainedWhenGone` |
| `NobodyLeftAsleep` | once `done_` is set no worker sleeps |
| `FailedCtorHangs` | `FailedCtorStuck` |
| `NoLostWakeup` | `SleeperMeansServed` |
| `Refinement` | the pool implements `Executor` |

The argument is one inductive invariant, `IInv`. `FifoStart` is inductive by
itself, but `DrainedWhenGone` is not: it needs to know that a worker exits only with
an empty queue after `done_` (`PhaseInv`), that what was started was called or is in
somebody's hands (`AccountInv`), that a hand is full exactly while a closure is being
called (`HandsInv`), and that only the holder of `mu_` changes any of this (`MutexInv`).
`DistinctInv` (no closure is added twice) makes "in somebody's hands" mean one pair
of hands. There is one lemma per action for `IInv`, then one lemma
(`ServedStep`) for the counting argument of `NoLostWakeup`: `add` raises the queue
by one and wakes one sleeper if there is any, and a worker that takes a closure was
heading for it. The refinement maps each action to an action of `Executor` or a
stutter, from `IInv` before and after the step.

Only model-checked: all liveness (TLAPS proves neither fairness arguments nor
ENABLED here); what recursive operators compute, which is to say the trees of
`GenerateDs` and `DoxyXml` and therefore every property of `SwigDoc` and `CompoundMain`
(the SMT backend is not available in a module that reaches one); and `DeliveredIfNotCut`,
which is about a source, a decoder and the blocks around them at once and holds only for arguments that
fit each other (padding against silence, offset against symbol, a prefix that starts with a
bit and does not recur): it is checked for the graphs of the run.

## 6. What the models leave out

- Option parsing, opening of devices, logging, CPU affinity as such.
- Weak memory: all shared state in `lib.h` and `lines.h` is accessed under a mutex.
- `StreamMapLines`' other iterators (`MemLines`, `StreamLines`, `StreamManualLines`).
- Read and write errors that end a program at once, except where another program
  goes on (`Dsax`) or data are concerned (`TunAx25`).
- A KISS packet of more than the MTU on the pty side: reads of up to `Mtu` bytes cut
  it like any other.
- In gr-habets, sample values: a sample is its sign, on or off, or its number; two
  burst tags on one sample; foreign tags whose value is no integer, on which
  `tagged_stream_to_large_pdu_f` throws.
- In doxyxml, indentation, text that is not ascii, and the methods nobody calls
  (`find`, `find_members`, the accessors).
- Sequential faults that need no model to be seen, left as remarks: lines.h:114
  (StreamManualLines gives up on a chunk without newline), gridsquares.cc:277 (the first
  record of a new time is counted into the old frame), todistday.cc:112 (the index of
  the day's table), wxlog.go:416 and :418 (a datagram that does not decode is used all the
  same; the last status of any instance goes with every decode), mapper.go:95 (a new
  station's first sighting is credited to the first station of the list).
- alextune.go: power, mode and frequency are restored by deferred calls, which
  log.Fatalf skips, and a signal outside the one select is dropped. A hazard without a
  property (PROJECT.json).
- The flow graph's memory: `Flowgraph` keeps the stream for the properties, and
  windows of any size up to it are offered.

## 7. Plan

The order is by how much can go wrong that a test does not reach. Done: thread
pool, StreamMapLines, tun-ax25, loratnc, nlwrap, dsax, the stream and PDU blocks of
gr-habets, doxyxml with its generated classes, swig_doc. Next:

1. **Wxlog**: status and decode datagrams of several instances and a malformed one
   in any order; that a decode carries its own instance's status (it does not),
   that the loop survives; `mapper`'s table of sightings. Two instances, four
   datagrams.
2. **Alextune**: save, change, tune, restore, with a failure or a signal after any
   step; abstract specification: the radio is as it was.
3. **GridSquares**, composed with `ThreadPool`'s promise (`Executor`): the records
   of one time are in one frame; frames are created exactly once. **TodistDay**: the index.
4. **LoraTun** and **TunIp** as variants of `LoraTnc` and `TunAx25`: exchange and
   select loop move to modules both extend.
5. The integer parts of JT65 as operators compared with a reference over bounded
   inputs.
6. The sequential line iterators and `split` as a pure module.
7. `DeliveredIfNotCut` for one source and pn_decode_f with arguments that fit, from
   `SymbolsAlwaysDecoded`: what remains is that a queue which is never cut puts
   the padded packets on the stream whole, and that `PnPackets` of those is their bits.

Where new properties ask similar questions as old ones, the weaker is dropped or
the two become one, so that each property that is checked still says something of
its own.
