# Specifications of the LCEVC Test Model

TLA+ modules, TLC configurations and TLAPS proofs for the LCEVC Test Model
(LTM): an enhancement encoder and decoder (MPEG-5 part 2) that work on top of a
base codec. All paths below are relative to the repository.

## 1. The system

| Component | Where | State | Operations | Hard because of | Correct when |
|---|---|---|---|---|---|
| Ring buffer | `util/include/RingBuffer.hpp` | slots, front, size, a mutex, two condition variables | push, push_timeout, pop, pop_timeout, pop_if, pop_if_timeout, peek, clear | notification after the unlock, timeouts, spurious wakeups, several waiters | it is a bounded FIFO; nobody sleeps beside what it waits for |
| Base NAL unit parsers | `src/uBaseDecoder*.cpp` | parameter sets by id, the last slice header, counts carried from picture to picture | ParseNalUnit, ParseParameterSet, ParseSliceHeader, HandlePictureOrderCount | fields kept from earlier units, counts that wrap, throws in the middle | the count, type and size of a picture are those that its encoder meant |
| Elementary stream reader | `src/uESFile.cpp` | highest generated picture order count, offset, parser | NextAccessUnit, GenerateIncreasingPOC | counts restart at every IDR, coding order is not display order | generated counts increase in display order |
| File encoder | `encoder/src/FileEncoder.cpp` | queue of access units, display counter, source window, written count | probe, read, enhance, write | two orders at once; the stream may end early | enhanced in display order, written in coding order, nothing dropped |
| Base decoder (codec API) | `decoder/src/BaseVideoDecoderCodecApi.cpp`, `deps/base_*/src/codec_api.cpp`, `src/ModelDecoderApp.cpp` | held-back access unit, queue of enhancement data, byte stream, decoder thread, picture list, ring | push_au, push_packet, pull_image, thread: decode, bump, flush | two threads, blocking ring, pairing only by order | each picture comes once, in display order, with its own enhancement; both threads end |
| Enhancement encoder, decoder | `encoder/src/Encoder.cpp`, `decoder/src/Decoder.cpp` | configuration, residual memory or temporal buffer of each plane, quantisation matrices | encode, decode | decisions per plane, flags per picture, step widths left by the picture before | both reconstruct the same |
| Configuration and dimensions | `SignaledConfiguration.hpp`, `decoder/src/Dimensions.cpp`, `encoder/src/Encoder.cpp` | configuration, sizes | initialise, set | sizes padded, cropped, halved and tiled in several places | both sides have the same sizes |
| Serializer, Deserializer | `encoder/src/Serializer.cpp`, `decoder/src/Deserializer.cpp` | configuration | emit / parse of each block | one side infers what the other did not write; fields kept from the stream before | parse(emit(x)) = x |
| Bit packing | `util/src/Bitstream*.cpp` | position | u, multibyte, align | reading past the end | bits come back as written |
| Entropy coders | `EntropyEncoder/Decoder.cpp`, `HuffmanEncoder/Decoder.cpp` | state machine over runs, code tables | encode, decode | a chunk has no structure but what the decoder infers; boundaries of digits and ranges | the decoder makes the encoder's surface, with the right trees, out of all symbols |
| Encapsulation, enhancement scanning | `encoder/src/FileEncoder.cpp`, `decoder/src/ScanEnhancement.cpp` | bytes of an access unit | add_enhancement, scan_enhancement | emulation prevention, removal in place | all enhancement found, base unchanged |
| Picture arithmetic | conversion, resampling, transforms, quantisers, dithering | none, or the place in a random sequence | filters | 16-bit arithmetic, the same step width computed in three places | decoder and encoder agree |
| Temporal decision, priority map | `encoder/src/TemporalEncode.cpp`, `Compare.cpp`, `PriorityMap.cpp` | costs, types of blocks | decide, signal, select | a map of tiles that corrects a mask of blocks | the decoder's mask is the encoder's |
| Legacy base decoders | `decoder/src/BaseVideoDecoder*.cpp` | temporary files, timestamps | push, flush | pairing after the fact | as the codec API |
| Applications | `src/ModelEncoderApp.cpp`, `src/ModelDecoderApp.cpp` | options | main loop | - | - |

Interaction. On the encoder side the file encoder reads access units through
the stream reader, which asks a parser for the count of each picture, and calls
the enhancement encoder in display order; the bits that the serializer makes of
a picture go into its access unit, which is written in coding order. On the
decoder side the same stream reader numbers the access units; the base decoder
strips the enhancement into a queue ordered by timestamp, hands the rest to a
codec plug-in and, at the end of the stream, pulls pictures that the plug-in's
own thread delivers through the ring buffer. Each picture is paired with the head
of the queue and given to the enhancement decoder by a callback.

## 2. Modules

| Module | Models | Checked by |
|---|---|---|
| `BoundedFifo` | what the ring buffer promises: a bounded FIFO without ring, lock or waiting | refinement in `ring_everything`, theorem |
| `RingBuffer` | every member function of `RingBuffer<T>` as steps of threads | `ring_*` runs, `RingBufferProofs` |
| `BaseCoder` | an abstract base encoder (external): the groups of pictures of a base stream and their NAL units | through `BaseStream` |
| `BaseNal`, `AvcParser`, `HevcParser` | `BaseDecoder`, `BaseDecoderAVC`, `BaseDecoderHEVC`: what is kept of NAL units, counts, types and sizes | through `BaseStream` |
| `BaseStream` | `ESFile`: access units in coding order and `GenerateIncreasingPOC` | through the two modules that extend it; lemmas in `BaseStreamProofs` |
| `FileEncoder` | `FileEncoderImpl::encode` (extends `BaseStream`) | `file_encoder*` runs, `FileEncoderProofs` |
| `BaseDecoder` | application loop, codec API client and HEVC plug-in (extends `BaseStream`, composes `BoundedFifo` as its ring) | `base_decoder` run, `BaseDecoderProofs` |
| `TemporalLoop` | temporal prediction of sub-layer 2 in `Encoder::encode`, the flags and layers of Serializer and Deserializer, and `Decoder::decode` | `temporal_*` runs, `TemporalLoopProofs` |
| `Bitstream` | bits, numbers of several bytes, alignment, the reader's assertions | through `StreamSyntax` |
| `StreamConfiguration` | the configuration that the encoder makes of its parameters, dimensions of both sides, quantisation matrices | through `StreamSyntax` |
| `Encapsulation` | NAL units, SEI messages and emulation prevention around enhancement, and the scan for it | through `StreamSyntax` |
| `StreamSyntax` | Serializer, Deserializer and what Encoder and Decoder keep for them, over several streams | `stream_syntax` run |
| `Huffman` | bit counts, canonical codes, both forms of a table, symbols as bits | through `EntropyCoder` |
| `EntropyCoder` | the run-length encoders and decoders of residuals, masks, tile flags and tile sizes | `residual_coding`, `entropy_sizes`, `EntropyCoderProofs` |
| `Surfaces`, `Conversion`, `Resampling`, `Transform`, `Quantization` | picture arithmetic, filter by filter | through `ResidualCoding` |
| `TemporalDecision`, `PriorityMap` | the encoder's choices: prediction per block and tile, coefficients given up | through `ResidualCoding` |
| `ResidualCoding` | `Encoder::encode` and `Decoder::decode` for one plane, call by call, around `EntropyCoder` | `residual_coding` run, `ResidualCodingProofs` |

`DataLemmas` holds facts about division, loops and sequences that several proofs
cite. `MC*` modules hold the values of the constants for TLC. `map` in PROJECT.json
names the lines behind each definition.

### RingBuffer
`buf` is the triple `ring_`, `front_`, `size_`; `pc` says where each thread is:
`called` (about to take the mutex), `not_full`/`not_empty` (waiting on that
condition variable), `woken` (about to retake the mutex and test again),
`timed_out`, `notify` (unlocked, notification not yet sent), `out`. A critical
section between lock and the next wait or unlock is one step, because the mutex
excludes all others; the notification after the unlock is another, because
nothing protects it. `TimeOut` and `SpuriousWakeup` may strike any waiter.
`accepted` and `removed` are histories, used by properties only.

### BaseCoder, BaseNal, AvcParser, HevcParser
A base stream is a series of groups of pictures, each a random access point and
its other pictures in any of the coding orders that the stream allows; which
group follows is chosen when it is read. `BaseCoder` turns a picture into NAL
units, and a NAL unit is a record of those syntax elements on which the size,
the count or the type depends, or at which the parser throws. In AVC every group
starts with an IDR. In HEVC only the first may: `GetBasePictureType` has no IDR
for HEVC (against the comment at `src/uESFile.cpp:270`), so behind a second IDR
`ESFile` repeats its counts, and later groups start with a CRA.

The state of a parser (`parser`) is what its object keeps: parameter sets by id,
the slice header, the count carried over. Fields that the code leaves standing
when a unit does not send them are left standing here. A parser that throws has
failed; the reader then ends the stream, as `read_au` does, while the probe of
the file encoder lets it fail. Behind a first CRA no picture is displayed before
it (a base decoder would drop those).

What a conforming base encoder owes to the parsers is `CountsAssumption`: the low
part of a count is wide enough for the distance to the last picture that others
are counted from, also over the end of a group, no count leaves its word, and AVC
counts of type 2 are for pictures in display order. TLC evaluates it for the
streams of every run.

### BaseStream
`NextAccessUnit` parses the units of a picture one after another (`ParsedUnits`, a
recursive function over the units) and generates the increasing count; `es` is
`m_poc_highest` and the offset. One access unit holds one picture.
`CountedToTheEnd` describes the groups of AVC after which the generated counts
still increase: `file_encoder` is about such groups, `file_encoder_poc` about the
others.

### FileEncoder
`pc` follows the probe and the CHECKs of the size (`start`, `failed`), then the
three phases of the loop (read, enhance, write). `src` is the window of at most
two source frames, `encoded` the history of calls of the encoder, `written` the
history of what went into the file. Left out: the report, the contents of the
enhancement. The limit is on access units written.

### BaseDecoder
`main` is the application thread (pushing, pulling, joining, done, `exited` when
reading fails, or `failed` when `CHECK(!enhancement_queue_.empty())` fails);
`thread` the decoder thread (`decode`, `bump`, `flush`, `end`). `dpbFullness`
depends on reference marking inside HM; `MayBeFull` lets bumping happen at any
time at which a conforming stream allows it. `RingCapacity` is 2 as in the code.
HM itself is external and enters through the order in which it completes
pictures. The list is flushed for an IDR as in the code; with an IDR only at
the start of a stream this comes to nothing.

### TemporalLoop
A surface is a function from transform blocks to residuals modulo `Modulus`
(2^16 in the code); what quantisation makes of a block is the constant `Recon`,
different for the two step widths. Mode decisions are nondeterministic: any mask
and any symbols. `frame` carries `temporal_refresh` and
`temporal_signalling_present` from plane to plane as the code does. `packet` is
what the serializer wrote. Assumptions: enhancement is applied by the decoder;
the prediction from the base, which both sides add to the residuals, dithering,
user data and planes beyond `num_processed_planes` are left out; a stream starts
with an IDR. What is left open here is filled in by `StreamSyntax` and
`ResidualCoding`.

`level2` says whether the step width that the last picture has left asks for no
enhancement, which is all that the next picture looks at. An intra picture sets
it from the configured width and `temporal_cq_sw_multiplier`, which is at most
1000 and only takes it down. At an inter picture (`DELTA_SW`) one of four
multipliers from 1000 to 2000 applies, by the distance from the last intra
picture, and the width is clamped: with level 1 at its maximum, this can end the
enhancement in the middle of a stream. The configuration bit `inter_scaled` says
that some multiplier takes the width that far; whether the one of this picture
does is a nondeterministic choice when the picture starts (`frame.scaled`), the
same for all its planes. From there an inter picture keeps its residuals or codes a
mask only, and the next intra picture drops buffers that are filled
(`Encoder.cpp:1585`); without this the buffers would be empty whenever
`PassThrough` runs, and `BuffersAgree` would have nothing to say of it. Its
mutant, which keeps the buffer there, is found only along this way.

`StreamSyntax` and `ResidualCoding` have the multipliers as numbers,
`delta_sw_mult`, and count the distance. In `ResidualCoding` whether a picture is
enhanced is given with the picture, which includes what the widths lead to.

### StreamSyntax, with Bitstream, StreamConfiguration, Encapsulation
A picture goes through the encoder's configuration, the blocks of the serializer
as bits, the access unit of a base picture as bytes, the scan, the blocks of the
deserializer, and the decoder's configuration. `MCStreams` are sets of parameters:
a plain one, and others that change one feature each, spread over the base codecs
and their ways to carry enhancement. A decoder may start late, and one stream may
be spliced behind another, so that what a block does not signal is left from
somewhere else. The symbols of a tile are a number; its codes stand for those of
`EntropyCoder`.

Excluded, each because the code does not support it: a tiled temporal layer
without enhancement (finding 4); EVC in SEI and EVC without encapsulation, which
the decoder never finds (the encoder writes header byte 0x3a, the scan looks for
0x38, and reads the message at the start of the access unit); foreign SEI
messages shorter than a UUID, on which `get_byte` throws. `OutputHasSourceSize`
holds for 4:2:0 sources of an even size: the offsets of the conformance window are
halved whatever the chroma format.

### EntropyCoder, with Huffman
One behaviour codes one surface, `input`, and decodes the chunk again. `scan` is
the encoder's loop (position, run, `intra_tile`), `dec` the decoder's: the tree it
asks for next, the low symbol kept, the run and `intra_tile`. An element is an
action of the encoder, a symbol an action of the decoder. `SymbolBits` is 8 in the
code, and all ranges follow from it through `Base`, half the number of symbols:
one symbol for residuals in -`Base`/4 .. `Base`/4 - 1, two for -`Base`^2/2 ..
`Base`^2/2 - 1, 16-bit sizes modulo 4`Base`^2. The elements are numbered in the
order of the scan (raster, or tile by tile), which both sides share, and `starts`
says which begin a tile. Symbols leave the encoder as bits: Huffman codes with
their tables or raw, as the layer chooses. `LengthBits` and `MaxListed` are the
widths in a table.

### ResidualCoding, with the picture arithmetic
`at.stage` is the next call that the thread of the encoder, then that of the
decoder, makes: scaling, conversion, base prediction, transform, selection by
priorities, trial passes, quantisation, temporal decision and signalling,
transmission of each layer of symbols, reconstruction, output. Every filter is an
operator on surfaces. Scaled down in the instance: tiles (32 in the code),
priority blocks (8) and the range of symbols. The base codec between both sides adds
a constant error. Logarithms are a table (`LogarithmTable`), and comparisons
in floating point are made between products of integers.

## 3. Runs

| Run | Instance | Shows |
|---|---|---|
| `ring_mixed` | 2 pushing threads, one popping, one that pops conditionally or clears; capacity 2; 3 pushes | type invariant, no wakeup lost, and under fairness room reaches a waiting push and data a waiting pop |
| `ring_everything` | 3 threads with all eight operations; capacity 2; 2 pushes | FIFO history, freed slots hold no reference, refinement of `BoundedFifo` |
| `ring_timed_push` (violated) | capacity 1, a timed push against a pop | `assert(size_ > 0)` fails: see findings |
| `ring_pop_if` (violated) | a pop_if and a pop | a pop_if sleeps beside its datum: see findings |
| `file_encoder` | six streams: AVC 4:2:0 with cropping and counts that wrap, AVC 4:4:4 with counts of type 2 and a frame number that wraps, an AVC profile without a bit depth, monochrome, and two HEVC streams whose counts go on over their groups; up to 3 groups and 20 pictures, 2 parameter sets of each kind, sets that cannot be parsed; limit 19 | the two orders, right enhancement, nothing left behind, termination |
| `file_encoder_poc` (violated) | low-delay groups of 2 and 3 pictures | the generated count repeats over an IDR |
| `base_decoder` | two HEVC streams: one from an IDR, with up to 3 pictures reordered and the pyramid 0 4 2 1 3; one cut at a CRA with a count that wraps soon, and sets that cannot be parsed; up to 11 pictures, limit 10, reordering of at most 2, ring of 2 | display order, pairing, no empty queue, all delivered, both threads end |
| `temporal_loop` | 2 planes, 2 blocks, residuals modulo 3, two symbols, 60 of the 128 configurations | no drift, equal buffers, uniform planes, signalling, also where the multiplier of an inter picture ends the enhancement |
| `temporal_tiled` (violated) | tiles with a temporal layer in pictures without enhancement | the layer is lost |
| `stream_syntax` | 42 sets of parameters; 3 pictures; 2 streams, the second spliced behind the first; late decoders | nothing refused, enhancement found, configuration, symbols, matrices and sizes arrive, the output has the size of the source |
| `residual_coding` | `Base` = 4: all surfaces of few residuals, masks with all tilings and both kinds of signalling, flags, lists of sizes, runs of three digits; and 58 configurations of pictures of 8 by 8, tiles and blocks of 4 by 4, every transform, scaling and quantiser | round trip, same trees, no symbol left over or missing; decoder and encoder reconstruct the same; the picture shown is within the steps of its source |
| `entropy_sizes` (violated) | tile sizes around 16 bits | a size is cut and accepted |

Bounds. Capacity 2 is what every plug-in uses, and it is the least at which full
and empty differ by more than one; `MaxPushes` is enough for the front to pass
the end of the ring. The orders of `BaseCoder` contain every kind of reordering
that changes which picture is coded last; the picture bounds hold two random
access points behind a reordered group, counts are coded in 4 bits so that they
wrap within the bounds, and the limits cut a group in the middle. The pyramid of
5 makes the list hold its full reorder depth. Two parameter sets of each kind are
enough for a set to be replaced and for a picture to refer to another than the
last. Two blocks allow a mask that is mixed, two planes allow planes to differ,
and modulo 3 lets sums wrap (2 + 2 = 1). Three pictures in two streams are enough
for a field to be sent, kept, and left over from another stream. With `Base` = 4 a
residual leaves the range of one symbol at -2 and 1, a size at 4, and a run has two
digits from 4 and three from 16 on, so that every boundary of the code (32, 128,
16384) lies inside the inputs; sizes of the passing run lie below 2^16. Pictures of
8 by 8 have four tiles, and blocks on every edge. The proofs remove the bounds for
the ring, the temporal loop, the order and pairing of access units, runs and their prefix
codes, and the agreement of both reconstructions.

Deadlock. The ring runs stop checking it since threads may all be waiting after
the last push; the file encoder and base decoder stop at their end, which
`Terminates` shows they reach; the coders stop when the surface or the sequence is
complete, which `AllDecoded` shows; `stream_syntax` stops after the last picture.
The temporal loop never stops.

Fairness. `RingBuffer`: weak fairness of what each thread does by itself inside
a call, since the scheduler runs every thread that does not wait and the mutex
is never held across a wait; no call has to be made, and no timeout or spurious
wakeup has to come. `FileEncoder`: one sequential loop, weak fairness of it.
`BaseDecoder`: weak fairness of each of the two threads. `EntropyCoder` and
`ResidualCoding`: weak fairness of one sequential program. `TemporalLoop` and
`StreamSyntax` state safety only.

## 4. Findings

1. `push_timeout` does not test `ring_full()` again after a timeout
   (`RingBuffer.hpp:70`); a ring emptied in the meantime is popped.
   The wakeup theorem for space therefore assumes that no thread uses it. No
   plug-in calls it today.
2. `pop_if` can wait for ever beside the datum it wants, since pops do not
   signal `not_empty_`.
3. `GenerateIncreasingPOC` repeats a count over an IDR when the group before
   ended on a picture whose count equals `m_poc_highest`.
4. `emit_encoded_data_tiled` loses the temporal layer of a picture without
   enhancement. `temporal_signalling_present` is off by default, and so is
   tiling.
5. The serializer collects tile sizes in 16 bits, so a tile of 65537 to 98303
   bytes passes the `CHECK` that refuses sizes above 32767, with a wrong size in
   the stream. It takes large custom tiles, small step widths and prefix-coded
   sizes.

Hazards in PROJECT.json that carry a note are others that the instances avoid: a
second IDR in HEVC, memory operation 5 in AVC, conformance windows of 4:2:2 and
4:4:4, products above 32767 in the two dequantisers, and the map of tiles of a
picture whose size is no multiple of 32.

## 5. Proofs

`RingBufferProofs`, for every capacity, every set of threads and all
assignments of operations:

- The invariant is `RingOK /\ ThreadsOK`: indices in range, slots outside the
  queue empty, `accepted = removed \o Contents(buf)`, and each thread at a place
  that suits its operation. `StepKinds` reduces the eleven steps of a thread to
  five effects on the ring (put, replace, take, clear, none); one lemma says what
  each effect does to `Contents`, with the arithmetic of the wrapping index
  (`PopFrontContents`, `PushBackContents`). `TypeCorrect`, `SlotsReleased` and
  `FirstInFirstOut` follow, and `RefinesBoundedFifo` maps each effect to an
  action of `BoundedFifo` or a stutter.
- `NoDataWakeupLost` is inductive with the above.
- `NoSpaceWakeupLost` counts: free slots never exceed pops that still have to
  notify plus pushes already woken, as long as somebody waits. It assumes
  `NoTimedPush` (a timed push that gives up takes a wakeup away).

`TemporalLoopProofs`, for any number of planes and blocks, any modulus, any
quantisation and any set of configurations:

- `TypeInv` is `TypeOK` with the fact that an enhanced packet carries symbols for
  every plane.
- `LoopInv` has one part for each phase: `IdleInv` (between pictures both sides
  agree and all planes are alike), `WorkInv` (planes already coded are exactly
  what a decoder will make of the flags as they stand, the others still agree
  with the decoder's buffer), `PacketInv` (the packet on its way reproduces the
  encoder's surfaces, and does so from any buffer contents if it starts at an
  intra picture) and `NoBufferWithoutTemporal`. `NoDrift` alone is not inductive:
  it says nothing about a picture half done.
- Nothing in `LoopInv` is said of the step width: the theorems hold whatever a
  picture leaves to the next, and so for every multiplier and every place in a group.
- The theorems on the loop assume `LayerCarried`: no configuration combines
  tiles with a temporal layer in pictures without enhancement. Finding 4 shows
  that the assumption is needed.

`BaseStreamProofs` holds the lemmas that the next two share: what the
parsers make of the units of a stream as `BaseCoder` writes it, for every stream
that meets the assumptions.

- `MsbOfCount`, with `LowPart` and `NextLow`: of two counts less than half a period
  apart, `Msb` and the low part of the second make the second (arithmetic of div and
  mod, with the period any positive number).
- One lemma for each unit and parser says which fields it sets, and that it does not
  throw: `HevcSPSRead`, `AvcPPSRead`, `AvcSliceReads` and so on.
- `LoopExists` and `LoopIs`: a function defined by recursion over 0 .. n exists
  and has the values of its loop. The induction is over a set of indices, which has a
  least member (`LeastOf`); `DataLemmas` has these facts. This is how `ParsedUnits` is unrolled for the units of one
  picture (`HevcUnitsRead`, `AvcUnitsRead`), and `CountedToTheEnd` over a group.
- `CountsInv`: the parser has the count of the last picture, the count it will be
  compared with is that of the last picture that others are counted from, the offset
  is that of the group, and `m_poc_highest` is as high as the pictures read make it.
  `UnitRead`: the access unit that is read next has the count due to its place in
  display order, or it is unreadable. For AVC this needs `GroupsCounted`, that every
  group ends with its highest count below the next (finding 3 otherwise).

`FileEncoderProofs`: `CodingOrder` holds for every base stream, any outcome of the
parser, any source length and any limit. Its invariant, `CodingInv`, says that what
was read is what was written followed by the queue from its back to its front, in
coding order, whatever counts the access units got. The other theorems, `DisplayOrder`,
`OwnEnhancement`, `NothingLost` and `TypeCorrect`, assume `Followed`: the
groups are counted to the end, and no stream is cut off at its start. The streams
of `file_encoder` are such; those of `file_encoder_poc` are not, and it shows what
becomes of them. A stream cut at a CRA starts with a count above 0, for which
`display_frame` would wait for ever. The invariants:

- `UnitsInv`: the access units that were read and not written are in the queue, each
  once and with the count due; those below `display_frame` have the enhancement of their
  own picture, the others none; what is written carries its own;
- `SourceInv`: the window holds the source frames that `display_frame` asks for, and the
  encoder was called for picture after picture with the frame of its index;
- `LoopInv`: what each of the inner loops has done when it ends: outside "enhance" the
  picture `display_frame` has not been read, outside "enhance" and "write" the first of the
  queue is not enhanced, and the end of the stream comes between two groups.

`NothingLost` needs `CodingInv` too: when the loop ends with a whole group read, the
pictures read are 0 .. n - 1, so that all of them lie below `display_frame`, are
enhanced, and none is left in the queue.

`BaseDecoderProofs`, for every HEVC stream and every ring: `NoCheckFails` and
`EverythingDelivered` follow from `Inv`:

- `GopInv`: coding orders are permutations (a surjection between sets of equal
  cardinality is an injection), so that no picture is read twice;
- `ControlInv`: which places the two threads can be at together;
- `RingInv`: a null picture is the last datum of the ring;
- `PicturesInv`: no picture is in two places; `Coming` joins the byte stream
  and the access unit held back;
- `EnhancementInv` and `CountInv`: the queue holds as many entries as pictures are
  read and not delivered. This is what keeps the CHECK from failing, and at the
  end, with all queues empty, makes everything delivered.

`DisplayOrder` adds `DisplayInv(h)` for some highest picture `h`: all that left the
list is in order and at most `h` (`OutInv`), all else lies above `h` (`ToComeInv`).
The step that writes a picture needs that none still to come is displayed before
it; the reason is that no picture to come has more than `NumReorder` others `Ahead` of
it, coded before it, displayed after it and not written yet. This is shown when a picture is read, by
injecting `Ahead` into the places of its group. The assumptions are those of the
constants, `StreamsAssumption` (with the limit on reordering that a stream states)
and `NumReorderAssumption`. Nothing about what a parser computes is used, which is
why these theorems cover parsers that fail and any counts.

`Paired` does use it: the queue of enhancement is ordered by timestamps, which come
from the counts. `PairInv` says that the queue holds exactly the enhancement of the pictures not
delivered, each with the timestamp due to it. Its head, the lowest timestamp, belongs to the
lowest of these pictures, which by the display order is the one that is delivered.
`TypeCorrect` adds that the ring never holds more than its capacity.

`EntropyCoderProofs`, for every width of a symbol and every surface: `RunsComeBack`,
`StatesAgree`, `ChunkUsedUp` and `CoderTyped` hold of a chunk that `RunsFit` allows, raw or
prefix-coded, by its size or because its layer is sent so. `RunsFit` says that

- the coder is one of runs (residuals, masks, flags), and no code of a prefix-coded chunk is
  `NoLength` bits long or longer: its field of `LengthBits` holds no more than `NoLength`,
  which stands for a state without codes. With 31 in the code this takes millions of
  symbols of one state. Before the chunk is made, and when it is raw, nothing is assumed. In
  `residual_coding` it is true of every chunk, and prefix-coded ones occur;
- the residuals are in the range of two symbols, -`Base`^2/2 .. `Base`^2/2 - 1: beyond it
  `encode_run` clamps and the surface does not come back. Masks and flags are 0 and 1;
- under reduced signalling every element that is skipped is intra, which is what
  `TemporalTileIntraSignal` leaves. The decoder fills in `TEMPORAL_INTR` there.

The way from counts to codes and back is a chain of its own:

- `LengthsAreTree`: merging the two rarest nodes keeps every node a full tree (`Balanced`: at
  each depth the leaves and the inner nodes are twice the inner nodes above), and at the end one
  node is left, with every symbol used in it once;
- `CanonicalOf`, `TableFacts`: the loop numbers the codes from the longest one on (`Numbering`),
  and a code's number is that of the nodes of its depth that lie before it (`ValueIn`). So it
  fits into its length (`ValueFits`), and no code is the beginning of another (`ValuesApart`,
  `TableOf`);
- `ListComesBack`, `BitmapComesBack` and `CodesComeBack`: the decoder has the same set
  of lengths after either form of a table, or the single symbol, or none, and starts behind it;
- `SymbolDecoded`, `SymbolComesBack`: among codes tried in turn exactly the one written matches,
  and it is found before the chunk ends;
- `PrefixReadable`: all this for tables and symbols in a row. `Readable` is what the rest of
  the proof knows of a chunk: at known places the decoder reads the symbols in their order, and
  behind the last there is only padding. Raw chunks have it too.

`DigitsCount` says that the digits of a count give it back, from the highest down,
`PelRead` that the one or two symbols of a residual do. The invariant follows the chunk:
`Log`, of where the runs emitted so far start and which symbols they became, while the encoder scans; `Laid`, of the whole chunk, once it
is sent; and `DecoderAt`, of where in it the decoder is, with six places for the states of
its machines. `RoundTrip` alone is not inductive: it says nothing of a run that
was read and is not written yet, nor of the digits of a count half read.

`SizesComeBack`, `SizesUsedUp` and `SizeCoderTyped` say the same of the sizes of tiles, as they
are or as differences, under `SizesFit`: sizes of 16 bits, none where a tile has no
data, and codes of less than `NoLength` bits. `SizeComesBack` is the arithmetic: a remainder
shows the sign of a difference in the range of one symbol or two (`SignedRemainder`), and the
sum comes back modulo 2^16 (`Uint16`). `SizesLog` keeps for each tile how many symbols precede it
and the last size coded, from which both sides take the next difference. The decoder
is before a size or between its symbols (`BeforeSize`, `WithinSize`). A refused size ends the encoder
and nothing is sent. `SixteenBitSizesRefused`: under `SizesFit` the property that `entropy_sizes`
violates holds, so it is only the cut to 16 bits before the CHECK that lets a large tile
through.

`ResidualCodingProofs`: `DecoderFollowsEncoder` is `DecoderReconstructsEncoder` for every
configuration that `ConfigurationsAssumption` allows (any size in whole blocks, 2x2 and 4x4
transforms, all scalings and their filters, all matrices, steps, planes and priorities, user
data, with and without temporal prediction, tiles and enhancement), any number of pictures
of any contents, and any error of the base codec. Two hypotheses remain:

- `RunsFit \/ RoundTrip`: of a surface in the range of its coder nothing is assumed, raw or with
  codes shorter than `NoLength`: the invariant of the coders (`CoderInv`, from
  `EntropyCoderProofs`) goes along with every surface of every picture. Of the others, that
  the coder gives back what it was given, which is a property of the run;
- `ProductsFit`: with one step width, no symbol times its step leaves 16 bits. It is needed:
  the encoder's dequantiser cuts such a product to 16 bits before it clamps it, the decoder's
  only clamps (`decoder/src/InverseQuantize.cpp:255`), and from there on the two pictures
  would differ. TLC finds it true in every state of `residual_coding`.

The invariant, `CodingInv`, has one part for each stretch of the pipeline (`Beginning`,
`Scaling`, `Predicting`, `Coding`, `Sending`, `DecodingPicture`, `PictureDecoded`). What the
decoder will come to is written as functions of the base, the picture header, the decoder's
buffer and the surfaces sent (`FirstOf` for sub-layer 1, `SecondOf` for the picture, `AddedOf`
for the next buffer). The encoder's sub-layer 1 is `FirstOf` as soon as its symbols are
made, although nothing has been sent; during sub-layer 2 `Masked` says what the header, the mask
and the encoder's buffer have to do with the decoder's, and `Dequantised2` that the decoder's own
dequantiser would make the same coefficients of the symbols; from then on `Promised` says
that the encoder has `SecondOf` and `AddedOf`. The decoder's half shows that its way to the
steps, the mask and the user data leads to the same functions (`DecoderSame`). The
equations need arithmetic in places: at a refresh the decoder adds its buffer, masked
with intra tiles alone, where the encoder adds nothing (`Erased`, `AddZeros`), which is
the same only because every sample of a reconstruction is in 16 bits; so the conversions, the
upsampling and the inverse transforms are shown to stay there (`PredictionTyped`, `InverseTyped`).
`ScanPlace` and `ScanUndone` say that the order of the scan, tile by tile with narrower tiles at
the edges, is a permutation that the receiver undoes. The invariant itself was checked
with TLC on all states of `residual_coding` before it was proved.

`PowersOfTwo` states the few facts about powers of two that the proofs use, since the
provers know nothing of `^`; TLC evaluates it like every assumption.

Only model-checked: liveness (`SpaceReachesPush`, `DataReachesPop`, `Terminates`,
`AllDecoded`), which TLAPS does not reach; `ShownWithinSteps`, a bound on what the forward transforms and the
quantisers lose, which asks for the arithmetic of every pair of basis functions; `StreamSyntax` with `Bitstream`, `StreamConfiguration`
and `Encapsulation`, which use RECURSIVE operators.

## 6. Not modelled, and the plan

Order of work, most important first:

1. ring buffer, temporal loop, their proofs (done);
2. stream reader, file encoder, base decoder with HEVC plug-in (done, checked);
3. entropy coders with Huffman codes (done, checked and proved);
4. configuration, dimensions, serializer and deserializer (done, checked);
5. encapsulation and scanning (done, checked);
6. NAL unit parsers of AVC and HEVC (done, checked);
7. picture arithmetic, temporal decision, priorities (done, checked; agreement of both
   reconstructions proved);
8. proofs for the parsers, `FileEncoder` and `BaseDecoder` (done: all their safety
   properties), for runs, sizes and prefix codes (done);
9. variants of the plug-in (AVC: joinable thread and enhanced frames; EVC: join
   without test) and the legacy decoders;
10. the parsers of EVC and VVC, `encode_file` with its external base encoder,
    upsample_file and downsample_file.

Details left out on purpose: Huffman codes of 31 bits and more, for which the
reader's integers overflow and which need millions of symbols; AVC counts of type
1, against which the code asserts; the filler block, which is never
written; functions that nothing calls (among them `TemporalSelect`,
`TemporalInsertMask`, `PriorityMap::process` and `ApplyPriorityResiduals`); code
under flags that the build does not define (`__QUANT_MULTIPLY__`,
`USER_DATA_EXTRACTION`).

Left out for good: vendored code (`deps/json`, `deps/cxxopts`, VTM sources), the
base codecs themselves, reports, option parsing, picture files.
