# Verification of hpack, hunpack and their parts

This directory holds TLA+ specifications of the HPACK programs of this
repository, the TLC configurations that check them on small instances, and
proofs for the TLA+ proof system (TLAPS).

To use it: `tlc -config MCPipe.cfg MCPipe` checks a run, `tlapm
Session_proofs.tla` checks the proofs of a module. Each run below finishes
within two and a half minutes, all proofs together within half an hour.

## 1. Inventory

The repository is a handful of small sequential programs. Each reads its whole
standard input (`read_fully`, common.h:822), works on it and writes its
output. There are no threads and nothing is stored between runs. What makes it
hard is that two programs that never talk to each other, an encoder and a
decoder, must keep **the same table** in step through nothing but the octets
one writes and the other reads later, and that words of fixed width carry codes
and integers of variable length.

| component | state | operations | what makes it correct |
|---|---|---|---|
| header tables, common.h:625-820 | `static_table`; `DynamicTable`: a deque of entries, and `size`, an unsigned | `find` by name and by header, `push`, `shrink`, `get`, `get_name` | `size` stays the number of bytes of the deque; the same index means the same entry to both sides |
| encoder, hpack.cc:90-153 | `dyn_table`, the position in the input | for each line: index, name index + string, two strings, or a form that is not indexed; push and shrink | it is an encoder of the standard; budget respected; a pushed header survives; no duplicates |
| decoder `UnpackState`, unpack.h:99-174 | `buffer`, `dyn_table`, `max_dynamic_size` | `feed`, `unpack` (four arms), `eof` | what comes out is what any standard encoder was given, in order, and all of it |
| Huffman encoder, hpack.cc:36-87 | `bits` (32 bits), `n`, the octets written | one symbol per turn, padding, choice of the shorter form | the bits written are the codes, one after another |
| Huffman decoder, unpack.h:2-55, 82-97 | `n` (64 bits), `bits`, position | refill, end of string, search of the table, consume | symbols come out once each; padding never does; no assertion fails |
| integers, hpack.cc:16-34, unpack.h:62-80 | the value, `bitpos`, position | one octet per turn | the value, the arm of `unpack` and the position survive the round trip |
| hunpack.cc | an `UnpackState` | feed all, unpack, exit | as the decoder |
| test pipelines, run_tests.py:76-130 | - | `hpack \| hunpack`; reference data into `hunpack` | the headers come back |
| h2unpack.cc | an `UnpackState`, the input left | one HTTP/2 frame per turn | every header block reaches the decoder, once, from its first octet to its last, and its headers are shown with their stream |
| line scan, hpack.cc:98-108 and ng_hpack.cc:19-36 | position in the input | one line per turn | every line is one header; what hunpack prints comes back as it is |
| searches, common.h:694-734, unpack.h:2-12 | the range left of `std::lower_bound` | halve; walk the entries of one name; one step back | what is in the table is found, at its first place |
| Huffman table generator, huffman_decoder_const.py | - | shift the codes up and sort | the table is sorted and complete |
| zpipe.c | zlib's stream, two buffers, stdio's buffer | `def`, `inf`: read, pump, write; the write at exit | success means that all of it was written |
| spdy3.h, spdy3_putdict.c, Makefile | data | - | - |

How they interact: `hpack` calls `DynamicTable` and `put_*`, and its standard
output becomes the `buffer` of an `UnpackState`, whose `unpack` calls
`get_int`, `get_string` (which calls `decode_huffman`), then `DynamicTable`,
then a callback that prints. `h2unpack` feeds the same `UnpackState` one frame
at a time.

The behaviours that are hard to test, each with its line, are the `hazards` of
PROJECT.json. The most important ones are these:

- The decoder **does not evict** after a push (unpack.h:158, the call is
  commented out), while the encoder does. Their tables have different lengths
  from the first eviction on.
- The encoder pushes first and evicts after; the standard evicts first.
- `size` is unsigned and, at the decoder, may grow until it wraps.
- A static name out of order (common.h:644) that the binary search never finds.
- The edges of the words: codes longer than 24 bits, the last code of the
  table, values equal to the maximum of a prefix, shifts by the width.
- Octets that fwrite() took and that are not in the file when `main` returns.
- Input that ends anywhere: lengths and indices are read as if the rest were
  there, and only assertions notice.
- Frames of HTTP/2 that carry more than a header block: padding, a promised
  stream, priorities, and blocks in several frames.

## 2. Modules

| module | models | notes |
|---|---|---|
| `HpackTable` | TableEntry, static lookups, DynamicTable | operators on a table `[table, size]`; names and values are opaque, with a length and a rank in strcmp's order |
| `Hpack` | the loop of hpack.cc's main | one action per arm of the if-chain; push and shrink belong to the arm |
| `Unpack` | UnpackState | one action per arm of `unpack`; the buffer is a sequence of instructions |
| `StdTable` | the dynamic table of the standard | how every encoder makes room and inserts |
| `StdEncoder` | any encoder of the standard | the abstract specification of `Hpack`, and the source of "reference data" |
| `Delivery` | what the whole is for | the abstract specification of `Session` and `Pipe` |
| `Session` | StdEncoder, then hunpack | |
| `Pipe` | hpack, then hunpack | refines `Session` |
| `HuffWords` | codes, words, the coding of the standard | a word is the set of the positions of its ones, so shifts lose bits as the machine does |
| `HuffEncoder`, `HuffDecoder` | huff/drain, decode_huffman/find_code | one action per turn of each loop |
| `HuffString` | put_string and get_string over these two | |
| `Octets` | the integers and forms of instruction on octets, in one step each | the width of an octet is a constant |
| `IntCodec` | put_int/put_vint, the dispatch on the first octet, get_int | one action per octet; shown to compute what `Octets` says |
| `Wire` | UnpackState on octets, with get_string and its assertions | one action per arm and turn; extends `Unpack` and `Octets` |
| `WireSession` | any standard encoder, then hunpack, on octets that may be cut short | refines `Session` |
| `Frames` | h2unpack, and a peer that writes frames | composes `StdEncoder` and `Wire`; one action per frame, then one per turn of `unpack` |
| `PriorityFrames` | a peer that sets priorities | `Frames` and one action |
| `Lines` | the line scan of hpack and ng_hpack, ng_hpack's copies, hunpack's output | a text is a sequence of NUL, newline, ':', space and letters |
| `CommonTables` | the constant data of common.h | the real static table, codes, lengths and decoding table |
| `TableSearch` | find_first_static, find_static and find_code, turn by turn | on `CommonTables`; shown to compute what `HpackTable` says |
| `Zpipe` | zpipe, over zlib's contract | one action per turn of the loops of `def` and `inf`, one for what exit() does |
| `MC*` | small instances | `MCTables` and `MCWire` hold what several use |
| `Session_proofs`, `Pipe_proofs` | proofs: sessions, the pipeline | see section 5 |
| `Wire_proofs`, `WireSession_proofs` | proofs: one instruction on octets, sessions on octets | |
| `Frames_proofs` | proofs: h2unpack on a connection | |
| `Loops_proofs` | proofs: `IntCodec`, `Zpipe`, `TableSearch`, `Lines` | four components with a loop each and nothing in common |
| `HuffString_proofs` | proofs: the Huffman coder and decoder | |
| `DataLemmas` | lemmas: numbers, sequences, tables, integers on octets | used by all of these |

### State and actions against the code

`Hpack`: `sent` is the lines handled, `out` stands for stdout, `encTable` is
`dyn_table`. `EncodeOversizedNamed` and `EncodeOversizedLiteral` are the branch
at hpack.cc:116, `EncodeIndexed` line 131, `EncodeNamed` line 135,
`EncodeLiteral` line 140. `int` lookups that answer 0 for "not found" are
modelled as such. `sensitive` is a constant 0 in the code.

`Unpack`: `buffer` is what was fed and is not unpacked, `decTable` is
`dyn_table`, `decoded` is the calls of the callback. `UnpackLiteral` and
`UnpackNamed` carry a flag `push`, true for the arm 0x40 and false for the arms
0x10 and 0x00.

`Shrink` is written without a loop: the table keeps the longest run of newest
entries at which the loop would stop. `StopsAt` contains every length at which
the test `size > max_size && table.size()` fails, with the wrapped `size`, and
the loop, coming from above, stops at the greatest of them.

`SearchFrom` is the halving search of `std::lower_bound`, from any range of the
table as it is, sorted or not, and `LowerBound` the one from the whole of it; it
is not assumed to find a name that is there.

`HuffDecoder.FindCode` answers a set of entries, and whether the search ran
past the table. That read is undefined behaviour in the code: the model allows
either outcome of the comparison.

`Wire`: `buffer` is the octets from `pos` to `input_end`. A text is opaque and
has two spellings, octet for octet and in Huffman code, given as constants, for
`HuffString` is about the coding itself. `Fits` is the pair of assertions of
`get_string`; `TwoStrings` is the arm at unpack.h:149, which an index of 0 leads
to from every form. `aborted` stands for `abort()`. A `Spelling` is what the
standard leaves open: the Huffman code or not, for the name and for the value,
and one of two marks for what is not to be pushed. `Overrun` is the texts on
whose Huffman code `find_code` runs past its table. That read is undefined, and
the outcomes a build can produce are two: what lies behind the table compares
above the window, so the step back finds the right entry, or it does not, and the
assertion at unpack.h:46 fails, for no code can be found that the window begins
with. `TurnAborts` may therefore be taken for such a string, and so may the
action that decodes it. In the build of the Makefile `huff_lengths` follows the
table and the program aborts; the model allows more. `HuffDecoder` does the same.

`Frames`: `input` is what is left of `input` in main, `target` and `shown` are
what the callback of `handle_headers` captures and prints. `frames` is what the
peer wrote, each with the block and the headers it carries; `odd` marks those
h2unpack does not handle, and `upto` is how many instructions were encoded
by then. `moments` is the history of the encoder's table, as `hist` in `Session`.
`ReadU8` to `ReadU32` are read_u8 to read_u32, and give zeros past the end, as
the terminating NUL of a string that stays empty does. `truncated` says that the
input was cut. The line that read_frame logs takes three octets behind the
payload. If the payload is all
there the string has room for them (it held the nine octets of the header); if
not, the read is undefined and `ReadFrameAborts` may end the program.

`Lines`: pointers are positions, 0 is the null pointer. `WellFormed` is the
condition under which the two strings of a line can be made; where it does not
hold the built program dies by a signal or an uncaught exception. nghttp2 reads
past the copies that strdup() made when a value holds a NUL: any character, or
the end of the program. For the properties, `LineStarts` are the positions where
the lines of the text start, and `LineNumber` counts them.

`TableSearch`: a window of `find_code` is kept as its first 30 bits and its last
two, for the width of TLC's integers; `msb_code` loses two bits that are always
zero. The step past the end of the table is a choice, as in `HuffDecoder`. In
`FindsStatic`, `LookupComputed` says that the loops compute what `HpackTable`
says, and the rest what that is for the real table.

`Zpipe`: an octet of a compressed stream carries some octets of plain text, but
for the last; `Sums` counts the plain octets. deflate() is any behaviour its
documentation allows, inflate() goes on until the buffer is full, the input is
used, or it meets the end or an error, or has no memory (`InflateFails`). Reading
and writing may fail at any call, and writing after any octet. `dest` is what
fwrite() took. It fills the buffer of stdio, which goes to the file when stdio
likes; `written` counts the octets that are there, and `File` is those. `Return`
is the end of `main`, and `Exit` what comes after: the rest of the buffer is
written, or some of it is `lost`. Nothing of the program runs after that, so its
status is what `main` returned.

`IntCodec.Shifted`: a shift by the width or more is undefined in C; the model
allows what x86 does and zero.

Definitions marked *Mutation* stand next to the definition they distort. No
specification uses them. Each is a plausible mistake in the code, and TLC finds
the property named with it in PROJECT.json violated when the definition is
replaced by it: they show that the properties can fail.

## 3. Runs

| run | distinct states | what it shows |
|---|---|---|
| `MCPipe` | 133,989 | `hpack \| hunpack` |
| `MCSession` | 960,408 | `hunpack` on what any standard encoder writes |
| `MCHuffman` | 7,882 | strings through the Huffman coder and decoder |
| `MCIntCodec` | 258,711 | integers, in full, padded and cut short |
| `MCWireSession` | 937,372 | `hunpack` on octets, cut short anywhere |
| `MCFrames` | 1,946,276 | `h2unpack` on a connection, cut short anywhere |
| `MCLines` | 549,604 | all short texts through the line scans and back |
| `MCTableSearch` | 13,117 | every code and static name in the real tables |
| `MCZpipe` | 370,860 | `zpipe` and `zpipe -d` with small buffers |
| `HuffLongCodes` | violation | a defect of `huff()` |
| `HuffLastCode` | violation | a defect of `find_code()` |
| `FramesPriority` | violation | a defect of `read_frame()` |

**MCPipe.** Seven headers, whose sizes lie at and around half the budget, 3/4
of it and all of it (64, 96, 97, 129 of 128 bytes), against a static table with
a repeated name and a name out of order; every sequence of up to five lines.
Five is enough to fill the table, evict one or several entries with one push,
refer to what is left, add an evicted header anew and refer to that. The width
of unsigned is 257, just above twice the budget, so the decoder's size can wrap.
`ImplementsStandard` is the refinement: the encoder's table is, after every
line, the one the standard prescribes, and every index it writes is one that
table holds. `PipeDelivers` is what test_encode asserts. `EncoderAccounting`,
`NoDuplicates` and `NewestSurvives` are what the code counts on.

**MCSession.** Every choice the standard leaves to an encoder, with updates to
sizes 0, 64 and 128, in up to four instructions. Unsigned is only 150 wide, so
that the decoder's size wraps within four instructions. `Synchronised` relates
the decoder's table now to the encoder's table *at the moment it wrote the next
instruction* (the history variable `hist`): that one is a prefix of the
decoder's, so every index means the same, though the decoder holds more.
`UpdateEvicts` says what an update guarantees, be it to the size the table has
already, and under which condition: not when size has wrapped.

**MCHuffman.** Real codes of 5 to 30 bits, strings of up to 4 symbols. hpack is
given symbols whose codes have at most 24 bits, for longer ones fail (below);
the other encoder is given codes of up to 30 bits. All of 0..7 pending bits
occur at the edges of octets, and all lengths of padding.

**MCIntCodec.** Groups of 4 bits instead of 7 and an unsigned of 9 bits instead
of 32. All values, all five prefixes (4, 3, 2, 1 and 1 bits), up to two empty
groups. The width is not a multiple of the group, as 32 is not one of 7; three
groups hold the largest value, and with padding `bitpos` goes beyond the width.

`LoopsComputeOctets` shows that the loops compute what `Octets` says in one step.

**MCWireSession.** Octets of 6 bits, so that an index of 31, a name of index 3
that is not indexed and a size of 7 need a second octet. The static table fills
the indices up to 30, so the second entry of the dynamic table, 32, is taken for
another one when its second octet is cut off. Three instructions push two
entries and refer to the older, in every form, or resize. `MCWays` has every
choice of codes for two strings; integers are written in their shortest form.
The Huffman code of one text is in `Overrun`. The encoder's octets are cut at
every place. `InStep` is what makes the loop right: every turn ends where an
instruction ends, and of input that is all there an assertion fails only in
front of an instruction with a string in `Overrun`: that it fails there, and
no valid string should make it, is what `HuffLastCode` shows. `WireTypeOK` says
of what is printed, cut or not, that its names and values are whole texts of the
encoder's or of the static table. `ImplementsSession` is the refinement; a session
whose octets are cut is one where they have not arrived. `CutKeepsPrefix` says
what a cut can do: an index cut short may give one wrong header, the last.

**MCFrames.** Two frames and two headers on two streams, one of whose numbers has
two significant octets; blocks of one or both headers; a second frame may refer
to what the first pushed. Blocks are whole, promised, padded, or split at any
place; DATA stands for the types that are skipped. The connection is cut at
every place, in the nine octets of a header too. `ShownRight` and
`StepsByFrame` say that h2unpack stops where it cannot go on, and shows nothing
wrong before; `FeedsBlocks` that nothing else of a frame is unpacked. The peer
writes its strings without the Huffman code. Blocks with it are out of what
`Frames` says: in those h2unpack may also stop in the middle, at unpack.h:46, as
hunpack does in `WireSession`.

**MCLines.** Every text of up to seven of five characters: two whole headers,
empty lines, lines without ':', a NUL anywhere, a last line without its newline.
`HeadersAreLines` is the whole of what the scan promises, also in the presence of
NUL, where `strchr` and `std::string` disagree on what the text is.
`PrintedIsFixed` gives hunpack's output back to the encoder.

**MCTableSearch.** For each of the 256 octets the windows where all bits after
the code are zeros, and where all are ones: the search is monotone between them.
For each name of the static table, and names that fall between, all values
several entries have. `FindsStatic` names the one entry that is never found,
"accept"; `FindsCode` the one code after which the table is left.

**MCZpipe.** Buffers of two octets and files of up to five: files that end with a
buffer, output that fills one, and output that takes several turns. Streams to
inflate are all sequences of octets, ends and errors. `OkMeansAll` says what
`Z_OK` stands for: everything is in what fwrite() took, and so in the file once
the program has ended, unless the write at exit failed. The last clause is no
caution of the model's: `def` and `inf` check fwrite() and ferror(), which only
see that stdio's buffer took the octets, and `main` returns without flushing it,
although the comments at zpipe.c:31-36 and 92-97 promise `Z_ERRNO` for an error
writing the files. `echo hi | zpipe > /dev/full` writes nothing and ends with
status 0; in the model this is a state with `code` = `Z_OK` and `lost`.

**Fairness.** `hpack` ends because its input does, and then hunpack sees the end
of its own input: `WF(ReadFully)`. A string given to `huff` ends too:
`WF(PutString)`. `unpack`, `huff`, `decode_huffman`, `put_vint` and `get_int`
are loops in one thread that wait for nothing: weak fairness of their turns. So
are the loop over the lines (`LinesStep`) and those of zpipe (`ZpipeStep`), whose
calls of fread() and fwrite() return. `WireSession` and `Frames` state no
fairness: a turn that cannot be taken would be a deadlock there.
Nothing obliges a user to have another line, or an encoder to pad: these have
no fairness.

**Deadlock** is checked in every run; a program that has returned stutters
(`Exited`, `Stopped`, `Returned`, `Ended`, `LinesEnded`, `SearchEnded`,
`ZpipeEnded`).

### What the violations show

- `HuffLongCodes`: hpack.cc:58 shifts by `len - 25` where the part to append
  has `len - 24` bits. For the value `aaaaaaaaa` followed by octet 0xc7, of
  which `RoundTrip` has a counterexample, the built programs print `aaaaaaaaD`
  and octet 0xaf. Octets with long codes occur in no header of the test data.
- `HuffLastCode`: the code of octet 0x16 is the last of the table; followed by
  padding it is above every entry, `lower_bound` answers the end of the array,
  and the assertion at unpack.h:46 fails. In the run the string comes from
  another encoder; the built programs do it by themselves when the value is
  sixteen times `a` and octet 0x16.
- `FramesPriority`: h2unpack.cc:107 drops one octet of a HEADERS frame with the
  PRIORITY flag, "weight"; HTTP/2 puts the four octets of the stream it depends
  on before the weight. For such a frame around the header `x: m` the built
  program shows an empty header and `accept-charset: x`, and fails the assertion
  at unpack.h:89.

## 4. Bounds and abstractions

- Strings are members of a set with a length, without NUL; their octets matter in
  `HuffString`, which has no tables, and their characters in `Lines`. `Wire` gives
  them spellings of one and two octets.
- An instruction is a record in `Unpack` and octets in `Wire`. `ImplementsSession`
  links the two.
- `MaxHeaders`, `MaxInstructions`, `MaxLength` (of a string, and of a text),
  `MaxFrames`, `MaxFile`, `MaxPad` and `MaxCarried` bound the input. The proofs
  do not depend on their values.
- The peer of `Frames` begins no header block before the frames it sends without
  one: what is on the wire is the same.

Not modelled:

- The debug output, the widths and bases of what is printed, and the switches of
  h2unpack.cc that are 0 (`check_pseudoheaders`, `check_end_stream`,
  `save_stream_headers`): none of it is in the build.
- spdy3.h and spdy3_putdict.c: a constant and one call of fwrite(). The Makefile.
- The totals of run_tests.py.
- zlib's and nghttp2's own work. That `zpipe` writes the zlib format and `zpipe
  -d` reads raw deflate data is a fact about the library's formats; `Zpipe`
  takes a stream as such.

## 5. Proofs

Everything below holds for every set of names and values, lengths, static table,
budget, width of unsigned and length of the input. The assumptions are named in
the modules; the code justifies them as follows.

| assumption | says | because |
|---|---|---|
| `TableAssumption` | lengths are numbers; the answer for an invalid index is no static entry | common.h:625-636; unpack.h:131 makes a name that no table has |
| `HeaderAssumption`, `HpackAssumption` | the size limit, twice the budget of `hpack`, are below the width of unsigned | 4096 and 2^32 |
| `OctetAssumption` | an octet has room for each form's bits; unsigned is wider than an octet | 8 and 32 bits |
| `WireAssumption` | texts differ in both spellings, and their lengths are values of an unsigned | they come from `std::string` of at most the input's length, and go through `put_int`, which takes an unsigned |
| `WireAssumption` (`Overrun`) | the text that has no name, `Garbled`, may overrun as well | nothing is known of its code |
| `WaysAssumption` | the encoder's choices are spellings | - |
| `IndexAssumption` | the static table and one entry for each byte of the size limit can be numbered by an unsigned | 61 + 4096 is below 2^32; an entry takes 32 bytes at least |
| `FrameAssumption` | the streams and types of frames fit their fields; an index fits an unsigned | fields of 32 and 8 bits; as above |
| `LinesAssumption` | the letters are none of NUL, newline, ':' and space | a letter is any other character |
| `ZpipeAssumption` | the buffers have room for an octet | `CHUNK` is 16384 |
| `SearchAssumption` | the static table is the real one | common.h:625-687 |
| `CodeAssumption` | no code begins another, none is all ones, each has 5 to 30 bits | huff_codes, huff_lengths |

**Session_proofs.** The invariant is `SessionInv`: the types, and two parts.
`HistoryInv` says of every instruction in `out` what it denotes: its header and
the encoder's table after it, given the table before it. `DecoderInv` says that
the decoder is `Position` instructions into that history: what it decoded is a
prefix of `sent`, and the encoder's table of that moment is what its own table
begins with. Neither `Synchronised` nor `DeliversHeaders` is inductive without
the history, for the decoder reads an instruction long after the encoder's
table has changed. The step that matters is a table size update: the lemmas on
`Fit` and `Shrink` in DataLemmas show that what the standard keeps is
never more than what the decoder keeps, even if its size has wrapped. From
`SessionInv` follow `SessionTypeCorrect`, `SessionSynchronised`,
`SessionAccounting`, `SessionEvicts` and `SessionDelivers`, the refinement.

**Pipe_proofs.** `EncoderInv` (exact size within the budget, no duplicates)
is inductive. It gives `EncoderAccounts`, `EncoderHasNoDuplicates` and, with
the arithmetic of the 3/4 test, `NewestAlwaysSurvives`. `PipeIsSession` shows,
one arm at a time, that a step of the pipeline is a step of a session, with
pushing and then shrinking equal to making room and then inserting. So
everything proved of a session holds of the pipeline: `RoundTrip`, that hunpack
prints the headers hpack was given, is `SessionDelivers` under that refinement.

**Integers on octets** (DataLemmas). What one integer on octets is: `Spells` says that some octets
are a first octet with a form and a prefix, then groups of which all but the
last continue, whose weighted sum is the value. `IntOctetsSpell` is that
put_int writes such octets, `ShortestSpelling` that only padding has others;
`ReadSpelled` that get_int reads them back and leaves what follows them;
`ReadCut` that of a proper beginning it reads a value that is not greater, and
leaves nothing.

**Integers, octet by octet** (Loops_proofs). The loops, octet by octet. The invariant of put_int is that
each octet written is a group of the value, and the rest is the value divided by
the weight of the next group; that of get_int is that what it has read so far is
the value modulo that weight. It gives `IntTyped`, `IntegersRoundTrip`,
`CutsFallShort`, and `LoopsMeetOctets`, which ties `IntCodec` to `Octets`: what
is proved of the operators there is true of the loops.

**Wire_proofs.** What one turn of the decoder does with the octets of one
instruction, in any form and spelling, whatever follows them, that it may stop
there if a string overruns, and what it does if the octets are not all there. It knows no session and no frames, and serves both.

**WireSession_proofs.** `StepInv` says of every piece written that it is its
instruction in one of the forms an encoder may choose, and of the decoder that
what is left of its input is the pieces from some instruction on (`Stands`), or
a beginning of them when the input is cut. Each turn takes exactly one piece, in
any arm, with any form and any spelling of its strings, or it stops at one of
them that is in `Overrun`; that gives `DecoderInStep`, for all encoders whose
`Ways` are among the standard's. With `Left`, the pieces that are left, as the refinement
mapping of the buffer, `WireIsSession` proves each turn to be a step of a
session. `OctetsImplementSession` is that refinement as the run checks it, and
`OctetsDeliver` is `SessionDelivers` through it: from a header given to any
encoder of the standard to the one printed by hunpack, down to the octets.
`CutPrintsPrefix` needs a second invariant, `PrefixInv`: up to the instruction
it stands in front of, the decoder has done what the encoder meant, and after an
instruction that is only partly there it has nothing left to read. A string cut
short fails an assertion, an integer cut short is still an integer, so an index
that is cut gives one header, and it is the last. `KnownInv` says that the tables
and what is printed hold known texts only; each turn keeps it, for a string is
read whole or not at all, and with `StepInv` it gives `WireTypeCorrect`.

**HuffString_proofs.** Bits are counted by the positions of their ones, so that
words, octets and strings of bits can be compared place by place. `Spells` says
of huff() that the octets written and the bits pending are the codes so far:
`AppendSpells` and `DrainSpells` show that one symbol preserves it,
`PaddedIsStandard` what the padding adds. `Ahead` says of decode_huffman() that
its window holds the next bits of the standard's octets, ones past the end
included: `RefillAhead` and `TakeAhead` show that reading octets and consuming a
code preserve it. In between stands the search: since no code begins another,
a greater code is greater than everything that begins with a lesser one
(`GreaterCode`), so the entry found is the symbol (`FindsSymbol`), and since no
code is all ones, no symbol looks like the end of the string (`AtSymbol`).
`StringTyped` needs no more than the assumptions. The others state what they
need, and the violations of section 3 are what happens without it:

- `ShortCodes`, that the codes of hpack's symbols have at most 24 bits, for
  `PendingAreBits` and `HuffmanIsStandard` (`HuffLongCodes` breaks it);
- `NoneLast`, that some code is greater than that of each symbol, in
  `StringsAreDecoded` (`HuffLastCode` breaks it). Codes of the other encoder
  may have any length.

**Frames_proofs.** `ConnectionInv` has a part for each side. `PeerInv` says of
every frame what it is made of (`Made`: type, flags, stream, payload) and that
the block it carries is the octets of the instructions encoded since the frame
before it, and its headers theirs (`Carries`). `ReaderInv` says where h2unpack
stands: in front of a frame, with the headers of all the frames before it shown
(`Between`); in the block of a frame, in front of some instruction, with the
headers of the block up to there shown (`Within`); or at the end of input that
was cut (`Over`). In the first two its table agrees with the encoder's at that
moment, which lies between the frames, so the encoder's history is needed here
as well. That the history means what it should is not proved anew: the peer is a
session whose decoder waits, and `FramesSession`, an instance of Session_proofs,
hands over `SessionInvariant` (`MomentsInv`). All that the peer writes is in
`PlainSpelling`, so no turn overruns (`TurnOnPlain`). What remains is the arithmetic of a
frame: that nine octets give back the size, type, flags and stream that were
written, that erasing them leaves the payload, and that a header cut short,
which reads as if zeros followed, leads to no line, or to the end. The turns
within a block are those of Wire_proofs. `FramesTypeCorrect`,
`ShowsWhatWasSent`, `ReadsFrameByFrame` and `FeedsOnlyBlocks` follow. The
connections are those of `FramesSpec`: with the priorities of `PriorityFrames`
`FeedsBlocks` is false (`FramesPriority` breaks it).

**zpipe** (Loops_proofs). `ZpipeInv`: while def() runs, each octet read is in the
buffer, held by zlib or carried by what was written (`DefInv`); while inf() runs,
what inflate() has used is a part of the stream where every octet carries
something, and all of that is written or held (`InfInv`). `ZpipeOkMeansAll`
follows, wherever the ends of the buffers fall, and whatever of `dest` stdio has
passed on before exit() writes the rest (`ExitStep`).

**Searches** (Loops_proofs). `SearchInv` says that the range that is left of a
search in the static table leads where `LowerBound` leads, and that the entries
the walk has passed have the name and another value. It gives `SearchTypeCorrect`
and `LookupsComputed`: the loops compute `FindFirstStatic` and `FindStatic`, on
which the encoder's `Find` and `FindName` rest. The proofs use nothing of
the contents of the static table, in particular not that it is sorted.

**Lines** (Loops_proofs). `LinesInv`: the scan stands at the start of a line or
at the end (`Placed`); the headers are those of the lines before it, which are
counted by their starts (`Numbered`); and in the second round the text is what
is printed of the headers so far and of some others (`ReadAgain`), so the next
line is printed from a header, and reads as one. It gives `LinesTypeCorrect`,
`LinesBecomeHeaders`, `OnlyBadLinesKill` and `PrintedTextIsFixed`, for texts of
any characters and any length.

`DataLemmas` holds the lemmas: the least and greatest members of sets of
numbers, powers of two, quotients and remainders, flattened sequences,
beginnings and ends of sequences; prefixes and sums of entry sizes, `Shrink`,
`Fit` and the lookups; integers on octets.

**Not proved.** Liveness (`AllDelivered`, `StringArrives`, `IntegerArrives`,
`LinesEnd`, `ZpipeEnds`) is checked by TLC only: the prover does not reason about
fairness and ENABLED. `FindsCode`, and the half of `FindsStatic` that is about
the real table, are facts about constants, 256 codes and 61 entries: TLC
evaluates them, which is a complete check of the table entries and of the two
ends of each code's windows; the prover would have to unfold the search of every
one of them. What a recursive function computes for every input needs induction
over data, which the installed provers cannot instantiate; the ledger of sizes,
the sums of groups, the halving search and flattened sequences are handled by
facts about one step of them and induction over a set of numbers, which rests on
the well-foundedness of finite subsets that the library proves.

## 6. Plan

The safety properties of the passing runs are proved, but for those two about
constants.
What could come next:

1. The Huffman coding in `Wire` is a spelling given as a constant, and so is
   `Overrun`; an instance of `HuffString` in their place would join the two, and
   `StringsAreDecoded` would discharge what `WireAssumption` says of them.
2. `FindsCode` from the order of `huff_decode_table` alone, so that only the order
   has to be evaluated.
