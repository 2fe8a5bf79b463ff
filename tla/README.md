# swf-util in TLA+

swf-util reads a Flash file (SWF), takes the ActionScript bytecode out of it
(ABC, for the AVM2 machine) and prints what it finds, down to a listing of each
method body. It is a small single-threaded C++ program, and its difficulty is
not concurrency: it is that every number it works with comes out of the file.
Offsets jump anywhere, lengths and indices are whatever the file says, reads
fail in the middle of an instruction, and a walk over code that jumps into
itself has to end. These specifications say what the program guarantees under
such input and check, or prove, that it does.

## 1. Inventory

| Component | Source | State | Operations | Works with |
|---|---|---|---|---|
| Disassembler | `ABCVM.cpp` | per call: worklist `ep`; owned by the caller and kept over calls: listing `output`, coverage `used`, labels `jumps` | `disassemble` (23-1010) | reads through `ABCReader`, renders operands through the pool; throws nothing, returns false |
| Instruction set | `ABCVM.cpp` 42-994 | none | one case per opcode | |
| ABC primitive reader | `ABCReader.cpp` 16-107 | `_start`, `_cur`, `_end` | `pos`, `eof`, `readU8/U16/U30/U32/S24/S32/D64/String` | throws a `const char *` past the end |
| ABC file parser | `ABCReader.cpp` 109-324 | the `ABCFile` being built | `read`, `readTrait`, `readTraitList` | fills the constant pool; throws |
| Constant pool | `ABCTypes.cpp` 35-206 | seven vectors | `getString`, `getNamespace`, `getNamespaceSet`, `getMultiname`, HRF and type names | throws C++ exceptions; some accesses are not tested |
| Body listing | `main.cpp` 222-276 | listing, coverage, labels of a body | `disassemble` from 0, then from every handler target; print | calls the disassembler, ignores its result |
| SWF loader | `SWFFile.cpp` | version, compression, frame data, tags | `load` | `DataReader`, zlib, file system |
| Bit reader | `DataReader.cpp` | `_cur`, `_end`, `_bit` | `readUB`, `readSB`, `readRECT`, `readUI*`, `read` | tests no bounds |
| Typed tags | `SWFTagFileAttributes.cpp`, `SWFTagMetadata.cpp` | the decoded fields | `set`, `get` | |
| Tag loop and metadata dump | `main.cpp` 60-218 | the iterators | one case per kind of tag; print | loader, typed tags, parser, pool; catches nothing |
| XML writer | `main.cpp` 576-643 | nesting level | print | never called |
| Helpers and stubs | `utils.*`, `VMValue.*`, `ABCOP.*`, `ABCVM::decompile` | none | format; nothing yet | |

What makes each one correct, and what is hard about it:

* **Disassembler.** Every instruction control can reach from the entries is
  listed, and nothing else; every label has a line; the coverage map tells which
  bytes are explained; a call always ends; a failure is reported and damages
  nothing written before. Hard: cycles, overlapping instructions, jumps that
  wrap around 32 bits, several calls into one listing, failure between two
  entry points, a truncated switch.
* **Reader.** No byte outside the buffer is touched; variable-length integers
  are decoded whether `char` is signed or not. Hard: sign extension.
* **Parser.** Everything that is returned was in the file; a truncated file is an
  exception, never a half-filled table. Hard: sizes are believed before the data
  is there, the object is leaked on the way out.
* **Pool.** A bad index is an exception. Hard: untested and off-by-one accesses,
  recursion on a stack that ends.
* **Dump.** What a file says is shown, all of it and with the right defaults; a
  file whose references are right does not end the process. Hard: unsigned
  arithmetic on two lengths, a search that finds nothing, exceptions from deep
  inside a line.
* **Body listing.** One listing is written by several calls whose results are
  ignored. Hard: what a call finds after one that failed.
* **Loader and bit reader.** Resources are released on every path; only bytes of
  the file are parsed. Hard: many error paths, believed lengths, a second load.

`PROJECT.json` lists the hazards line by line, each with the properties that
would catch it, or the reason why none does.

## 2. Modules

```
 ABCReader ──┬── Opcodes                     Listing   (abstract)
             │      │                           ▲
             │   Instructions                   │ Promise == INSTANCE Listing
             │      │                           │
             │      └──── Disassembler ─────────┘
             │               │   └─ DisassemblerProofs
             │               ├── MCDisassembler ── ConstantPool
             │               └── BodyListing (VM == INSTANCE Disassembler)
             │                   └─ BodyListingProofs (P == INSTANCE DisassemblerProofs)
             ├── ABCReaderWords ── Words
             │      └───────────────┐
             │               ABCReaderProofs
             │      ┌───────────────┘
             └── ABCParse ── ABCFormat  (a writer, the reference)

 ConstantPool ──┬── PoolText     (the same accesses, call by call)
                │    └─ PoolTextProofs
                └── Main         (tags and dump; the parser is a constant)
                     └─ MainProofs

 Words ── BitReader ── SWFLoad (D == INSTANCE BitReader)
             └─ BitReaderProofs    └─ SWFLoadProofs

 DataFacts  (induction, recursion, sums, words: used by most of the proofs)
```

* **`Listing`** is the promise: a caller enters the code at positions; a call
  lists positions control can get to, one at a time; it may report success once
  control cannot leave the listing. It knows no bytes, no worklist, no errors
  other than "failed".
* **`Disassembler`** is `ABCVM::disassemble`. One action is one iteration of the
  `while` loop (or the call, or the return), because between the top and the
  bottom of an iteration nothing else can run. The variables are the function's
  locals and the caller's references:

  | variable | code |
  |---|---|
  | `code` | the `std::string& code` |
  | `ep` | the list `ep`, used as a stack; the last element is next |
  | `output` | `std::map<uint32_t, std::string>`, a text reduced to what kind of line it is |
  | `used` | the indices `i` with `used[i] == true` |
  | `jumps` | the elements of the list `jumps` that the disassembler added |
  | `pc` | where control is: with the caller, in the loop, or the process is dead |
  | `entries`, `failed`, `calls` | history, read by properties and bounds only |

  | action | lines of `ABCVM.cpp` |
  |---|---|
  | `Call` | 23-30 |
  | `SkipSeen` | 38, `continue` |
  | `Straight` | the cases that end in `break` and do not branch, then 995-999 |
  | `Branch` | 94-133, 149-248, then 995-999 |
  | `Jump`, `Switch`, `Exit` | 134-148, 249-273, and 53-59 with 440-453: the cases that end in `continue` |
  | `UnknownOp` | 991-993, `return false` without a line |
  | `ReadThrows` | 1002-1004, the reader's `const char *` |
  | `LookupThrows` | 1005-1007, an exception of the pool |
  | `LookupCrashes` | a fault in the pool, or its stack runs out |
  | `Return` | 1001 and 1009 |

* **`Opcodes`** and **`Instructions`** are the switch: which opcode reads which
  operands, where the instruction ends and where it jumps.
* **`ABCReader`** has the primitive reads as operators on a byte string and a
  cursor. A read throws exactly when the cursor behind it would be beyond the
  end, and cursors only grow, so a chain of reads has thrown exactly when the
  cursor computed for its end is out of range.
* **`ABCReaderWords`** is the class `ABCReader` as a state machine on 32-bit
  words, with its shifts, masks and sign extensions, for signed and unsigned
  `char`. It is there to justify `ABCReader`, which it compares itself with. Its specification
  is called `ReaderSpec`, so that one module can prove theorems about it and about the parser.
* **`Words`** has the shifts and sign extensions of a 32-bit word, a word being
  the set of its bits that are 1.
* **`ABCParse`** is `ABCReader::read`: the tables of a file, one after the other.

  | variable | code |
  |---|---|
  | `data`, `at` | the bytes up to `_end`, and `_cur` |
  | `file` | `*result`, each table as the entries read so far |
  | `room` | `size()` of each table's vector |
  | `pc`, `sized`, `left` | which table's loop control is in or before, and the turns left |

  | action | lines of `ABCReader.cpp` |
  |---|---|
  | `ReadVersion` | 159-160 |
  | `ReadCount` | each `resize(readU30())`, and 274 |
  | `SizeClasses` | 292 |
  | `ReadEntry` | one turn of the loop of a table, with all it reads (`Entry`) |
  | `LeaveLoop` | the end of a loop, and `return result` |
  | `Throw` | any read past `_end`, an unknown kind |
  | `NoMemory` | `new`, `resize` or a text throws `bad_alloc` or `length_error` |

* **`ABCFormat`** is the reference for it: a *writer* of the format, made from the
  tables of the format's documentation and not from the reader. What it writes is a text of
  pieces, bytes and `u30`s (`Piece`), because a `u30` may be spelt with more bytes than it needs;
  `Spelling` is the shortest spelling.
* **`ConstantPool`** gives, for an access, the *set* of ways it can end: with a
  text, with a C++ exception, or with the death of the process. An access outside
  a vector is undefined behaviour and has several; two lookups that are arguments
  of one call may run in either order. The recursion of `getMultiname` runs on a stack that
  has room for `StackDepth` nested names: a chain of `TypeName` entries that is longer, or comes
  back to itself, may end in a fault. A pool has the shape `ABCParse` gives it.
* **`PoolText`** runs the same accesses call by call: `Ask` (the client's call),
  `Descend` (the next call a frame makes), `Return`. `stack` holds the frames, each
  with the calls it still has to make; it has room for `StackLimit` frames, the names and two more. `ConstantPool`
  sees an access from outside, `PoolText` from inside, and `pool_text` compares them.
* **`Main`** is `main` after a successful load. `tag` is the iterator over the
  tags, `todo` the lines of the ABC file still to be printed, `shown` those that
  have been. `FileAttributes`, `ReadAbc` and `OtherTag` are the cases of the
  `switch`, `PrintLine` is a line of the dump that looks something up (93-216),
  `Die` the exception or fault of such a line, `LeaveAbc` the `continue` of line 219.
* **`BodyListing`** is the loop behind that `continue` (222-276), with the variables of
  a `Disassembler` it instantiates as `VM`. `BeginBody` is 224-237, `Disassemble` a
  step of the call under way, `Handler` a turn of the loop over the exceptions
  (242-249), `HandlerDies` the exception of its `getMultiname`, `PrintPage` 252-276.
* **`BitReader`** is the class `DataReader`, with one action per read. Reads are
  operators from a place to a value and a place, so that `SWFLoad` can use them too.
* **`SWFLoad`** is `SWFFile::load`: `Open`, `Stat`, `ReadHeader`, `CheckSignature`,
  `Allocate`, then `ReadPlain`, `AllocatePacked` and `Inflate`, or `NotSupported`,
  then `CloseFile`, `ReadFrame`, `ReadTag` for each tag, `LeaveTags`, `Free`; around it `Call` and
  `Destroy`. `fd` and `heap` are what it holds, `obj` the members of the object. It also says what
  the format calls an undamaged file (`IsSound`): where its tags begin and end, and that the last
  one ends where the file does.
  Every system call, the allocations above a size, and zlib may fail at any time.
* **`MC...`** modules give the constants their values for TLC.
* **`...Proofs`** modules hold the theorems of section 5, and **`DataFacts`** the
  lemmas on numbers, sums and words that they share.

Modelling decisions:

* Positions are `uint32_t`: arithmetic is modulo `AddrSpace`, which is 2^32 in
  the code and any positive number in the proofs. TLC's integers are 32 bits wide
  and signed, so the runs use 2^30. Codes are shorter than that (their length is
  a u30).
* The build is the Makefile's: gcc on x86, where pointers have 64 bits. Pointers far past the
  end of the buffer compare as the addresses they hold, so a read there throws.
* `jumps.unique()` removes adjacent equal elements of a list that is only searched;
  on the set of its elements it does nothing. The map `flow` is written and
  never read; it is left out.
* `Lookup` is a constant of `Disassembler`: the walk is independent of what is
  in the pool, except for whether the access returns. The proofs assume nothing
  about it; the runs use `ConstantPool` with a pool that has a cyclic multiname,
  a name just past the end, and a missing namespace.
* A reader is not used after it has thrown (its callers catch outside its scope),
  so `ABCReaderWords` stops there.
* In the two runs of `Disassembler` and in those of the two readers a client may
  stop at any time, so deadlock is not an error there; that the loop of
  `disassemble` is never stuck is `Terminates`. The other modules have a step
  `Ended` for the final states: a deadlock would be a program that is stuck, and is
  checked for.
* Memory behind a buffer, and memory that was never written, holds any byte of
  `Junk` (`Behind`), the same everywhere, or the process dies there.
* Numbers nobody calculates with (integers, doubles) stay the bytes that encode
  them in `ABCParse`. In `SWFLoad` a length with one of the two upper bits is `Huge`.
* A table of the constant pool is its entries from 1; entry 0, which every one
  has, is zeroed and not in the file.
* A stack overflow is a fault at a depth that depends on the system and on how a frame is laid out.
  `StackDepth` is the depth up to which it does not happen; a deeper access may return or not.
* `-1 << 32` in `readSB` is undefined behaviour; the model does what x86 does, where a shift by 32
  is none, so that a negative field of 32 bits becomes -1.
* In `ABCParse`, each table is resized to its count before its entries are read (`room`), and any
  allocation may fail. The lists inside an entry are resized in the same way; their sizes are
  not counted, only that they may fail.
* `Main` does not run the parser byte by byte: `Readable` and `Parsed` are
  constants. The instance for TLC takes them from the writer, which is what
  `abc_parse` shows the parser to do.
* Exceptions that nobody catches end the process. What they leak, then, is not a
  property of the models.

In this commit the only caller of `disassemble`, the body loop of `main.cpp`, stands
behind a `continue` (line 219) and cannot be reached. `Disassembler` and
`BodyListing` specify the class, and the loop as it stands there.

## 3. Runs

| Run | Checks | Instance | Size |
|---|---|---|---|
| `disasm_safety` | ten invariants of `Disassembler` | every concatenation of three encodings of a menu of 16; two calls at 0, 1 or 4 | 133 thousand states |
| `disasm_promise` | `ListingKept`, `Terminates`, `PromiseKept` | three encodings of a menu of 9; two calls | 24 thousand states |
| `reader_words` | bounds, decoding, agreement of the two reader models | every string of up to five bytes out of 1, 127, 128, 255, and two longer ones; two calls | 168 thousand states |
| `reader_s24` | a comment of `ABCReader.h` | the same | a counterexample |
| `abc_parse` | the parser against a writer of the format | four files with every kind of entry; each also cut off at every byte, with any byte overwritten by one of six, and with a byte more | 58 thousand states |
| `pool_text` | the accessors from inside against `ConstantPool` | every pool of three multinames out of a menu of 12, and chains of six to nine; 17 accesses; a stack for four nested names | 127 thousand states |
| `main_dump` | tag loop and dump | two orders of tags; some 80 ABC files, each with one thing varied | 2 thousand states |
| `dump_params` | the format on names of parameters | the same | a counterexample |
| `body_listing` | the body loop over the disassembler | two bodies, the first any three of 8 encodings; six tables of handlers | 38 thousand states |
| `bit_reader` | cursor and fields of `DataReader` | every string of three bytes out of 90, 127, 128, 255, and three rectangles; nine widths, 32 among them | 272 thousand states |
| `bits_sign` | the format on unsigned fields | the same | a counterexample |
| `swf_load` | resources, contents and damage over two loads | 18 files: good ones, plain and compressed, and one per kind of damage | 6 thousand states |

**`disasm_safety`.** `NothingLost` and `NothingInvented` are the two halves of a
loop invariant: what is listed or pending is, until a call fails, the same as what is an entry or a
successor of something listed. `ListingIsExact` compares the result with a
reference, the closure of the entries under `Successors`. `UsedIsListed` says
that the coverage map is right even after failures; it is not implied by the
bounds, because three kinds of cases mark their bytes by hand. `LabelsResolve`
relates labels to lines. `SwitchIsWhole` reckons a `lookupswitch` out by itself, without the
operators that decode it for the action: a count n, n + 1 cases of three bytes each, all of them in
the code, covered and labelled. `WorklistBounded` says that duplicates on the worklist
come only from instructions already listed, each of which pushes once.

The bounds are enough to reach what is hard. Three encodings give an instruction that jumps over,
onto, or into another, backwards and forwards, to itself and to its own
operand; the menu has jumps out of the code in both directions, switches with
two and with three targets and one that announces more than it has, an operand cut
short, an unknown opcode, and pool accesses that end in each way. Start 1 is
inside an instruction, 4 is behind a jump. The second call meets a listing that
the first has completed, or left with an error. The menu for temporal
properties is smaller and has one element of each kind.

**`disasm_promise`.** Fairness is `WF_vars(Iterate)`: the loop runs on the
caller's thread, takes no lock and waits for nothing, so it continues as long as
it can. `Call` is not fair: nobody must call.

**`reader_words`.** A byte matters to a read through its continuation bit, its
sign and its low bits; the four bytes have every combination. Five bytes are the
longest encoding, and `pos` puts the cursor inside, at the end and beyond.

**`reader_s24`** is a disagreement between a comment and the code.
`ABCReader.h:28` calls `readS24` a "3-byte fixed length signed integer". The code
(`ABCReader.cpp:86`) or's the third byte with a *signed* 16-bit load, so that bit
15 is copied over the third byte: the bytes `01 80 01` are read as -32767 and
not as 98305. `ABCReader.S24At`, and so the disassembler's model, does what the code does.

**`abc_parse`.** The reference is a writer, so that the reader is not compared
with itself. `RoundTrip` is the strong one: whatever is returned, also for a
damaged file, gives the bytes that were read when it is laid out again, so no
entry is dropped, made up or read into another member. It compares the text with the bytes piece
by piece (`PastAll`): a number of the text is there if `readU30` reads it there, in however many bytes
and whatever bits it masks away, because the writer cannot know how a file spells its numbers.
`WellFormedIsRead` is the other direction.
`TruncationThrows` is what the missing bounds checks of a parser usually break.
`OnlyOneTableAhead` is what can be said of the memory a file asks for: a count is believed before any
entry is there, and up to 2^30 - 1 entries are allocated for it; but no second
table is resized before the first is full, and each entry that is read takes a byte of the file. The files contain every kind of multiname and trait, empty and
non-empty tables, counts of two bytes, and both forms of an empty pool table.

**`pool_text`.** `EndsAsPromised` justifies `ConstantPool`, on which three other
modules are built: whatever order the compiler gives arguments, however deep the
recursion, nothing ends in a way it does not list. In the long pools each name is the name of
the next, and only some of them fit on the stack: `ConstantPool` has to say that an access may end in
a fault also where there is no cycle, because the frames run out. `DepthBounded` says that without a
cycle of `TypeName` entries the stack never has more frames than the pool has names, and two: in a pool
of three names five, of the six there are. Names 0 and 4 are, of three names, the reserved one and the
first that does not exist.

**`main_dump`.** `DiesForCause` compares the accessors with a definition of a
sound file that is said without them: indices in range, kinds known,
names nested no deeper than the stack has room for, let alone in themselves (`NameOk`). Its converse is not a property: `Sound` asks of a file more than
the process needs. `AllShown` says that nothing is skipped,
made up or printed twice: `Expected` has the lines of a method (name, return type, parameters) and of an
instance (name, super class unless it is 0, protected namespace if its flag is set, interfaces,
traits), and the attributes must be shown if no reserved field is set (`ReservedIsZero`), except in a
tag of less than three bytes, of which `main` tests bytes that are not there. `DefaultsBelong` is conditioned on there being no more
defaults than parameters; otherwise the subtraction of line 139 wraps and
none is printed, which the runs contain. `FindsAbc` also covers contents with
no zero byte behind the flags, where `find_first_of` returns `npos` and the whole
content is parsed, and contents shorter than four bytes.

**`dump_params`** is a disagreement between the format and the code: names of
parameters are string indices (`src/docs/avm2overview.pdf`, 4.5.2), and
`main.cpp:141` and 146 look them up as multinames. A correct file ends the dump with an exception.

**`body_listing`.** Results of `disassemble` are ignored, and a call may meet the
remains of one that failed. `HandlersAreListed` and `GapsShow` say what a printed
listing is worth in spite of that: every handler has a line, and where
code that control can reach is missing, a message can be seen, or the place where the listing breaks
off: an opcode nobody knows, without a line, to which a listed instruction leads or with which the body
or a handler begins. `disassemble` leaves no message there (`ABCVM.cpp:991-993`).
`TargetsAreLabelled` relates the labels of two sources, `disassemble` and `main`.
The second body of an instance is one return with a handler on it.

**`bit_reader`.** The reference, `Field`, reads the buffer as one string of bits.
Fields begin at every bit and have widths below, at and above one and two bytes.
`FieldExact` holds where `char` is unsigned or the bytes a field crosses into are
below 128, for unsigned fields up to 32 bits and signed ones up to 31: of 32 bits, only those that
are not negative, because of the shift in `readSB`. `CursorExact` holds always, so a wrong field does not disturb the
next. `VarintExact` shows the two decoders of `DataReader`, which test different
bits, to agree with the encoding for every combination of signs.

**`bits_sign`** is the other case: `readUB` or's a signed `char` into the field
(`DataReader.cpp:34`, 39), where the format (`src/docs/swf-file-format-spec.pdf`, "Bit
values") has an unsigned value filled with zeros.

**`swf_load`.** `NothingLeaks` and `FailureKeepsContent` are over all of the
ways load has to return, of which there are about a dozen. `UndamagedIsLoaded` says that a
good file is refused only if the system or zlib refuses, and that its tags are appended, in
order, to those of an earlier load. `OnlyLastOverruns` limits the damage of a
length that is believed, also where the stream was shorter than the header says and lengths are
read from memory that nothing was unpacked into (`Uninitialised`). Two loads are enough for what one leaves to another. Tag
codes of 256 and more are stored in eight bits (line 136); the format gives out
none, and no property speaks of them.

**Fairness.** Where a run has a liveness property, the program runs on one thread,
takes no lock and waits for nothing, so it goes on as long as it can:
`WF_vars(Iterate)` in `Disassembler`. In `ABCParse` and `SWFLoad` weak fairness is written out,
as "again and again over, or again and again a step", because TLC spends
exponential time on `ENABLED` of actions with nested definitions. It is the
same if a program that is not over can always take a step, and that is what the
check for deadlock, with `Ended` as the only step of a program that is over, shows.
Clients need not call.

## 4. Hypotheses on the constants

| Assumption | Modules | Says | Why the code justifies it |
|---|---|---|---|
| `AddrSpaceAssumption` | `Instructions`, `BodyListing` | the address space is a positive number | `uint32_t` |
| `CodesAssumption`, `BodiesAssumption` | `Disassembler`, `BodyListing` | codes are byte strings shorter than the address space; targets of exceptions are addresses | their length, and a target, is a u30 |
| `StartsAssumption` | `Disassembler` | starts are addresses | the parameter is a `uint32_t` |
| `BuffersAssumption` | `BitReader`, `ABCReaderWords` | buffers are byte strings | |
| `BehindAssumption` | `BitReader` | what is read behind a buffer is a byte | |
| `SizesAssumption` | `BitReader` | a field has at most 32 bits | the result has 32; the widths of `readRECT` have five bits |
| `LengthsAssumption` | `BitReader` | strings have a natural length | |
| `SeeksAssumption` | `ABCReaderWords` | `pos` is given a natural number | the parameter is a `uint32_t` |
| `FilesAssumption` | `SWFLoad` | the data of a file, unpacked, is a byte string, and the size its header claims a number | |
| `InputsAssumption` | `ABCParse` | inputs are byte strings | |
| `TagListsAssumption` | `Main` | the tags of a file are a list; a type is a byte, a content a byte string | `SWFTag.h`: a `uint8_t` and a `std::string` |
| `SoundAssumption` | `SWFLoad` | a file that counts as undamaged is laid out by the rules of the format | they define the word: no property speaks of other files |
| `MemoryAssumption` | `SWFLoad` | an undamaged file fits into memory, and is shorter than `Huge` | files are smaller than the 2^30 bytes `Huge` stands for |
| `ParsedAssumption` | `Main` | the tables of a file that has been read are lists, and so are the parameters, options, interfaces and traits of their entries; a multiname is of one of the eleven kinds of the format and has the members of that kind; a trait is of a kind from 0 to 6 | `ABCTypes.h`: they are vectors; `ABCReader.cpp`: the `switch` over the kind of a multiname, and that of a trait, throw for all others |
| `PoolsAssumption` | `PoolText` | the multinames and namespaces of a pool, and the parameters of a `TypeName`, are lists; the namespace of a `QName` is a number | `ABCTypes.h`: they are vectors, and an index is a `uint32_t` |
| `QueriesAssumption` | `PoolText` | a client asks one of the accessors, for an index | the interface of `ABCConstantPool` |
| `StackDepthAssumption` | `ConstantPool` | the stack has room for one name at least | nothing is assumed of how large a stack or a pool is |
| `MaxCallsAssumption`, `MaxHandlersAssumption` | | the bounds are natural numbers | bounds of the models |

No proof assumes anything about `Lookup`, about the pool, or about what the system,
zlib and the allocator answer.

Bounds of the models, none of them in the code: `MaxCalls`, `MaxLoads`,
`MaxHandlers`, `StackDepth` (the real one is a property of the system), `Memory` (allocations up to it succeed), `Huge`, and that
a client of `BitReader` does not go on reading behind the end.

## 5. Proofs

Proved with TLAPS. Of the disassembler, for every set of codes, every pool, every set of starts
and any number of calls:

| Theorem | Says |
|---|---|
| `DecodeType` | whatever the bytes, targets are addresses, and unless a read threw the instruction has at least one byte and ends in the code |
| `TypeCorrect` | `[]TypeOK` |
| `UsedStaysInBounds` | `[]UsedInBounds`: the unchecked stores in `used` are safe |
| `CoverageIsExact` | `[]UsedIsListed` |
| `LosesNothing`, `InventsNothing` | `[]NothingLost`, `[]NothingInvented` |
| `ListsExactly` | `[]ListingIsExact`: the listing is the closure of the entries |
| `WorklistStaysBounded` | `[]WorklistBounded` |
| `ErrorsAreReported` | `[]ErrorsMeanFailure` |
| `EveryLabelResolves` | `[]LabelsResolve` |
| `SwitchesAreWhole` | `[]SwitchIsWhole`: all cases of a listed `lookupswitch` are in the code, covered and labelled |
| `KeepsListing` | the action property `ListingKept` |
| `KeepsPromise` | `Spec => Promise!Spec`: the worklist implements `Listing` |
| `ListsOnlyReachable`, `ListsAllReachable` | proved of the steps of `Listing` alone, and so true of the disassembler through the refinement |

of the body loop, for every table of bodies and handlers:

| Theorem of `BodyListingProofs` | Says |
|---|---|
| `HandlersListed` | `[]HandlersAreListed` |
| `GapsAreVisible` | `[]GapsShow`: a message, or an unknown opcode where the listing breaks off |
| `TargetsHaveLabels` | `[]TargetsAreLabelled` |

of the two readers, for every buffer, both kinds of `char`, and every sequence of reads:

| Theorem | Says |
|---|---|
| `BitReaderProofs!ReaderTyped` | types: places are natural numbers, words sets of bits |
| `BitReaderProofs!NothingIsSkipped` | `[]CursorExact` |
| `BitReaderProofs!FieldsAreExact` | `[]FieldExact`: unsigned fields of up to 32 bits, signed ones of up to 31, or of 32 if not negative, at every bit |
| `BitReaderProofs!VarintsAreExact` | `[]VarintExact` |
| `ABCReaderProofs!Typed` | `[]TypeOK` |
| `ABCReaderProofs!StaysInBounds` | `[]ReadsInBounds` |
| `ABCReaderProofs!VarintsAreExact` | `[]VarintExact` |
| `ABCReaderProofs!OperatorsAgree` | `[]AgreesWithABCReader`: shifts, masks and sign extensions compute the numbers that `ABCReader`, and so the other modules, reckon with |

of the parser, for every input:

| Theorem | Says |
|---|---|
| `ABCReaderProofs!WorkIsBounded` | `[]OnlyOneTableAhead`: no more entries are read than bytes, and at most one table has been resized for more than it has |
| `ABCReaderProofs!NothingIsMisread` | `[]RoundTrip`: what is returned, written again, is the text of the bytes that were read |

of the loader, for every file, every content of memory and any number of loads:

| Theorem of `SWFLoadProofs` | Says |
|---|---|
| `ReturnsEverything` | `[]NothingLeaks` |
| `FailsCleanly` | `[]FailureKeepsContent` |
| `OverrunsOnce` | `[]OnlyLastOverruns`: also of streams that are too short |
| `UndamagedLoads` | `[]UndamagedIsLoaded`: for every undamaged file, with any number of tags of any length |

and of the tag loop and the dump, for every list of tags, every content and whatever the parser
returns for it:

| Theorem of `MainProofs` | Says |
|---|---|
| `AttributesShown` | `[]AttributesExact` |
| `AbcFound` | `[]FindsAbc`: for contents of every length, with and without a 0 |
| `DefaultsAreRight` | `[]DefaultsBelong`: for any number of parameters and defaults |
| `DiesOnlyForCause` | `[]DiesForCause`: for pools of any size; a chain of `TypeName` entries that is deeper than the stack is such a cause |
| `EverythingIsShown` | `[]AllShown`: every line the dump has for a tag, and no other |

and of the accessors of the constant pool, call by call, for every pool:

| Theorem of `PoolTextProofs` | Says |
|---|---|
| `StackSuffices` | `[]DepthBounded` |
| `AccessEndsAsPromised` | `[]EndsAsPromised`, on a stack of any depth: with that, what the disassembler and the dump assume of an access is what the recursion gives |

### The disassembler

`DecodeType` is the base: every obligation on positions comes
down to what a decoded instruction can be. It goes bottom up: a u30 is a
natural number and takes one to five bytes, an s24 is an integer, operands
never move the cursor back.

The inductive invariant `IInv` of `DisassemblerProofs` is the conjunction of
`TypeOK`, `ErrorsMeanFailure`, `NothingLost`, `NothingInvented`, `UsedIsListed`
and parts no run lists because they exist for the proof:

* `IdleIsDone`: outside the loop the worklist is empty. `NothingLost` speaks of
  listed *or pending* positions; this turns it into the statement on results.
* `ListedIsRead`: a line marked "insn" stands at a position whose decoding did
  not fail. Without it `UsedIsListed` would not bound `used`: the `next` of a
  truncated instruction is beyond the code.
* `LabelsKnown`: labels belong to listed instructions, or a call has failed.
  It is what is missing from `LabelsResolve`, whose second half holds only
  between calls and so does not carry itself through the loop.
* `StaysReachable`: what is listed or pending can be reached from the entries, also
  after a failure. `NothingInvented` alone allows a cycle that keeps itself listed.
* `EntriesSettled`: when a call is over, each of its entries has a line, or is an unknown
  opcode. `FailureShows`: a call that has failed has left a message, or an unknown
  opcode is where a listed instruction or an entry leads. The disassembler's own theorems do not need these two, those of
  the body loop do.

Every listing action has the same effect (`ListInsn`) and every failing one
(`GiveUp`), so `LemmaNext` has one step per action, and most of them cite one of
`LemmaListInsn`, `LemmaGiveUp`, `LemmaSkipSeen`, `LemmaQuiet`.

`ListingIsExact` compares with a closure that is iterated over the natural numbers.
`ReachableIsLeast` shows that this iteration stops where it
should: it contains the entries, control cannot leave it, and every other such set
contains it. With that, the theorem is what the invariant says when the worklist is empty.

`SwitchIsWhole` follows from `UsedIsListed`, `LabelsKnown` and `ListedIsRead` once a `lookupswitch` that
was read to its end has been reckoned out (`SwitchRead`).

`WorklistBounded` is not inductive: it does not say that the listing is finite, and
without that its sum is not one. `Bounded` adds that. A step that lists an instruction puts
at most as many elements on the list as the sum grows by (`SumMore` of `DataFacts`), and
takes off the one it has listed.

The refinement maps `listed` to the positions with an instruction, `phase` to
`pc`, and `whole` to `~failed`. `SkipSeen` is a stutter. That `List(p)` is
allowed needs `NothingInvented`, that `Succeed` is allowed needs `NothingLost`
and the empty worklist.

### The body loop

`BodyListing` drives an instance of `Disassembler`, and its proofs an instance `P` of
`DisassemblerProofs`, whose lemmas on `Iterate` and on entering a call they cite.
To the prover the two instances are different modules, so the first third
of the proof shows them to agree, operator by operator and action by action
(`SameDecode`, `SameIterate`). The invariant `BInv` says of each place in the loop
which calls have been made so far: the entries are 0 and the targets of the handlers
before the next one, `P!IInv` holds of them, and these handlers have their labels.
A print closes the argument: by `EntriesSettled` each handler has a line, and by
`FailureShows` and `ReachableIsLeast` a gap can be seen.

### The readers

Both reader models keep a word as the set of its bits, so that a statement on a word is one on
each bit. The proofs go from the place to the value: where the cursor is after a field
of n bits (`UBPlace`, `SBPlace`), then which bit of the buffer each bit of the word is (`UBExact`,
`SBExact`, by induction over the whole bytes that `readUB` takes), then the four
coordinates of a rectangle from the fields they are made of (`RECTExact`).

A variable-length integer is collected: after each char, the word is masked to the
groups it has, and the next char is added with all of its sign bits
(`Collects` in `DataFacts`). `WordOfGroups` says that up to the last char these are the groups of seven
bits and the sign extension of the last, and `WordAsksOn` that the bit, or the shift, that the
code tests then is the continuation bit of the last char: a sign that has been extended into the
test is the continuation bit itself. `WordEnds` says that nothing is left of the sign in
the result. Both readers, and both forms of the test in `DataReader`, come down to these three.

`OperatorsAgree` goes from bits to numbers. `DataFacts` has the number of a word as a sum over its
bits, group by group; `U30Is` adds the five groups of a `u30`, and `S24Is` the sign: the
two's complement of a word whose upper bits are all the same is the number of its lower bits, less a power of two.

`ReadsInBounds`, `CursorExact` and the others speak of the last read only, so the types
are all they need of the state before it; the work is in the reads.

### The parser

That no more entries are read than bytes (`OnlyOneTableAhead`) carries itself as soon as one knows
that a read of an entry moves the cursor. `Forward` says that of one read: the place behind it is either
beyond the data or at least one further on. There is a lemma per read (`U30Ends` up to
`BodyEnds`), each from those of the members it reads. A list is a recursive function whose
existence has to be shown (`ListExists`), and moves on once for each item (`StepsOnward`); a
count that claims more items than bytes are left ends beyond the data by itself. The invariant is `PaidFor`. Of the sizes, `Roomy` says that the
tables before the current one are full and those behind it are not yet resized (`Around`), and that the
current one lacks as many entries as there are turns left (`Lacks`). A number that is read is
below 2^30 (`U30AtType`).

`NothingIsMisread` compares with a writer, one piece of text after the other: `Spells(t, p, q)` says that
the bytes of the data from p up to q are the text t, each piece of it between two places (`Past`). At the
bottom a `u30` is one piece, and what `readU30` has read is what the piece says (`U30Spelled`), however
many bytes it took. From there it goes up as the reader does:
lists behind their count (`CountedU30sSpelled` and its like), structures of `u30`s, traits, multinames of every kind,
methods and bodies, until every entry of every table is written with the bytes it was read from (`EntrySpelled`).
None of it holds of a read that left the data, so each lemma has to know from `PaidFor`'s lemmas
that a read which ends inside of the data has been inside all along.

`RoundTrip` speaks of the end only. `LaidNow` is what it needs on the way: at the k-th table, the file up
to here says the version, the first k - 1 tables (`WrittenTo`) and, inside the loop, the count of this one
and the entries so far (`InTable`), while the tables behind it are empty (`BeforeTable`, `WithinTable`). A count
is written before its entries but is known to be right only after them: `InTable` therefore has the count that the entries
read and the turns left come to. An empty table of the pool may be counted as 0 or
as 1; which of them were 1 is carried along, as the `ones` that `RoundTrip` asks for.
`LaidNow` says nothing of a run that has thrown: the tables are then what had been read, and nobody gets them.

### The loader

The loader's invariant has two parts. `Ownership` says at each place of `load`
what it holds there; `NothingLeaks` is only its first line, and by itself does
not survive a step. `Untouched` says that nothing changes frame data or tags before a buffer
has been filled, and that the parser only runs while the result is true. Both
need `Members`, that assignments to one member leave the others. The proof
follows the phases; the steps of the parser are all the same to it (`LemmaParsing`), whatever they read.

`OnlyLastOverruns` needs to know where the reader is: `TInv` adds that tags are only
appended (`TagsGrow`), and that after a tag with foreign content the reader is behind the data
(`OverrunIsLast`), where the loop ends. That takes the place after each read of the parser
(`FieldPlace`, `FrameEnds`, `LoadPlace`) to be a natural number, for which the five bits of a
rectangle's width have to be one (`WordNumber`); a tag whose content
ends inside of the data is made of bytes of the file (`TagContent`), whatever length it announces.

`UndamagedIsLoaded` looks back on a whole load, so its invariant `UInv` says at each place what the load has come to
know of an undamaged file (`Known`): in `Accepted`, that it has passed every test so far, and failed only where the
system or zlib refused; in `TagsSoFar`, that there is a `k` such that the reader stands where the format puts the `k`-th tag, and the
first `k` tags have been appended to what was there before the load. The lemmas under it are about the layout: where the
first tag begins, behind a rectangle whose length depends on the five bits of its width
(`WidthIs`, `FirstTagBegins`), and that one turn of the loop reads one record, with its short or
long length (`RecordIsRead`). `AllTags` is reached at the end: the loop stops behind the data, and no tag but the last ends there.

### The dump

What `main` prints of an ABC file is a concatenation over its tables of concatenations over
their members, and that no line is missing or comes twice is a fact about these: `Listed` says of a list
that no two lines are about the same, and `Joined` and `Flattened` that this, and what the lines are about, carry over
to concatenations of lists about different things. (`FlattenSeq` is a recursive function, a
`CHOOSE` that has to be shown to exist: `FlattenExists` of `DataFacts`.) `MethodListed`,
`InstanceListed` and `LinesListed` go up from a member to the file.

The invariant `MInv` then has three parts. `Control` says at each place what has been read,
`Printed` that every line is true of its tag, that the lines are in order and that the tags before
this one are complete. `Remaining` is the one `AllShown` does not have: in the middle of a
file, what has been shown and what is left have nothing in common, and are together
all that is expected. At `LeaveAbc` nothing is left, and the tag is complete.
`DefaultIs` and `DataFound` are the two lemmas on what is shown: the arithmetic on two lengths,
and a search that may find nothing.

That the process dies only for cause is the last clause of `Control`, and rests on
`LineRight`: no lookup of a line still to be printed fails if the file is sound. For most lookups this is
a test of an index. For a multiname it is a recursion through `TypeName` entries, which
`ConstantPool.Walk` follows in rounds (`Round`): in each, an entry ends as those it names ended in the round
before. `NameOk` gives each name a depth, of at most `StackDepth`, that is greater than those of the names it
uses. Such names lie in a set without a cycle (`NestedNoCycle`), and
those of the set that return after some rounds become more with every round (`Ripe`)
until they are the whole set (`AllRipen`): as long as some are left, one of these uses none of the
others (`NoCycle`), and returns in the next round. A set of entries of the pool has no more
members than the pool, so the rounds of `Walk` suffice; and a name of depth d has returned
after d rounds, so that the stack suffices too (`WalkReturns`).

### The stack of an access

`PInv` says of any two frames of the stack what they have to do with each other (`Linked`): above a
name there are only `TypeName` entries, each of which names the next; below a call that is about
no name the ranks fall, so that there is at most one more. It is inductive: a new call comes from
the list of the innermost frame (`Framed`), and what that can hold is `CallsAre`. If an entry were on the
stack twice, those from the first place up to the second would be a set in which each
names another, which is what `Acyclic` excludes (`OnceOnTheStack`); a stack of three more frames than
names would, by the pigeonhole principle, hold one twice (`StackSuffices`).

`EndsAsPromised` compares two recursions: the stack, which grows as long as there is room, and the
rounds of `Walk`, which stop at the size of the pool. `RInv` says of each frame that the calls it has behind it
are among those that can return (`Progress`), and of a frame that waits, that the call above it is one of those it
may make (`Waits`). Three lemmas say that rounds and stack come to the same. A name that returns does so after at most
as many rounds as there are names that return (`ReturnsStand`), how the others fail is settled after one more for
each of these, and both together are no more than there are names (`RoundsSuffice`); a failure of a call is a failure of the
call that made it (`FailsThrough`, `CrashClimbs`); and when the stack is full, it is full of names
each of which is used by the one before it, so that the outermost may still crash after `StackDepth`
rounds (`FullStack`), which is when `Walk` says that it may.

### Induction

The induction theorems of the library take an operator for the statement, which no
prover here can instantiate. `DataFacts` has them with sets and functions instead: a set of
natural numbers has a least element, by the library's theorem on well-founded relations;
a set that holds 0 and with each number the next holds all (`NatInductive`), by looking at the
least number it lacks; and a step function can be iterated (`NatRecursive`), so that what
`f[n \in Nat] == ...` says of itself may be used (`Unfolds`). A proof cites them with
the set of the numbers its statement is true of. Sums over functions with finite
domains come from the same argument over the subsets that have a sum (`SumsUp`, `SumUnique`): the fold
of the community modules is a `CHOOSE` that has to be shown to exist.

## 6. Only model-checked

* `Terminates`, in three runs, and with it fairness: liveness and `ENABLED` are out of
  TLAPS's reach here.
* `WellFormedIsRead` and `TruncationThrows`. `NothingIsMisread` says that what is read, written again, is
  the text of what was there. These two need the converse, that what is written is read again as it was: that no two entries are
  written alike, and that none is the beginning of another. This is a second chain of
  lemmas as long as the first, from the `u30` up to the method body, with a definition of the files that can be
  written at all in place of a given set. It is within the prover's reach but has not been done.

## 7. Known, and not a property

After a call has failed, the entry points it abandoned are not visited again,
and its message occupies the position, so that a later call into the same
listing can return true while the listing has gaps. `NothingLost`,
`ListingIsExact` and the promise are therefore conditioned on no call having
failed. `main.cpp` ignores the results (237, 247); what its listing is worth then is
the subject of `body_listing`.

`getString` lets the index equal to the size through (`ABCTypes.cpp:36`), and
`getNamespaceSet` never runs its loop (149): the models have both, as what they
are. An exception thrown by `load`, by the parser or by a line of the dump ends the
process with a descriptor open or an object allocated: among them the `bad_alloc` of `load`, when a header
claims fewer than 8 bytes and the size of the buffer wraps (`SWFFile.cpp:59`). Tag codes of 256 and more
lose their upper bits (136). `ABCTypes.h:263-275` calls type and name of an
exception indices into the string array, where `main.cpp:243` uses `getMultiname`;
that line cannot be reached.

## 8. Not modelled, and the plan

Left out for good: string formatting (`utils.cpp`), the XML writer (it is never
called), `SWFTagMetadata` (used by no one: it copies a string and its final
zero), the decompiler stubs (`decompile` returns false), `getConstantType` and
`getMultinameType` (never called), the build files and the format documents. Of
what is modelled: the texts themselves, the coordinates of a rectangle in
`SWFLoad`, the sizes of the lists inside an entry of a table, the time an access takes (a pool of `TypeName` entries that share their
parameters takes exponentially many calls), and what a throw leaks.

All components with state or control of their own are modelled, and every invariant
and action property that the runs check is proved, except for those of section 6.
