# eSNACC-ng: a TLA+ verification project

eSNACC compiles ASN.1 modules to C, C++, Python and CORBA IDL, and its runtime
libraries encode and decode values in BER and DER. The program is sequential C
and C++; what makes it hard is not threads but long sequences of calls on shared
mutable buffers, lists and stacks, error exits by `longjmp`, recursive types,
and loops whose end depends on the bytes of the other side.

All paths below are relative to `src/`.

## 1. Inventory

| component | state it keeps | operations | what is hard, what must hold |
|---|---|---|---|
| **ExpBuf** `c-lib/src/exp-buf.c` | a doubly linked list of blocks; in each `dataStart`, `dataEnd`, `curr`, `blkSize`, two error flags; a handle on one block | reset in read or write mode, reverse writes of bytes and segments, get/peek/skip/copy, install, free, save to a file | writes run backwards over block boundaries, allocation may fail in the middle of a segment, resets touch one block or all; bytes must come out as they went in, and no byte of malloc's |
| **SBuf** `c-lib/src/sbuf.c` | one block, one read pointer, two flags | the same calls, no growth | the same at the one limit |
| **MinBuf** `c-lib/inc/min-buf.h` | a bare pointer | the same calls as macros | nothing is checked: a caller's duty |
| **GenBuf** `c-lib/inc/gen-buf.h` | a table of functions and the buffer | dispatch | every routine gets the address of the caller's handle |
| **BER content codecs** `c-lib/src/asn-*.c` | none, except the static stack of BIT and OCTET STRING pieces | encode, decode, print, free, compare, per type | edges of numbers and lengths, constructed strings, indefinite forms |
| **Lists, hash tables, memory** `asn-list.c`, `hash.c`, `nibble-alloc.c`, `mem.c` | nodes with one shared `curr`; a tree of tables; an arena of blocks | insert, remove, concatenate, iterate; define, find; allocate, reset | iteration state shared by nested loops, all-at-once freeing, limits |
| **Type tables** `c-lib/src/tbl-*.c` | a loaded table with resolved references and tag forms | load, link, decode, encode, print, free | decoding by interpretation, with a stack of tags |
| **Generic decoder** `c-lib/src/tbl-gen.c` | stack of tags and lengths, `rewindsize`, position of the buffer | decode a buffer by a table, reporting to callbacks | what does not fit is decoded "in simple mode": tags already read are read again |
| **Compiler core** `compiler/core` | the parse tree of all modules | parse, link types and values, expand macros, normalise, find recursion, check, sort by dependency, write tables | several passes that each rely on what the last one left; names are looked up while lists grow and references are linked; a tag may be taken away in four places |
| **Type-table codec** `tbl-enc.c`, `tbl-dec.c` | the static stack `tlStkG` of open tags | encode and decode a value by a table | one decoding that fails leaves its tags for the next |
| **C back end** `compiler/back-ends/c-gen` | the tree with generation data | print encoders, decoders, printers, free routines | the printed text is what runs: each tag, end and optional element has code of its own, in four variants |
| **C++ back end** `compiler/back-ends/c++-gen` | the same | print classes | objects are decoded into again; SET is sorted at run time |
| **C++ runtime** `cxx-lib` | `AsnBuf` segments, `AsnBufBits` with an octet being written and one being read, one class per type | as in C, with exceptions, and PER | the same; in PER writer and reader must pass over bits alike, each by rules of its own |
| **Python runtime** `py-lib` | a buffer object, one class per type | as in C | an encoding made in one language is read in the others |
| **Tcl interface** `tcl-lib`, `tcl-asn` | a value tree in an interpreter | get, set, encode, decode | a second generic editor over the tables |
| **Table tools** `tbl-tools` | none | print, dump, decode from the command line | callers of the tables |

Interactions: generated code, and the interpreters of type tables, call the BER
codecs; these call a buffer through `GenBuf` or, by macros, directly; values are
allocated in the arena and held in `AsnList`s; decoding errors leave by `longjmp`
through all of these layers at once. The compiler writes type tables
(`gen-tbls.c`), the tools load them (`tbl-util.c`), and `tbl-dec.c`,
`tbl-enc.c` and `tbl-gen.c` interpret them.

The hazards found while reading are listed one by one in `PROJECT.json`, at the
line where each bites, with the property that would catch it or why none does.

## 2. Modules

| module | models | how |
|---|---|---|
| `ByteStream` | what a buffer promises its callers | a string of bytes growing or shrinking at its front, two error flags |
| `ExpBuf` | `exp-buf.c` | every routine an action, on a sequence of blocks; the routines that loop over blocks advance by one block per step, and their state is `call` |
| `ExpBufSession` | a caller that keeps to the modes | `ExpBuf` and the mode, with the mapping to `ByteStream` |
| `ExpBufProofs` | - | the proofs about `ExpBuf`, and that `ExpBufSession` implements `ByteStream` |
| `SBuf`, `SBufSession` | `sbuf.c` and such a caller | as above, on one block |
| `SBufProofs` | - | the proofs about `SBuf`, and that `SBufSession` implements `ByteStream` |
| `TypeTable` | tables, tags and lengths, leaf contents | constants `Type` and `Def`; operators |
| `TblGen` | `tbl-gen.c` | the C calls in progress are the sequence `frames` |
| `TblGenProofs` | - | the proofs about `TblGen` |
| `TypeGraph` | the definitions of one ASN.1 module after normalisation, `GetBuiltinType`, `IsCPtr`, `IsCxxPtr`, the reference lists | variables `types`, `target`, `recursive`; operators; the notions the properties compare with (reachable, has a finite value) |
| `Recursive` | `compiler/core/recursive.c` | a call of `MkRecType` is a frame, the marks are `entered` |
| `Dependency` | `compiler/core/dependency.c` | the three calls of `RemoveAndSortIndependents` one definition per step, the lists as sequences |
| `Compiler` | steps 7, 9 and 10 of `snacc.c` | `Recursive`, then `GetType` over every definition, then `Dependency` |
| `LinkTypes` | names and definitions in the modules of one call: the import lists that `y.tab.y` makes, `link-types.c`, `exports.c`, the lookups of `snacc-util.c`, the check for names defined twice | a loop over modules, lists or references is the set `todo` of places it has not come to, taken in order; reference definitions of what a name denotes, from the modules as written |
| `LinkProofs` | - | the proof that `LinkTypes` links or refuses as it should |
| `GraphProofs` | - | what reachability, chains of references and finite values are, for every module: the lemmas of the next two, and of `LinkProofs` |
| `CompilerProofs` | - | the proofs about the walk for recursion and its warnings |
| `OrderProofs` | - | the proofs about the sort: that it loses nothing, and the order it leaves |
| `Ber`, `Oid` | the content codecs `asn-*.c` of the C library: tags, lengths, ends of contents, INTEGER, BOOLEAN, NULL, OCTET and BIT STRING; object identifiers and character strings | operators on a cursor: what is left of the buffer, the octets counted, the read error, the result |
| `CxxBer`, `CxxStrings` | the same of the C++ library, without REAL and ANY | the same cursor; a read past the end throws, a decoder is a method of an object that may hold a value |
| `PyBer` | the decoders of the Python library, and what it encodes of an INTEGER | the same cursor |
| `Contents` | a process that encodes a value by one library and decodes it by one of three, again and again | the modules above, the wire, the static `unusedBitsG` |
| `AsnTypes` | nothing: types as written, and what X.680 and X.690 say of their tags, BER and DER encodings | the reference definition the five modules below are compared with |
| `FrontEnd` | the parser's tags (`y.tab.y`), `normalize.c`, `err-chk.c`, the types `gen-tbls.c` writes | operators from a written type to the compiler's |
| `GenCode` | the encoders and decoders `c-gen` prints (`gen-enc.c`, `gen-dec.c`), and `GetTags` | one operator per routine that prints, evaluated on values and cursors |
| `GenCxx` | the classes `c++-gen` prints | the same, calling `CxxBer` |
| `TblCodec` | `tbl-enc.c`, `tbl-dec.c`, and the tag forms of `tbl-util.c` | the same, with the static stack |
| `Codec` | senders, receivers and the wire between them | `FrontEnd`, then any encoder, then any decoder, one message after another |
| `BufBits` | `AsnBufBits` of the C++ library (`asn-bufbits.cpp`) | a record of its fields; one operator per method, on octets as numbers |
| `Per` | `PEnc` and `PDec` of the C++ library's types and of the printed SEQUENCE, SET and CHOICE | a type is a record, its constraints a sequence; one operator per method, from buffer to buffer |
| `PerSession` | a program that writes values to one buffer of bits and reads them, in turns | `Per`, and what was written and not read yet |
| `AsnList` | `asn-list.c` | every routine an action on the pointers of lists and nodes; the routines that loop advance by one node per step, and their state is `call` |
| `AsnListSession` | callers of the lists | `AsnList`, and the sequence of nodes that each list should be |
| `AsnListProofs` | - | the proof that the pointers are these sequences |
| `MC*` | - | instances for TLC |

### ExpBuf

`chain[1]` is the last buffer of the C list: a write that fills a block moves to
the previous one, here the next index. A block is a record of the fields of
`struct ExpBuf`; pointers are offsets into `mem`, whose cells hold bytes or
`Junk`, the content of fresh memory. `h` is the block the caller's handle is on,
`ret` what the last call handed out. A call whose loop visits several blocks
stays in `call` between them, and only that call can go on. Allocation fails
when `MaxBlocks` blocks exist. `ExpBufSession` adds what every encoder does -
reset, write, reset, read - and there the list is one byte string:
`DataFrom(h)` while writing, `Unread(h)` while reading. A request that is in progress has
not touched the stream: what it has moved is put back in `StreamData` until it returns.

The session resets for reading through a copy of the handle, the way the
examples do. Through the handle itself (`BufResetInReadMode(&b)`, as generated
DER code does) the code loses data: run `expbuf_reset`.

### SBuf

The same for one block, which keeps stricter promises: two constants of `ByteStream` say so.
With `WritesWhole` a segment that finds no room is not written at all (`sbuf.c:389`), and
a later one that does is; an ExpBuf writes the part that found room and then
nothing. With `ReadsExact` a read gives all there is up to what was asked for, and
whatever is missing sets `readError` for good (`sbuf.c:258`, `:346`), but in the segment
routines. An ExpBuf may stop at the end of a block that another call has just finished, its flag
goes with the block, and `ExpBufSkip` never sets it. So that `ByteStream` knows
what was asked for, an SBuf's segment reads are requests too, in two steps like the others.
What each variable of `ByteStream` is there has a name, so that the proof can speak of it.

### TblGen

A frame is a C call of `TDEDecodeType` or `TDESimpleDecode` with its locals;
`tlStk` and `rewindsize` are the decoder's fields. `TDEPushTagsAndLens` is one
action per tag; when a tag does not match, its frame returns FALSE and all tags
read since it began are to be read again (`PushMismatches`). A `longjmp` empties
the frames. Callbacks are not modelled beyond their right to stop the decoding
at any step (`CallbackStops`). Where the code reads outside its data, the model
is nondeterministic: the tag peeked past the end of the data
(`asn-tag.c:119-129`, an uninitialised array) may be any octet, the length before
the stack (`tbl-gen.c:47` with no tag open) any answer. A primitive value of
indefinite form, which BER does not have, asks for 2^w - 1 octets, and the decoding ends there.

`TypeTable` states what is assumed of a table: only references and CHOICEs have no
tags, a list has the type of its elements (`TableAssumption`); and octets are numbers
from 0 to 255 (`OctetAssumption`).

`TagsInPlace` says that each call in progress finds the tags of its own type
at its place in the stack. `StackMatchesCalls` says more, that nothing else is on
the stack. This is so on the inputs of the run, and on every input if each type has
one tag; section 3 has the tables and inputs where it is not.

### TypeGraph, Recursive, Dependency, Compiler

A definition is a record: its kind, the elements that are references (`refs`,
each with its target and whether it is OPTIONAL) and the number of elements of a
library type (`others`). Nothing is nested, for `normalize.c` has moved every
nested constructed type to a definition of its own. `IsModule` says what the passes
are given: references that are linked, one of them in a definition that is a
reference, none in a library type, OPTIONAL nowhere but in a SET or SEQUENCE, and
in a CHOICE at least one alternative (`y.tab.y:1376-1440`; "..." alone is an element).
What the properties compare with is defined without a walk: what a definition reaches
(`ReachedBy`) and which definitions have a value of finite size (`Finite`, from `Built`).
`SortTypeDependencies` first puts the definitions in four groups, one definition per step (`GroupTypeDef`:
`prims`, `noRefs`, `notRefd`, and `tdl` for the rest). Every loop over `tdl` is
then walked by the place `at` of its cursor, up to the definition `last` the code
compares with: the rounds of `RemoveAndSortIndependents`, where a definition that
is taken out moves to `subList`; the loop that divides `tdl` into recursive
definitions and `nonRec`; and the one that sets the lists of C apart (`cLists`).
`linear`, `rec` and `sortedNonRec` are the lists `SortTypeDefs` keeps between its
calls, and `sorting` says which part is running: `group`, the call `all`,
`divide`, the call `nonRec`, `strip`, the call `weighted`, `done`.

`GetType` is modelled as the loop it is: on a circle of references (`A ::= B`,
`B ::= A`) it does not end, and the compiler hangs after the warning that `A`
"can hold no values". So `Terminates` asks for termination only when every
definition leads to a built-in type, and `InfinityWarned` says that the hang
comes after a warning.

Left out: definitions of other modules (`IMPORTTYPEREF`), object classes, the
Python and IDL back ends (which have no `cTypeRefInfo`, so that the third call
finds no references), and references that normalisation has expanded but
`localRefCount` still counts.

### LinkTypes

A program is the sequence of modules of one call, in the order of their files. A
definition has the references and selections that `TypeLinkType` comes to, in that order,
wherever they are nested. `parse` is the parser's part: every `Mod.Name` it meets
enters the import lists of its module (`AddPrivateImportElmt`), so that these differ
from what was written before a name is looked up. `imports` links every import list
(`LinkImportList`), `types` every reference; a selection (`LinkSelection`) follows the
references that are linked by then. A module with an error ends the compiler only behind
its loop, so that the other modules are still linked. `check` is the part of STEP 8 that
compares names.

`NamesAreLinked` compares the links with `Denoted`, which looks at the written modules
alone, and says that right programs are accepted and others refused. Its
exceptions (`NameFirst`, `Leaked` and what follows from it, `LinkedLater`) are
disagreements of the code with its comments (section 3, "Of the compiler");
without any of them it is violated. `IsProgram` is what the parser makes of the files: a definition
that is a reference begins with it, and a selection follows its reference.

For programs of every form the property had to say three things more, each of which came
out of the proof and is now among the programs of the run. Two modules may have one name
and different object identifiers; a written list that bears one of the identifiers then means
one module, but another list from that name, without an identifier, means two, and
`Mod.Name` is looked up by the name alone: the lists from one name must mean one module
(`ModulesKnown`). An element that `Mod.Name` adds may bear the name of another import, not
only that of a definition (`LeakClashes`). And a name must be exported by the module that is
linked, whichever others its list might mean.

Left out: values and object classes, which are linked by the same lists;
`importRefCount`, which is only printed; object identifiers that are not numbers yet.

### Ber, Oid, CxxBer, CxxStrings, PyBer, Contents

Decoders of the C library read with routines that give zeros past the end and set a
flag, count the octets they take, and look at the flag only where the code does;
`longjmp` is `ok = FALSE`, and `Then` goes on only without it. In C++ and Python the
read itself throws, so that `ok` falls at once. `old` is what a C++ object holds when it
is decoded into, and `kept` says that some of it was left there.

`Contents` encodes a value at an edge (of a sign octet, of a length, of a tag, of an arc, of a
character), with the encoder of C or of C++, or takes any form that BER has for a string: whole,
in pieces, nested once, each definite or not. The octets are cut anywhere or followed by
more, and any of the three libraries decodes them (`Decode`), so the programs that the compiler
prints are compared with each other and not only with themselves. What a library is known to
get wrong is an exception inside the property, with its line in the comment; without any one
of them the property is violated. `ENUMERATED` is INTEGER by macro. REAL is not modelled.

### AsnTypes, FrontEnd, GenCode, GenCxx, TblCodec, Codec

A message goes through everything the project has: `FrontEnd` makes of the
written type what the compiler has in its tree when code is printed
(`Compiled`), or what it writes into a table (`Tables`), and drops the types it
has errors for (`Accepts`). What is then sent and received is computed from that
tree, by the printed C code, by the printed classes or by the table; what it
should be is computed from the written type by `AsnTypes`, which shares no
definition with the compiler's side but the shape of types and values.

`FrontEnd` keeps a node's own tags, a flag for each (was EXPLICIT written?), and
`implicit`, as the parse tree does. Tags are taken away in four places: by
`TaggedType` in the parser, when a nested type becomes a definition (`RefToNew`),
when a selection is replaced (`Selected`), and along implicit references when
they are collected (`FollowTags`). Definitions are taken bottom-up: what COMPONENTS
OF copies has been normalised. In `GenCode` a printed encoder is evaluated with
its octets in their final order; the code writes backwards. The classes of
`GenCxx` throw at once when data end, always sort SET and SET OF, and decode into
an object that may hold an earlier value of the same type. `TblCodec` has the
stack that outlives a `longjmp`, and a history, `oddities`, of the two known
reasons for which the code refuses what is valid.

### BufBits, Per, PerSession

A buffer of bits keeps full octets in a stream and the octets being written and read
apart, each with the number of its bits that are free or given out (`wpos`, `rpos`);
`left` counts the bits to be read. Octets are numbers and shifts are arithmetic, since
which bits of an octet come where is what the code is about. An exception sets `ok` to
FALSE, and `Get` goes on only without one. Decoders leave what they read in `val`.

`PerSession` is the sequence of calls of `constraintTest_main.cpp`: values of any
catalogued type are written one after another and the first one unread is read,
now or later, on an aligned buffer or not, so that every value meets octets already
begun. What is known not to come back is not left out: it is written and read,
and sets `spoilt`, since bits after it are out of place too. `Flawed` says when, each
of its clauses is one of the disagreements listed in section 3, and without any one of them
`PerRoundTrip` is violated. `cut` is the case that a read took the octet
being written; values written before it must still come back.

Left out: extension markers, wide strings, constraints of named bits, and buffers made
from received octets, from which no bit can be read (section 3).

### AsnList

A node is an element of `Node`, a pointer is one or `NULL`, and what is not
allocated holds `NULL`. The four routines that insert are one operator,
`NewNode`, which puts a node between two neighbours: the last node and none, none
and the first, the current node and the next, the previous and the current one.
The caller writes the datum into the place it is given at once, so a node gets it
with its allocation. The questions `GetAsnListElmtIndex` and `GetAsnListElmt` walk
with the list's own current node, one node per step (`LoopGoesOn`), and set it back
(`LoopReturns`); `AsnListFree` frees node by node. The callers of `AsnListConcat`
free the head of the second list and this is part of the action.

`AsnListSession` keeps beside each list the sequence `order` of its nodes and the
place `at` of the current one, changed as the comments of `asn-list.c` say ("After
removal the current pointer will point to the next node in line, or NULL"). They
decide nothing. `ListsAreSequences` compares both, also in the middle of a loop.
`AsnListSort` has no caller and is left out.

## 3. Runs

| run | question | bounds |
|---|---|---|
| `expbuf` | do pointers, written bytes and reads stay in order whatever is called, in whatever mode? does every loop end? | 2 blocks of 2 bytes, segments to 3: a segment fits, fills, or crosses; allocation fails at the third block; one byte value, for only written and unwritten are told apart |
| `expbuf_session` | is a multi-block list one byte stream? | the same with 2 byte values, interchangeable: an order can be wrong |
| `sbuf` | the same safety for the simple buffer, and is it a byte stream that writes whole segments and flags every short read? | blocks of 0 to 3 bytes, segments to 3 |
| `tblgen` | does the stack follow the calls, is the report right, are valid values accepted, does it end? | about 1500 buffers: all encodings of the root type with lists of up to 2, and misfits nested to depth 4, definite and indefinite, cut after every octet, and a primitive value of indefinite form; stack of 4, one less than the deepest |
| `compiler` | is recursion found and warned of, does the sort lose nothing and keep what its comments say, do the passes end? is each name linked to what it denotes, or the program refused? | all 8000 modules of three definitions out of 20 forms each, for C and C++: every graph with a cycle of one to three definitions; 864 of four around two cycles, in every order, since a non-recursive definition between two cycles needs four; 10992 programs: two modules in both orders, of up to two definitions in eight forms, with five lists of imports, and three modules whose names and object identifiers agree or not, the first with up to three lists from one name, by which both others may be called |
| `contents` | is what one library encodes what each library decodes, in BER, and in PER within C++? is a short read noticed? are linked lists the sequences their callers count on? | 625 words with octets from {0, 1, 127, 128, 255}; lengths, tags, arcs and characters on both sides of every octet they need; strings of 0 to 3 octets, in at most three pieces, nested once; 57 character strings of eight types and eight that are none, four of them in pieces; three decoders; for PER, 63 values of 41 types and 7 that constraints exclude, every two of them in every order of calls, aligned and not; a fragment of 136 octets instead of 16384; two lists, four nodes, two data: an insertion in the middle of a list, and a concatenation of two lists of two |
| `codec` | is what each encoder writes BER, or the one DER encoding; does each decoder take every encoding, and nothing cut short? | 21 types, seventeen accepted, one to three values each; stack of 4, as deep as the deepest type; one octet found by a peek past the end, the same in a whole decoding; an object holds at most one earlier value |
| `expbuf_reset` | after `ExpBufResetInReadMode` on the handle, is the first byte next? | violated |
| `tblgen_loop` | does a SEQUENCE end whose element fits by its first tag only? | violated |
| `compiler_order` | is what a definition contains by value declared before it? | violated |
| `gen_list` | does a printed decoder take a list of explicitly tagged strings? | violated |
| `gen_der` | is a SET OF under DER in the order of its encodings? | violated |

The first seven pass. The last five show where the code does not do what its own
comments or assertions say; `PROJECT.json` quotes them.

The inputs of `tblgen` leave out the situation of `tblgen_loop` and a second one
that breaks an assertion of the code (`tbl-gen.c:265`, below): an element that fits by its first tag only is not under a
SEQUENCE of the table (`Root` meets such elements inside a SET, a list and a
CHOICE), and a refused tag is never followed by an octet zero that belongs to
its parent.

What the sort does keep is in `compiler`: a definition that is not recursive comes
after all it refers to (`ReferredFirst`), and a recursive one after the recursive
ones it contains by value, unless it contains a knot of them (`ByValueFirst`).
What is lost in between is `compiler_order`: a recursive definition that contains
a non-recursive one, when that one depends on another cycle.

The catalogue of `codec` has each way of tagging before each kind of type, through
references with and without tags, under EXPLICIT, IMPLICIT and AUTOMATIC TAGS;
elements that may be absent at each place of a SEQUENCE; a SET with and without
optional elements; lists of tagged members and of untagged CHOICEs; empty SET and
SEQUENCE; COMPONENTS OF and a selection; and four types that must be refused,
because elements begin alike or an IMPLICIT tag has nothing to replace. Left out
are the types of `gen_list` and `gen_der`, and those of the disagreements below;
the C++ programs do not know the ninth type, whose members' tags their lists lose.
SET OF has at most two members where it is sorted by the C code: the comparison is
no order, so that with more the result depends on the library's `qsort`. Tags are
below 31.

The PER part of `contents` has two values in a buffer, since a value meets an earlier
one only in the bits of the octet that one left unfinished, in the alignment and in what was read
meanwhile; the catalogue leaves one, two, three and more bits. Ranges of INTEGERs lie on both sides of
255, 256 and 65536, where the code changes its form. `l_16k` is as small as the two
forms of a length allow (129 octets need the second), so that strings of one
fragment and more are short. SET and CHOICE have elements of distinct tag codes. Its
three parts have nothing in common but the process: none goes on while another
has something begun. Two data suffice for the lists, since a question only compares one with another.

More disagreements were seen while modelling and have no run. Those of the buffers:

- an empty segment is reported as the end of data (`exp-buf.c:749`, `:762`);
- `ExpBufSkip` past the end of data leaves `readError` clear (`exp-buf.c:727`):
  the loop ends on the NULL segment before the test;
- `ExpBufResetInWriteRvsMode` marks one block only, and a read passes over that
  empty block to an old one (`exp-buf.c:390`);
- `SBufPutSegRvs` and `SBufPutByteRvs` do not look at `writeError`
  (`sbuf.c:399`), so writing in read mode goes through.

Of the tables:

- while tags wait to be read again, the end of an indefinite form is looked for in
  the buffer (`tbl-gen.c:126`), against the assertion at `:265`: so with a SEQUENCE OF of a SEQUENCE
  (tag 49) whose element is `[0] EXPLICIT INTEGER`, on the octets 48 128 49 128 160 128 0 0 0 0 49 0 0 0;
- `TDEPushTagsAndLens` sets `rewindsize` to 0 as soon as all tags of a type match
  (`tbl-gen.c:252`), although more tags may wait: those stay on the stack for good. So with a
  SEQUENCE OF of a SET (tag 49) whose element is an INTEGER with the tags 160, 161 and 2, on 48 9 49 2 160 0
  161 0 1 1 7: `StackMatchesCalls` does not hold of every table;
- when a tag that is refused has no content, what follows it waits too and is popped in its
  place (`tbl-gen.c:107`, `:213`; the message at `:265`), so that an element is lost: on the table
  of the run with 48 7 161 2 160 0 1 1 7;
- an INTEGER of no octets has one read and not counted, so that the number reported is
  not what was taken from the buffer;
- an untagged CHOICE as the root makes `tbl-gen.c:464` read the length of a tag
  that is not there;
- the elements of a SET are counted and not told apart, so that one mandatory element
  twice passes for two (`tbl-dec.c:210`);
- a constructed string of indefinite length has its end looked for twice
  (`tbl-dec.c:364`), and a SEQUENCE looks for an optional element past its own end
  (`:149`): the two `oddities`;
- `TblSetTagForms` miscounts for `[1] IMPLICIT` a reference to an explicitly tagged
  type, and for `[1] EXPLICIT [2] IMPLICIT` a reference (`tbl-util.c:266`);
- `tbl-util.c:102` passes the buffer where its handle is taken; `tbl-enc.c` does not
  compile with `USE_INDEF_LEN`.

Of the content codecs:

- an unsigned INTEGER of 2^31 or more gets a zero in front, which the comment at
  `asn-int.c:298` does not expect; the count of unused bits is static
  (`asn-bits.c:30`); a three-octet length ends at 16777126, not 16777215
  (`asn-len.c:91`, and in `asn-len.cpp`);
- the table of masks for UTF-8 (`asn-UTF8String.c:33`); `CvtUTF8String2wchar` goes on
  to a zero octet, whatever `octetLen` says;
- a RELATIVE-OID of one arc, and the last `next` of a list of arcs
  (`asn-relative-oid.c:247`);
- in C a BMPString or UniversalString is changed to wide characters wrongly as soon as an octet is
  128 or more (`asn-BMPString.c:60`, `asn-UniversalString.c:63`: `char` is signed); a VisibleString
  may have control characters, in C++ only 32 to 126;
- an INTEGER without contents takes an octet that is not its own and does not count it
  (`asn-int.c:208`). None is sent;
- in C++ a BIT STRING in pieces is lost (`asn-bits.cpp:844`); with none the loop to
  `deck.end() - 1` of an empty deque may read memory that is not the deque's (`:859`; the model
  chooses whether it does, and then no value is given); the pieces of a character string
  are counted twice (`asn-stringtype.cpp:510`), wide strings are refused or misread in pieces
  (`:741`, `:1310`), a UTF8String is read to its first NUL (`:1413`), and an alphabet is
  checked only when encoding (`:454`); `GetOidArray` adds to what its caller's array holds
  (`asn-RelativeOid.cpp:97`);
- in Python a tag code of 31 to 127 is refused, and any other is taken modulo 256
  (`asn_base.py:140`); a length of the long form is counted one octet short
  (`asn_buffer.py:42-54`); a constructed string is taken for its value; `AsnBool.value()` sets what it
  should return, so that FALSE is always encoded (`asn_bool.py:37`); a tag is written as one
  number (`asn_base.py:133`), so that nothing it encodes can be decoded.

Of the compiler:

- a definition that is a list of itself and holds no data is not warned of
  (`recursive.c:10-11` and `:159`), and the alternatives of a CHOICE of several are taken for
  optional (`:133-141`), so that one is not warned of that can only be itself;
- `snacc.c:834-835` says "Currently the recursive information is not used
  elsewhere"; `dependency.c:396` uses it;
- `Mod.Name` where the module has an import list from `Mod` already is added to that list
  without its private scope (`snacc-util.c:193-200`; the comment at `:159-160` promises it):
  the plain name is then taken for it, or a definition or an import of that name is
  "multiply defined";
- `LookupModule` takes a module by its name although a later one has the object identifier
  asked for (`snacc-util.c:592-598`; `:569` says "if oid is not null, lookup done only by oid"), and
  of two modules with one name, one of them without identifier, it depends on their order
  whether they conflict (`snacc.c:1571`);
- a selection through a reference that is linked after it is refused: "SELECTION types must
  reference a CHOICE type" (`link-types.c:655-662`);
- a selection under IMPLICIT TAGS loses the first tag of its alternative even where
  it has no tag of its own (`normalize.c:519`);
- `[1] [2] EXPLICIT Foo` under IMPLICIT TAGS marks the reference implicit, and the tag of
  `Foo` is lost (`y.tab.y:1504`, `normalize.c:353`);
- under AUTOMATIC TAGS the elements without a tag are tagged although others have one,
  and a reference with a tag stays explicit (`snacc-util.c:1640`, `y.tab.y:1097`;
  the compiler warns that they "are still experimental");
- after COMPONENTS OF has been replaced the loop goes on behind the first element
  copied (`normalize.c:477-481`), so that one which is COMPONENTS OF itself stays;
- SET under DER is sorted by tags with their form bit, ANY_FORM setting all
  (`tag-util.c:513`).

Of the C++ classes: tags on lists and on the members of lists are lost
(`c++-gen/gen-code.c:3787`); a DEFAULT in a SET, or of a type other than INTEGER,
BOOLEAN and BIT STRING, is written always; lists and strings of an object decoded into
again may keep what they held (`:2142`); nested pieces of a string end everything
uncounted (`asn-octs.cpp:604`); `AsnBuf::operator<` holds of two equal buffers
(`asn-buf.cpp:266`); an INTEGER without contents reads memory that is not set
(`asn-int.cpp:114`).

Of the packed encoding rules, which the library and the classes follow on both sides:

- `AsnBufBits` made from received octets has `m_ulBitsLeft` 0, so that every `GetBits`
  throws (`asn-buf.h:171-195`): only the buffer that was written to can be read;
- a read beyond the full octets takes the octet being written (`asn-bufbits.cpp:330`),
  with bits that are not written yet, and the next write starts a new one;
- `OctetAlignRead` takes the bits it passes over from `m_ulBitsLeft` even where there are
  fewer (`asn-bufbits.cpp:311`), and the unsigned number is then a very large one;
- `AppendTo` puts the last octet it had read and not the bits it was given
  (`asn-bufbits.cpp:218`): a SET OF BOOLEAN is all FALSE;
- a SEQUENCE OF without size is written as no octets, its number being that of
  `PERGeneral` (`asn-listset.h:61`), and one of a fixed size is written twice (`:113`, `:166`);
- a semi-constrained INTEGER is aligned when written and not when read; one from 4 to 4 is
  read as 0; an aligned range of 65536 and more has a length the library alone
  understands ("TBD", `asn-int.cpp:1031`);
- strings whose last character is small enough are written with eight bits a character and
  read as zeros, which `constraintTest_main.cpp:261-271` would report, and writing others
  changes the string itself to indices (`asn-stringtype.cpp:331`);
- an OCTET STRING is aligned where its upper bound is 2 or less (X.691: more), and for
  ranges of sizes above 32768 the encoders write too few bits;
- a REAL of no octets is aligned when read and not when written; an ANY whose value has no
  bits is not read; the indices of an ENUMERATED run downwards;
- the elements of a SET and the alternatives of a CHOICE are sorted by the code of
  their tags whatever their class, and the `ValueRanges` printed for the index of a CHOICE is not
  the virtual function that `PEnc` calls (`c++-gen/gen-code.c:1623`), so that it has no bounds.

The models contain these behaviours wherever the inputs above reach them.

## 4. Fairness

The program is sequential: a routine that has been called keeps executing.
`FairSpec` of `ExpBuf` assumes weak fairness of `Loop`, the steps of the one
call in progress, and nothing of the caller; `FairSpec` of `TblGen` weak
fairness of `Step`, a step of the decoder. `CallbackStops` is not assumed to
happen. `Compiler` assumes weak fairness of `Next`: one process, one pass after
another, and so does the run of the names. `Contents` and `Codec` state no fairness: nobody promises that a message
is sent or received. `TblGen` and `Compiler` stop when they have returned, so their
runs do not look for deadlock.

## 5. Proofs

`ExpBufProofs` proves for every `BlkSize`, `MaxBlocks`, `MaxLen` and `Byte`
allowed by the three assumptions of `ExpBuf`:

- `TypeCorrect`: `TypeOK` always;
- `PointersStayInOrder`: `dataStart <= dataEnd = size`, `curr <= dataEnd`, and
  `dataStart <= curr` unless a read error is set;
- `DataIsWritten`: every byte from `dataStart` or `curr` on was written;
- `ReadsAreInitialised`: no call returns an unwritten byte, except a peek of
  one byte at the end of data, which sets `readError`.

None is inductive alone. A reverse write copies from the block into its lower
part, so that it preserves `DataWritten` only where pointers are in order; a
move to a previous block needs that block to have room, which holds because
every block but the caller's first was allocated with `BlkSize` bytes; a read
returns written bytes only if `curr` is at written bytes even after wrong-mode
calls. The invariant `Inv` is the conjunction of a per-block predicate
(`GoodBlock`), the shape of the list (`GoodChain`), the call in progress and
the returned bytes. There is one lemma per operator on blocks (an operator
keeps a block good), one per update of the list, then one per action.

`ExpBufIsAStream` proves, with the same assumptions, that `ExpBufSession` implements
`ByteStream`: each step is a step of the stream, or leaves it alone. It is no
consequence of `Inv`, for the blocks below the handle's are as good when they are half
full or half read, and the stream would then have holes. What a session keeps besides
(`Kept`):

- the blocks below the one in use are full (`FullBelow`); in a reading mode their
  read pointers are at their first bytes and no `readError` is set (`ReadyBelow`).
  Hence a move to the next block neither passes a byte nor gives one twice, and the
  assignment to `curr` in `ExpBufGetSeg` changes nothing;
- a segment that is being written lies, as far as it is written, directly before the
  earlier data, and no fault is set (`SegInPlace`). When no block can be had, the stream
  has the part of it that found room, and the fault;
- a peek that has gone on to other blocks has gathered exactly what lies between its origin
  and where it is (`PeekInPlace`), and its origin had bytes to give, so that putting
  the handle back loses neither bytes nor a flag. It sets `readError` only
  in the block it came from: any other below is full, and not empty, because `BlkSize` is
  positive.

`DataFrom` is a recursive function; what it does with one block more (`WholeIsData`) and that
it depends only on the data of the blocks (`WholeOfSameData`) is proved by taking the least
number at which it fails. The lemmas named `...Maps`, one per action, do both at once:
the invariant is kept and the step is one of the stream.

For the passes of the compiler the theorems hold for every set `Module` of
modules that `IsModule` describes (references that are linked, one of them in a
definition that is a reference), of any size, and for every `Target`.

`CompilerProofs` proves of the search for recursion:

- `MarksAreThePath`: the marks are the definitions of the walk, each once
  (`EnteredIsPath`). The walk enters a definition only when it is not marked, so the
  frames are distinct; leaving one clears exactly its own mark because no other
  frame is on it.
- `RecursiveTypesAreFound`: a definition is marked if and only if it reaches itself
  (`RecursiveFound`). That a mark is deserved follows from the path. That none is
  missing is hard, because the walk does not enter what it is in already: what such a
  definition still leads to is found by the frame that is in it. The
  invariant (`StillAhead`, within `FoundInv`) says that, if there is a way back to the start
  and it was not found yet, then one begins at an element that some frame has still to come to
  and keeps clear of the path up to that frame. The walk asks
  three things at once - is it met at all, with nothing but it, without a way
  round it - and the argument is made once, for the steps that each of these
  follows (`Steps("any")`, `"only"`, `"must"`).
- `InfinityIsNoticed`: what has no finite value is warned of, or contains what is,
  and `GetType` hangs only after a warning (`InfinityWarned`). Every definition
  without a finite value must contain another; so a circle is among them
  (`CycleAmong`), and the walk that begins on it has found it. The hypothesis
  `ChoicesHaveAWayOut` is that of the property: section 3 has the CHOICE that is not
  warned of.

What these rest on is in `GraphProofs`. `ReachedBy`, `Chain` and `Finite` are recursive functions
that stop after as many rounds as there are definitions, and no tool here takes an induction
theorem with an operator for a parameter. The lemmas are proved for functions and sets
instead, by taking the smallest number that has not the property wanted. They show that
those rounds are enough: each of the three is the smallest set closed under its step, so
that all further proofs use only this.

`OrderProofs` proves of the sort:

- `NoDefinitionLost`: the list at the end has every definition once
  (`NothingLost`). A definition passes through up to five of ten lists. The
  invariant `HeldOnce` counts their places together and says that what they hold
  is `1 .. Places`; as many places as definitions means that none is in two. It
  takes `Unused` (a list about to be assigned is empty: assigning it loses
  nothing) and `CursorInPlace` (what is removed from `tdl` is what moved).
- `IndependentsInOrder`: `TakenInOrder`, since a definition is taken out only
  when it names nothing else in `tdl`, and what is taken out later was in `tdl`
  then. That it may name itself is no exception, because `tdl` holds it once
  (`ListsDistinct`) and it has left.

and, of the two passes together:

- `CompilerTypeCorrect`: `TypeOK` of the whole. The cursor of a frame is at
  an element of its definition or behind the last, which takes the path of the walk;
  a list holds nothing but definitions.
- `ReferredComeFirst`: a definition that is not recursive comes after all it refers to
  (`ReferredFirst`), and the second call leaves nothing over, as `dependency.c:330-335`
  says without a reason. While a round has taken nothing out, each definition that it
  has passed refers to one still there (`Rounds`); so what is left
  when a call ends is closed, there is a circle in it, and a definition on a circle was marked
  recursive (`RecursiveFound`, `NoLeftovers`) and not given to this call. Each
  list in the making is ordered (`Ordered`), and what may follow what, between lists, is kept by
  what they hold (`Groups`, `Parted`), since the code concatenates them at the end.
- `ContainedComeFirst`: a recursive definition comes after the recursive ones it
  contains by value, or contains a knot (`ByValueFirst`): whatever the third call leaves
  over leads to a circle of references by value (`LeftIsKnotted`).

`LinkProofs` proves `ProgramIsLinkedOrWrong`: `NamesAreLinked` for every set of programs that
`IsProgram` describes, of any number of modules, lists, definitions and references.

- The tables of a step change while it goes through its places, but what it makes of a
  place does not depend on the order. `LinkOf` and `TargetOf` say from the modules and the import
  lists alone what a reference is linked to; the invariant (`LinkInv`, one part for each step)
  says that a place is linked so, or still to come. A count grows with each link
  and is the number of references linked by then (`FS_AddElement`).
- An accepted program is right because no place of a step had an error (`NoListFails`,
  `AllLinked`); then a name has one meaning (`Denoted`), and it is the link, but for `Leaked` and
  `NameFirst`.
- A refused program is wrong because an error has a cause that is there for good (`Cause`): a
  list that fails, a reference that resolves to nothing, a selection that comes
  before a reference it needs is linked (`LinkedLater`), or one that arrives, by links all made, at a
  CHOICE without the field. Each of them is shown to contradict a right program.
- The parser's additions only append, to the lists and to their elements (`ParserAdds`), so that a
  written list is found again in front of what was added.

`SBufProofs` proves for every `MaxSize`, `MaxLen` and `Byte`:

- `SBufTypeCorrect`, `PointersStayInBlock` and `NothingUnwrittenIsRead`, of any calls in
  any mode: the data end with the block, no read passes them, and while `readError` is
  not set none begins before them; from `dataStart` and from `readLoc` on, there is no
  byte the caller's block came with, and none is returned. The invariant `Good` is
  about all three at once: reverse writes go on after a fault and in read mode, so that
  which bytes may be read depends on both pointers and the flag.
- `SBufIsAStream`: `SBufSession` implements `ByteStream`, by the mapping that
  `SBufSession` names. Every call is a step of the stream or none, also the one that goes on
  writing after a fault, and the promises are those of `WritesWhole` and `ReadsExact`: nothing of a
  segment that does not fit, and a flag exactly where fewer bytes are given than asked for.
  Calls that leave the modes count as a reset, and the stream is empty until the next one.

`TblGenProofs` proves for every table that `TableAssumption` allows, every buffer and
every size of the stack:

- `TblGenTypeCorrect`: the bounds of the stack and of the buffer are kept. A pop needs the tag
  to be there, and what waits to be read again to be on the stack: `Covers` says that it
  lies above the tags of the running call, and `CallsOK` that the tags of a waiting call lie
  below those of its callee.
- `OpenTagsStayInPlace`: `TagsInPlace`, however often types are refused.
- `OneTagStackMatchesCalls`: where every type has one tag, nothing else is on the stack
  (`StackMatchesCalls`, with `TightInv`). With several tags this is false, section 3
  has the table; the run checks it on inputs that stay clear of that.

`AsnListProofs` proves of the lists, for any sets `List`, `Node` and `Data`, that
`NULL` is not a node being the only assumption:

- `PointersAreSequences`: `ListsAreSequences` always. The invariant has two forms.
  While no loop runs (`IdleInv`), the neighbours of every node are those of its
  place, the current node is the one at `at`, and each allocated node is at one place of one
  list; the last is what makes an update of two neighbours leave all other nodes
  alone. The four insertions need one lemma, for a new node at place `i`. While a
  loop runs, the same holds of all nodes but those already freed, and what a question
  has passed over is not what it looks for (`LoopInPlace`), which decides its answer.

Model-checked only:

- the liveness properties: fairness and ENABLED are out of the prover's reach;
- `NotRewindingAtEndOfTag` and `ConsumedAsReported`, which are false of some inputs (section 3)
  and checked on those stated there, and `DecodesValid`, which compares with recursive encodings;
- everything about encodings (`Contents`, `PerSession`, `Codec`), whose operators are
  recursive over types and values.

## 6. Plan

Done: the buffers (`ByteStream`, `ExpBuf`, `ExpBufSession`, `SBuf`, `SBufSession`),
the generic decoder (`TypeTable`, `TblGen`), the compiler's passes (`TypeGraph`,
`Recursive`, `Dependency`, `Compiler`), names (`LinkTypes`), the codecs from the written type to the
decoded value (`Ber`, `Oid`, `CxxBer`, `CxxStrings`, `PyBer`, `Contents`, `AsnTypes`, `FrontEnd`, `GenCode`,
`GenCxx`, `TblCodec`, `Codec`), the packed
encoding rules (`BufBits`, `Per`, `PerSession`), the lists (`AsnList`, `AsnListSession`), and the
proofs (`ExpBufProofs`, `SBufProofs`, `TblGenProofs`, `GraphProofs`, `CompilerProofs`,
`OrderProofs`, `LinkProofs`, `AsnListProofs`). Next, in this order:

1. Proofs: which tables besides those of one tag `StackMatchesCalls` holds of; type correctness of
   `Contents` and `Codec`.
2. Extensions in PER, and `GenCxx` on top of `Per`; ANY and NULL of `cxx-lib` beside `CxxBer`, the lists and the
   printed classes of Python.
3. `LinkTypes` in front of `FrontEnd` and of the passes; values and their links (`val-parser.c`, `link-values.c`).
4. `NibbleMem`: the arena, and the values in it when a decoding is given up.

## 7. Not modelled

- The grammar, names of values, values, macros and object classes, and the text of what is
  printed but for what it does: formatting, or lookups without a state to explore.
- REAL: floating point. The times, which are VisibleStrings by another tag.
- ANY and ANY DEFINED BY under BER, extension markers, and constraints under BER.
- ROSE, the segments of `AsnBuf` and the wide strings of PER in `cxx-lib`; lists, ANY, and the
  encoders of `py-lib`, whose tags are no octets; the Tcl interface.
- Reading and linking a table's file (`tbl-util.c`), printing and freeing values.
- Hash tables and the arena (`hash.c`, `nibble-alloc.c`), `AsnListSort`, and the macros of `MinBuf`.
- `ExpBufCopyAny` and `SBufCopyAny`, which read a length through a second handle, the
  second with the wrong argument.
