# A verification of extraterm-commands

`from` and `show` are two small C programs that run inside the Extraterm terminal
emulator. `from` asks the terminal for the contents of frames (files and command output
it keeps on screen) and writes them to stdout or to files; `show` sends files to the
terminal to be displayed. Both speak a line protocol with the terminal over the tty the
user types on, with a chain of SHA-256 hashes against whatever else arrives there.

This directory holds TLA+ models of the programs, translated from the C source, the
TLC configurations that check them on small instances, and proofs, checked by TLAPS,
that hold for every value of the constants.

To repeat the checks, in this directory: `tlc -config X.cfg M.tla` for the module and
configuration of a run in the table below, `tlapm M.tla` for the eight modules with
proofs (those that end in `_proofs`, and `SequenceLemmas`). `PROJECT.json` lists the runs,
the source lines behind each definition, the hazards, and for each property a faulty
variant of the code that violates it.

## 1. Inventory

### Frame upload: `request_frame` (`from.c:29-158`)
- *State*: the buffer `line`, which is not initialised; `previous_hash`; the parsed
  metadata; the output file. At the other end, the terminal and the frame it is sending.
- *Operations*: turn echo off, print the request, read and check the `#M:` line, then
  read and check `#D:` lines until `#E:` (success), `#A:` (failure) or any error.
- *Interacts with*: the terminal through the tty; the user, whose keys arrive on the
  same tty; its callers `output_frame` and `write_frame_to_disk`, by its result.
- *Hard*: lines lost, altered, inserted; hang-ups; the same line read again at end of
  file because the result of `fgets` is ignored; the prefix of a line is not hashed; no
  timeout.
- *Correct when*: callers get a prefix of the frame and nothing else, success means the
  whole of it and leaves nothing in the tty, and failure has a cause.

### The `from` command (`from.c:160-304`, `utils.c:50-86`)
- *State*: loop counter, exit code, temporary file, chosen name; the directory.
- *Operations*: output a frame; or save it: mkstemp, upload, look at the name, find
  another, rename, close, unlink, report.
- *Interacts with*: `request_frame`, tty echo, and every other process that works in the
  same directory.
- *Hard*: another process between `access` and `rename`; a kill between any two system
  calls; failures of one step of several; an exit code that is read and was never set.
- *Correct when*: no temporary file is left, a published file is a whole frame, exit status
  0 means that everything was delivered (with `--save` it may not: see 5), and no file name
  ever disappears.

### Tty echo (`tty_utils.c`)
- *State*: the global `old_tty_settings` and the list of exit hooks; the tty's own
  settings outlive the process.
- *Operations*: turn echo off, restore at exit. Called once for each frame or file.
- *Correct when*: echo is off during an upload and as before after the command.

### The `show` command (`show.c`, `extraterm_client.c`)
- *State*: loop counter, position in the file, `previous_hash`, `is_previous_hash`.
- *Operations*: open and `fstat` a file, write a header, a `D:` line a chunk, an `E:`
  line and a NUL; give up on an error.
- *Interacts with*: files that fail while being read; the terminal, which verifies the
  hashes and has to tell where a transfer ends.
- *Hard*: short reads, errors in the middle or at the end of a file, empty files.
- *Correct when*: the stream is a sequence of transfers that verify, and exit code 0
  means that every byte was sent once and in order.

### Arena (`libs/arena.h`)
- *State*: a list of regions, each a count of words used and an array; `begin`, `end`.
- *Operations*: alloc, realloc, reset, free.
- *Interacts with*: `from`, which keeps strings in it and installs it under the JSON
  parser (`json_set_allocation_functions`), and frees it as a whole.
- *Hard*: requests larger than a region or of no whole number of words, regions that are
  skipped, filled and emptied again.
- *Correct when*: a block keeps its contents until its owner changes it.

### Base64 (`libs/base64.c`)
- *State*: one group of three bytes or four characters.
- *Operations*: encode, decode and the sizes of both. `show` encodes chunks; `from`
  decodes what has come from the tty, before its hash is compared.
- *Correct when*: decoding undoes encoding, the code is Base64, and sizes hold.

### SHA-256 (`libs/sha256.c`)
- *State*: a block of 64 bytes, its fill, a 64-bit count of bits in two words, the hash.
- *Operations*: init, hash, done. *Hard*: the padding at 55 and 56 bytes, the carry.
- *Correct when*: what is hashed is the padded message, however it comes in pieces.

### Options (`libs/adopt.c`)
- *State*: position in argv, inside a cluster of short options, or after `--`.
- *Operations*: next option; parse all. Runs before anything else either command does.
- *Hard*: clusters, values in the same or the next argument, a lone `-`; the array of
  options found, with room for one an argument.
- *Correct when*: options, values and the list of files are those the line is written with.

### JSON (`libs/parson.c`)
- *State*: trees of values, each knowing its parent; an open-addressing hash table for
  each object; the memory all of this is allocated from.
- *Operations*: parse a text; make, set, look up, append, replace, remove and clear, with
  plain and dotted names; copy, compare, free; write a value as text, with its strings
  escaped; validate and decode UTF-8.
- *Interacts with*: `from`, which parses the metadata line and reads `filename` and
  `mimeType`; `show`, which builds an object and writes it; the arena, by which `from`
  replaces `malloc` and `free`.
- *Hard*: growing the table, removing from it, collisions; refusing a text at any depth;
  a `malloc` that fails half way through a copy or a dotted name; surrogates, overlong
  characters, strings cut off inside a character.
- *Correct when*: an object is a map, whatever its names hash to; a text parsed is the value
  it spells; what a failed call has allocated is freed, no block is freed twice, and the
  caller's values say what they said; two values are equal when they say the same, up to
  numbers that are near; a string read back is the string written.

### Shell integration (`setup_extraterm_*`)
- *State*: functions, a trap, `PROMPT_COMMAND` and other environment variables.
- *Operations*: set up; before and after a command; in zsh, before each prompt.
- *Interacts with*: the user's `.bashrc` or `.zshrc` and hooks, shells started from a shell,
  which inherit the variables but not the functions, and `screen`.
- *Hard*: being sourced twice, shells inside each other, a prompt command of the user's.
- *Correct when*: the terminal learns each line's exit status once, and the user's prompt
  command still runs.

### String helpers (`utils.c`)
File name extension, stripping blanks, hexadecimal. `find_suitable_filename` is part of
`from`, above.

The unit tests, the vendored test framework, and the build files do nothing when the
commands run.

## 2. Modules

| Module | Models |
|---|---|
| `FrameDelivery` | what `request_frame` promises its callers, without the protocol |
| `FrameUpload` | `request_frame` line by line, the terminal, the tty line; implements `FrameDelivery` |
| `TtyUtils` | tty echo, as operators on the tty of one process |
| `FromCommand` | `main` and `write_frame_to_disk` of `from`, several processes at once; uses `TtyUtils`, and `FrameDelivery`'s promise for `request_frame` |
| `Adopt` | the option parser, with the reading of a command line it is compared with |
| `ShowCommand` | `main`, `show_file`, `show_stdin`, `send_mimetype_data`; uses `Adopt` and `TtyUtils` |
| `BlockStore` | what the users of an arena rely on |
| `Arena` | `arena.h`; implements `BlockStore` |
| `ArenaReplay` | `Arena` with a history of its allocations |
| `PartialMap` | what a JSON object is to its users |
| `JsonObject` | the hash table of `parson.c` objects; implements `PartialMap` |
| `JsonValue` | JSON values, the text each is written as, plain and pretty, and when two are equal |
| `JsonParse` | the parser of JSON texts and its memory; fills the tables of `JsonObject` |
| `JsonDocument` | values built, changed, copied, compared and freed, in a memory that may be full |
| `JsonString` | strings as bytes: the UTF-8 check, escapes, surrogates |
| `JsonLibrary` | the parts of the library under one specification |
| `ShellSetup` | `setup_extraterm_bash.sh`, in shells started inside each other |
| `ZshSetup` | the prompt of `setup_extraterm_zsh.zsh`, in shells started inside each other |
| `Shells` | both: the first shell is one or the other |
| `Base64` | `b64_encode` and `b64_decode`, character by character |
| `Sha256` | `sha256.c` but for the compression of a block, as functions |
| `DataLine` | a line of data as both commands put it together from `Base64` and `Sha256` |
| `SequenceLemmas` | lemmas on prefixes, on sequences with an element removed or added, on sequences put together from parts, and on induction |
| `FrameUpload_proofs`, `FromCommand_proofs`, `Arena_proofs`, `Shells_proofs` | theorems |
| `ShowCommand_proofs` | theorems about `show`, and the lemmas on the option parser they rest on |
| `DataLine_proofs` | theorems about `Base64` and `Sha256` |
| `JsonLibrary_proofs` | theorems about `JsonObject` and `JsonString` |
| `MC...` | instances for TLC |

Operators named `Name_something` and marked *Faulty* are the variants `PROJECT.json`
lists under `mutants`; no specification uses them.

### FrameUpload
A line is a record: its prefix (`kind`), whether it is shorter than a prefix and a hash
(`short`), its contents and its hash. SHA-256 is a digest without collisions, and so
represented by the sequence of payloads it covers: `Digest(previous, data)` is
`Append(previous, data)`. `BadHash` is a field that no digest matches.

`pc` is `"meta"` while `request_frame` waits for the metadata line, `"body"` in its loop,
and then its result. Each way through the loop's body is an action: `RejectShortLine`,
`RejectHash`, `EndOfFrame`, `UploadAborted`, `WriteData`, `SkipUnknownLine`; the metadata
line has `AcceptMetadata` and `RejectMetadata`. All of them begin with `ReadLine`, which
at end of file leaves the buffer as it is. `previous_hash` moves on before the hash is
compared, as in the code. `turn_off_echo` at the start of `request_frame` is modelled
where the tty is, in `FromCommand`.

The terminal is not in this repository. It is modelled from what `request_frame` accepts:
`#M:`, `#D:` lines, then `#E:` or `#A:`, hashes chained. The tty line may lose a line,
garble it (contents, hash, prefix, or its end cut off), let the user type one, or hang
up. `line` starts as rubbish or as the last line of the frame uploaded before, because
the buffer is an uninitialised local.

### FromCommand
Each system call on the directory is a step, and processes interleave between them:
`MakeTemp`, `CheckName` (`access`), `find_suitable_filename` (one `access` a step),
`Rename`, `CleanUp` (`fclose`), `Unlink`. `Kill` may end a process anywhere, without exit
hooks. `request_frame` is a nondeterministic result. Two files `<<p, i>>` are never the
same: a file is identified by the process and frame that wrote it, and it joins `whole`
when it is closed after a complete upload, unless the disk is too full for it: for a
frame of `Oversize` that may be so, and nothing in the code notices (`Written`). `rc` is read
uninitialised after a saved frame (`from.c:280-298`): `ReportSaved` draws it from `Garbage`,
a set of any integers. `main` returns it if it is not 0, and `exit_status`, what is seen
outside the process, is its low 8 bits.

### Adopt
One step is one call of `adopt_parser_next`: a letter of a cluster, or an argument. The
options are a constant; `MCShowCommand` gives the table of `show.c:128-139`. Only the kinds
of options the commands have are modelled, and no sorting, which `ADOPT_PARSE_DEFAULT`
leaves out. `given` counts the entries of `given_specs`; when they outgrow the array
`status` becomes `"undefined"` and nothing more happens. A lone `-` is matched with the
first option that has no alias, and its value read past its end: `Beyond`, or what a null
byte there makes of it. `Written` is the reference: the meaning of a line, each
argument's added to that of the arguments behind it. `OptionsAssumption` says of the
options what is so of `show`'s: short names are switches', no two options share a
name, an option that takes a value comes before all others without an alias (a lone `-` is
matched with it), and `--` is one of the options (`from` has no option with a value: see the plan).
`LinesAssumption` says what arguments are.

### ShowCommand
`ParseOptions` is a step of `Adopt`; `AnswerOptions`, `NotExtraterm` and `Start` are what
`main` makes of the result. What the files hold is chosen when it is known which they are.
One action for each exit of the loop in `send_mimetype_data`: `SendChunk`, `ReadError`,
`EndTransfer`. `Read` is one `fread`: short at the end of the file or by an error, which
shows only as a count of zero without the end-of-file indicator. stdout is a sequence of
headers, lines and NULs, and `Received` what a terminal makes of it. `previous_hash` is a
fresh, uninitialised array for each file, which may hold what the call before it left there.

### Arena
Words and bytes are as in the code: `count`, `capacity` in words, data in bytes of which
`WordBytes` make a word. The capacity of a new region is the larger of
`REGION_DEFAULT_CAPACITY` and the request, both in words. The list of regions is a
sequence, `a->end` an index into it. `blocks` records what the callers hold, `Fill` is a
caller that writes. The Windows variant and a failing `malloc` (an assertion ends the
process) are left out. `ArenaReplay` remembers the order of allocations since the last
reset; its properties are those of `Arena` and one on that history.

### Base64
A step is one turn of a loop. An encoded chunk is decoded again in the same behaviour; a
text that is no code is decoded from the start. `Byte` is the conversion to `unsigned
char`; `b64_int` gives 0 for a character that does not belong, as in the code.

### Sha256 and DataLine
The hash is the sequence of the blocks that went into it, in order, so that what is hashed
can be compared with the padded message as FIPS 180-4 defines it. `BLOCK` and `WordBytes`
stand for 64 and 4; the test at byte 55 is in their terms. `Span[n]` is the number of values
that `n` bytes have, by which shifts and words are said. `LineHash` hashes the digest of
the line before, then the contents.

### JsonLibrary
`part` says which part of the library a behaviour exercises: one object's table, the
parser, documents, or strings. It is chosen at the start, and the variables of the other
parts stay at their initial values: the parts share operators (the parser fills tables with
`JsonObject`'s, documents are read with `JsonValue`'s) and no state.

### JsonParse
`pc`, `stack` and `result` are the recursion: a frame is an array or object being read,
with the key whose value is awaited. `Return` is the way of a complete value to the
container around it; `Unwind` is one function on the stack that frees what it owns and
returns NULL. Texts are made of tokens, chosen as the parser reads them, any next. Blocks
are known by the token they were allocated for, so that a block which is lost or freed
twice shows. The arrays inside a table or array are left out, and a failing `malloc` is
the business of `JsonDocument`.

### JsonDocument
Two variables of a caller (`held`) name the values it owns. A value is a tree, a call one
step. The functions of the library are operators on a tree and a memory, with an outcome:
what the tree has become, how many blocks are in use then, and whether the call has
succeeded. `malloc` fails when `MaxBlocks` are in use, and where an array may have to get
more room for an item, `tight` says that it has. `marked` holds the variables whose value
`json_object_dotset_value` has put into an object and, when it failed, taken out again
without clearing its parent (`parson.c:663-667`), so that no other function accepts it.
`last` is the last call, whether it succeeded and where it was made, for the action
properties. A number is a token with a value (`Number`), and two are equal when their
values differ by less than `EPSILON` (`Near`), as in `parson.c:2425`; other leaves are
compared by their tokens. In the code a table that has grown before the
`malloc` of a new key fails stays large; nothing a caller can ask shows it, and `SetMember`
leaves the object as it was. A value put into a part of itself
makes a cycle: nothing in the library looks for one, and callers here do not do it.

### JsonString
`pieces` is put together from bytes and escapes, lone surrogates and pairs among them. It
is read in two ways: as the memory of a C string, which ends at the first null byte or at
its end, for the UTF-8 check and for writing (`json_serialize_string`), and as the text
between two quotes, for `process_string`. `get_quoted_string` reads what was written.

### JsonObject
`names`, `values`, `cell_ixs` and `hashes` are one sequence of records, counted from 1;
`cells` holds positions in it, or `OBJECT_INVALID_IX`. Each operation of the library is one
action, because nothing else runs during it; its loops are recursive functions over a copy
of the object. `HashOf` is a constant: the hash function decides which names collide, not
what the table then does. A `malloc` that fails leaves the object as it was. It implements
`PartialMap`: looking up in the cells, along the probe sequence, is the refinement mapping.

### ShellSetup
`shells` is a stack: each shell waits for the one it has started. A prompt is one step:
`extraterm_postexec`, `PlainPrompt` where the functions are not defined, or `Recurse`,
where the guard at line 50 does not recognise the script's own prompt command. `RunLine`
runs a command line of up to two simple commands, for each of which bash runs the trap.
`.bashrc` is what the user makes of it before the script is sourced: nothing, set
`PROMPT_COMMAND`, put a command before or after what is there, or define a `preexec`. The
exported copy of `PROMPT_COMMAND` is split into words and not parsed at line 51, so only a
prompt command of one command can still work; `PromptCommandKept` is about that one. What
bash does is modelled from what the script relies on and was compared with bash itself.

### ZshSetup
A prompt is the sequence of the markers in `PS1`, each with the cookie of the terminal it is
for. `RunHook` runs the precmd hooks in their order, one a step, and then `WritePrompt` the
prompt; a hook may be the user's and replaces `PS1`, and so may a command line. The script
exports `PS1`, which holds the NUL that ends a marker; zsh cuts an exported value at a NUL,
so that a shell started from this one inherits a marker that is not `whole`. Another shell
may be started here, in `screen`, or in another terminal, with another cookie. What zsh does
is modelled from its documentation and source, as far as the script relies on it, and has not
been compared with zsh itself. The marker at the start of a command, which `preexec` writes
for each line, keeps no state and is left out.

## 3. Runs

| Run | Configuration | Distinct states | Shows |
|---|---|---|---|
| `upload` | `MCFrameUpload.cfg` | 272,576 | two disturbances: success, failure and the refinement of `FrameDelivery` |
| `upload_live` | `MCFrameUploadLive.cfg` | 312,203 | prefixes garbled into any other: output is still a prefix; an undisturbed upload returns, a stale hashed line is refused |
| `from` | `MCFromCommand.cfg` | 157,468 | two processes in one directory, killed anywhere, a name that cannot be written, a disk too full, numbers that run out; every command ends |
| `from_echo` | `MCFromCommandEcho.cfg` | violation | echo stays off after two uploads |
| `from_overwrite` | `MCFromCommandOverwrite.cfg` | violation | a file that exists is replaced |
| `show` | `MCShowCommand.cfg` | 282,540 | command lines of up to three arguments, files around the chunk size, two failing reads: the options are read as written, the files sent, the stream verifies |
| `arena` | `MCArenaReplay.cfg` | 180,750 | bounds, disjointness, refinement of `BlockStore`; after a reset no new region is needed |
| `data_line` | `MCDataLine.cfg` | 67,009 | every byte, chunks of up to five bytes out of four, chunks of 0 to 40 bytes, texts that are no code: the code and what is hashed |
| `base64_buffer` | `MCDataLineBuffer.cfg` | violation | the buffer for a chunk's code is too small |
| `shell` | `MCShells.cfg` | 173,226 | three shells inside each other, bash or zsh, five kinds of `.bashrc` and of `.zshrc`, `screen`, two cookies: markers, the user's prompt command, the prompt |
| `shell_twice` | `MCShellSetupTwice.cfg` | violation | the script does not notice that it has been sourced before |
| `json` | `MCJsonLibrary.cfg` | 256,528 | all texts of up to nine tokens; a table that fills, grows, and closes up around its end; two variables whose values are built, compared, copied, changed and freed with memory for six blocks; strings of up to four bytes |

### The properties
- `FrameUpload`: `OutputIsPrefix`, `SuccessMeansWhole`, `SuccessLeavesNothingBehind`,
  `FailureHasCause`, `UndisturbedUploadReturns`, `StaleLineRefused`, `DeliverySpec`.
- `FromCommand`: `ExitCleansUp`, `PublishedIsWhole`, `SuccessMeansAll` (exit status 0:
  every frame was uploaded whole; with `--save` all were reported, or those up to where an
  `rc` that was never set ended the command), `OutputInOrder`, `WroteMeansSaved`, `FilesStay`,
  `EveryCommandEnds`; violated `EchoRestored`, `ExistingFileKept`.
- `Adopt`: `OptionsAsWritten`. `ShowCommand`: `ChainVerifies`, `SuccessMeansSent`,
  `TransfersClosed`.
- `Arena`: `BlocksInBounds`, `BlocksDisjoint`, `StoreSpec`, `ReplayNeedsNoMemory`.
- `Base64`: `RoundTrip`, `EncodesBits`; violated `BufferHoldsCode`.
- `DataLine`: `HashesPaddedMessage`.
- `JsonObject`: `MapSpec`. `JsonParse`: `TreeSpellsText`, `BlocksFreedOnce`.
- `JsonDocument`: `BlocksOwned` (the blocks allocated are those of the values the caller
  has), `EqualSaysTheSame` (`json_value_equals` holds of two values just when they have the same
  things in the same places, in whatever order of names, and numbers there differ by less
  than `EPSILON`), `FailureChangesNothing` (a call that fails leaves all values and the number of
  blocks as they were, and the parents too, unless it is a dotted set that had put its value
  into a new object), `EffectSeen` (what a call that succeeds has done is what a look-up
  then finds).
- `JsonString`: `Utf8Exact` (the check accepts the well-formed UTF-8 strings and no
  others), `StringsRead` (a string written is read back), `EscapesDecode` (a text of escapes
  is read as the UTF-8 of what it says, or refused).
- `ShellSetup`: `StatusReported`, `QuietInScreen`, `PromptCommandKept`; violated
  `SourcedOnce`. `ZshSetup`: `PromptMarked`.

`FrameUpload` and `Arena` have a type invariant besides, which the proofs need. That of
`FrameUpload` is proved and in no run; that of `Arena` says that `end` is NULL exactly when
`begin` is.

### Bounds, and why they are enough
- *Uploads*: three payloads (metadata and two data lines) over two distinct values beside
  the empty one, two disturbances. Losing, exchanging or doubling a line needs two data
  lines. One disturbance is what the properties forbid to matter, a second lets one hide
  another. The proofs remove these bounds for the safety properties.
- *`from`*: two processes, at most two frames each; two frames ask for names that are
  free, one for none, one for the name of a file that is there and cannot be written; a
  fifth, under the name of another, may not fit on the disk.
  `MaxCounter` is 1 (the code's is 999), and the one numbered name of one of the free names
  is taken: the counters are reached when two processes save the same frame, and run out. An
  `rc` that was not set is 0, 1 or 256: one that goes on, one that ends the command with a
  failure, and one that ends it with exit status 0; the code tells no others apart. A
  stopped system is normal here, as in all runs whose commands end: they do not check
  deadlock. No symmetry, because the run checks liveness.
- *`show`*: chunks of 3 bytes (3072 in the code, also a multiple of 3), files of 0, 1, 3,
  4 and 7 bytes: empty, less than, exactly, and more than one and two chunks. Command
  lines are all of up to three out of thirteen arguments: files, one of which looks like an
  option, a path of none, `-`, `--`, clusters, and long options known and unknown, with a
  value, without, and with an empty one.
- *Arena*: words of 2 bytes, regions of 2 words, requests of 1 and 5 bytes: part of a word,
  and more than a region; three regions and three allocations before a reset. `Handle` is a
  symmetry set, and the run checks no liveness.
- *Base64*: all single bytes; chunks of up to five bytes out of four values that set
  different bits, which leaves last groups of every length after complete ones; texts
  over characters of every class. `base64_buffer` takes a chunk of 30 bytes and
  `MAX_CHUNK_BYTES` 30, a hundredth of the code's.
- *SHA-256*: blocks of 6 bytes and words of one, which keeps the proportions that matter:
  a block holds the count and something besides. Messages of 0 to 43 bytes, a previous
  digest of 3 bytes included, fill the last block in every way, and from 32 bytes on the
  count of bits carries into its second word.
- *JSON*: 2 cells at first (16 in the code), then 4 and 8, which hold one, two and five
  items. Of four names two have the same hash, and all four make one cluster that goes
  round the end of a table of 8, with names that belong before and after the end. Texts of
  up to nine tokens nest three deep, where with `MAX_NESTING` 2 (2048 in the code) any
  further value is refused, and make a table grow while it is filled.
- *Documents*: two variables, one symmetry set: they are interchangeable, and only safety is
  checked. Six blocks hold two objects one inside the other and a copy that does not
  fit; objects and arrays have at most two members; names are plain or of two parts. Data are three
  numbers, the middle one near both of the others and those not near each other, which is
  where nearness is not transitive, and one datum no value is made of. The outer two are a
  symmetry set as well: exchanging them changes no distance.
  `VIEW` leaves out `last`, on which no later step depends; the action
  properties are evaluated on every step all the same.
- *Strings*: up to four bytes. Of the first and second bytes of characters that UTF-8 tells
  apart those at the edges are there (C1 and C2, E0, ED, F0, F4; 80, 8F and 90, A0), and
  of the others a letter and those that are escaped. Texts with escapes have two pieces,
  which makes every pair of two surrogates.
- *Shells*: three inside each other, exit statuses 0 and 1, and `MaxCalls` 2, after which a
  function that calls itself has crashed bash; two cookies, so that a shell in another
  terminal inherits a prompt with the first one's marker, and may itself start a third.

### Fairness
- `FrameUpload`: weak fairness of the receiver, because the process runs until `fgets`
  blocks; weak fairness of the terminal answering a request and of it ending what it has
  begun, which the protocol cannot do without. A disturbance is never obliged to happen.
- `FromCommand`: weak fairness of each process's own steps. `ReceiveFrame` and
  `OutputFrame` stand for `request_frame` returning, which `UndisturbedUploadReturns`
  shows for an undisturbed upload; a lost `#E:` line makes it wait for ever, and then
  `EveryCommandEnds` says nothing.

## 4. Proofs

### FrameUpload
For every set of payloads, any number of lines and of disturbances
(`UploadAssumption` only):

- `TypeCorrect`: `Spec => []TypeOK`.
- `OutputCorrect`: `Spec => []OutputIsPrefix`, with prefixes garbled into any other.

`OutputIsPrefix` is not inductive: a step needs to know that a hash which matches
`previous_hash` can only come from the right line. `UploadInv` adds that
- every hash field in the buffer or on the wire is `BadHash`, a prefix of what was sent,
  or the digest of a finished frame's end marker (`LinesGenuine`);
- a frame begins with its metadata, and nothing empty follows (`SentWellFormed`);
- in the loop, `previous_hash` is the digest of exactly what the caller has been given
  (`ChainInv`), unless an end marker has been garbled into a `#D:` line.

`MatchedLine` is the heart: under `UploadInv`, a line whose hash matches is the next
payload of the frame, or its end marker after the whole of it.

With the further assumption `"E" \notin GarbledKinds`:

- `SuccessCorrect`: `Spec => []SuccessMeansWhole`.
- `NothingLeftCorrect`: `Spec => []SuccessLeavesNothingBehind`.
- `UploadImplementsDelivery`: `Spec => DeliverySpec`.

The assumption is needed: the three characters of the prefix are not hashed, so an `#A:` line
turned into an `#E:` line would end an aborted upload with success. `SuccessInv` adds to
`UploadInv` that an `#E:` line with a hash comes from a finished frame (`EndLinesGenuine`)
and that digests on the wire grow in length (`WireOrdered`), so that none is behind the last.

`FailureExplained`: `Spec => []FailureHasCause`, again under `UploadAssumption` only. While
nothing has happened to the tty, `Undisturbed` holds: what the terminal has written and the
caller has not been given is on the tty, in order and each line as it was written, and
`previous_hash` is the digest of what the caller has. No such line can be refused.

### Arena
For every word size, region capacity, set of sizes and number of regions
(`ArenaAssumption` only): `TypeCorrect`, `BoundsCorrect`, `DisjointCorrect` and
`ArenaImplementsStore`. The inductive invariant `ArenaInv` speaks of words where the
properties speak of bytes: each region's array is whole and its count within its capacity
(`Whole`), each block's words lie below its region's count (`BlocksPlaced`), and of two
blocks in a region one ends before the other begins (`BlocksApart`). A new block starts
at the count, so it is apart from all others; `WordsHold` and `BlockEnds` carry this over
to bytes.

### ArenaReplay
Under `ArenaAssumption`, for every sequence of sizes: `ReplayCorrect` is
`ReplaySpec => []ReplayNeedsNoMemory`, and `ReplayIsArena` is `ReplaySpec => Spec`, by which
all that is proved of `Arena` holds here. `ReplayInv` adds to `ArenaInv` that the work since
the last reset is a *trace* (`Epoch`): of regions that begin empty, each allocation has
taken the first one with room, from that of the allocation before on, and `count` is what
the trace has cut. The work before the reset was one as well, in the regions that
there were then, and as long as the work is a prefix of it the arena is where that trace
is (`Following`). Two traces of the same sizes can only go the same way, and a trace
that has gone through without a new region will do so again.

### FromCommand
For every set of processes, frames, names and commands, any number of frames each, and
kills anywhere (`FromAssumption`; `NamesAssumption`, which says that the prefix of
temporary names is no frame's name and that no file at all is not a file). Each of the
properties of the run `from` but the liveness property is a theorem: `NamesStay` (`FilesStay`),
`NothingLeftBehind` (`ExitCleansUp`), `OutputOrdered` (`OutputInOrder`),
`SuccessIsComplete` (`SuccessMeansAll`), `OnlyWholePublished` (`PublishedIsWhole`) and
`WroteIsSaved` (`WroteMeansSaved`).

`ControlInv` (theorem `ControlHolds`) is what they share: what a process knows at each
label, such as that a name is looked for only when the whole frame is there. On
top of it stand, each inductive with it: `EchoInv` and `TempInv` (the settings saved by the
first call of `turn_off_echo` are those to be restored; between `mkstemp` and `unlink` alone
there is a temporary file), `Delivered` (what is on stdout, or has been reported, is the
first frames of the command line; `main` returns 0 only behind the last of them, and a value
other than 0 and 1 only behind a frame that has been reported, `ResultInv`),
`SavedInv` (once `rename` has been called the file is under its name, or another of the same
frame name is, or the name cannot be written). Since another process' step can disturb the
directory only, `StepIsLocal` does away with it wherever the directory plays no part.

### ShowCommand and Adopt
For every table of options and every set of command lines that satisfy Adopt's two
assumptions, every set of files and contents, any chunk size and number of failing reads
(`ShowAssumption`):

- `OptionsCorrect`: `Spec => []OptionsAsWritten`.
- `ChainCorrect`, `TransfersCorrect`: `Spec => []ChainVerifies`, `Spec => []TransfersClosed`.
- `SuccessCorrect`: `Spec => []SuccessMeansSent`.

*The options*: `OptionsInv` says that what has been set, merged with what the rest of the
line says from where the parser stands (`Left`: inside a cluster, behind `--`, before an
argument), is the meaning of the whole line. Each step moves one option from the rest to what
has been set, and `OptionsStep` shows that the whole stays the same. *The stream*: `StreamInv`
says that stdout is `Sound`, line by line, and that its last line is what the loop takes it
for: a header or the `D:` line whose digest is in `previous_hash`. *Success*: `Sending` says
that the terminal has `Got` the files before the current one whole, and of that one what
has been read, and that the end-of-file indicator is set only when all has been read. It is
claimed for specified lines only (`SentInv`), because another may set the parser anywhere;
with `OptionsInv` the files sent are those that the line names.

### Base64 and SHA-256
For all sets of chunks and of texts, of any length (`Base64Assumption`):
`DecodingUndoes` is `Spec => []RoundTrip`, and `EncodingSpells` is `Spec => []EncodesBits`.

`CodeInv` (theorem `CodeHolds`) follows the two loops by groups. While encoding, there is a
number `g` of groups that have been written, each the four characters that `Signs` gives for
its three bytes (`Spelled`), and `s` is the beginning of the next. While decoding, `q` groups
have been read, and of a text that is a chunk's code they have given back the first 3`q`
bytes (`Recovers`). The induction over the text is thereby the loop's own. `FirstByte`,
`SecondByte` and `ThirdByte` are the arithmetic of a group, there and back; `SameBits` says
that its sextets have the 24 bits of its bytes, one by one, and `CodeSpells` counts the
padding from `6m - 8n < 6`.

`HashingPads` is `Spec => []HashesPaddedMessage`, for a digest of the line before and a chunk
of any length, any word and any block that holds the count and something besides
(`Base64Assumption`, `Sha256Assumption`, `PreviousAssumption`). `Cut` is the invariant of the
loop over bytes: the blocks hashed are whole, they and the rest in the buffer are the message
so far, and the two words hold the number of bits hashed, to which `sha256_done` adds those
of the rest. `HashByteKeeps` is one turn, `AllGoesIn` a piece of any length; `HasGoneIn` says
nothing of where the message was cut. At the end there are two ways, with the count in the
same block or in one more, and `GapIs` says that in both the number of zeros is the one
number that fills the last block. The count is arithmetic: `Carried` says that adding a
block's bits to the low word, with the comparison of `sha256.c:128` for the carry, counts
modulo the square of a word; `CountSpelled` that the bytes of the two words are those of the
number. The provers know nothing of `^`, which is why powers of 256 are a recursive function
(`Span`), whose existence `SpanExists` proves.

### Shells
About `ShellsSpec`, for shells inside each other to any depth, every set of `.bashrc` and
`.zshrc` kinds, statuses and cookies (`ShellAssumption`, `ZshAssumption`): `StatusCorrect`
(`StatusReported`), `ScreenQuiet` (`QuietInScreen`), `PromptCommandRuns`
(`PromptCommandKept`), `PromptCorrect` (`PromptMarked`).

`ShellInv` (theorem `ShellInvariant`) says of every bash what the script and the
environment have made of it: that it is set up exactly when it has been sourced, that
`PROMPT_COMMAND` is then the script's alone, and what the saved one can be (`Setting`); what
has been reported since the last line (`Progress`); and that the cookie, once dropped in
`screen`, is in no shell further in (`Nested`). None of the properties is inductive without
the others' part: whether a status is reported once depends on what the shell has inherited
when it was started. `ZshInv` says that no two markers of a prompt have the same cookie
(`Distinct`), what the hook that ran last has seen to (`Hooked`), and that each marker which
is whole is the shell's own, the others' halves those of shells around it (`Origin`).

### JsonObject
For any names, values, hash function, first capacity and bound on the table
(the module's assumption): `TablesAreGood` is `Spec => []Good(object)` and `ObjectIsAMap`
is `Spec => MapSpec`, the refinement of `PartialMap` by the lookup of the code itself.

`Good` has four parts. `Shape` is the type. `Linked`: a cell that is not free holds the
position of an item, and that item points back at the cell. `Named`: an item's hash is its
name's, and no name is twice there. `Reachable`: no cell is free between where an item's
name hashes to and where it is; it is what a lookup, which stops at a free cell, depends on.
And the items are at most seven tenths of the cells, so a free cell is always there and
every loop ends. The hard part is removal (`parson.c:640-698`), which moves the last item
into the removed one's position and then closes the gap in the cells. `Hole` says what holds in its
loop: but for the gap it is a table, with a free cell ahead at which the loop will stop;
`Turn` says how far the loop has come, and `Ahead` that what it has passed by needs the
gap no more. When it stops, no item is looked for beyond the gap (`Closed`), and the gap can be
freed. Growing is an induction over the items that enter the new table (`Rehashes`).

### JsonString
For strings of any bytes and any length: `TakesUtf8Only` is `StringSpec => []Utf8Exact`,
`WrittenStringsAreRead` is `StringSpec => []StringsRead`. Both follow from theorems that speak of
all strings and of no behaviour, `ValidIsWellFormed` and `ReadAsItWas`.

*UTF-8*: what the code decides by masks, decoding and comparing code points, the standard's
table says by ranges of the first two bytes. For each length the two are compared as
arithmetic of one character (`Overlong` is the lower bound of the second byte, the surrogates
its upper bound after `ED`, and 10FFFF that after `F4`), then as recursive functions over the
string.

*Written and read*: a byte is written as itself, as an escape of one letter, or by its number
(`AsItself`, `Quoted`, `Shortened`, `Numbered`), and each of the four is read as that byte. The
lemmas on parts (`PartsAt`) say where in the text each written byte stands; from the end of the
text backwards, `skip_quotes` passes over each of them (`Passes`) and finds the last quote,
and `process_string` puts back one byte after the other.

### Induction
The theorems of the library about induction take an operator, which the provers here
cannot instantiate. `NatSetInduction` says the same of a set of numbers: one that holds
0 and with each number the next holds all. It follows from `WFMin` over the finite intervals,
and the set may be any comprehension. That a recursive function is the one its definition says
is proved where it is needed, by this induction, over functions on longer and longer
intervals: the reading of a line of options, the loops over a table's items and cells, over
the bytes of a string and of a message, and `FlattenSeq` of the community modules.

### Only model-checked
- Liveness: `UndisturbedUploadReturns`, `StaleLineRefused` and `EveryCommandEnds` hold under
  fairness, and are out of the prover's reach.
- `JsonParse` and `JsonDocument` (`TreeSpellsText`, `BlocksFreedOnce`, `BlocksOwned`,
  `EqualSaysTheSame`, `FailureChangesNothing`, `EffectSeen`): a JSON value is a tree, and
  what is said of it is said with recursive operators, which the provers' SMT backend does not
  accept in a module.
- `EscapesDecode` of `JsonString`: texts of escapes, surrogate pairs among them, are read in
  steps of one or two pieces, and its proof is not done.

## 5. Findings

- **Echo stays off after two uploads** (`tty_utils.c:18`, run `from_echo`). Each call of
  `turn_off_echo` saves the settings again; the second saves echo off, and exit restores
  that. `tty_utils.c:29` says "Set up a hook to restore the tty settings at exit." After
  at most one upload echo is as before (`ExitCleansUp`).
- **`from --save` replaces existing files** (`from.c:205`, run `from_overwrite`).
  `find_suitable_filename` is asked only when the name is free, so the numbered names of
  `utils_test.c:68-71` never come about.
- **The Base64 buffer of `show` is too small** (`show.c:43`, run `base64_buffer`). It is
  sized with `b64d_size`, three quarters of a chunk; the code takes four thirds and a null
  byte. `base64.h:26` asks for "enough memory".
- **The bash script does not notice that it has been sourced** (`setup_extraterm_bash.sh:15`,
  run `shell_twice`). It looks for functions by names that it does not use, although line 8
  says "Early-out in case this has been sourced and enabled already". `PATH` grows, and the
  user's prompt command, saved the first time, is overwritten and runs no more.

No statement of the repository is contradicted by more things that the models show:

- In a shell whose `.bashrc` adds to the end of the `PROMPT_COMMAND` it inherits,
  `extraterm_postexec` calls itself until bash crashes (`Recurse`; `StatusReported` says it
  is only there).
- After end of file on the tty, `request_frame` loops for ever on a line of an unknown kind
  (`SkipUnknownLine`).
- With `--save` a command may end behind any frame it has saved, because `rc` has never been
  set (`from.c:280-298`); if it holds a multiple of 256 other than 0, with exit status 0 and
  the other frames missing (`ReportSaved`; `SuccessMeansAll` says that it is only so there).
- On a full disk a frame is cut off, kept and reported as written (`Written`; the properties of
  `FromCommand` say that it is only there).
- After `json_object_dotset_value` has failed for want of memory, the value it was given
  belongs to the caller again but keeps its parent, and no function puts it anywhere
  (`marked` in `JsonDocument`).
- A zsh that inherits `PS1` and does not set it takes a marker without its end for a whole
  one, and its prompts have no other (`PromptMarked` says where). In `screen` such a prompt
  is written, too.

## 6. Not modelled, and why

- *SHA-256* is a digest without collisions in `FrameUpload` and `ShowCommand`, and the
  compression of a block is abstract in `Sha256`.
- *JSON*: comments, files, the format of numbers and `json_validate`, which no command uses.
  White space and numbers are the business of one token in `JsonParse`, which therefore
  does not show that `parse_number_value` takes a lone `-` for 0. In
  `FromCommand` the name a frame's metadata asks for is a function of the frame. In
  `is_valid_utf8` of a string with a length, a character cut off at the end is read past it
  (`parson.c:353-362`); `JsonString` is about strings that end with a zero byte.
- *Options* of `from` are parsed before the first state of `FromCommand`; kinds of options
  neither command has, the sorting of GNU style, and the printing of errors and usage.
- *zsh and fish*: zsh's `preexec`; fish, whose two event handlers keep no state and are
  defined anew in each shell; the aliases at the end of each script.
- The unit tests under `libs/munit` and `*_test.c`: the first is a vendored test framework,
  and neither runs with the commands.
- `file_extension_index` and the hexadecimal conversions: names are pairs of a base and a
  counter, hashes are not spelled.
- Lines longer than the buffer of `from` (1024 characters) arrive in two pieces; the
  second piece behaves like a typed line.

## 7. Plan

The order was: the upload, because everything `from` delivers goes through it; its
callers; the other direction, `show`; then the libraries both stand on. What comes next:

1. *Upload sessions*: several frames in one process, where the rest of a refused upload
   meets the next request; `FromCommand`'s `request_frame` by `FrameUpload`.
2. *`from`'s options*: `Adopt` with the table of `from.c:241-248`, where a lone `-` goes
   another way.
3. *String helpers*: `string_strip`, `file_extension_index` and the hexadecimal
   conversions, at their boundaries.
4. Proofs: `EscapesDecode`, with the lemmas on parts that `StringsRead` rests on; the
   trees of `JsonDocument`, if their operators can be made recursive functions.

A property that a stronger one makes superfluous goes when that one is added.
