# Formal models of the OpenPOWER eSEL parser

TLA+ modules that model the parser library, the trace plugins and the `esel`
console utility, TLC configurations that check them on small instances, and
proofs of their main properties that TLAPS checks for every instance. All
source paths below are relative to `src/`.

Every definition is translated from the code at the lines that `PROJECT.json`
("map") names. Operators marked `\* mutant` are deliberate mistakes: each stands
for a plausible bug, is used by no specification, and breaks the property that
`PROJECT.json` ("mutants") pairs it with when it takes the place of the original.

## The system

| component | source | state | operations |
|---|---|---|---|
| Event | `parser/event.cpp`, the section classes, `parser/sel_record.cpp` | SEL record, array of sections | `parse()`, `getSections()`, `getSelRecord()` |
| User Defined sections | `parser/section_ud.cpp`, `hbplugins/hbplugins.cpp` | parameters | constructor: plugin, or hex dump |
| trace plugins | `hbplugins/fsp_trace.cpp` | temporary file, child process, pipe; three global paths | `fspTrace()`, path setters |
| symbol table | `hbplugins/symbols.cpp` | global map, path of the file | `readSymbols()`, `nearestSymbol()`, `setHostbootSymbols()` |
| plugin registry | `hbplugins/errlplugins.*` | two global maps | register, deregister, look up |
| parameters | `parser/param.cpp`, `params_col.cpp`, `hexdump.*` | array of typed parameters | one `Print...()` per type |
| Task | `util/task.cpp` | the task to do | setters, `execute()` |
| Printer | `util/printer.cpp` | format, width, filter | setters, `print()` |
| main | `util/main.cpp` | none | option loop |
| lookup tables | `parser/ltables.*` | constant | none |

How they interact: `main()` fills Task and Printer from the command line and calls
`Task::execute()`. That reads bytes (from a file, from a BMC event file with a hex
dump in it, or from the HBEL partition through `pflash` or a dump), removes ECC if
asked to, and gives them to `Event::parse()`. Constructing a User Defined section
calls a plugin by component id, with a collector of parameters as callback, and so
does a Primary SRC section for the description of its reference code; the
two trace plugins run `fsp-trace` in a child process and read its pipe; HostBoot's
backtrace plugin (outside this repository) calls the symbol table. The Printer
reads the finished Event. An exception of `parse()` leaves a partly filled Event
behind, which the utility prints.

What is hard here: buffers and partitions that are damaged or cut anywhere;
unsigned arithmetic on sizes, widths and addresses; an Event that is used again;
options in any order; a child process that runs concurrently and fails at any
point; a flash that the host writes and a directory that the logger changes while
they are read; a symbol file that changes, perhaps under its reader; static objects whose order nobody fixes;
texts and numbers that must survive widening, trimming and escaping; exit statuses
that lose bits. `PROJECT.json` ("hazards") lists each place with the
properties that watch it.

What makes each component correct, in a sentence:

* Event: the sections held are exactly the run of adjacent sections the buffer
  starts with, as many as announced unless it throws, and nothing outside the
  buffer is read.
* trace plugins: a section shows its whole trace or its hex dump; no process and
  no file stays behind; nobody waits for ever.
* symbol table: what one file said at one time, up to its first damaged line; an
  address gets the function it is in.
* Task: the data shown are those of the one source asked for, freed of ECC once;
  a failure shows in the exit status and prints nothing.
* HBEL access: what is listed and read are whole slots under their own numbers.
* BMC events: a list shows what stayed in the directory, by numbers that `-b` takes;
  a dump becomes the bytes it shows.
* plugin registry: the first plugin of an id is found, none is called after its
  end, and no factory is used after its own, in any order of construction.
* parameters: a section shows every call of its plugin, whole and in order.
* Printer: lines cover the value, fit the columns, and end; JSON says what the
  event has.

## Modules

| module | models | built on |
|---|---|---|
| `EselLog` | what a parser promises: a log of adjacent spans and a verdict | |
| `Event` | `Event::parse()` step by step; `Log` is its mapping to `EselLog` | instance of `EselLog` |
| `Event_proofs` | theorems about Event | `Event` |
| `Tool` | one run of `esel` from options to exit status, with an Event in it | instance of `Event` |
| `Tool_proofs` | theorems about Tool | `Tool`, instance of `Event_proofs` |
| `Hbel` | the HBEL partition: pflash, dumps, list and read | |
| `Hbel_proofs` | theorems about Hbel | `Hbel` |
| `UserTrace` | construction of trace sections, `fsp-trace` as a concurrent process | |
| `UserTrace_proofs` | theorems about UserTrace | `UserTrace` |
| `Symbols` | the symbol table and its file | |
| `Symbols_proofs` | theorems about Symbols | `Symbols` |
| `BmcEvents` | the directory of BMC events, listed and read while it changes; hex dumps | |
| `BmcEvents_proofs` | theorems about BmcEvents | `BmcEvents` |
| `Wrap` | terminal width and wrapping of values | |
| `Wrap_proofs` | theorems about Wrap | `Wrap` |
| `Plugins` | the registry of plugins from static construction to exit | |
| `Params` | parameters, the collector's conversions, hex dumps (operators only) | |
| `Json` | the JSON writer, and a reader after RFC 8259 (operators only) | `Params` |
| `Report` | from a plugin's calls to the JSON on the screen | `Plugins`, `Json` |
| `Report_proofs` | theorems about Plugins, Report and Json | `Report` |
| `MC...` | the values of the constants for TLC | |

### Event

A buffer is represented by its size; the bytes the control flow depends on (two of
an id, a section header, the section count) are chosen when the code reads them.
`pc` says where `parse()` stands: `top` (is it a Private Header?), `ph` (is there
one behind the SEL record?), `first` (the header section), `loop`. `sections` and
`sel` are the two fields of the class, with the offset each section was read from;
`base` and `reach` are history: where the current call's sections start, and the
furthest byte read. `parse()` may be called again at any time it is not running,
because nothing in the class forbids it.

Each action is one stretch of `parse()` up to the next read: `Parse` checks the
arguments, `StartsWithPH`/`TakeSelRecord` decide on the first id, `FindPH` checks
room and id, `FetchFirst` and `FetchNext` are `fetchSection()`, `createSection()`
and the storing of the result, `Refuse` is any exception. `len - pos` is modulo
`SizeMod`, as in the code.

### Tool

`phase` follows the process: `options` (any option, in any order, also more than
once), `execute` (a source has been chosen and is read, or fails), `parse` (the
Event's own steps, by `EV!Step`), `done`. Options that set paths for the plugins
change nothing here (`SetUpParser`). Failures carry their error code, and
`Exit` narrows it to eight bits. What a list contains is left to `Hbel` and
`BmcEvents`; a list is just printed here. So is an event: `PrintEvent` is one step.
Its loops are in `Wrap`, which shows that on a window without room they may run for
ever or crash, so nothing is claimed here about a run coming to an end. `given` is
history: the command line in its order, from which `LastGiven` tells the last option
of a kind.

### Hbel

Every byte of the raw partition knows its slot, its offset and the event it belongs
to, and every ninth byte is ECC; `RemoveEcc` is the counting loop of the code, as a
function of the bytes it has passed. The
host may rewrite a slot at any time; pflash delivers half a slot at a time and may
fail in between. A dump may have any size. `Offset` and `EndsAt` wrap at `SizeMod`, as
the code's products do: the slot whose end wraps to zero passes the test, and memory
outside the vector is read, which may kill the process (`Crashed`) or give `Garbage`.
`quiet` and `seen` are history: has the
host been active during the run, and what did each slot hold meanwhile.

### UserTrace

The parser's side has one action per system call and one for each way it can
fail; `Throw` is the way out: the destructor of the temporary file, the handler in
`fspTrace()` and the fallback in `SectionUD`. The child opens the file by name,
prints a line per byte of the log into a bounded pipe, and exits or fails. Sections
are built one after another; `leaked` is history.

### Symbols

A line of the file is a function, something else, or damaged. `ReadSymbols` opens the
file, `GetLine` is one turn of the loop, `BadLine` the exception and `EndOfFile` the
way out; the map keeps what was read before an exception. `Nearest` is
`nearestSymbol()` with its 32-bit and 64-bit arithmetic.

The world changes the file between any two of these steps. `ReplaceFile` puts another
file under the name or removes it: an open reader keeps the old one (`linked` is then
false). `RewriteFile` writes into the file itself. If that happens under the reader,
what is still in its buffer stays as it was, the line at the seam may be half old and
half new, and the rest is new (`Overwritten`). Where the seam is and what comes out of
it is left open (`Torn`): more than any one layout of a file could give. `stream` is
what the reader gets in the end, `origin` is history: what the file held when it was
opened; `rewrites` counts the rewrites under the reader.

### BmcEvents

A file is the text behind its first `ESEL=`, or has no such text, and has a time
stamp; a character of a dump is a digit, a space, a zero or something else. The
logger makes, writes and removes files at any time between two steps of the utility;
a file that is being written can be seen in part. `Visit` follows the directory
iterator: it returns every entry that stays and may return one that came or went.
`OpenEvent` and `StatEvent` are the two places where the list looks at the file
itself, `events` is the `std::map`. `Converted` is the loop of `readBmcEvent()`; since
nothing ends the vector, a dump that goes on to the end of the file is read on into
one of `Tails`, or the process crashes; a tail has a character in it that ends the
dump, as memory sooner or later does. `Inserted` is `std::map::emplace`. A result that
has no number carries `NoId`, so that it is not taken for event 0. `was` and `listed`
are history.

### Plugins

`statics` holds the static objects in the order in which they were completed.
`Construct` makes the factory of the plugin's kind first, if nobody has asked for it,
then registers the plugin; any order of plugins is possible, because they live in
different files. `Destroy` takes the last object off. `misused` is history.

### Params, Json, Report

`Params` says what each call of `ErrlUsrParser` becomes: a text is trimmed, a number
gets the width that it and its format ask for (`Width`), a negative `int` is extended
first, a dump becomes rows. A character is reduced to its class (`Chars`), and a byte
has `Byte` values, two bytes their square, and so on. The parameters that the sections
give themselves are there with the right types and widths, since they are printed too.

`Json` has two halves: what `printEventJson()` writes, as a sequence of tokens, with
the strings of `jsonEscape()` character by character; and a reader after RFC 8259 that
knows nothing of the writer. The reader is always in a `Frame`: a container with the
items read so far, what the grammar lets come next, and the frame around it. At a token
or character that the grammar does not allow it is `Failed` and stays so.

`Report` runs the program around them: static construction; a Private Header and then
any sections, each asking `Plugins` for its plugin; a plugin that makes any calls
(`Callback`) and returns success or failure (`Return`, with the hex dump that
`SectionUD` falls back to); the printer, piece by piece; exit. `made` and `reader` are
history: a section remembers its plugin's calls, `reader` is what was understood.

### Wrap

`Columns` is `setFormat()`, `PrintParam` is the call of `split()` by
`printParametersText()`, and every turn of every loop of `split()` is a step.
Positions are modulo `SizeMod`. Division by a width of zero and reading outside the
text are undefined behaviour; the model then may stop in `crashed`. The format
`long` prints values without `split()` and is not in the module.

## Runs

| run | expects | shows |
|---|---|---|
| `event` | pass | any buffer, parsed twice into one Event: bounds, tiling, count, typed payloads, nothing lost, and that Event implements EselLog |
| `tool` | pass | any command line, any failure: source, ECC, output, exit status |
| `tool_status` | violation | exit status 0 although pflash failed (`task.hpp:89`) |
| `hbel` | pass | lists and reads with a busy host, with dumps of any size and with any number after `-p` |
| `hbel_list` | violation | a full partition's last event is not listed (`main.cpp:72`) |
| `bmc` | pass | lists, reads and decoded dumps while the logger changes the directory |
| `user_trace` | pass | every failure at every point, and a pipe smaller than the trace |
| `symbols` | pass | files replaced or rewritten, also while they are read; repeated loading, searches |
| `symbols_nearest` | violation | an address inside the last function is not found (`symbols.cpp:119`) |
| `wrap` | pass | all texts of up to five characters and some longer ones, on all kinds of windows |
| `report` | pass | every order of registration, every call of a plugin, and the JSON that comes of it |
| `json` | violation | a blank parameter at the end of a list, and a control character in a text (`main.cpp:82`) |

A violation run checks what a comment or the help text says; `PROJECT.json`
("findings") quotes the line and explains the counterexample.

### Properties worth a second look

* `Tiling` is what makes printing the parsed part of a damaged event safe. It holds
  for each call separately, also when the Event already held sections.
* `CountHonoured`: a header that announces no section at all is still stored, so a
  returning call has stored `max(1, count)` sections.
* `EccCutOnce`: `-p` and `--pnor-list` set the same flag as `-e`. The PNOR path does
  not look at it, the file path does, so `-p 1 -f FILE` removes ECC from the file.
  The comment on `sourceWithEcc()` speaks of any eSEL source, the help text of a file;
  the code does what the help text says.
* `AllOrNothing`: nothing on stdout but of a run that succeeds, and the part of the
  exit status contract that holds: every failure but pflash's shows.
* `ListIsLeadingRun` states how incomplete a list can be: only the last slot.
* `ReadIsSlot` holds for huge ids as well: `-p` names a slot modulo the slots that
  `size_t` can address, and one id, whose slot ends exactly where `size_t` wraps,
  leaves the data. The property names that id and no other.
* `ListIsSound` says when a list may fail: only if a file has gone between the visit
  and the opening (or there is no directory). What stayed is never lost.
* `ListedCanBeRead`: `-b` builds the plain name, `7`. If that file is there with an
  eSEL, `-b` finds it, whatever other names share its number. If not, the entry of
  the list must come from a file like `07` or `7.bak` that is there, and `-b` fails.
* `TableIsOfOneContent` leaves out a file that is rewritten in place while it is being
  read: then the table may mix two contents, and the code promises nothing else.
* `DecodesDump` compares the automaton with a dump as one reads it: two digits side
  by side are a byte. If nothing ends the dump, it only bounds what may happen.
* `SectionsKeepCalls` is stated from the calls, with the least width that fits,
  independently of the cascade in `SaveNumeric()`. It looks into numbers and texts; of
  booleans, headings, dumps and traces it says that they are there, in their place.
* `JsonShowsReport` reads the output back: it says exactly what the event has, blank
  parameters aside; and where it is not JSON (`Representable` fails), it is no other
  JSON either. Run `json` shows that this happens.
* `NothingLeftBehind` names its exception: a temporary file whose name `readlink()`
  did not give is never removed.
* `SourcePrecedence` tells the source from the command line alone, exactly. Order
  counts between the two lists (the last one wins) and between two ids of one kind;
  it does not count between a list and an event, nor among events. The comments in
  `task.hpp` ("Set task: ...") could be read as if the last setter always won.
* `NearestIsSound` names its exception: an address before the first function's
  start is answered with that function, if the address is below its end.
* `PartsInOrder`, `OnlySpaceIsLost` and `SplitEnds` hold on windows with room for
  the value (`Roomy`); on others `TypeOK` alone is claimed, and the model shows a
  width of zero and positions outside the text.
* `RoomyLinesFit` says how far a line can go: as far as the common width, and the
  terminal if stdin and stdout both are one, and further by the overhang of a long
  name on the first line. The comments promise more, and the code does not keep it.
  `printer.cpp:44` says that the width is taken "if stdout is not a pipe", but the code
  asks whether stdin is a terminal: with stdin redirected, lines of 80 columns go to a
  narrower terminal. And `printer.hpp:131` calls `maxColumns_` the "maximum size of
  output line", which a name of more than 22 characters exceeds.

### Bounds

* `Event`: 2 calls; buffer sizes and section lengths on both sides of every
  constant the code compares with (16, 40, 8, 24, 48, 80); up to 3 sections. Two
  calls are enough for a call to find what an earlier one left, and no behaviour of
  the loop depends on the count beyond "one more".
* `Tool`: 3 options per command line, the same one or different ones, in any order:
  enough for any two sources and a third option between, before or behind them.
* `Hbel`: 3 slots of 16 bytes instead of 32 of 4096, 2 host activities; a first, a
  middle and a last slot, and an event rewritten twice. The ids include one whose
  slot ends where `SizeMod` wraps and one whose offset wraps into the partition. The loop over slots and the
  ECC counter behave the same at each slot.
* `UserTrace`: 3 sections, a pipe of 2 lines, logs of up to 5; a log longer than
  the pipe makes either side wait for the other.
* `Symbols`: 3 loads, each with at most one rewrite under the reader (a second one
  could only mix further), addresses modulo 8; the files cover gaps, duplicates, unsorted
  entries, overlap, damage and a function whose end wraps.
* `BmcEvents`: four names (two of one number, one with none), two changes by the
  logger, two runs; dumps cut at every character, with a space or the end inside a
  byte. Two changes are enough for a file to come and go, or be replaced, in one run.
* `Report`: two plugins with one id and one of the other kind; three sections, so
  that one is neither first nor last; two calls, so that one follows another in one
  section or in two; numbers on both sides of the limits, with `Byte` = 4 values; a
  reference code whose 32 bits are 0 although its text is not.
* `Wrap`: lines of up to 6 columns, a name column of 2, `SizeMod` 64 (larger than any
  sum of a position and a width that has not wrapped). `MaxParts` stops the endless
  loop on narrow windows only; elsewhere a text of n characters has at most n parts.

`CHECK_DEADLOCK FALSE` is set everywhere: a process that has ended, an Event nobody
calls and a run that has used up its bounds rightly stop.

### Fairness

`UserTrace`: weak fairness of the parser and of the child. The code has no timeout,
so it relies on `fsp-trace` ending as long as someone reads its output; the child's
fairness says just this. `Wrap`: weak fairness of `split()`, a sequential loop.
The other modules make no liveness claim.

## Proofs

Every invariant and action property of a passing run is proved for all values of the
constants. Each proof has the same shape: an inductive
invariant (`IInv`, `RegistryInv`, `ReportInv`, `ReaderInv`), one lemma per action or group
of actions, and the theorem that it always holds, from which the properties follow. None of the
properties but type correctness is inductive by itself; what is said below is what
each needs. The assumptions are the types of the constants, and what is named here.

**Event.** `Event_proofs`: type correctness, `InBounds`, `Tiling`, `CountHonoured`,
`TypedPayloads`, the action property `KeepsParsed`, and the refinement `Log!Spec`.
Assumed is that buffers are smaller than `SizeMod`. That the loop cannot overrun the
count needs the counter to equal the number of sections stored; that the position
does not pass the end needs the room behind the SEL record to have been checked
before `first`; and `Tiling` needs the position to be the end of the last section.
Lemmas about `Fetches` bound what a section may be, one lemma covers the storing of a
section (shared by the two fetches), and the other actions leave `sections` alone. The
refinement maps `Parse` to `Begin`, a fetch to `Grow`, `Refuse` to `Reject`, `Return`
to `Complete`, and the rest to stuttering steps.

**Tool.** `Tool_proofs`: type correctness, `SourcePrecedence`, `EccCutOnce`,
`AllOrNothing`, `PrintsWhatWasParsed`. Assumed are the ranges of `errno` and of a wait
status, and that a slot is smaller than `SizeMod`. The run contains an Event, so its
invariant contains Event's: the theorems of `Event_proofs` are used through an
instance, not proved again. `TaskOfOptions` ties the fields of Task to the options
seen so far, the last one of each kind (`LastOfAppend` is what one more option does to
that); the precedence of sources and the flag for ECC follow from it.
`BeforeParse` and `WhileParsing` say what has been read and cut in each phase.
`AllOrNothing` comes from `ThrowIInv`, one lemma for every exception: a code other
than zero survives the narrowing to eight bits unless it is pflash's.

**UserTrace.** `UserTrace_proofs`: type correctness, `ChildSeesWholeLog`,
`TraceOrDump`, `NothingLeftBehind`, for logs, pipes and numbers of sections of any
size. `FilesOnDisk` and `FileOfSection` say that the only file there can be is that of
the section under construction (or one that is leaked), with as many bytes as have
been written; `ChildOfSection`, that lines are neither lost nor made up between child,
pipe and parser, so that a child that ended well has given its whole trace.

**Symbols.** `Symbols_proofs`: type correctness, `TableIsOfOneContent`,
`NearestIsSound`, `FoundUnlessLast`, for all files, rewrites, addresses and widths of
the arithmetic. The invariant says that the table is that of the lines read so far
(`TableIsOfLines`), which one more line extends as `emplace()` does (`TableGrows`), and
that these lines are those of the content opened while nobody has rewritten it under
the reader (`StreamIsOrigin`). That a query is answered from the table is part of it,
too; the rest is about `Nearest`, where one step back from `lower_bound()` is the
nearest start.

**Hbel.** `Hbel_proofs`: type correctness, `ListIsLeadingRun`, `ReadIsSlot`,
`ListedWasThere`, for any number and size of slots and any host. Assumed is what
binary sizes give: events are a multiple of 16 bytes, and `SizeMod` one of the event
size. The heart is what `RemoveEcc` computes: after k raw bytes, k - k/9 bytes, the
j-th of them raw byte j + (j-1)/8. From it, and from arithmetic with quotients, come
the slots that whole, cut and wrapped dumps have. `History` and `ReadOfFlash` say that
what came through the pipe was in its slot at some time during the run.

**BmcEvents.** `BmcEvents_proofs`: type correctness, `ListIsSound`, `ListedCanBeRead`,
`DecodesDump`, for all files, texts and logger actions. Assumed is that memory behind a
dump has, somewhere, a character that ends it. `Behind` says that each file the iterator
has passed is in the list, has changed, or is no event; `EventsHaveFiles`, that each
entry of the list has a file with its time stamp. For the decoder, `ConvertedTracks`
is the loop invariant: after any number of characters, the bytes so far are the pairs
of digits side by side, and the automaton knows whether a digit waits for another.

**Wrap.** `Wrap_proofs`: the five safety properties of run `wrap`, and that no line
holds a line feed, for all texts, widths and windows, and any size of `size_t` that
holds a text and a line together (`WrapAssumption`; on a 64-bit build this is no
restriction). The properties speak of the lines already cut. The invariant adds
`Call`, what holds of a call on any window, and `Cut`, the loop invariants of
`split()` on a window with room: the search for a line feed has passed none; the
search for a space starts from a full line without a feed and has passed no space; a
line about to be taken either ends at the end of the text or before white space, or is
full and its second half is one word. `NoCarry` is the reason why sums do not wrap
there, `StraySpace` turns out to be impossible, and `LinesStay` covers every step that
cuts no line. Only `Take`, `SkipSpace` and `Finish` have to look at each property in
turn.

**Plugins and Report.** `Report_proofs` first proves that the registry is sound for all
plugins, ids and orders of construction, from types and from plugins and factories
being different objects. That no factory is used after its end needs every factory to
stand before its plugins among the statics, and that deregistering leaves nothing dead
behind needs each object to stand there once. `FirstWins` needs, while plugins are
constructed, that what is registered is the first of its id. Every step of Report is
a step of Plugins or leaves its variables alone (`ImplementsPlugins`), so the registry
is sound in the whole program, too. The second half proves `TypeOK` and
`SectionsKeepCalls` for all calls, reference codes and payloads: `CallShows` says that
the parameter of one call shows it whole (`WidthIsLeast` for numbers, `Residue` for
those below zero, `TrimmedShows` for texts), and `ReportInv` that a section in work
has its own parameters and then those of its calls, in place, with its own six if it
is a Primary SRC that has a plugin. Assumed is that a byte has at least four values,
that a number is an `int` or a `uint64_t`, and that names, texts and payloads are made
of characters; only the text of a string may be a null pointer.

**Json.** The rest of `Report_proofs` proves `JsonShowsReport`: for any calls of any
plugins, with any texts, whoever reads the output back finds exactly the report, or
finds no JSON, and the latter only if the report is not `Representable`. It goes from
the smallest piece to the whole, and each step is about any reader that is where a value
may come, with whatever it has read before:

1. characters (`EscapeRoundTrip`): an escaped text is read back as it was, and a text
   with a control character that `jsonEscape()` does not know is an error;
2. a name and a value (`ParamSays`) leave one more item, the value of the parameter;
3. a list (`ListSays`): `OneMoreBlank` and `OneMoreShown` are the turns of the loop of
   `printParametersJson()`, and `NextAfter` says what may follow each. Only a blank
   parameter at the end, behind one that is shown, leaves a comma that nothing follows;
   this is where the output stops being JSON, and `ListOk` is the exact condition;
4. a section (`SectionIsRead`), the head with or without the SEL record (`HeadIsRead`)
   and the tail (`TailIsRead`);
5. `ReaderInv`: with n sections on the screen the reader is in the array of sections,
   with the values of these n behind it, or has failed if one of them cannot be
   written; and nothing is parsed after the first piece is printed.

That nothing comes after a failure (`FailedStays`) gives "no JSON rather than other
JSON". `ListIsRepresentable` ties `ListOk` to the property's own words, and `ReportInv`
gives the types on which all of this rests (`ParamsArePlain`). The two loops of
the reader, and `FlattenSeq()` of the writer, are functions; `HearsExists`, `ReadsExists`
and `JoinsExists` show that such functions are there, and `UpTo` is the induction over
their length.

What recursive definitions compute (the loops of `removeEcc()`, `readBmcEvent()` and
the JSON output) is written as functions and proved by a least counterexample among
the natural numbers, which needs no induction theorem (`LeastExists`).

The proofs found defects of the models that TLC had not shown: in `Tool`, the cases
of `Source` overlapped, so that more than one source could have been meant; in
`BmcEvents`, a missing file without a number and event 0 looked alike, and memory
behind a dump could go on without an end of the dump; in `Report`, the plugin was asked
about a code whose 32 bits are 0. All are corrected; no property changed for it.

Only model-checked:

* liveness under fairness: `SectionEnds`, `SplitEnds`;
* `Hbel`, `Symbols`, `Tool` and `Report`: the properties that runs expect to be violated.

## Not modelled

* The layout of headings, indents and of the formats `hex` and `bin`, which only
  write what is there; `long` prints values without `split()`.
* The texts and numbers of section parameters beyond type and width, and the lookup
  tables: constant data without behaviour. The lookup itself is `Described`.
* HostBoot's plugins: not in this repository. `fsp-trace`, `pflash`, the kernel and
  the host are modelled only as the code uses them.
* A slot read half before and half after the host rewrites it: Hbel has these
  behaviours, but the code promises nothing about them. The same goes for a symbol
  file rewritten in place under its reader.
* Two failures inside `fsp_trace.cpp`'s reading loop: a `fread()` that fails without an
  end of file (line 199), and `trace.append()` running out of memory (line 203).

## Plan

Done: Event with its abstract log; the utility around it; the HBEL partition; BMC
events; trace sections; symbols; wrapping; the plugin registry; parameters, the JSON
output and their composition; and the proofs of the invariants of all of them.

Nothing that the plan named is left; what is not modelled, and why, is above.
