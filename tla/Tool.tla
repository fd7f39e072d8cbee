-------------------------------- MODULE Tool --------------------------------
(***************************************************************************)
(* The esel console utility: one process that reads its options            *)
(* (util/main.cpp), executes the task they describe (util/task.cpp) with   *)
(* an Event parsing what was read, and ends with an exit status.           *)
(*                                                                         *)
(* The world outside answers each read with data of some size or with a    *)
(* failure.  What a list prints is the business of module Hbel and of the  *)
(* directory listing; here a list is just printed.                         *)
(***************************************************************************)
EXTENDS Integers, Sequences, FiniteSets

CONSTANTS
  FileSizes,      \* sizes of eSEL files and of decoded BMC events
  EventIds,       \* arguments of -b and -p
  Numbers,        \* arguments of -n
  Errnos,         \* errno of a failed open() or directory scan
  WaitStatuses,   \* nonzero wait statuses of pflash
  MaxOptions,     \* bound: options on a command line
  Lengths, Counts, SizeMod   \* of Event

SlotSize     == 4096
Npos         == -1                      \* std::string::npos
EXIT_SUCCESS == 0
EXIT_FAILURE == 1
Running      == -1                      \* no exit status yet

ErrnoRange   == 1 .. 255
WaitRange    == 1 .. 65535

ASSUME ToolAssumption ==
  /\ SizeMod \in Nat /\ SlotSize < SizeMod
  /\ FileSizes \subseteq 0 .. SizeMod - 1
  /\ Lengths \subseteq Nat /\ Counts \subseteq Nat
  /\ EventIds \subseteq Nat \cup {Npos}
  /\ Numbers \subseteq Nat
  /\ Errnos \subseteq ErrnoRange
  /\ WaitStatuses \subseteq WaitRange

Setters == {"file", "bmc", "pnor", "bmcList", "pnorList"}
OptionNames == Setters \cup {"hbel", "ecc", "number", "output", "setup"}
Formats == {"text", "hex", "json", "bin"}

(* An option as the user wrote it; only those of an event have an id.      *)
Options == [name : OptionNames, id : EventIds \cup {Npos}]

VARIABLES
  phase,      \* "options", "execute", "parse" or "done"
  task,       \* the fields of Task
  printer,    \* the fields of Printer
  size,       \* size of the vector printEvent() has read
  status,     \* exit status, as the parent process sees it
  shown,      \* what went to stdout
  given,      \* history: the options, in the order of the command line
  source,     \* history: what execute() has tried to read
  cuts,       \* history: how often removeEcc() ran over the data
  failure,    \* history: what went wrong
  pc, calls, len, pos, count, i, sections, sel, base, reach   \* the Event

eventVars == <<pc, calls, len, pos, count, i, sections, sel, base, reach>>
vars == <<phase, task, printer, size, status, shown, given, source,
          cuts, failure, eventVars>>

(* printEvent() parses one buffer with one Event, whatever its size.       *)
EV == INSTANCE Event WITH Lens <- 0 .. SizeMod - 1, MaxCalls <- 1

Nothing == [kind |-> "nothing", numbers |-> {}]

Init ==
  /\ phase = "options"
  /\ task = [action |-> "PrintSEL", pelFile |-> FALSE, bmcEventId |-> Npos,
             pnorEventId |-> Npos, eccExist |-> FALSE, hbelFile |-> FALSE]
  /\ printer = [filter |-> {}, format |-> "text"]
  /\ size = 0 /\ status = Running /\ shown = Nothing
  /\ given = <<>> /\ source = "none" /\ cuts = 0 /\ failure = "none"
  /\ EV!Init

-----------------------------------------------------------------------------
(* getopt_long() returns an option.                                        *)
OptionWithId(name, id) ==
  /\ phase = "options"
  /\ Len(given) < MaxOptions
  /\ given' = Append(given, [name |-> name, id |-> id])
  /\ UNCHANGED <<phase, size, status, shown, source, cuts, failure, eventVars>>

Option(name) == OptionWithId(name, Npos)

FromFile ==
  Option("file") /\ task' = [task EXCEPT !.pelFile = TRUE] /\ UNCHANGED printer

(* stoul() takes "-1" as well: the id is then the one that means "unset".  *)
FromBmcEvent(id) ==
  /\ OptionWithId("bmc", id)
  /\ task' = [task EXCEPT !.bmcEventId = id]
  /\ UNCHANGED printer

FromPnorEvent(id) ==
  /\ OptionWithId("pnor", id)
  /\ task' = [task EXCEPT !.pnorEventId = id, !.eccExist = TRUE]
  /\ UNCHANGED printer

ListBmcEvent ==
  /\ Option("bmcList")
  /\ task' = [task EXCEPT !.action = "PrintBmcList"]
  /\ UNCHANGED printer

ListPnorEvent ==
  /\ Option("pnorList")
  /\ task' = [task EXCEPT !.action = "PrintPnorList", !.eccExist = TRUE]
  /\ UNCHANGED printer

PnorHbel ==
  Option("hbel") /\ task' = [task EXCEPT !.hbelFile = TRUE] /\ UNCHANGED printer

SourceWithEcc ==
  Option("ecc") /\ task' = [task EXCEPT !.eccExist = TRUE] /\ UNCHANGED printer

(* The paths of fsp-trace, of its string files and of the symbols belong   *)
(* to the plugins: see UserTrace and Symbols.                              *)
SetUpParser == Option("setup") /\ UNCHANGED <<task, printer>>

\* mutant: the numbers of sections are taken for indices
AddFilterFromZero(n) ==
  /\ Option("number")
  /\ printer' = [printer EXCEPT !.filter = @ \cup {n - 1}]
  /\ UNCHANGED task

AddFilter(n) ==
  /\ Option("number")
  /\ printer' = [printer EXCEPT !.filter = @ \cup {n}]
  /\ UNCHANGED task

SetFormat(f) ==
  /\ Option("output")
  /\ printer' = [printer EXCEPT !.format = f]
  /\ UNCHANGED task

-----------------------------------------------------------------------------
(* main() returns: the kernel keeps eight bits of what it returned.        *)
Exit(rc) ==
  /\ phase' = "done"
  /\ status' = rc % 256

(* An exception reaches execute(): a system_error gives its code, anything *)
(* else gives EXIT_FAILURE.                                                *)
Throw(what, code) ==
  /\ failure' = what
  /\ Exit(IF what \in {"system", "pflash"} /\ code # 0 THEN code ELSE EXIT_FAILURE)
  /\ UNCHANGED <<task, printer, size, shown, given, source, cuts, eventVars>>

(* An unknown option, a stray argument or a bad number ends main() at once. *)
BadOption == phase = "options" /\ Throw("options", 0)

(* So do -v and -h, with success.                                          *)
PrintInfo ==
  /\ phase = "options"
  /\ Exit(EXIT_SUCCESS)
  /\ shown' = [kind |-> "info", numbers |-> {}]
  /\ UNCHANGED <<task, printer, size, given, source, cuts, failure, eventVars>>

(* What execute() and printEvent() read. *)
\* mutant: the BMC is asked before the file
SourceBmcFirst ==
  IF task.action = "PrintBmcList" THEN "directory"
  ELSE IF task.action = "PrintPnorList" THEN "hbel"
  ELSE IF task.bmcEventId # Npos THEN "event"
  ELSE IF task.pelFile THEN "file"
  ELSE IF task.pnorEventId # Npos THEN "hbel"
  ELSE "undefined"

Source ==
  IF task.action = "PrintBmcList" THEN "directory"
  ELSE IF task.action = "PrintPnorList" THEN "hbel"
  ELSE IF task.pelFile THEN "file"
  ELSE IF task.bmcEventId # Npos THEN "event"
  ELSE IF task.pnorEventId # Npos THEN "hbel"
  ELSE "undefined"

Execute ==
  /\ phase = "options"
  /\ phase' = "execute"
  /\ source' = Source
  /\ UNCHANGED <<task, printer, size, status, shown, given, cuts,
                 failure, eventVars>>

Executing == phase = "execute"

UndefinedSource == Executing /\ source = "undefined" /\ Throw("other", 0)

(* readFile() or the directory iterator fails. *)
OpenFails(errno) ==
  /\ Executing
  /\ source \in {"file", "event", "directory"} \/ (source = "hbel" /\ task.hbelFile)
  /\ Throw("system", errno)

(* popen() fails, possibly without setting errno ... *)
PopenFails(errno) ==
  /\ Executing /\ source = "hbel" /\ ~task.hbelFile
  /\ Throw("system", errno)

(* ... or pflash does: readHbel() throws the status pclose() returned.     *)
PflashFails(wstatus) ==
  /\ Executing /\ source = "hbel" /\ ~task.hbelFile
  /\ Throw("pflash", wstatus)

(* The BMC event has no ESEL property or bad hex; HBEL has no such slot.   *)
NoSuchData ==
  /\ Executing
  /\ source = "event" \/ (source = "hbel" /\ task.action = "PrintSEL")
  /\ Throw("other", 0)

PrintList ==
  /\ Executing /\ task.action # "PrintSEL"
  /\ shown' = [kind |-> "list", numbers |-> {}]
  /\ cuts' = IF source = "hbel" THEN cuts + 1 ELSE cuts
  /\ Exit(EXIT_SUCCESS)
  /\ UNCHANGED <<task, printer, size, given, source, failure, eventVars>>

(* removeEcc() drops every ninth byte.                                     *)
EccRemoved(n) == n - n \div 9

(* The vector becomes the buffer of a new Event; an empty one has no data(). *)
StartParse(n) ==
  /\ phase' = "parse"
  /\ size' = n
  /\ EV!Parse(n = 0, n)
  /\ UNCHANGED <<task, printer, status, shown, given, source, failure>>

ReadFile(n) ==
  /\ Executing /\ source = "file"
  /\ cuts' = IF task.eccExist THEN cuts + 1 ELSE cuts
  /\ StartParse(IF task.eccExist THEN EccRemoved(n) ELSE n)

ReadBmcEvent(n) ==
  /\ Executing /\ source = "event" /\ n > 0
  /\ UNCHANGED cuts
  /\ StartParse(n)

\* mutant: printEvent() removes ECC from a PNOR event, too
ReadPnorEventTwiceCut ==
  /\ Executing /\ source = "hbel" /\ task.action = "PrintSEL"
  /\ cuts' = IF task.eccExist THEN cuts + 2 ELSE cuts + 1
  /\ StartParse(SlotSize)

ReadPnorEvent ==
  /\ Executing /\ source = "hbel" /\ task.action = "PrintSEL"
  /\ cuts' = cuts + 1
  /\ StartParse(SlotSize)

Parsing ==
  /\ phase = "parse"
  /\ EV!Step
  /\ UNCHANGED <<phase, task, printer, size, status, shown, given,
                 source, cuts, failure>>

(* The filter does not apply to JSON.                                      *)
\* mutant: the filter applies to JSON, too
SelectedInJson ==
  {k \in DOMAIN sections : printer.filter = {} \/ k \in printer.filter}

Selected ==
  {k \in DOMAIN sections :
     printer.filter = {} \/ printer.format = "json" \/ k \in printer.filter}

(* The event, or what could be parsed of it, is printed.  The printing is  *)
(* one step here: what its loops do, and that they may run for ever or     *)
(* crash on a window without room, is the business of Wrap.                *)
\* mutant: a damaged event is printed, then the exception goes on
PrintEventAndRethrow ==
  /\ phase = "parse"
  /\ pc = "returned" \/ (pc = "thrown" /\ sections # <<>>)
  /\ shown' = [kind |-> "event", numbers |-> Selected]
  /\ failure' = IF pc = "thrown" THEN "format" ELSE "none"
  /\ Exit(IF pc = "thrown" THEN EXIT_FAILURE ELSE EXIT_SUCCESS)
  /\ UNCHANGED <<task, printer, size, given, source, cuts, eventVars>>

PrintEvent ==
  /\ phase = "parse"
  /\ pc = "returned" \/ (pc = "thrown" /\ sections # <<>>)
  /\ shown' = [kind |-> "event", numbers |-> Selected]
  /\ Exit(EXIT_SUCCESS)
  /\ UNCHANGED <<task, printer, size, given, source, cuts, failure, eventVars>>

ParseFails ==
  /\ phase = "parse"
  /\ pc = "thrown" /\ sections = <<>>
  /\ Throw("format", 0)

(* The steps of execute(), once the options are read. *)
Run ==
  \/ UndefinedSource
  \/ \E e \in Errnos : OpenFails(e)
  \/ \E e \in Errnos \cup {0} : PopenFails(e)
  \/ \E w \in WaitStatuses : PflashFails(w)
  \/ NoSuchData \/ PrintList
  \/ \E n \in FileSizes : ReadFile(n) \/ ReadBmcEvent(n)
  \/ ReadPnorEvent \/ Parsing \/ PrintEvent \/ ParseFails

Next ==
  \/ FromFile \/ ListBmcEvent \/ ListPnorEvent \/ PnorHbel \/ SourceWithEcc
  \/ SetUpParser
  \/ \E id \in EventIds : FromBmcEvent(id) \/ FromPnorEvent(id)
  \/ \E n \in Numbers : AddFilter(n)
  \/ \E f \in Formats : SetFormat(f)
  \/ BadOption \/ PrintInfo \/ Execute
  \/ Run

Spec == Init /\ [][Next]_vars

-----------------------------------------------------------------------------
TypeOK ==
  /\ phase \in {"options", "execute", "parse", "done"}
  /\ task \in [action : {"PrintSEL", "PrintBmcList", "PrintPnorList"},
               pelFile : BOOLEAN, bmcEventId : EventIds \cup {Npos},
               pnorEventId : EventIds \cup {Npos}, eccExist : BOOLEAN,
               hbelFile : BOOLEAN]
  /\ printer \in [filter : SUBSET Numbers, format : Formats]
  /\ size \in Nat /\ cuts \in Nat
  /\ status \in {Running} \cup 0 .. 255
  /\ shown.kind \in {"nothing", "info", "list", "event"}
  /\ shown.numbers \subseteq Nat
  /\ given \in Seq(Options)
  /\ source \in {"none", "directory", "hbel", "file", "event", "undefined"}
  /\ failure \in {"none", "options", "other", "system", "pflash", "format"}

(* The last option of the command line with one of these names.            *)
NoOption == [name |-> "none", id |-> Npos]

Lasts(options, names) ==
  {k \in DOMAIN options :
     /\ options[k].name \in names
     /\ \A m \in DOMAIN options : options[m].name \in names => m <= k}

LastOf(options, names) ==
  IF Lasts(options, names) = {}
    THEN NoOption
    ELSE options[CHOOSE k \in Lasts(options, names) : TRUE]

LastGiven(names) == LastOf(given, names)
Given(names) == LastGiven(names) # NoOption

(* Which source is read, told from the command line alone.  A list wins    *)
(* over every event, wherever it stands; of two lists, and of two ids of   *)
(* one kind, the last one counts.  Among events the order of the options   *)
(* is without effect: the file wins over the BMC and the BMC over the      *)
(* PNOR, and an id of -1 is none.                                          *)
SourcePrecedence ==
  source # "none" =>
    LET list  == LastGiven({"bmcList", "pnorList"}).name
        file  == list = "none" /\ Given({"file"})
        event == list = "none" /\ ~Given({"file"}) /\ LastGiven({"bmc"}).id # Npos
        pnor  == /\ list = "none" /\ ~Given({"file"}) /\ LastGiven({"bmc"}).id = Npos
                 /\ LastGiven({"pnor"}).id # Npos
    IN  /\ source = "directory" <=> list = "bmcList"
        /\ source = "file" <=> file
        /\ source = "event" <=> event
        /\ source = "hbel" <=> (list = "pnorList" \/ pnor)

(* What is parsed was freed of ECC exactly once if it came from the HBEL   *)
(* partition, even when the user asks for it too, never if it came from a  *)
(* BMC event, and at most once if it came from a file; and the parser,     *)
(* which was told a size, stays inside the vector without ECC.             *)
EccCutOnce ==
  phase = "parse" =>
    /\ cuts = CASE source = "hbel"  -> 1
                [] source = "event" -> 0
                [] source = "file"  ->
                     IF Given({"ecc", "pnor", "pnorList"}) THEN 1 ELSE 0
    /\ reach <= size

(* A failing run prints nothing on stdout, not even a part of an event or  *)
(* of a list, and its exit status tells, unless it was pflash that failed; *)
(* a run without failure prints what it was asked for.                     *)
AllOrNothing ==
  /\ failure # "none" => shown = Nothing
  /\ phase = "done" /\ failure = "none" => shown # Nothing /\ status = EXIT_SUCCESS
  /\ phase = "done" /\ failure \notin {"none", "pflash"} => status # EXIT_SUCCESS

(* An event that is printed is printed to the last section that could be   *)
(* parsed, and all that its header announced if none is damaged; only a    *)
(* filter hides sections, and section numbers start with 1.                *)
PrintsWhatWasParsed ==
  shown.kind = "event" =>
    /\ sections # <<>>
    /\ printer.filter = {} => shown.numbers = 1 .. Len(sections)
    /\ printer.format = "json" => shown.numbers = 1 .. Len(sections)
    /\ pc = "returned" => Len(sections) >= count
    /\ shown.numbers \subseteq DOMAIN sections
    /\ printer.filter \cap DOMAIN sections \subseteq shown.numbers

(* task.hpp says that execute() returns the exit code, 0 if success: so no *)
(* failure may end with exit status 0.                                     *)
ExitStatusTellsFailure ==
  phase = "done" /\ failure # "none" => status # 0
=============================================================================
