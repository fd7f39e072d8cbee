-------------------------------- MODULE Hbel --------------------------------
(***************************************************************************)
(* The HBEL partition of the PNOR flash as the utility sees it             *)
(* (util/task.cpp): slots of one event each, every eight bytes followed by *)
(* a byte of ECC, read through a pipe from pflash, or from a dump file,    *)
(* while the host keeps logging and erasing events.                        *)
(*                                                                         *)
(* The real partition has 32 slots of 4096 bytes and fills its size        *)
(* exactly; the model keeps the proportion of data and ECC and that every  *)
(* slot is full of bytes, each of which knows where it belongs.            *)
(***************************************************************************)
EXTENDS Integers, Sequences, FiniteSets, SequencesExt

CONSTANTS
  NSlots,      \* slots of the partition (32)
  EventSize,   \* bytes of a slot, without ECC (4096)
  EntryAt,     \* offset of the log entry id in an event (44)
  Entries,     \* log entry ids
  Ids,         \* arguments of -p
  SizeMod,     \* size_t is modulo this (2^64)
  DumpSizes,   \* sizes of dump files
  MaxWrites    \* bound: host activities

Chunk == EventSize \div 2      \* bytes, without ECC, that reach the pipe at once

ASSUME HbelAssumption ==
  /\ NSlots \in Nat \ {0}
  /\ EventSize \in Nat /\ EventSize % 16 = 0 /\ EntryAt \in 1 .. Chunk - 1
  /\ Entries \subseteq Nat \ {0}
  /\ SizeMod \in Nat \ {0} /\ SizeMod % EventSize = 0
  /\ SizeMod > (NSlots + 1) * EventSize
  /\ Ids \subseteq 0 .. SizeMod - 1
  /\ DumpSizes \subseteq 0 .. ((NSlots * EventSize) \div 8) * 9
  /\ MaxWrites \in Nat

Slots   == 0 .. NSlots - 1
Empty   == 0                   \* an erased slot: no Private Header
Chunks  == 2 * NSlots
RawSize == ((NSlots * EventSize) \div 8) * 9

VARIABLES
  flash,      \* the partition: the event of each slot
  writes,     \* host activities so far
  dump,       \* the dump file, its chunks and its size
  phase,      \* "idle", "dumped", "file", "pflash" or "done"
  request,    \* list, or the event to read; from the dump or from the flash
  got,        \* what came through the pipe: the owner of each chunk
  result,     \* what the run prints
  quiet,      \* history: no host activity since the run started
  seen        \* history: what each slot held since the run started

vars == <<flash, writes, dump, phase, request, got, result, quiet, seen>>

NoDump   == [got |-> <<>>, size |-> 0]
NoResult == [kind |-> "none", value |-> <<>>]
Failed   == [kind |-> "error", value |-> <<>>]
Crashed  == [kind |-> "crashed", value |-> <<>>]
Requests == [cmd : {"list"}, id : {0}, file : BOOLEAN] \cup
            [cmd : {"read"}, id : Ids, file : BOOLEAN]

-----------------------------------------------------------------------------
(* The raw bytes that chunks owned by g amount to, cut off at size.        *)
RawByte(g, k) ==
  LET at == ((k - 1) \div 9) * 8 + ((k - 1) % 9)
  IN  IF k % 9 = 0
        THEN [slot |-> -1, at |-> -1, owner |-> Empty]
        ELSE [slot  |-> at \div EventSize,
              at    |-> at % EventSize,
              owner |-> g[at \div Chunk + 1]]

Raw(g, size) == [k \in 1 .. size |-> RawByte(g, k)]

(* Task::removeEcc() counts to nine.                                       *)
RemoveEcc(raw) ==
  LET kept[k \in 0 .. Len(raw)] ==
        IF k = 0
          THEN [i |-> 0, out |-> <<>>]
          ELSE LET acc == kept[k - 1]
               IN  IF acc.i + 1 = 9
                     THEN [i |-> 0, out |-> acc.out]
                     ELSE [i |-> acc.i + 1, out |-> Append(acc.out, raw[k])]
  IN  kept[Len(raw)].out

(* The slot at index i of the data starts at this byte.                    *)
Start(i) == i * EventSize + 1

(* Task::printPnorEventList(): the slots before the first one that is too  *)
(* close to the end of the data or does not start with a Private Header.   *)
Inside(data, i) == (i + 1) * EventSize < Len(data)
IsAnything(data, i) == TRUE       \* mutant: the Private Header is not looked for
IsEvent(data, i) == data[Start(i)].owner # Empty

ListSize(data) ==
  CHOOSE n \in 0 .. Len(data) :
    /\ \A i \in 0 .. n - 1 : Inside(data, i) /\ IsEvent(data, i)
    /\ ~(Inside(data, n) /\ IsEvent(data, n))

\* mutant: always the entry id of the first slot
EventListOfFirst(data) ==
  [kind  |-> "list",
   value |-> [n \in 1 .. ListSize(data) |-> data[Start(0) + EntryAt].owner]]

EventList(data) ==
  [kind  |-> "list",
   value |-> [n \in 1 .. ListSize(data) |-> data[Start(n - 1) + EntryAt].owner]]

(* Task::readPnorEvent(): the event of a slot that ends inside the data.   *)
(* Both products are modulo SizeMod.  The slot whose end wraps to 0 passes *)
(* the test, too, and memory outside the vector is read: the process dies, *)
(* or goes on with whatever is there.                                      *)
Offset(id) == (id * EventSize) % SizeMod
EndsAt(id) == ((id + 1) * EventSize) % SizeMod

Garbage == [kind  |-> "event",
            value |-> [j \in 1 .. EventSize |-> [slot |-> -1, at |-> -1, owner |-> Empty]]]

EventBytes(data, id) ==
  IF EndsAt(id) > Len(data)
    THEN {Failed}
    ELSE IF Offset(id) + EventSize > Len(data)
      THEN {Crashed, Garbage}
      ELSE {[kind  |-> "event",
             value |-> SubSeq(data, Offset(id) + 1, Offset(id) + EventSize)]}

(* What the run may make of the bytes it has read. *)
\* mutant: the ECC bytes stay in
OutcomesWithEcc(raw) ==
  IF request.cmd = "list" THEN {EventList(raw)} ELSE EventBytes(raw, request.id)

Outcomes(raw) ==
  LET data == RemoveEcc(raw)
  IN  IF request.cmd = "list" THEN {EventList(data)}
                              ELSE EventBytes(data, request.id)

-----------------------------------------------------------------------------
Init ==
  /\ flash \in [Slots -> Entries \cup {Empty}]
  /\ writes = 0 /\ dump = NoDump
  /\ phase = "idle" /\ request = [cmd |-> "list", id |-> 0, file |-> FALSE]
  /\ got = <<>> /\ result = NoResult
  /\ quiet = TRUE /\ seen = [s \in Slots |-> {flash[s]}]

(* The host logs an event in some slot or erases one it has delivered.     *)
HostWrites(s, e) ==
  /\ writes < MaxWrites
  /\ e # flash[s]
  /\ writes' = writes + 1
  /\ flash' = [flash EXCEPT ![s] = e]
  /\ quiet' = FALSE
  /\ seen' = [seen EXCEPT ![s] = @ \cup {e}]
  /\ UNCHANGED <<dump, phase, request, got, result>>

Owners == [c \in 1 .. Chunks |-> flash[(c - 1) \div 2]]

(* The user copies the raw partition, or a part of it, to a file.          *)
TakeDump(size) ==
  /\ phase = "idle"
  /\ phase' = "dumped"
  /\ dump' = [got |-> Owners, size |-> size]
  /\ UNCHANGED <<flash, writes, request, got, result, quiet, seen>>

(* The utility starts; readHbel() has the dump at once ...                 *)
ReadDump(r) ==
  /\ phase = "dumped"
  /\ r.file
  /\ request' = r
  /\ phase' = "file"
  /\ UNCHANGED <<flash, writes, dump, got, result, quiet, seen>>

FinishDump ==
  /\ phase = "file"
  /\ result' \in Outcomes(Raw(dump.got, dump.size))
  /\ phase' = "done"
  /\ UNCHANGED <<flash, writes, dump, request, got, quiet, seen>>

(* ... or runs pflash and reads what comes through the pipe.               *)
StartPflash(r) ==
  /\ phase = "idle"
  /\ ~r.file
  /\ request' = r
  /\ phase' = "pflash"
  /\ got' = <<>>
  /\ quiet' = TRUE /\ seen' = [s \in Slots |-> {flash[s]}]
  /\ UNCHANGED <<flash, writes, dump, result>>

\* mutant: the last chunk is taken again when the end of file is met
ReadPipePastEnd ==
  /\ phase = "pflash" /\ Len(got) <= Chunks
  /\ got' = Append(got, Owners[IF Len(got) < Chunks THEN Len(got) + 1 ELSE Chunks])
  /\ UNCHANGED <<flash, writes, dump, phase, request, result, quiet, seen>>

ReadPipe ==
  /\ phase = "pflash" /\ Len(got) < Chunks
  /\ got' = Append(got, Owners[Len(got) + 1])
  /\ UNCHANGED <<flash, writes, dump, phase, request, result, quiet, seen>>

(* pflash may fail at any time: pclose() tells, and what was read is lost. *)
PflashFails ==
  /\ phase = "pflash"
  /\ result' = Failed
  /\ phase' = "done"
  /\ UNCHANGED <<flash, writes, dump, request, got, quiet, seen>>

(* End of file and exit status 0.                                          *)
PflashEnds ==
  /\ phase = "pflash" /\ Len(got) = Chunks
  /\ result' \in Outcomes(Raw(got, RawSize))
  /\ phase' = "done"
  /\ UNCHANGED <<flash, writes, dump, request, got, quiet, seen>>

Next ==
  \/ \E s \in Slots, e \in Entries \cup {Empty} : HostWrites(s, e)
  \/ \E size \in DumpSizes : TakeDump(size)
  \/ \E r \in Requests : ReadDump(r) \/ StartPflash(r)
  \/ ReadPipe \/ PflashFails \/ PflashEnds \/ FinishDump

Spec == Init /\ [][Next]_vars

-----------------------------------------------------------------------------
TypeOK ==
  /\ flash \in [Slots -> Entries \cup {Empty}]
  /\ writes \in 0 .. MaxWrites
  /\ dump.got \in Seq(Entries \cup {Empty}) /\ dump.size \in {0} \cup DumpSizes
  /\ phase \in {"idle", "dumped", "file", "pflash", "done"}
  /\ request \in Requests
  /\ got \in Seq(Entries \cup {Empty}) /\ Len(got) <= Chunks
  /\ result.kind \in {"none", "error", "crashed", "list", "event"}
  /\ quiet \in BOOLEAN
  /\ seen \in [Slots -> SUBSET (Entries \cup {Empty})]

(* What a run says of the flash it has read, which nobody has changed.     *)
Faithful(kind) == result.kind = kind /\ ~request.file /\ quiet

(* The leading slots that hold an event.                                   *)
LeadingRun == Cardinality({s \in Slots : \A t \in 0 .. s : flash[t] # Empty})

(* The list shows the leading run of events in the order of their slots;   *)
(* it may miss only an event in the last slot of the partition.  A list    *)
(* from a dump shows only slots that are wholly in it.                     *)
ListIsLeadingRun ==
  /\ Faithful("list") =>
       /\ \A n \in DOMAIN result.value : result.value[n] = flash[n - 1]
       /\ Len(result.value) <= LeadingRun
       /\ Len(result.value) >= Min({LeadingRun, NSlots - 1})
  /\ result.kind = "list" /\ request.file =>
       9 * Len(result.value) * EventSize <= 8 * dump.size + 8

(* -p hands the parser one whole slot, every byte of it in order and no    *)
(* byte of ECC, whatever the size of the source: the slot it names, modulo *)
(* the slots that size_t can address, with the event that is there.  Only  *)
(* an id that is -1 modulo that number leaves the data.                    *)
ReadIsSlot ==
  LET slot == request.id % (SizeMod \div EventSize)
  IN  result.kind \in {"event", "crashed"} =>
        \/ EndsAt(slot) = 0
        \/ /\ result.kind = "event" /\ slot \in Slots
           /\ \A j \in 1 .. EventSize : /\ result.value[j].slot = slot
                                        /\ result.value[j].at = j - 1
           /\ Len(result.value) = EventSize
           /\ ~request.file /\ quiet =>
                \A j \in 1 .. EventSize : result.value[j].owner = flash[slot]

(* Whatever the host does meanwhile, a list shows no event that its slot   *)
(* did not hold at some time during the run.                               *)
ListedWasThere ==
  result.kind = "list" /\ ~request.file =>
    \A n \in DOMAIN result.value : result.value[n] \in seen[n - 1] \ {Empty}

(* The help text says that --pnor-list prints the list of events stored on *)
(* PNOR flash: all of them, then, when they fill the partition.            *)
ListIsComplete ==
  Faithful("list") => Len(result.value) >= LeadingRun
=============================================================================
