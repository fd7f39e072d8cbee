------------------------------ MODULE Symbols ------------------------------
(***************************************************************************)
(* The table of HostBoot symbols (hbplugins/symbols.cpp): a map that all   *)
(* the backtraces of a process share, filled from a file when the first of *)
(* them asks for it, and the search for the function an address is in.     *)
(*                                                                         *)
(* The file lives outside the process: it may appear, vanish or change at  *)
(* any time, also while it is read, which happens a line at a time.        *)
(***************************************************************************)
EXTENDS Integers, Sequences, FiniteSets, FiniteSetsExt

CONSTANTS
  Contents,    \* contents of symbol files: sequences of lines
  Addresses,   \* 64-bit addresses of a backtrace
  AddrMod,     \* keys of the map, and their sums, are modulo this (2^32)
  Torn,        \* lines that two contents make where one overwrites the other
  MaxReads,    \* bound: calls of readSymbols()
  MaxRewrites  \* bound: rewrites of a file while it is read

(* A line is a function, an entry of another type, or one whose numbers    *)
(* stoul() refuses.                                                        *)
Lines == [type : {"function", "other", "bad"},
          addr : 0 .. AddrMod - 1, length : 0 .. AddrMod - 1]

ASSUME SymbolsAssumption ==
  /\ AddrMod \in Nat \ {0}
  /\ Addresses \subseteq Nat
  /\ Contents \subseteq Seq(Lines)
  /\ Torn \subseteq Lines
  /\ MaxReads \in Nat /\ MaxRewrites \in Nat

Missing == <<>>                        \* no symbol file: nothing to read
NoTable == [a \in {} |-> 0]
None    == -1                          \* nullptr

VARIABLES
  file,      \* content of the symbol file on disk
  exists,    \* it can be opened
  linked,    \* the file that was opened last is still the one on disk
  phase,     \* "idle", or "reading" inside of readSymbols()
  stream,    \* the lines that the opened file gives to its reader
  pos,       \* lines that getline() has returned
  table,     \* HostbootSymbols: address -> length
  reads,     \* calls of readSymbols()
  rc,        \* what the last one returned
  query,     \* address given to nearestSymbol(), None if none
  answer,    \* start of the function it returned, or None
  origin,    \* history: what the file that was opened last held at that time
  rewrites   \* history: how often it was rewritten under its reader

diskVars   == <<file, exists, linked>>
readerVars == <<phase, stream, pos, table, reads, rc>>
vars == <<diskVars, readerVars, query, answer, origin, rewrites>>

-----------------------------------------------------------------------------
Init ==
  /\ file \in Contents /\ exists \in BOOLEAN /\ linked = FALSE
  /\ phase = "idle" /\ stream = Missing /\ pos = 0
  /\ table = NoTable /\ reads = 0 /\ rc = 0
  /\ query = None /\ answer = None /\ origin = Missing /\ rewrites = 0

(* Someone installs another file under the name, or removes it: who has    *)
(* opened the old one goes on reading that.                                *)
ReplaceFile(c, e) ==
  /\ file' = c /\ exists' = e /\ linked' = FALSE
  /\ UNCHANGED <<readerVars, query, answer, origin, rewrites>>

(* What a reader gets if the file is overwritten with c: lines that are in *)
(* its buffer already, perhaps one that begins in the buffer and ends in   *)
(* the new content, and the new lines from there on.                       *)
Overwritten(buffered, seam, c, from) == buffered \o seam \o SubSeq(c, from, Len(c))

(* Someone writes another content into the file.                           *)
RewriteFile(c) ==
  /\ exists /\ file' = c
  /\ IF phase = "reading" /\ linked
       THEN /\ rewrites < MaxRewrites /\ rewrites' = rewrites + 1
            /\ \E k \in pos .. Len(stream), seam \in {<<>>} \cup {<<l>> : l \in Torn},
                  from \in 1 .. Len(c) + 1 :
                 stream' = Overwritten(SubSeq(stream, 1, k), seam, c, from)
       ELSE UNCHANGED <<stream, rewrites>>
  /\ UNCHANGED <<exists, linked, phase, pos, table, reads, rc, query, answer, origin>>

(* setHostbootSymbols(): another file, and the table is read anew.         *)
\* mutant: the table of the previous file stays
SetKeepsTable(c, e) ==
  /\ phase = "idle"
  /\ file' = c /\ exists' = e /\ linked' = FALSE
  /\ stream' = Missing /\ pos' = 0 /\ origin' = Missing /\ rewrites' = 0
  /\ query' = None /\ answer' = None
  /\ UNCHANGED <<phase, table, reads, rc>>

SetHostbootSymbols(c, e) ==
  /\ phase = "idle"
  /\ file' = c /\ exists' = e /\ linked' = FALSE
  /\ table' = NoTable
  /\ stream' = Missing /\ pos' = 0 /\ origin' = Missing /\ rewrites' = 0
  /\ query' = None /\ answer' = None
  /\ UNCHANGED <<phase, reads, rc>>

-----------------------------------------------------------------------------
(* readSymbols() returns: all is read, or an exception stops it, which     *)
(* leaves in the table what was read before.                               *)
Finish(r) ==
  /\ phase' = "idle" /\ rc' = r
  /\ UNCHANGED <<diskVars, stream, pos, table, reads, query, answer, origin, rewrites>>

(* readSymbols() is called: a table that is not empty counts as loaded.    *)
ReadSymbols ==
  /\ phase = "idle" /\ reads < MaxReads
  /\ reads' = reads + 1
  /\ query' = None /\ answer' = None
  /\ IF table # NoTable
       THEN rc' = 0 /\ UNCHANGED <<linked, phase, stream, pos, origin, rewrites>>
       ELSE /\ linked' = exists
            /\ phase' = IF exists THEN "reading" ELSE "idle"
            /\ stream' = IF exists THEN file ELSE Missing
            /\ origin' = stream'
            /\ rc' = IF exists THEN rc ELSE -1
            /\ pos' = 0 /\ rewrites' = 0
  /\ UNCHANGED <<file, exists, table>>

(* map::emplace() keeps the first entry of an address.                     *)
Emplaced(map, a, n) ==
  [x \in DOMAIN map \cup {a} |-> IF x \in DOMAIN map THEN map[x] ELSE n]

(* getline() returns the next line.                                        *)
\* mutant: the table is keyed by the end of a function
GetLineKeyedByEnd ==
  /\ phase = "reading" /\ pos < Len(stream) /\ stream[pos + 1].type # "bad"
  /\ pos' = pos + 1
  /\ LET line == stream[pos + 1]
     IN  table' = IF line.type = "function"
                    THEN Emplaced(table, line.addr + line.length, line.length) ELSE table
  /\ UNCHANGED <<diskVars, phase, stream, reads, rc, query, answer, origin, rewrites>>

GetLine ==
  /\ phase = "reading" /\ pos < Len(stream) /\ stream[pos + 1].type # "bad"
  /\ pos' = pos + 1
  /\ LET line == stream[pos + 1]
     IN  table' = IF line.type = "function"
                    THEN Emplaced(table, line.addr, line.length) ELSE table
  /\ UNCHANGED <<diskVars, phase, stream, reads, rc, query, answer, origin, rewrites>>

(* stoul() throws.                                                         *)
BadLine ==
  /\ phase = "reading" /\ pos < Len(stream) /\ stream[pos + 1].type = "bad"
  /\ Finish(-1)

EndOfFile == phase = "reading" /\ pos = Len(stream) /\ Finish(0)

(* map::lower_bound(), whose argument is a key of the map.                 *)
LowerBound(address) ==
  {a \in DOMAIN table : a >= address % AddrMod}

Below(a) == {b \in DOMAIN table : b < a}

(* nearestSymbol(): nothing if no symbol starts at or behind the address;  *)
(* else that symbol or the one before it, if the address is not past its   *)
(* end.                                                                    *)
\* mutant: the byte behind a function belongs to it
NearestInclusive(address) ==
  LET it   == Min(LowerBound(address))
      near == IF address # it /\ Below(it) # {} THEN Max(Below(it)) ELSE it
  IN  IF LowerBound(address) # {} /\ address <= (near + table[near]) % AddrMod
        THEN near ELSE None

\* mutant: no step back from the symbol behind the address
NearestAbove(address) ==
  LET it == Min(LowerBound(address))
  IN  IF LowerBound(address) # {} /\ address < (it + table[it]) % AddrMod
        THEN it ELSE None

Nearest(address) ==
  LET it   == Min(LowerBound(address))
      near == IF address # it /\ Below(it) # {} THEN Max(Below(it)) ELSE it
  IN  IF LowerBound(address) # {} /\ address < (near + table[near]) % AddrMod
        THEN near ELSE None

NearestSymbol(address) ==
  /\ phase = "idle" /\ reads > 0
  /\ query' = address
  /\ answer' = Nearest(address)
  /\ UNCHANGED <<diskVars, readerVars, origin, rewrites>>

Next ==
  \/ \E c \in Contents, e \in BOOLEAN : ReplaceFile(c, e) \/ SetHostbootSymbols(c, e)
  \/ \E c \in Contents : RewriteFile(c)
  \/ ReadSymbols \/ GetLine \/ BadLine \/ EndOfFile
  \/ \E address \in Addresses : NearestSymbol(address)

Spec == Init /\ [][Next]_vars

-----------------------------------------------------------------------------
TypeOK ==
  /\ file \in Contents /\ exists \in BOOLEAN /\ linked \in BOOLEAN
  /\ phase \in {"idle", "reading"}
  /\ stream \in Seq(Lines) /\ pos \in 0 .. Len(stream)
  /\ DOMAIN table \subseteq 0 .. AddrMod - 1
  /\ \A a \in DOMAIN table : table[a] \in 0 .. AddrMod - 1
  /\ reads \in 0 .. MaxReads /\ rc \in {0, -1}
  /\ query \in Addresses \cup {None}
  /\ answer \in (0 .. AddrMod - 1) \cup {None}
  /\ origin \in Contents \cup {Missing} /\ rewrites \in 0 .. MaxRewrites

(* The address lies in the function.                                       *)
Covers(a, address) == a <= address /\ address < a + table[a]

(* Functions do not reach into the next one.                               *)
Disjoint == \A a, b \in DOMAIN table : a < b => a + table[a] <= b

(* The lines before the first damaged one.                                 *)
GoodLines(c) ==
  {k \in DOMAIN c : \A j \in 1 .. k : c[j].type # "bad"}

(* What the lines ks of a content say: of two functions that start at one  *)
(* address, the first one counts.                                          *)
TableOf(c, ks) ==
  LET fs == {k \in ks : c[k].type = "function"}
  IN  [a \in {c[k].addr : k \in fs} |->
         c[Min({k \in fs : c[k].addr = a})].length]

(* Whoever replaces the file, or rewrites it before or after it is read,   *)
(* and however often readSymbols() is called, the table that is searched   *)
(* is all that one content of the file says, the one it had when it was    *)
(* opened, up to its first damaged line; nothing of an earlier file is     *)
(* left in it.  Only a file that is rewritten while readSymbols() is       *)
(* inside of it may give a mixture.                                        *)
TableIsOfOneContent ==
  phase = "idle" /\ rewrites = 0 => table = TableOf(origin, GoodLines(origin))

(* nearestSymbol() never names a function that starts behind the address,  *)
(* unless it is the very first one, and never one that ends before it.     *)
NearestIsSound ==
  answer # None =>
    /\ answer \in DOMAIN table
    /\ Covers(answer, query) \/ (query < answer /\ Below(answer) = {})

(* An address in a function that another symbol follows is found, when the *)
(* functions of the table do not overlap.                                  *)
FoundUnlessLast ==
  query # None /\ Disjoint =>
    \A a \in DOMAIN table :
      Covers(a, query) /\ a # Max(DOMAIN table) => answer = a

(* The comment on nearestSymbol() promises the nearest symbol for the      *)
(* address given: so when all of a file is in the table, its functions do  *)
(* not overlap and none of them passes the last address, an address inside *)
(* of one has a symbol.                                                    *)
FindsNearest ==
  query # None /\ Disjoint /\ table = TableOf(origin, DOMAIN origin) =>
    \A a \in DOMAIN table :
      Covers(a, query) /\ a + table[a] < AddrMod => answer # None
=============================================================================
