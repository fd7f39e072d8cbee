------------------------------ MODULE BmcEvents ------------------------------
(***************************************************************************)
(* The events that the BMC keeps as files, as the utility sees them        *)
(* (util/task.cpp): the list walks through a directory that the logger     *)
(* changes meanwhile, and -b turns the hex dump in one file into bytes.    *)
(*                                                                         *)
(* A file is reduced to the text behind the first "ESEL=" in it.  A digit  *)
(* of the dump is its number; other characters are negative.               *)
(***************************************************************************)
EXTENDS Integers, Sequences, FiniteSets, SequencesExt

CONSTANTS
  Files,       \* names in the directory
  IdOf,        \* what atoi() makes of a name; 0 if it starts with no number
  FileOf,      \* the file of each argument of -b
  Contents,    \* contents of files, see Content
  May,         \* bound: the contents of each file
  Tails,       \* bound: what lies in memory behind the contents of a file,
               \*   up to what ends a dump
  MaxChanges,  \* bound: changes the logger makes
  MaxRuns      \* bound: runs of the utility

Base  == 16
Space == -1
Nul   == -2
Other == -3              \* neither a space, a digit nor 0
Chars == (0 .. Base - 1) \cup {Space, Nul, Other}

Content == [token : BOOLEAN, text : Seq(Chars)]

ASSUME BmcAssumption ==
  /\ Files # {} /\ IdOf \in [Files -> Nat] /\ MaxChanges \in Nat /\ MaxRuns \in Nat
  /\ DOMAIN FileOf \subseteq Nat
  /\ \A id \in DOMAIN FileOf : FileOf[id] \in Files => IdOf[FileOf[id]] = id
  /\ Contents \subseteq Content /\ May \in [Files -> SUBSET Contents]
  /\ Tails \subseteq Seq(Chars)
  /\ \A tail \in Tails : \E k \in DOMAIN tail : tail[k] \in {Nul, Other}

VARIABLES
  hasDir,   \* the directory exists
  files,    \* its files
  changes,  \* what the logger has done so far
  runs,     \* runs so far
  phase,    \* "idle", "scan", "open", "stat" or "done"
  cur,      \* the entry the list is at
  visited,  \* the entries the iterator has returned
  events,   \* the list so far: a time stamp for each id
  result,   \* what the run prints
  was,      \* history: what each file was since the run started
  listed    \* history: what a list has shown, until the logger changes something

vars == <<hasDir, files, changes, runs, phase, cur, visited, events, result, was, listed>>

Absent    == [token |-> FALSE, text |-> <<>>, mtime |-> -1]
NoStamp   == -1
NoId      == -1
NoResult  == [kind |-> "none", id |-> NoId, text |-> <<>>, bytes |-> <<>>]
Failed(k, id) == [NoResult EXCEPT !.kind = k, !.id = id]
Stamped(c, t) == [token |-> c.token, text |-> c.text, mtime |-> t]

Exists(f) == files[f] # Absent

-----------------------------------------------------------------------------
(* The conversion of a hex dump, a character at a time: "between" two      *)
(* bytes, "inside" a byte, "ended" or "bad".                               *)
IsDigit(c) == c >= 0

\* mutant: spaces are skipped inside of a byte, too
ConvertLax(acc, c) ==
  CASE acc.at = "between" /\ IsDigit(c) -> [acc EXCEPT !.at = "inside", !.high = c]
    [] acc.at = "between" /\ c \notin {Space} /\ ~IsDigit(c) -> [acc EXCEPT !.at = "ended"]
    [] acc.at = "inside" /\ IsDigit(c) ->
         [acc EXCEPT !.at = "between", !.bytes = Append(@, Base * acc.high + c)]
    [] acc.at = "inside" /\ c \notin {Space} /\ ~IsDigit(c) -> [acc EXCEPT !.at = "bad"]
    [] OTHER -> acc

Convert(acc, c) ==
  CASE acc.at = "between" /\ IsDigit(c) -> [acc EXCEPT !.at = "inside", !.high = c]
    [] acc.at = "between" /\ c \notin {Space} /\ ~IsDigit(c) -> [acc EXCEPT !.at = "ended"]
    [] acc.at = "inside" /\ IsDigit(c) ->
         [acc EXCEPT !.at = "between", !.bytes = Append(@, Base * acc.high + c)]
    [] acc.at = "inside" /\ ~IsDigit(c) -> [acc EXCEPT !.at = "bad"]
    [] OTHER -> acc

Converted(text) ==
  LET conv[k \in 0 .. Len(text)] ==
        IF k = 0 THEN [at |-> "between", high |-> 0, bytes |-> <<>>]
                 ELSE Convert(conv[k - 1], text[k])
  IN  conv[Len(text)]

(* What readBmcEvent() makes of the text behind the token.                 *)
Outcome(id, text) ==
  LET c == Converted(text)
  IN  IF c.at = "bad" THEN [Failed("hex", id) EXCEPT !.text = text]
      ELSE IF c.bytes = <<>> THEN [Failed("noEsel", id) EXCEPT !.text = text]
      ELSE [kind |-> "event", id |-> id, text |-> text, bytes |-> c.bytes]

(* Nothing ends the vector: a dump that goes on to the end of the file is  *)
(* read on in memory that does not belong to it, and the process dies or   *)
(* takes what is there.                                                    *)
Outcomes(id, text) ==
  IF Converted(text).at \in {"ended", "bad"}
    THEN {Outcome(id, text)}
    ELSE {[Failed("crashed", id) EXCEPT !.text = text]} \cup
         {[Outcome(id, text \o tail) EXCEPT !.text = text] : tail \in Tails}

-----------------------------------------------------------------------------
Init ==
  /\ hasDir \in BOOLEAN
  /\ \E has \in SUBSET Files :
       /\ files \in [Files -> {Absent} \cup {Stamped(c, 0) : c \in Contents}]
       /\ \A f \in Files :
            IF f \in has THEN hasDir /\ \E c \in May[f] : files[f] = Stamped(c, 0)
                         ELSE files[f] = Absent
  /\ changes = 0 /\ runs = 0
  /\ phase = "idle" /\ cur \in {CHOOSE f \in Files : TRUE} /\ visited = {}
  /\ events = <<>> /\ result = NoResult
  /\ was = [f \in Files |-> {files[f]}] /\ listed = {}

(* The logger makes a file, writes what belongs into it, which a reader    *)
(* may find in part, and removes it when the event is deleted.             *)
LoggerChanges(f, now) ==
  /\ hasDir /\ changes < MaxChanges
  /\ changes' = changes + 1
  /\ files' = [files EXCEPT ![f] = now]
  /\ was' = [was EXCEPT ![f] = @ \cup {now}]
  /\ listed' = {}
  /\ UNCHANGED <<hasDir, runs, phase, cur, visited, events, result>>

Create(f) ==
  /\ ~Exists(f)
  /\ LoggerChanges(f, Stamped([token |-> FALSE, text |-> <<>>], changes + 1))

Write(f, c) ==
  /\ Exists(f) /\ IsPrefix(files[f].text, c.text)
  /\ files[f].token => c.token
  /\ LoggerChanges(f, Stamped(c, changes + 1))

Delete(f) ==
  /\ Exists(f)
  /\ LoggerChanges(f, Absent)

-----------------------------------------------------------------------------
Finish(r) == phase' = "done" /\ result' = r

Starts ==
  /\ phase = "idle"
  /\ was' = [f \in Files |-> {files[f]}]

(* Task::printBmcEventList() opens the directory ...                       *)
StartList ==
  /\ Starts
  /\ IF hasDir THEN phase' = "scan" /\ UNCHANGED result
               ELSE Finish(Failed("noFile", NoId))
  /\ listed' = {}
  /\ UNCHANGED <<hasDir, files, changes, runs, cur, visited, events>>

(* ... and goes from entry to entry: to each that stays there, and to any  *)
(* that has been there for a while.  Names without a number are skipped.   *)
\* mutant: they are not
VisitEveryName(f) ==
  /\ phase = "scan" /\ f \notin visited /\ was[f] # {Absent}
  /\ visited' = visited \cup {f} /\ cur' = f
  /\ phase' = "open"
  /\ UNCHANGED <<hasDir, files, changes, runs, events, result, was, listed>>

\* mutant: such a name ends the loop
VisitUntilName(f) ==
  /\ phase = "scan" /\ f \notin visited /\ was[f] # {Absent}
  /\ visited' = IF IdOf[f] = 0 THEN Files ELSE visited \cup {f}
  /\ cur' = f
  /\ phase' = IF IdOf[f] = 0 THEN "scan" ELSE "open"
  /\ UNCHANGED <<hasDir, files, changes, runs, events, result, was, listed>>

Visit(f) ==
  /\ phase = "scan" /\ f \notin visited /\ was[f] # {Absent}
  /\ visited' = visited \cup {f} /\ cur' = f
  /\ phase' = IF IdOf[f] = 0 THEN "scan" ELSE "open"
  /\ UNCHANGED <<hasDir, files, changes, runs, events, result, was, listed>>

(* readFile() and the search for the token: a file that has gone ends the  *)
(* whole list.                                                             *)
\* mutant: the token is not looked for
OpenAnyEvent ==
  /\ phase = "open"
  /\ IF Exists(cur) THEN phase' = "stat" /\ UNCHANGED result
                    ELSE Finish(Failed("noFile", NoId))
  /\ UNCHANGED <<hasDir, files, changes, runs, cur, visited, events, was, listed>>

OpenEvent ==
  /\ phase = "open"
  /\ IF Exists(cur)
       THEN /\ phase' = IF files[cur].token THEN "stat" ELSE "scan"
            /\ UNCHANGED result
       ELSE Finish(Failed("noFile", NoId))
  /\ UNCHANGED <<hasDir, files, changes, runs, cur, visited, events, was, listed>>

(* std::map::insert() keeps the first event of an id.                      *)
Inserted(map, id, stamp) ==
  [i \in DOMAIN map \cup {id} |-> IF i \in DOMAIN map THEN map[i] ELSE stamp]

(* The time stamp is left empty if the file has gone by now.               *)
StatEvent ==
  /\ phase = "stat"
  /\ events' = Inserted(events, IdOf[cur], IF Exists(cur) THEN files[cur].mtime ELSE NoStamp)
  /\ phase' = "scan"
  /\ UNCHANGED <<hasDir, files, changes, runs, cur, visited, result, was, listed>>

EndList ==
  /\ phase = "scan"
  /\ \A f \in Files : Absent \notin was[f] => f \in visited
  /\ Finish([NoResult EXCEPT !.kind = "list"])
  /\ listed' = IF \A f \in Files : Cardinality(was[f]) = 1 THEN DOMAIN events ELSE {}
  /\ UNCHANGED <<hasDir, files, changes, runs, cur, visited, events, was>>

(* Task::readBmcEvent() *)
ReadEvent(id) ==
  /\ Starts
  /\ \E r \in IF FileOf[id] \notin Files \/ files[FileOf[id]] = Absent
                THEN {Failed("noFile", id)}
                ELSE IF files[FileOf[id]].token
                  THEN Outcomes(id, files[FileOf[id]].text)
                  ELSE {Failed("noEsel", id)} :
       Finish(r)
  /\ UNCHANGED <<hasDir, files, changes, runs, cur, visited, events, listed>>

(* The user starts the utility again. *)
Restart ==
  /\ phase = "done" /\ runs < MaxRuns
  /\ phase' = "idle" /\ runs' = runs + 1
  /\ visited' = {} /\ events' = <<>> /\ result' = NoResult
  /\ UNCHANGED <<hasDir, files, changes, cur, was, listed>>

Next ==
  \/ \E f \in Files : Create(f) \/ Delete(f) \/ Visit(f)
  \/ \E f \in Files : \E c \in May[f] : Write(f, c)
  \/ StartList \/ OpenEvent \/ StatEvent \/ EndList \/ Restart
  \/ \E id \in DOMAIN FileOf : ReadEvent(id)

Spec == Init /\ [][Next]_vars

-----------------------------------------------------------------------------
File == [token : BOOLEAN, text : Seq(Chars), mtime : -1 .. MaxChanges]
Ids  == {IdOf[f] : f \in Files} \ {0}

TypeOK ==
  /\ hasDir \in BOOLEAN
  /\ files \in [Files -> File] /\ changes \in 0 .. MaxChanges /\ runs \in 0 .. MaxRuns
  /\ phase \in {"idle", "scan", "open", "stat", "done"}
  /\ cur \in Files /\ visited \subseteq Files
  /\ DOMAIN events \subseteq Ids /\ \A id \in DOMAIN events : events[id] \in -1 .. MaxChanges
  /\ result.kind \in {"none", "list", "noFile", "noEsel", "hex", "crashed", "event"}
  /\ result.bytes \in Seq(0 .. Base * Base - 1)
  /\ was \in [Files -> SUBSET File] /\ listed \subseteq Ids

(* Whatever the logger does meanwhile, a list (printBmcEventList) has      *)
(* every event with an eSEL that stayed as it was, shows none that was not *)
(* there with one, and dates each by a file of that number; and the list   *)
(* fails only when there is no directory or a file has gone under it.      *)
ListIsSound ==
  /\ result.kind = "list" =>
       /\ \A f \in Files :
            (\A v \in was[f] : v.token) /\ IdOf[f] # 0 => IdOf[f] \in DOMAIN events
       /\ \A id \in DOMAIN events : \E f \in Files : 
            /\ IdOf[f] = id /\ \E v \in was[f] : v.token
            /\ \E v \in was[f] : v.mtime = events[id]
  /\ result.kind = "noFile" /\ result.id = NoId =>
       \/ ~hasDir
       \/ \E f \in Files : Absent \in was[f] /\ was[f] # {Absent} /\ IdOf[f] # 0

(* The file whose name is just the number is there, with an eSEL; so are   *)
(* files whose names only begin with the number, like 07 or 7.bak.         *)
PlainIsThere(id) == FileOf[id] \in Files /\ files[FileOf[id]].token
OddNames(id) == {f \in Files \ {FileOf[id]} : IdOf[f] = id /\ files[f].token}

(* As long as the logger changes nothing, -b (readBmcEvent) finds each id  *)
(* that a list has shown in the file of that very name; when it does not,  *)
(* a file with an odd name, which is there with an eSEL, has put the id    *)
(* into the list, and -b fails rather than show anything else.             *)
ListedCanBeRead ==
  \A id \in listed \cap DOMAIN FileOf :
    phase = "done" /\ result.id = id =>
      /\ PlainIsThere(id) => result.kind # "noFile"
      /\ ~PlainIsThere(id) => OddNames(id) # {} /\ result.kind \in {"noFile", "noEsel"}

(* The dump as a reader sees it: the characters before the first one that  *)
(* is neither a digit nor a space, and the digits among them.              *)
Dump(text) ==
  LET ends == {k \in DOMAIN text : text[k] \in {Nul, Other}}
  IN  IF ends = {} THEN text
                   ELSE SubSeq(text, 1, (CHOOSE k \in ends : \A j \in ends : k <= j) - 1)

DigitsUpTo(dump, k) == Cardinality({j \in 1 .. k : IsDigit(dump[j])})

(* Positions of digits that are the first of their byte. *)
Firsts(dump) == {k \in DOMAIN dump : IsDigit(dump[k]) /\ DigitsUpTo(dump, k) % 2 = 1}

Decodes(r) ==
  LET dump   == Dump(r.text)
      digits == DigitsUpTo(dump, Len(dump))
      closed == dump # r.text
      broken == \E k \in Firsts(dump) :
                  IF k < Len(dump) THEN ~IsDigit(dump[k + 1]) ELSE closed
  IN  /\ r.kind = "event" =>
           /\ ~broken
           /\ \A k \in Firsts(dump) :
                k < Len(dump) => r.bytes[(DigitsUpTo(dump, k) + 1) \div 2]
                                   = (Base * dump[k]) + dump[k + 1]
           /\ closed => 2 * Len(r.bytes) = digits
      /\ r.kind = "hex" => broken \/ ~closed
      /\ r.kind = "crashed" => ~closed
      /\ r.kind = "noEsel" => digits = 0

(* Every two digits of the dump are a byte, the high one first; a byte     *)
(* whose digits are not side by side is an error, and only such a byte is; *)
(* and readBmcEvent() gives no more than the dump has, if the file says    *)
(* where the dump ends.                                                    *)
DecodesDump == Decodes(result)
=============================================================================
