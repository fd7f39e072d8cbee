----------------------------- MODULE UserTrace -----------------------------
(***************************************************************************)
(* The construction of User Defined sections that hold a trace: SectionUD  *)
(* (parser/section_ud.cpp) hands the payload to a trace plugin             *)
(* (hbplugins/fsp_trace.cpp), which writes it to a temporary file and runs *)
(* fsp-trace on that file in a child process, reading a pipe.              *)
(*                                                                         *)
(* The child runs concurrently with the parser and may fail at any moment; *)
(* every system call of the parser may fail.  A log of n bytes has n lines *)
(* of trace.  The sections of one process are built one after another.     *)
(***************************************************************************)
EXTENDS Integers, Sequences

CONSTANTS
  Lens,         \* payload sizes
  OccHdrSize,   \* bytes before the log in an OCC section
  PipeSize,     \* lines the pipe holds
  MaxSections   \* bound: sections built

ASSUME UserTraceAssumption ==
  /\ Lens \subseteq Nat
  /\ OccHdrSize \in Nat /\ PipeSize \in Nat \ {0} /\ MaxSections \in Nat

Absent == -1
Files  == 1 .. MaxSections     \* mkstemp() never gives the same name twice

VARIABLES
  pc,         \* where the construction stands
  built,      \* sections begun; it names the temporary file, too
  payload,    \* size of the payload
  log,        \* size of the log that fspTrace() gets
  pos,        \* bytes written to the file
  named,      \* TempFile::path_ is known
  files,      \* temporary files on disk and their sizes
  child,      \* fsp-trace: its state, the log it has read, the lines printed
  pipe,       \* lines in the pipe
  trace,      \* lines read from the pipe
  params,     \* parameters of the section
  leaked      \* history: temporary files whose name could not be learnt

vars == <<pc, built, payload, log, pos, named, files, child, pipe, trace,
          params, leaked>>

NoChild == [state |-> "none", read |-> Absent, printed |-> 0]
Param(name, size) == [name |-> name, size |-> size]
Ended   == {"idle", "done"}

(* What fspTrace() shows before it does anything that may fail.            *)
Heading == <<Param("Utility", 0), Param("StringFile", 0)>>

Init ==
  /\ pc = "idle" /\ built = 0
  /\ payload = 0 /\ log = 0 /\ pos = 0 /\ named = FALSE
  /\ files = [f \in Files |-> Absent]
  /\ child = NoChild /\ pipe = 0 /\ trace = 0 /\ params = <<>> /\ leaked = {}

-----------------------------------------------------------------------------
(* A section is built.  The plugin is looked up by the component id; one   *)
(* that refuses the subtype or the size leaves the payload to hexDump(),   *)
(* as does a component without a plugin.                                   *)
Accepts(plugin, subtypeOk, n) ==
  \/ plugin = "hb" /\ subtypeOk
  \/ plugin = "occ" /\ subtypeOk /\ n >= OccHdrSize

Build(plugin, subtypeOk, n) ==
  /\ pc \in Ended /\ built < MaxSections
  /\ built' = built + 1
  /\ payload' = n
  /\ pos' = 0 /\ named' = FALSE
  /\ child' = NoChild /\ pipe' = 0 /\ trace' = 0
  /\ IF Accepts(plugin, subtypeOk, n)
       THEN /\ log' = IF plugin = "occ" THEN n - OccHdrSize ELSE n
            /\ params' = Heading
            /\ pc' = "create"
       ELSE /\ log' = 0
            /\ params' = <<Param("Raw", n)>>
            /\ pc' = "done"
  /\ UNCHANGED <<files, leaked>>

(* TempFile::close() removes the file only if it knows its name.           *)
\* mutant: nothing is removed
CleanupNothing(f) == [files EXCEPT ![built] = f]

Cleanup(f) == [files EXCEPT ![built] = IF named THEN Absent ELSE f]

(* An exception: ~TempFile() runs, then the handler reports the error and  *)
(* what was read so far, and SectionUD falls back to the hex dump.         *)
Throw ==
  /\ files' = Cleanup(files[built])
  /\ params' = params \o <<Param("Error", 0)>>
                      \o (IF trace > 0 THEN <<Param("OutputMessage", trace)>> ELSE <<>>)
                      \o <<Param("Raw", payload)>>
  /\ pc' = "done"
  /\ UNCHANGED <<built, payload, log, pos, named, pipe, trace>>

(* mkstemp() *)
CreateFile ==
  /\ pc = "create" /\ pc' = "name"
  /\ files' = [files EXCEPT ![built] = 0]
  /\ UNCHANGED <<built, payload, log, pos, named, child, pipe, trace, params, leaked>>

CreateFails == pc = "create" /\ Throw /\ UNCHANGED <<child, leaked>>

(* readlink() *)
LearnName ==
  /\ pc = "name" /\ pc' = "write"
  /\ named' = TRUE
  /\ UNCHANGED <<built, payload, log, pos, files, child, pipe, trace, params, leaked>>

LearnNameFails ==
  /\ pc = "name"
  /\ leaked' = leaked \cup {built}
  /\ Throw /\ UNCHANGED child

(* write() may take less than it is given. *)
WriteLog(n) ==
  /\ pc = "write" /\ pos + n <= log
  /\ pos' = pos + n
  /\ files' = [files EXCEPT ![built] = @ + n]
  /\ UNCHANGED <<pc, built, payload, log, named, child, pipe, trace, params, leaked>>

WriteFails == pc = "write" /\ pos < log /\ Throw /\ UNCHANGED <<child, leaked>>

(* popen(), after a look for the utility in the current directory, which   *)
(* may throw as well.                                                      *)
\* mutant: one write() is taken for the whole log
StartChildEarly ==
  /\ pc = "write" /\ pos > 0
  /\ pc' = "read"
  /\ child' = [NoChild EXCEPT !.state = "running"]
  /\ UNCHANGED <<built, payload, log, pos, named, files, pipe, trace, params, leaked>>

StartChild ==
  /\ pc = "write" /\ pos >= log
  /\ pc' = "read"
  /\ child' = [NoChild EXCEPT !.state = "running"]
  /\ UNCHANGED <<built, payload, log, pos, named, files, pipe, trace, params, leaked>>

StartFails ==
  pc = "write" /\ pos >= log /\ Throw /\ UNCHANGED <<child, leaked>>

(* fread(): some lines, or end of file when the child has closed its end.  *)
\* mutant: the size of the buffer is taken for the number of bytes read
ReadPipeWholeBuffer(n) ==
  /\ pc = "read"
  /\ pipe' = pipe - n
  /\ trace' = trace + n
  /\ UNCHANGED <<pc, built, payload, log, pos, named, files, child, params, leaked>>

\* mutant: the parser waits for the child before it reads
ReadPipeAfterExit(n) ==
  /\ pc = "read" /\ n <= pipe /\ child.state # "running"
  /\ pipe' = pipe - n
  /\ trace' = trace + n
  /\ UNCHANGED <<pc, built, payload, log, pos, named, files, child, params, leaked>>

ReadPipe(n) ==
  /\ pc = "read" /\ n <= pipe
  /\ pipe' = pipe - n
  /\ trace' = trace + n
  /\ UNCHANGED <<pc, built, payload, log, pos, named, files, child, params, leaked>>

\* mutant: an empty pipe is taken for its end
EndOfFileEarly ==
  /\ pc = "read" /\ pipe = 0
  /\ pc' = "close"
  /\ UNCHANGED <<built, payload, log, pos, named, files, child, pipe, trace,
                 params, leaked>>

EndOfFile ==
  /\ pc = "read" /\ pipe = 0 /\ child.state \in {"succeeded", "failed"}
  /\ pc' = "close"
  /\ UNCHANGED <<built, payload, log, pos, named, files, child, pipe, trace,
                 params, leaked>>

(* pclose() waits for the child and returns its status.                    *)
Reaped == child' = [child EXCEPT !.state = "reaped"]

PrintTrace ==
  /\ pc = "close" /\ child.state = "succeeded"
  /\ Reaped
  /\ files' = Cleanup(files[built])
  /\ params' = Append(params, Param("Trace", trace))
  /\ pc' = "done"
  /\ UNCHANGED <<built, payload, log, pos, named, pipe, trace, leaked>>

WrongExitCode ==
  /\ pc = "close" /\ child.state = "failed"
  /\ Reaped
  /\ Throw /\ UNCHANGED leaked

-----------------------------------------------------------------------------
(* fsp-trace, as fspTrace() uses it: it opens the file by its name, reads  *)
(* what is in it, prints a line for each entry and exits with 0.           *)
ChildReads ==
  /\ child.state = "running" /\ child.read = Absent
  /\ files[built] # Absent
  /\ child' = [child EXCEPT !.read = files[built]]
  /\ UNCHANGED <<pc, built, payload, log, pos, named, files, pipe, trace, params, leaked>>

ChildPrints ==
  /\ child.state = "running" /\ child.printed < child.read
  /\ pipe < PipeSize
  /\ pipe' = pipe + 1
  /\ child' = [child EXCEPT !.printed = @ + 1]
  /\ UNCHANGED <<pc, built, payload, log, pos, named, files, trace, params, leaked>>

ChildExits ==
  /\ child.state = "running" /\ child.printed = child.read
  /\ child' = [child EXCEPT !.state = "succeeded"]
  /\ UNCHANGED <<pc, built, payload, log, pos, named, files, pipe, trace, params, leaked>>

(* It cannot be run, has no file or no string file, crashes, is killed ... *)
ChildFails ==
  /\ child.state = "running"
  /\ child' = [child EXCEPT !.state = "failed"]
  /\ UNCHANGED <<pc, built, payload, log, pos, named, files, pipe, trace, params, leaked>>

ChildRuns == ChildReads \/ ChildPrints \/ ChildExits

Parser ==
  \/ CreateFile \/ CreateFails \/ LearnName \/ LearnNameFails
  \/ \E n \in 1 .. log : WriteLog(n)
  \/ WriteFails \/ StartChild \/ StartFails
  \/ \E n \in 1 .. PipeSize : ReadPipe(n)
  \/ EndOfFile \/ PrintTrace \/ WrongExitCode

Next ==
  \/ \E plugin \in {"hb", "occ", "none"}, subtypeOk \in BOOLEAN, n \in Lens :
       Build(plugin, subtypeOk, n)
  \/ Parser
  \/ ChildRuns \/ ChildFails

Spec == Init /\ [][Next]_vars

(* The parser runs, and fsp-trace ends if it can write its output: there   *)
(* is no timeout, so the parser depends on that.  It need not ever fail.   *)
FairSpec == Spec /\ WF_vars(Parser) /\ WF_vars(ChildRuns)

-----------------------------------------------------------------------------
ParamNames == {"Utility", "StringFile", "Trace", "Raw", "Error",
               "OutputMessage"}

TypeOK ==
  /\ pc \in Ended \cup {"create", "name", "write", "read", "close"}
  /\ built \in 0 .. MaxSections
  /\ payload \in Nat /\ log \in Nat /\ pos \in Nat /\ named \in BOOLEAN
  /\ files \in [Files -> Nat \cup {Absent}]
  /\ child \in [state : {"none", "running", "succeeded", "failed", "reaped"},
                read : Nat \cup {Absent}, printed : Nat]
  /\ pipe \in 0 .. PipeSize /\ trace \in Nat
  /\ params \in Seq([name : ParamNames, size : Nat])
  /\ leaked \subseteq Files

Names == {params[k].name : k \in DOMAIN params}

(* While fsp-trace runs, the whole log is in the file and the file stays:  *)
(* the child can open it as late as it likes and reads all of it.          *)
ChildSeesWholeLog ==
  child.state = "running" => /\ files[built] = log
                             /\ child.read \in {Absent, log}

(* A section ends with the whole trace of its log and no error, or with    *)
(* its payload as a hex dump; never with a part of the trace as if it were *)
(* all, and never with both.  What fsp-trace printed before it failed is   *)
(* shown with the error.                                                   *)
TraceOrDump ==
  pc = "done" =>
    LET end == params[Len(params)]
    IN  /\ \/ end = Param("Trace", log) /\ Names \cap {"Error", "Raw"} = {}
           \/ end = Param("Raw", payload) /\ "Trace" \notin Names
        /\ "Error" \in Names =>
             IF child.printed > 0
               THEN \E k \in DOMAIN params :
                      params[k] = Param("OutputMessage", child.printed)
               ELSE "OutputMessage" \notin Names

(* Between sections nothing of an earlier one is left, whatever failed: no *)
(* running or unreaped child, and no temporary file but one whose name     *)
(* readlink() did not give.                                                *)
NothingLeftBehind ==
  pc \in Ended =>
    /\ child.state \in {"none", "reaped"}
    /\ \A f \in Files : files[f] # Absent => f \in leaked

(* The construction of a section ends: neither side waits for the other    *)
(* for ever, however small the pipe is.                                    *)
SectionEnds == pc \notin Ended ~> pc = "done"
=============================================================================
