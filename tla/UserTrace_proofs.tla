--------------------------- MODULE UserTrace_proofs ---------------------------
(***************************************************************************)
(* Proofs about UserTrace for all sizes of payloads, of the OCC header and *)
(* of the pipe, any number of sections and every failure.                  *)
(***************************************************************************)
EXTENDS UserTrace, TLAPS

(* Temporary files: later sections have none, earlier ones and a finished  *)
(* one only if the name could not be learnt.                               *)
FilesOnDisk ==
  /\ pc = "idle" => built = 0
  /\ pc # "idle" => built \in Files
  /\ \A f \in Files : /\ f > built => files[f] = Absent
                      /\ (f < built \/ pc \in Ended) /\ files[f] # Absent => f \in leaked

(* How far the temporary file is.                                          *)
FileOfSection ==
  /\ pc = "create" => files[built] = Absent /\ ~named /\ pos = 0
  /\ pc = "name" => files[built] = 0 /\ ~named /\ pos = 0
  /\ pc = "write" => files[built] = pos /\ named /\ pos <= log
  /\ pc \in {"read", "close"} => files[built] = log /\ named

(* How far the child is: its lines are in the pipe or have been read, and  *)
(* it succeeds only when it has printed all of the log.                    *)
ChildOfSection ==
  /\ pc \in Ended => child.state \in {"none", "reaped"}
  /\ pc \in {"idle", "create", "name", "write"} => child = NoChild
  /\ pc = "read" => child.state \in {"running", "succeeded", "failed"}
  /\ pc = "close" => child.state \in {"succeeded", "failed"} /\ pipe = 0
  /\ pc \notin Ended => child.printed = trace + pipe
  /\ child.state \in {"running", "succeeded", "failed"} => child.read \in {Absent, log}
  /\ child.state = "succeeded" => child.read = log /\ child.printed = log

Shown == pc \notin Ended => params = Heading

IInv ==
  /\ TypeOK /\ FilesOnDisk /\ FileOfSection /\ ChildOfSection /\ Shown
  /\ TraceOrDump

-----------------------------------------------------------------------------
LEMMA InitIInv == Init => IInv
<1> SUFFICES ASSUME Init PROVE IInv
  OBVIOUS
<1>1. TypeOK
  <2>1. child \in [state : {"none", "running", "succeeded", "failed", "reaped"},
                   read : Nat \cup {Absent}, printed : Nat]
    BY DEF Init, NoChild
  <2>2. /\ pc \in Ended \cup {"create", "name", "write", "read", "close"}
        /\ files \in [Files -> Nat \cup {Absent}] /\ leaked \subseteq Files
        /\ params \in Seq([name : ParamNames, size : Nat])
    BY DEF Init, Ended
  <2>3. /\ built \in 0 .. MaxSections /\ pipe \in 0 .. PipeSize /\ trace \in Nat
        /\ payload \in Nat /\ log \in Nat /\ pos \in Nat
    BY UserTraceAssumption DEF Init
  <2>4. named \in BOOLEAN
    BY DEF Init
  <2> QED BY <2>1, <2>2, <2>3, <2>4 DEF TypeOK
<1>2. FilesOnDisk /\ FileOfSection /\ Shown /\ TraceOrDump
  BY DEF Init, FilesOnDisk, FileOfSection, Shown, TraceOrDump, Files, Ended
<1>3. ChildOfSection
  BY DEF Init, ChildOfSection, NoChild, Ended
<1> QED BY <1>1, <1>2, <1>3 DEF IInv

(* A parameter has the type that the collector gives it, and so has the    *)
(* heading.                                                                *)
ParamSet == [name : ParamNames, size : Nat]
NamesOf(ps) == {ps[k].name : k \in DOMAIN ps}

LEMMA ParamType ==
  ASSUME NEW name \in ParamNames, NEW size \in Nat
  PROVE  Param(name, size) \in ParamSet
BY DEF Param, ParamSet

LEMMA HeadingType ==
  /\ Heading \in Seq(ParamSet) /\ Len(Heading) = 2
  /\ NamesOf(Heading) = {"Utility", "StringFile"}
<1> DEFINE Utility == Param("Utility", 0)
           Strings == Param("StringFile", 0)
<1>1. /\ Utility \in ParamSet /\ Strings \in ParamSet
      /\ Utility.name = "Utility" /\ Strings.name = "StringFile"
  BY DEF Param, ParamSet, ParamNames
<1>2. Heading = <<Utility, Strings>>
  BY DEF Heading
<1> HIDE DEF Utility, Strings
<1>3. /\ Heading \in Seq(ParamSet) /\ Len(Heading) = 2 /\ DOMAIN Heading = {1, 2}
      /\ Heading[1] = Utility /\ Heading[2] = Strings
  BY <1>1, <1>2
<1>4. NamesOf(Heading) = {Utility.name, Strings.name}
  BY <1>3 DEF NamesOf
<1> QED BY <1>1, <1>3, <1>4

(* What one more parameter adds.                                           *)
LEMMA OneMore ==
  ASSUME NEW ps \in Seq(ParamSet), NEW p \in ParamSet
  PROVE  LET qs == ps \o <<p>> IN
         /\ qs \in Seq(ParamSet) /\ Len(qs) = Len(ps) + 1 /\ Len(qs) \in DOMAIN qs
         /\ qs[Len(qs)] = p /\ \A k \in DOMAIN ps : k \in DOMAIN qs /\ qs[k] = ps[k]
         /\ NamesOf(qs) = NamesOf(ps) \cup {p.name}
<1> DEFINE qs == ps \o <<p>>
<1>1. /\ qs \in Seq(ParamSet) /\ Len(qs) = Len(ps) + 1
      /\ DOMAIN qs = 1 .. Len(ps) + 1 /\ DOMAIN ps = 1 .. Len(ps) /\ Len(ps) \in Nat
  OBVIOUS
<1>2. /\ \A k \in 1 .. Len(ps) : qs[k] = ps[k]
      /\ qs[Len(ps) + 1] = p
  OBVIOUS
<1> HIDE DEF qs
<1>3. 1 .. Len(ps) + 1 = (1 .. Len(ps)) \cup {Len(ps) + 1}
  BY <1>1
<1>4. NamesOf(qs) = {qs[k].name : k \in 1 .. Len(ps)} \cup {qs[Len(ps) + 1].name}
  BY <1>1, <1>3 DEF NamesOf
<1>5. {qs[k].name : k \in 1 .. Len(ps)} = NamesOf(ps)
  BY <1>1, <1>2 DEF NamesOf
<1>6. /\ qs \in Seq(ParamSet) /\ Len(qs) = Len(ps) + 1 /\ Len(qs) \in DOMAIN qs
      /\ qs[Len(qs)] = p /\ \A k \in DOMAIN ps : k \in DOMAIN qs /\ qs[k] = ps[k]
      /\ NamesOf(qs) = NamesOf(ps) \cup {p.name}
  BY <1>1, <1>2, <1>3, <1>4, <1>5
<1> QED BY <1>6 DEF qs

(* The next section is built.                                              *)
LEMMA BuildIInv ==
  ASSUME IInv, NEW plugin \in {"hb", "occ", "none"}, NEW subtypeOk \in BOOLEAN,
         NEW n \in Lens, Build(plugin, subtypeOk, n)
  PROVE  IInv'
<1> USE DEF IInv
<1>1. n \in Nat
  BY UserTraceAssumption
<1>2. /\ pc \in Ended /\ built \in Nat /\ built < MaxSections
      /\ built' = built + 1 /\ built' \in Files /\ built' # built
      /\ \A f \in Files : f < built' => f < built \/ f = built
      /\ \A f \in Files : f > built' => f > built
      /\ payload' = n /\ pos' = 0 /\ named' = FALSE /\ child' = NoChild /\ pipe' = 0
      /\ trace' = 0 /\ UNCHANGED <<files, leaked>> /\ pc' \in {"create", "done"}
  BY UserTraceAssumption DEF TypeOK, Files, Build
<1>3. \/ pc' = "create" /\ log' \in Nat /\ params' = Heading
      \/ pc' = "done" /\ log' = 0 /\ params' = <<Param("Raw", n)>>
  BY <1>1, UserTraceAssumption DEF Accepts, Heading, Build
<1>4. /\ Param("Raw", n) \in ParamSet /\ "Raw" # "Trace" /\ "Raw" # "Error"
      /\ Param("Raw", n).name = "Raw"
  BY <1>1 DEF Param, ParamSet, ParamNames
<1>5. TypeOK'
  <2>1. params' \in Seq(ParamSet) /\ log' \in Nat
    <3> DEFINE Raw == Param("Raw", n)
    <3>1. Raw \in ParamSet /\ (params' = Heading \/ params' = <<Raw>>) /\ log' \in Nat
      BY <1>3, <1>4
    <3> HIDE DEF Raw
    <3>2. Heading \in Seq(ParamSet)
      BY HeadingType
    <3>3. <<Raw>> \in Seq(ParamSet)
      BY <3>1
    <3> QED BY <3>1, <3>2, <3>3
  <2>2. child' \in [state : {"none", "running", "succeeded", "failed", "reaped"},
                    read : Nat \cup {Absent}, printed : Nat]
    BY <1>2 DEF NoChild
  <2>3. /\ built' \in 0 .. MaxSections /\ pipe' \in 0 .. PipeSize
        /\ files' \in [Files -> Nat \cup {Absent}] /\ leaked' \subseteq Files
    BY <1>2, UserTraceAssumption DEF TypeOK, Files
  <2>4. /\ payload' \in Nat /\ pos' \in Nat /\ named' \in BOOLEAN /\ trace' \in Nat
        /\ pc' \in Ended \cup {"create", "name", "write", "read", "close"}
    BY <1>1, <1>2 DEF Ended
  <2> QED BY <2>1, <2>2, <2>3, <2>4 DEF TypeOK, ParamSet
<1>6. FilesOnDisk'
  BY <1>2 DEF FilesOnDisk, Ended, TypeOK, Files
<1>7. FileOfSection'
  BY <1>2 DEF FileOfSection, FilesOnDisk, Ended, TypeOK, Files
<1>8. ChildOfSection' /\ Shown'
  BY <1>2, <1>3 DEF ChildOfSection, Shown, Ended, NoChild
<1>9. TraceOrDump'
  <2>1. CASE pc' = "create"
    BY <2>1 DEF TraceOrDump
  <2>2. CASE params' = <<Param("Raw", n)>>
    <3>1. Len(params') = 1 /\ params'[1] = Param("Raw", n) /\ DOMAIN params' = {1}
      BY <2>2
    <3>2. Names' = {"Raw"}
      BY <3>1, <1>4 DEF Names
    <3> QED BY <3>1, <3>2, <1>2, <1>4 DEF TraceOrDump
  <2> QED BY <2>1, <2>2, <1>3
<1> QED BY <1>5, <1>6, <1>7, <1>8, <1>9

(* What an exception leaves in the section.                                *)
LEMMA ThrowShows ==
  ASSUME IInv, pc \notin Ended, Throw, child'.printed = child.printed, pipe = 0
  PROVE  params' \in Seq(ParamSet) /\ TraceOrDump'
<1> DEFINE Out == Param("OutputMessage", trace)
           Err == Param("Error", 0)
           Raw == Param("Raw", payload)
<1>1. /\ params = Heading /\ trace \in Nat /\ payload \in Nat
      /\ child'.printed = trace /\ payload' = payload
  BY DEF IInv, Shown, ChildOfSection, TypeOK, Throw
<1>2. /\ Out \in ParamSet /\ Err \in ParamSet /\ Raw \in ParamSet
      /\ Out.name = "OutputMessage" /\ Err.name = "Error" /\ Raw.name = "Raw"
  BY <1>1 DEF Param, ParamSet, ParamNames
<1>3. params' = Heading \o <<Err>> \o (IF trace > 0 THEN <<Out>> ELSE <<>>) \o <<Raw>>
  BY <1>1 DEF Throw
<1> HIDE DEF Out, Err, Raw
<1> DEFINE WithErr == Heading \o <<Err>>
           WithOut == WithErr \o <<Out>>
<1>4. /\ WithErr \in Seq(ParamSet)
      /\ NamesOf(WithErr) = {"Utility", "StringFile", "Error"}
  <2>1. WithErr \in Seq(ParamSet) /\ NamesOf(WithErr) = NamesOf(Heading) \cup {Err.name}
    BY <1>2, HeadingType, OneMore, Zenon
  <2> QED BY <2>1, <1>2, HeadingType
<1>5. /\ WithOut \in Seq(ParamSet)
      /\ NamesOf(WithOut) = {"Utility", "StringFile", "Error", "OutputMessage"}
      /\ Len(WithOut) \in DOMAIN WithOut /\ WithOut[Len(WithOut)] = Out
  <2>1. /\ WithOut \in Seq(ParamSet) /\ NamesOf(WithOut) = NamesOf(WithErr) \cup {Out.name}
        /\ Len(WithOut) \in DOMAIN WithOut /\ WithOut[Len(WithOut)] = Out
    <3> HIDE DEF WithErr
    <3> QED BY <1>2, <1>4, OneMore, Zenon
  <2> QED BY <2>1, <1>2, <1>4
<1>6. Names' = NamesOf(params')
  BY DEF Names, NamesOf
<1> HIDE DEF WithErr, WithOut
<1>7. CASE trace > 0
  <2>1. params' = WithOut \o <<Raw>>
    BY <1>3, <1>7 DEF WithOut, WithErr
  <2>2. /\ params' \in Seq(ParamSet) /\ params'[Len(params')] = Raw
        /\ \E k \in DOMAIN params' : params'[k] = Out
        /\ Names' = {"Utility", "StringFile", "Error", "OutputMessage", "Raw"}
    <3>1. LET qs == WithOut \o <<Raw>> IN
          /\ qs \in Seq(ParamSet) /\ Len(qs) = Len(WithOut) + 1 /\ Len(qs) \in DOMAIN qs
          /\ qs[Len(qs)] = Raw
          /\ \A k \in DOMAIN WithOut : k \in DOMAIN qs /\ qs[k] = WithOut[k]
          /\ NamesOf(qs) = NamesOf(WithOut) \cup {Raw.name}
      BY <1>2, <1>5, OneMore, Zenon
    <3> QED BY <3>1, <2>1, <1>2, <1>5, <1>6
  <2> QED BY <2>2, <1>1, <1>7 DEF TraceOrDump, Out, Raw
<1>8. CASE ~(trace > 0)
  <2>1. params' = WithErr \o <<Raw>>
    BY <1>3, <1>8, <1>4 DEF WithErr
  <2>2. /\ params' \in Seq(ParamSet) /\ params'[Len(params')] = Raw
        /\ Names' = {"Utility", "StringFile", "Error", "Raw"}
    <3>1. /\ params' \in Seq(ParamSet) /\ params'[Len(params')] = Raw
          /\ NamesOf(params') = NamesOf(WithErr) \cup {Raw.name}
      BY <2>1, <1>2, <1>4, OneMore, Zenon
    <3> QED BY <3>1, <1>2, <1>4, <1>6
  <2> QED BY <2>2, <1>1, <1>8 DEF TraceOrDump, Raw
<1> QED BY <1>7, <1>8

(* An exception, from wherever it comes: it is enough that the child is    *)
(* not there or was reaped, and that a file without a name is leaked.      *)
LEMMA ThrowIInv ==
  ASSUME IInv, pc \notin Ended, Throw, pipe = 0,
         child'.printed = child.printed, child'.read = child.read,
         child' \in [state : {"none", "reaped"}, read : Nat \cup {Absent}, printed : Nat],
         leaked' = leaked \/ leaked' = leaked \cup {built},
         files[built] # Absent => named \/ built \in leaked'
  PROVE  IInv'
<1> USE DEF IInv
<1>1. params' \in Seq(ParamSet) /\ TraceOrDump'
  BY ThrowShows
<1>2. /\ built \in Files /\ pc' = "done" /\ pc' \in Ended /\ pc # "idle"
      /\ UNCHANGED <<built, payload, log, pos, named, pipe, trace>>
      /\ files' = [files EXCEPT ![built] = IF named THEN Absent ELSE files[built]]
  BY DEF Throw, Cleanup, FilesOnDisk, Ended
<1>3. TypeOK'
  BY <1>1, <1>2 DEF TypeOK, Ended, ParamSet
<1>4. FilesOnDisk'
  <2>1. ASSUME NEW f \in Files
        PROVE  /\ f > built => files'[f] = Absent
               /\ f <= built /\ files'[f] # Absent => f \in leaked'
    <3>1. CASE f = built
      BY <3>1, <1>2 DEF TypeOK, Files
    <3>2. CASE f # built
      BY <3>2, <1>2 DEF FilesOnDisk, TypeOK, Files
    <3> QED BY <3>1, <3>2
  <2>2. \A f \in Files : f > built \/ f <= built
    BY <1>2 DEF Files
  <2> QED BY <2>1, <2>2, <1>2 DEF FilesOnDisk
<1>5. FileOfSection' /\ ChildOfSection' /\ Shown'
  BY <1>2 DEF FileOfSection, ChildOfSection, Shown, Ended
<1> QED BY <1>1, <1>3, <1>4, <1>5

(* The system calls that work. *)
LEMMA CallIInv ==
  ASSUME IInv,
         CreateFile \/ LearnName \/ (\E n \in 1 .. log : WriteLog(n)) \/ StartChild
  PROVE  IInv'
<1> USE DEF IInv
<1>1. /\ pc \in {"create", "name", "write"} /\ pc' \in {"name", "write", "read"}
      /\ built \in Files /\ child = NoChild /\ params = Heading
      /\ UNCHANGED <<built, payload, log, pipe, trace, params, leaked>>
  BY DEF CreateFile, LearnName, WriteLog, StartChild, FilesOnDisk, ChildOfSection,
         Shown, Ended
<1>2. /\ TypeOK'
      /\ \A f \in Files : f # built => files'[f] = files[f]
      /\ FileOfSection'
  <2>1. CASE CreateFile
    BY <2>1, <1>1 DEF CreateFile, TypeOK, FileOfSection, Ended
  <2>2. CASE LearnName
    BY <2>2, <1>1 DEF LearnName, TypeOK, FileOfSection, Ended
  <2>3. ASSUME NEW n \in 1 .. log, WriteLog(n)
        PROVE  /\ TypeOK'
               /\ \A f \in Files : f # built => files'[f] = files[f]
               /\ FileOfSection'
    BY <2>3, <1>1 DEF WriteLog, TypeOK, FileOfSection, Ended
  <2>4. CASE StartChild
    BY <2>4, <1>1 DEF StartChild, TypeOK, FileOfSection, Ended, NoChild, Absent
  <2> QED BY <2>1, <2>2, <2>3, <2>4
<1>3. FilesOnDisk'
  BY <1>1, <1>2 DEF FilesOnDisk, Ended, Files, TypeOK
<1>4. ChildOfSection' /\ Shown' /\ TraceOrDump'
  BY <1>1 DEF CreateFile, LearnName, WriteLog, StartChild, ChildOfSection, Shown,
              TraceOrDump, Ended, NoChild, Absent, TypeOK
<1> QED BY <1>2, <1>3, <1>4

(* Those that fail.  Before readlink() has given the name of the file,     *)
(* nobody can remove it.                                                   *)
LEMMA FailIInv ==
  ASSUME IInv, CreateFails \/ LearnNameFails \/ WriteFails \/ StartFails \/ WrongExitCode
  PROVE  IInv'
<1> USE DEF IInv
<1>1. pc \notin Ended /\ Throw /\ pc \in {"create", "name", "write", "close"}
  BY DEF CreateFails, LearnNameFails, WriteFails, StartFails, WrongExitCode, Ended
<1>2. pipe = 0 /\ child \in [state : {"none", "running", "succeeded", "failed", "reaped"},
                             read : Nat \cup {Absent}, printed : Nat]
  BY <1>1 DEF ChildOfSection, NoChild, TypeOK, Ended
<1>3. /\ child'.printed = child.printed /\ child'.read = child.read
      /\ child' \in [state : {"none", "reaped"}, read : Nat \cup {Absent}, printed : Nat]
  <2>1. CASE WrongExitCode
    BY <2>1, <1>2 DEF WrongExitCode, Reaped
  <2>2. CASE ~WrongExitCode
    <3>1. child' = child /\ child = NoChild
      BY <2>2 DEF CreateFails, LearnNameFails, WriteFails, StartFails, ChildOfSection
    <3> QED BY <3>1 DEF NoChild, Absent
  <2> QED BY <2>1, <2>2
<1>4. /\ leaked' = leaked \/ leaked' = leaked \cup {built}
      /\ files[built] # Absent => named \/ built \in leaked'
  BY <1>1 DEF CreateFails, LearnNameFails, WriteFails, StartFails, WrongExitCode,
              FileOfSection
<1> QED BY <1>1, <1>2, <1>3, <1>4, ThrowIInv

(* The parser reads the pipe to its end.                                   *)
LEMMA ReadIInv ==
  ASSUME IInv, (\E n \in 1 .. PipeSize : ReadPipe(n)) \/ EndOfFile
  PROVE  IInv'
<1> USE DEF IInv
<1>1. /\ pc = "read" /\ pc' \in {"read", "close"} /\ pipe' \in 0 .. PipeSize
      /\ trace' \in Nat /\ trace' + pipe' = trace + pipe
      /\ UNCHANGED <<built, payload, log, pos, named, files, child, params, leaked>>
  <2>1. ASSUME NEW n \in 1 .. PipeSize, ReadPipe(n)
        PROVE  pipe' \in 0 .. PipeSize /\ trace' \in Nat /\ trace' + pipe' = trace + pipe
    BY <2>1, UserTraceAssumption DEF ReadPipe, TypeOK
  <2> QED BY <2>1, UserTraceAssumption DEF ReadPipe, EndOfFile, TypeOK
<1>2. TypeOK'
  BY <1>1 DEF TypeOK
<1>3. FilesOnDisk' /\ FileOfSection' /\ Shown' /\ TraceOrDump'
  BY <1>1 DEF FilesOnDisk, FileOfSection, Shown, TraceOrDump, Ended
<1>4. ChildOfSection'
  BY <1>1 DEF ChildOfSection, ReadPipe, EndOfFile, Ended
<1> QED BY <1>2, <1>3, <1>4

(* The child has ended well, so all of its output has been read.           *)
LEMMA PrintIInv ==
  ASSUME IInv, PrintTrace
  PROVE  IInv'
<1> USE DEF IInv
<1>1. /\ pc = "close" /\ pc' = "done" /\ built \in Files /\ named
      /\ params = Heading /\ params' = Append(Heading, Param("Trace", trace))
      /\ files' = [files EXCEPT ![built] = Absent]
      /\ child.state = "succeeded" /\ child' = [child EXCEPT !.state = "reaped"]
      /\ UNCHANGED <<built, payload, log, pos, named, pipe, trace, leaked>>
  BY DEF PrintTrace, Reaped, Cleanup, FilesOnDisk, FileOfSection, Shown, Ended
<1>2. pipe = 0 /\ child.printed = log /\ trace = log
  BY <1>1 DEF ChildOfSection, TypeOK, Ended
<1>3. Param("Trace", trace) \in ParamSet /\ Param("Trace", trace).name = "Trace"
  BY <1>1 DEF Param, ParamSet, ParamNames, TypeOK
<1>4. TypeOK'
  <2>1. params' \in Seq(ParamSet)
    <3> DEFINE p == Param("Trace", trace)
    <3>1. p \in ParamSet /\ params' = Append(Heading, p)
      BY <1>3, <1>1
    <3> HIDE DEF p
    <3> QED BY <3>1, HeadingType
  <2> QED BY <1>1, <2>1 DEF TypeOK, Ended, ParamSet
<1>5. FilesOnDisk'
  BY <1>1 DEF FilesOnDisk, Ended, Files, TypeOK
<1>6. TraceOrDump'
  <2>1. params' = Heading \o <<Param("Trace", trace)>>
    BY <1>1, HeadingType
  <2>2. /\ params'[Len(params')] = Param("Trace", log)
        /\ NamesOf(params') = {"Utility", "StringFile", "Trace"}
    <3>1. /\ params'[Len(params')] = Param("Trace", trace)
          /\ NamesOf(params') = NamesOf(Heading) \cup {Param("Trace", trace).name}
      BY <2>1, <1>3, HeadingType, OneMore, Zenon
    <3> QED BY <3>1, <1>2, <1>3, HeadingType
  <2> QED BY <2>2, <1>1 DEF TraceOrDump, Names, NamesOf
<1>7. FileOfSection' /\ ChildOfSection' /\ Shown'
  BY <1>1 DEF FileOfSection, ChildOfSection, Shown, Ended, TypeOK
<1> QED BY <1>4, <1>5, <1>6, <1>7

(* What the child does by itself: the file is there when it opens it.      *)
LEMMA ChildIInv ==
  ASSUME IInv, ChildRuns \/ ChildFails
  PROVE  IInv'
<1> USE DEF IInv
<1>1. /\ pc = "read" /\ child.state = "running"
      /\ UNCHANGED <<pc, built, payload, log, pos, named, files, trace, params, leaked>>
  BY DEF ChildRuns, ChildReads, ChildPrints, ChildExits, ChildFails, ChildOfSection,
         TypeOK, Ended, NoChild
<1>2. files[built] = log /\ log \in Nat
  BY <1>1 DEF FileOfSection, TypeOK
<1>3. TypeOK' /\ ChildOfSection'
  <2>1. CASE ChildReads
    BY <2>1, <1>1, <1>2 DEF ChildReads, TypeOK, ChildOfSection, Ended
  <2>2. CASE ChildPrints
    <3>1. /\ child \in [state : {"none", "running", "succeeded", "failed", "reaped"},
                          read : Nat \cup {Absent}, printed : Nat]
          /\ child.printed < child.read /\ pipe \in Nat /\ pipe < PipeSize
          /\ trace \in Nat /\ child.printed = trace + pipe /\ PipeSize \in Nat
          /\ pipe' = pipe + 1 /\ child' = [child EXCEPT !.printed = child.printed + 1]
      BY <2>2, <1>1, UserTraceAssumption DEF ChildPrints, TypeOK, ChildOfSection, Ended
    <3>2. /\ child' \in [state : {"none", "running", "succeeded", "failed", "reaped"},
                           read : Nat \cup {Absent}, printed : Nat]
          /\ child'.state = "running" /\ child'.read = child.read
          /\ child'.printed = trace' + pipe' /\ pipe' \in 0 .. PipeSize
      BY <3>1, <1>1
    <3>3. TypeOK'
      BY <3>2, <1>1 DEF TypeOK
    <3>4. ChildOfSection'
      BY <3>2, <1>1 DEF ChildOfSection, Ended
    <3> QED BY <3>3, <3>4
  <2>3. CASE ChildExits
    BY <2>3, <1>1, <1>2 DEF ChildExits, TypeOK, ChildOfSection, Ended, Absent
  <2>4. CASE ChildFails
    BY <2>4, <1>1, <1>2 DEF ChildFails, TypeOK, ChildOfSection, Ended
  <2> QED BY <2>1, <2>2, <2>3, <2>4 DEF ChildRuns
<1>4. FilesOnDisk' /\ FileOfSection' /\ Shown' /\ TraceOrDump'
  BY <1>1 DEF FilesOnDisk, FileOfSection, Shown, TraceOrDump, Ended
<1> QED BY <1>3, <1>4

LEMMA NextIInv == IInv /\ [Next]_vars => IInv'
<1> SUFFICES ASSUME IInv, [Next]_vars PROVE IInv'
  OBVIOUS
<1>1. CASE Parser
  <2>1. CASE PrintTrace
    BY <2>1, PrintIInv
  <2> QED BY <1>1, <2>1, CallIInv, FailIInv, ReadIInv DEF Parser
<1>2. CASE UNCHANGED vars
  BY <1>2 DEF vars, IInv, TypeOK, FilesOnDisk, FileOfSection, ChildOfSection, Shown,
              TraceOrDump, Names
<1> QED BY <1>1, <1>2, BuildIInv, ChildIInv DEF Next

(* Sections, files, pipe and child keep the invariant whatever fails.      *)
THEOREM Invariance == Spec => []IInv
BY InitIInv, NextIInv, PTL DEF Spec

-----------------------------------------------------------------------------
(* The variables keep their types.                                         *)
THEOREM TypeCorrect == Spec => []TypeOK
BY Invariance, PTL DEF IInv

(* However late fsp-trace opens the temporary file, it finds the log.      *)
THEOREM LogIsThere == Spec => []ChildSeesWholeLog
<1>1. IInv => ChildSeesWholeLog
  BY DEF IInv, ChildSeesWholeLog, ChildOfSection, FileOfSection, TypeOK, Ended, NoChild
<1> QED BY <1>1, Invariance, PTL

(* A section shows its whole trace or its dump, and errors with output.    *)
THEOREM WholeTraceOrDump == Spec => []TraceOrDump
BY Invariance, PTL DEF IInv

(* Neither a process nor a file with a known name outlives its section.    *)
THEOREM NothingStays == Spec => []NothingLeftBehind
<1>1. IInv => NothingLeftBehind
  BY DEF IInv, NothingLeftBehind, ChildOfSection, FilesOnDisk
<1> QED BY <1>1, Invariance, PTL
=============================================================================
