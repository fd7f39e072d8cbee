----------------------------- MODULE Tool_proofs -----------------------------
(***************************************************************************)
(* Proofs about Tool for every command line, every size of the data read   *)
(* and every failure of what it reads from.                                *)
(*                                                                         *)
(* The Event that parses the data keeps its own invariant, proved in       *)
(* Event_proofs for any caller; Tool is one of the callers, so only the    *)
(* hypotheses of those lemmas are proved here.                             *)
(***************************************************************************)
EXTENDS Tool, SequenceTheorems, TLAPS

EVP == INSTANCE Event_proofs WITH Lens <- 0 .. SizeMod - 1, MaxCalls <- 1

(* What the task remembers of the options: the last of each kind.          *)
ActionOf(name) ==
  CASE name = "bmcList"  -> "PrintBmcList"
    [] name = "pnorList" -> "PrintPnorList"
    [] OTHER             -> "PrintSEL"

TaskOfOptions ==
  /\ task.action = ActionOf(LastGiven({"bmcList", "pnorList"}).name)
  /\ task.pelFile <=> Given({"file"})
  /\ task.bmcEventId = LastGiven({"bmc"}).id
  /\ task.pnorEventId = LastGiven({"pnor"}).id
  /\ task.eccExist <=> Given({"ecc", "pnor", "pnorList"})

(* Before anything is read nothing is parsed, cut, shown or lost; the      *)
(* source is chosen once, by the options.                                  *)
BeforeParse ==
  /\ phase \in {"options", "execute"} =>
       /\ sections = <<>> /\ cuts = 0 /\ shown = Nothing /\ failure = "none"
       /\ pc = "idle" /\ calls = 0
  /\ phase = "options" => source = "none"
  /\ phase \in {"execute", "parse"} => source # "none"
  /\ source # "none" => source = Source

(* While the Event parses, its buffer is the vector that was read.         *)
WhileParsing ==
  phase = "parse" =>
    /\ task.action = "PrintSEL" /\ source \in {"file", "event", "hbel"}
    /\ base = 0 /\ len = size
    /\ shown = Nothing /\ failure = "none"
    /\ cuts = CASE source = "hbel"  -> 1
                [] source = "event" -> 0
                [] source = "file"  -> IF task.eccExist THEN 1 ELSE 0

(* What an event on stdout is. *)
WhatIsShown ==
  shown.kind = "event" => /\ shown.numbers = Selected
                          /\ sections # <<>> /\ base = 0

IInv ==
  /\ TypeOK /\ EV!IInv
  /\ TaskOfOptions /\ BeforeParse /\ WhileParsing /\ WhatIsShown
  /\ AllOrNothing

-----------------------------------------------------------------------------
(* The constants of the Event satisfy what it asks of them.                *)
LEMMA EventConstants ==
  /\ SizeMod \in Nat
  /\ 0 .. SizeMod - 1 \subseteq 0 .. SizeMod - 1
  /\ Lengths \subseteq Nat
  /\ Counts \subseteq Nat
  /\ 1 \in Nat
BY ToolAssumption

(* Both instances of Event are the same machine with the same invariant.   *)
LEMMA SameSteps ==
  /\ EV!Init = EVP!Init
  /\ EV!Step => EVP!Next
  /\ \A isNull, n : EV!Parse(isNull, n) = EVP!Parse(isNull, n)
BY DEF EV!SidSize, EVP!SidSize, EV!HeaderSize, EVP!HeaderSize, EV!SelSize,
       EVP!SelSize, EV!PHSize, EVP!PHSize, EV!PayloadSize, EVP!PayloadSize,
       EV!Ids, EVP!Ids, EV!Headers, EVP!Headers, EV!Section, EVP!Section,
       EV!NoSel, EVP!NoSel, EV!Settled, EVP!Settled, EV!Bigger, EVP!Bigger,
       EV!Avail, EVP!Avail, EV!HeaderFits, EVP!HeaderFits, EV!LengthFits,
       EVP!LengthFits, EV!Constructs, EVP!Constructs, EV!Fetches,
       EVP!Fetches, EV!Touched, EVP!Touched, EV!Stored, EVP!Stored, EV!Init,
       EVP!Init, EV!Parse, EVP!Parse, EV!StartsWithPH, EVP!StartsWithPH,
       EV!TakeSelRecord, EVP!TakeSelRecord, EV!FindPH, EVP!FindPH, EV!Store,
       EVP!Store, EV!Refuse, EVP!Refuse, EV!FetchFirst, EVP!FetchFirst,
       EV!FetchNext, EVP!FetchNext, EV!Return, EVP!Return, EV!Step, EVP!Step,
       EVP!Next

LEMMA SameInvariant == EV!IInv = EVP!IInv
BY DEF EV!SidSize, EVP!SidSize, EV!HeaderSize, EVP!HeaderSize, EV!SelSize,
       EVP!SelSize, EV!PHSize, EVP!PHSize, EV!PayloadSize, EVP!PayloadSize,
       EV!Ids, EVP!Ids, EV!Headers, EVP!Headers, EV!Section, EVP!Section,
       EV!NoSel, EVP!NoSel, EV!Settled, EVP!Settled, EV!Bigger, EVP!Bigger,
       EV!Constructs, EVP!Constructs, EV!TypeOK, EVP!TypeOK, EV!End, EVP!End,
       EV!Own, EVP!Own, EV!InBounds, EVP!InBounds, EV!Lead, EVP!Lead,
       EV!Tiling, EVP!Tiling, EV!CountHonoured, EVP!CountHonoured,
       EV!TypedPayloads, EVP!TypedPayloads, EV!PhaseInv, EVP!PhaseInv,
       EV!IInv, EVP!IInv

LEMMA SameInvariantNext == EV!IInv' = EVP!IInv'
BY DEF EV!SidSize, EVP!SidSize, EV!HeaderSize, EVP!HeaderSize, EV!SelSize,
       EVP!SelSize, EV!PHSize, EVP!PHSize, EV!PayloadSize, EVP!PayloadSize,
       EV!Ids, EVP!Ids, EV!Headers, EVP!Headers, EV!Section, EVP!Section,
       EV!NoSel, EVP!NoSel, EV!Settled, EVP!Settled, EV!Bigger, EVP!Bigger,
       EV!Constructs, EVP!Constructs, EV!TypeOK, EVP!TypeOK, EV!End, EVP!End,
       EV!Own, EVP!Own, EV!InBounds, EVP!InBounds, EV!Lead, EVP!Lead,
       EV!Tiling, EVP!Tiling, EV!CountHonoured, EVP!CountHonoured,
       EV!TypedPayloads, EVP!TypedPayloads, EV!PhaseInv, EVP!PhaseInv,
       EV!IInv, EVP!IInv
(* So what Event_proofs shows of a step of an Event holds here.            *)
LEMMA EventStarts == EV!Init => EV!IInv
BY EventConstants, EVP!InitIInv, SameSteps, SameInvariant

LEMMA EventSteps ==
  ASSUME EV!IInv, EV!Step
  PROVE  EV!IInv' /\ UNCHANGED <<calls, len, base>>
<1>1. EV!IInv'
  BY EventConstants, EVP!NextIInv, SameSteps, SameInvariant, SameInvariantNext
<1>2. UNCHANGED <<calls, len, base>>
  BY DEF EV!Step, EV!StartsWithPH, EV!TakeSelRecord, EV!FindPH, EV!FetchFirst,
         EV!FetchNext, EV!Return
<1> QED BY <1>1, <1>2

LEMMA EventCalled ==
  ASSUME EV!IInv, NEW n \in 0 .. SizeMod - 1, EV!Parse(n = 0, n)
  PROVE  EV!IInv' /\ len' = n /\ base' = Len(sections)
<1>1. (n = 0) \in BOOLEAN
  OBVIOUS
<1>2. EVP!Parse(n = 0, n)
  BY SameSteps
<1>3. EVP!Next
  BY <1>1, <1>2 DEF EVP!Next
<1>4. EV!IInv'
  BY <1>3, EventConstants, EVP!NextIInv, SameInvariant, SameInvariantNext
<1> QED BY <1>4 DEF EV!Parse

LEMMA EventRests == EV!IInv /\ UNCHANGED eventVars => EV!IInv'
<1> SUFFICES ASSUME EV!IInv, UNCHANGED eventVars PROVE EV!IInv'
  OBVIOUS
<1>1. UNCHANGED EVP!vars
  BY DEF eventVars, EVP!vars
<1> QED BY <1>1, EventConstants, EVP!NextIInv, SameInvariant, SameInvariantNext

(* What an Event guarantees whoever uses it. *)
LEMMA EventGuarantees ==
  ASSUME EV!IInv
  PROVE  /\ DOMAIN sections = 1 .. Len(sections) /\ Len(sections) \in Nat
         /\ sections = <<>> <=> Len(sections) = 0
         /\ reach <= len
         /\ pc = "returned" /\ base = 0 => Len(sections) >= count
<1>1. sections \in Seq(EV!Section) /\ count \in Nat /\ base \in Nat
  BY DEF EV!IInv, EV!TypeOK
<1>2. reach <= len
  BY DEF EV!IInv, EV!InBounds
<1>3. pc = "returned" => Len(sections) - base = EV!Bigger(1, count)
  BY DEF EV!IInv, EV!CountHonoured
<1> QED BY <1>1, <1>2, <1>3 DEF EV!Bigger

-----------------------------------------------------------------------------
(* One more option is the last of its kind; the other kinds keep theirs.   *)
LEMMA LastOfAppend ==
  ASSUME NEW s \in Seq(Options), NEW o \in Options, NEW names
  PROVE  LastOf(Append(s, o), names) = IF o.name \in names THEN o ELSE LastOf(s, names)
<1> DEFINE n == Len(s)  t == Append(s, o)
<1>1. /\ n \in Nat /\ DOMAIN s = 1 .. n /\ DOMAIN t = 1 .. n + 1
      /\ \A k \in 1 .. n : t[k] = s[k]
      /\ t[n + 1] = o
  BY AppendProperties
<1> HIDE DEF n, t
<1>2. CASE o.name \in names
  <2>1. Lasts(t, names) = {n + 1}
    BY <1>1, <1>2 DEF Lasts
  <2>2. (CHOOSE k \in {n + 1} : TRUE) = n + 1
    OBVIOUS
  <2>3. LastOf(t, names) = t[n + 1]
    BY <2>1, <2>2 DEF LastOf
  <2> QED BY <2>3, <1>1, <1>2 DEF t
<1>3. CASE o.name \notin names
  <2>1. \A k \in 1 .. n + 1 : t[k].name \in names <=> k \in 1 .. n /\ s[k].name \in names
    BY <1>1, <1>3
  <2>2. Lasts(t, names) = Lasts(s, names)
    BY <1>1, <2>1 DEF Lasts
  <2>3. ASSUME Lasts(s, names) # {}
        PROVE  t[CHOOSE k \in Lasts(s, names) : TRUE] = s[CHOOSE k \in Lasts(s, names) : TRUE]
    <3>1. (CHOOSE k \in Lasts(s, names) : TRUE) \in 1 .. n
      BY <2>3, <1>1 DEF Lasts
    <3> QED BY <3>1, <1>1
  <2>4. LastOf(t, names) = LastOf(s, names)
    BY <2>2, <2>3 DEF LastOf
  <2> QED BY <2>4, <1>3 DEF t
<1> QED BY <1>2, <1>3

(* The last list option is a list option, or there is none.                *)
LEMMA LastList ==
  ASSUME NEW s \in Seq(Options), NEW names
  PROVE  LastOf(s, names) = NoOption \/ LastOf(s, names).name \in names
<1>1. CASE Lasts(s, names) = {}
  BY <1>1 DEF LastOf
<1>2. CASE Lasts(s, names) # {}
  <2>1. (CHOOSE k \in Lasts(s, names) : TRUE) \in Lasts(s, names)
    BY <1>2
  <2> QED BY <2>1, <1>2 DEF LastOf, Lasts
<1> QED BY <1>1, <1>2

(* What an option changes in what the task remembers of the command line.  *)
LearntOption(name, id) ==
  /\ given' \in Seq(Options)
  /\ \A names : LastGiven(names)' =
       IF name \in names THEN [name |-> name, id |-> id] ELSE LastGiven(names)
  /\ \A names : Given(names)' <=> (name \in names \/ Given(names))

LEMMA OptionGiven ==
  ASSUME given \in Seq(Options), NEW name \in OptionNames,
         NEW id \in EventIds \cup {Npos}, OptionWithId(name, id)
  PROVE  LearntOption(name, id)
<1> DEFINE o == [name |-> name, id |-> id]
<1>1. o \in Options /\ o.name = name
  BY DEF Options
<1>2. given' = Append(given, o)
  BY DEF OptionWithId
<1>3. o # NoOption
  BY DEF NoOption, OptionNames, Setters
<1> HIDE DEF o
<1>4. given' \in Seq(Options)
  BY <1>1, <1>2, AppendProperties
<1>5. ASSUME NEW names
      PROVE  LastGiven(names)' = IF name \in names THEN o ELSE LastGiven(names)
  BY <1>1, <1>2, LastOfAppend DEF LastGiven
<1>6. ASSUME NEW names
      PROVE  Given(names)' <=> (name \in names \/ Given(names))
  BY <1>3, <1>5 DEF Given
<1> QED BY <1>4, <1>5, <1>6 DEF o, LearntOption

LEMMA InitIInv == Init => IInv
<1> SUFFICES ASSUME Init PROVE IInv
  OBVIOUS
<1>1. EV!IInv
  BY EventStarts DEF Init
<1>2. TypeOK
  BY DEF Init, TypeOK, Nothing, Formats
<1>3. TaskOfOptions
  <2>1. given = <<>> /\ \A names : Lasts(<<>>, names) = {}
    BY DEF Init, Lasts
  <2>2. \A names : LastGiven(names) = NoOption /\ ~Given(names)
    BY <2>1 DEF LastGiven, LastOf, Given
  <2> QED BY <2>2 DEF Init, TaskOfOptions, ActionOf, NoOption
<1>5. BeforeParse
  BY DEF Init, BeforeParse, Nothing, EV!Init
<1>4. WhileParsing /\ WhatIsShown /\ AllOrNothing
  BY DEF Init, WhileParsing, WhatIsShown, AllOrNothing, Nothing
<1> QED BY <1>1, <1>2, <1>3, <1>4, <1>5 DEF IInv

(* getopt_long() returns an option: the task and the printer learn it.     *)
AnOption ==
  \/ FromFile \/ ListBmcEvent \/ ListPnorEvent \/ PnorHbel \/ SourceWithEcc
  \/ SetUpParser
  \/ \E id \in EventIds : FromBmcEvent(id) \/ FromPnorEvent(id)
  \/ \E n \in Numbers : AddFilter(n)
  \/ \E f \in Formats : SetFormat(f)

Tasks == [action : {"PrintSEL", "PrintBmcList", "PrintPnorList"},
          pelFile : BOOLEAN, bmcEventId : EventIds \cup {Npos},
          pnorEventId : EventIds \cup {Npos}, eccExist : BOOLEAN,
          hbelFile : BOOLEAN]

LEMMA OptionIInv ==
  ASSUME IInv, AnOption
  PROVE  IInv'
<1> USE DEF IInv
<1>1. /\ phase = "options" /\ EV!IInv'
      /\ UNCHANGED <<phase, size, status, shown, source, cuts, failure, eventVars>>
  BY EventRests DEF AnOption, FromFile, ListBmcEvent, ListPnorEvent, PnorHbel,
     SourceWithEcc, SetUpParser, FromBmcEvent, FromPnorEvent, AddFilter, SetFormat,
     Option, OptionWithId
<1>2. task \in Tasks /\ printer \in [filter : SUBSET Numbers, format : Formats]
  BY DEF TypeOK, Tasks
<1>3. given \in Seq(Options) /\ TaskOfOptions
  BY DEF TypeOK
<1> DEFINE Learnt == /\ task' \in Tasks /\ TaskOfOptions' /\ given' \in Seq(Options)
                     /\ printer' \in [filter : SUBSET Numbers, format : Formats]
<1>4. Learnt
  <2>1. CASE FromFile
    <3>1. /\ OptionWithId("file", Npos) /\ printer' = printer
          /\ task' = [task EXCEPT !.pelFile = TRUE]
      BY <2>1 DEF FromFile, Option
    <3>2. /\ task'.action = task.action /\ task'.pelFile
          /\ task'.bmcEventId = task.bmcEventId /\ task'.pnorEventId = task.pnorEventId
          /\ task'.eccExist = task.eccExist
      BY <3>1, <1>2 DEF Tasks
    <3>3. task' \in Tasks /\ printer' \in [filter : SUBSET Numbers, format : Formats]
      BY <3>1, <1>2 DEF Tasks
    <3>4. LearntOption("file", Npos)
      BY <3>1, <1>3, OptionGiven DEF OptionNames, Setters, LearntOption
    <3>5. TaskOfOptions'
      BY <3>2, <3>4, <1>3 DEF TaskOfOptions, LearntOption, ActionOf
    <3> QED BY <3>3, <3>4, <3>5 DEF LearntOption
  <2>2. CASE ListBmcEvent
    <3>1. /\ OptionWithId("bmcList", Npos) /\ printer' = printer
          /\ task' = [task EXCEPT !.action = "PrintBmcList"]
      BY <2>2 DEF ListBmcEvent, Option
    <3>2. /\ task'.action = "PrintBmcList" /\ task'.pelFile = task.pelFile
          /\ task'.bmcEventId = task.bmcEventId /\ task'.pnorEventId = task.pnorEventId
          /\ task'.eccExist = task.eccExist
      BY <3>1, <1>2 DEF Tasks
    <3>3. task' \in Tasks /\ printer' \in [filter : SUBSET Numbers, format : Formats]
      BY <3>1, <1>2 DEF Tasks
    <3>4. LearntOption("bmcList", Npos)
      BY <3>1, <1>3, OptionGiven DEF OptionNames, Setters, LearntOption
    <3>5. TaskOfOptions'
      BY <3>2, <3>4, <1>3 DEF TaskOfOptions, LearntOption, ActionOf
    <3> QED BY <3>3, <3>4, <3>5 DEF LearntOption
  <2>3. CASE ListPnorEvent
    <3>1. /\ OptionWithId("pnorList", Npos) /\ printer' = printer
          /\ task' = [task EXCEPT !.action = "PrintPnorList", !.eccExist = TRUE]
      BY <2>3 DEF ListPnorEvent, Option
    <3>2. /\ task'.action = "PrintPnorList" /\ task'.pelFile = task.pelFile
          /\ task'.bmcEventId = task.bmcEventId /\ task'.pnorEventId = task.pnorEventId
          /\ task'.eccExist
      BY <3>1, <1>2 DEF Tasks
    <3>3. task' \in Tasks /\ printer' \in [filter : SUBSET Numbers, format : Formats]
      BY <3>1, <1>2 DEF Tasks
    <3>4. LearntOption("pnorList", Npos)
      BY <3>1, <1>3, OptionGiven DEF OptionNames, Setters, LearntOption
    <3>5. TaskOfOptions'
      BY <3>2, <3>4, <1>3 DEF TaskOfOptions, LearntOption, ActionOf
    <3> QED BY <3>3, <3>4, <3>5 DEF LearntOption
  <2>4. CASE PnorHbel
    <3>1. /\ OptionWithId("hbel", Npos) /\ printer' = printer
          /\ task' = [task EXCEPT !.hbelFile = TRUE]
      BY <2>4 DEF PnorHbel, Option
    <3>2. /\ task'.action = task.action /\ task'.pelFile = task.pelFile
          /\ task'.bmcEventId = task.bmcEventId /\ task'.pnorEventId = task.pnorEventId
          /\ task'.eccExist = task.eccExist
      BY <3>1, <1>2 DEF Tasks
    <3>3. task' \in Tasks /\ printer' \in [filter : SUBSET Numbers, format : Formats]
      BY <3>1, <1>2 DEF Tasks
    <3>4. LearntOption("hbel", Npos)
      BY <3>1, <1>3, OptionGiven DEF OptionNames, Setters, LearntOption
    <3>5. TaskOfOptions'
      BY <3>2, <3>4, <1>3 DEF TaskOfOptions, LearntOption, ActionOf
    <3> QED BY <3>3, <3>4, <3>5 DEF LearntOption
  <2>5. CASE SourceWithEcc
    <3>1. /\ OptionWithId("ecc", Npos) /\ printer' = printer
          /\ task' = [task EXCEPT !.eccExist = TRUE]
      BY <2>5 DEF SourceWithEcc, Option
    <3>2. /\ task'.action = task.action /\ task'.pelFile = task.pelFile
          /\ task'.bmcEventId = task.bmcEventId /\ task'.pnorEventId = task.pnorEventId
          /\ task'.eccExist
      BY <3>1, <1>2 DEF Tasks
    <3>3. task' \in Tasks /\ printer' \in [filter : SUBSET Numbers, format : Formats]
      BY <3>1, <1>2 DEF Tasks
    <3>4. LearntOption("ecc", Npos)
      BY <3>1, <1>3, OptionGiven DEF OptionNames, Setters, LearntOption
    <3>5. TaskOfOptions'
      BY <3>2, <3>4, <1>3 DEF TaskOfOptions, LearntOption, ActionOf
    <3> QED BY <3>3, <3>4, <3>5 DEF LearntOption
  <2>6. CASE SetUpParser
    <3>1. /\ OptionWithId("setup", Npos) /\ printer' = printer
          /\ task' = task
      BY <2>6 DEF SetUpParser, Option
    <3>2. /\ task'.action = task.action /\ task'.pelFile = task.pelFile
          /\ task'.bmcEventId = task.bmcEventId /\ task'.pnorEventId = task.pnorEventId
          /\ task'.eccExist = task.eccExist
      BY <3>1, <1>2 DEF Tasks
    <3>3. task' \in Tasks /\ printer' \in [filter : SUBSET Numbers, format : Formats]
      BY <3>1, <1>2 DEF Tasks
    <3>4. LearntOption("setup", Npos)
      BY <3>1, <1>3, OptionGiven DEF OptionNames, Setters, LearntOption
    <3>5. TaskOfOptions'
      BY <3>2, <3>4, <1>3 DEF TaskOfOptions, LearntOption, ActionOf
    <3> QED BY <3>3, <3>4, <3>5 DEF LearntOption
  <2>7. ASSUME NEW id \in EventIds, FromBmcEvent(id) PROVE Learnt
    <3>1. /\ OptionWithId("bmc", id) /\ printer' = printer
          /\ task' = [task EXCEPT !.bmcEventId = id]
      BY <2>7 DEF FromBmcEvent, Option
    <3>2. /\ task'.action = task.action /\ task'.pelFile = task.pelFile
          /\ task'.bmcEventId = id /\ task'.pnorEventId = task.pnorEventId
          /\ task'.eccExist = task.eccExist
      BY <3>1, <1>2 DEF Tasks
    <3>3. task' \in Tasks /\ printer' \in [filter : SUBSET Numbers, format : Formats]
      BY <3>1, <1>2 DEF Tasks
    <3>4. LearntOption("bmc", id)
      BY <3>1, <1>3, OptionGiven DEF OptionNames, Setters, LearntOption
    <3>5. TaskOfOptions'
      BY <3>2, <3>4, <1>3 DEF TaskOfOptions, LearntOption, ActionOf
    <3> QED BY <3>3, <3>4, <3>5 DEF LearntOption
  <2>8. ASSUME NEW id \in EventIds, FromPnorEvent(id) PROVE Learnt
    <3>1. /\ OptionWithId("pnor", id) /\ printer' = printer
          /\ task' = [task EXCEPT !.pnorEventId = id, !.eccExist = TRUE]
      BY <2>8 DEF FromPnorEvent, Option
    <3>2. /\ task'.action = task.action /\ task'.pelFile = task.pelFile
          /\ task'.bmcEventId = task.bmcEventId /\ task'.pnorEventId = id
          /\ task'.eccExist
      BY <3>1, <1>2 DEF Tasks
    <3>3. task' \in Tasks /\ printer' \in [filter : SUBSET Numbers, format : Formats]
      BY <3>1, <1>2 DEF Tasks
    <3>4. LearntOption("pnor", id)
      BY <3>1, <1>3, OptionGiven DEF OptionNames, Setters, LearntOption
    <3>5. TaskOfOptions'
      BY <3>2, <3>4, <1>3 DEF TaskOfOptions, LearntOption, ActionOf
    <3> QED BY <3>3, <3>4, <3>5 DEF LearntOption
  <2>9. ASSUME NEW n \in Numbers, AddFilter(n) PROVE Learnt
    <3>1. /\ OptionWithId("number", Npos)
          /\ printer' = [printer EXCEPT !.filter = printer.filter \cup {n}]
          /\ task' = task
      BY <2>9 DEF AddFilter, Option
    <3>2. /\ task'.action = task.action /\ task'.pelFile = task.pelFile
          /\ task'.bmcEventId = task.bmcEventId /\ task'.pnorEventId = task.pnorEventId
          /\ task'.eccExist = task.eccExist
      BY <3>1, <1>2 DEF Tasks
    <3>3. task' \in Tasks /\ printer' \in [filter : SUBSET Numbers, format : Formats]
      BY <3>1, <1>2 DEF Tasks
    <3>4. LearntOption("number", Npos)
      BY <3>1, <1>3, OptionGiven DEF OptionNames, Setters, LearntOption
    <3>5. TaskOfOptions'
      BY <3>2, <3>4, <1>3 DEF TaskOfOptions, LearntOption, ActionOf
    <3> QED BY <3>3, <3>4, <3>5 DEF LearntOption
  <2>10. ASSUME NEW f \in Formats, SetFormat(f) PROVE Learnt
    <3>1. /\ OptionWithId("output", Npos) /\ printer' = [printer EXCEPT !.format = f]
          /\ task' = task
      BY <2>10 DEF SetFormat, Option
    <3>2. /\ task'.action = task.action /\ task'.pelFile = task.pelFile
          /\ task'.bmcEventId = task.bmcEventId /\ task'.pnorEventId = task.pnorEventId
          /\ task'.eccExist = task.eccExist
      BY <3>1, <1>2 DEF Tasks
    <3>3. task' \in Tasks /\ printer' \in [filter : SUBSET Numbers, format : Formats]
      BY <3>1, <1>2 DEF Tasks
    <3>4. LearntOption("output", Npos)
      BY <3>1, <1>3, OptionGiven DEF OptionNames, Setters, LearntOption
    <3>5. TaskOfOptions'
      BY <3>2, <3>4, <1>3 DEF TaskOfOptions, LearntOption, ActionOf
    <3> QED BY <3>3, <3>4, <3>5 DEF LearntOption
  <2> QED BY <2>1, <2>2, <2>3, <2>4, <2>5, <2>6, <2>7, <2>8, <2>9, <2>10 DEF AnOption
<1>5. TypeOK'
  BY <1>1, <1>4 DEF TypeOK, Tasks
<1>6. BeforeParse' /\ WhileParsing' /\ WhatIsShown' /\ AllOrNothing'
  <2>1. source' = "none" /\ source = "none" /\ phase' = "options" /\ shown = Nothing /\ shown' = Nothing
    BY <1>1 DEF BeforeParse
  <2>2. BeforeParse'
    BY <2>1, <1>1 DEF BeforeParse, eventVars
  <2> QED BY <2>1, <2>2, <1>1 DEF WhileParsing, WhatIsShown, AllOrNothing, Nothing
<1> QED BY <1>1, <1>4, <1>5, <1>6

(* The phases before the end: nothing was shown, nothing failed.           *)
LEMMA NothingYet ==
  ASSUME IInv, phase # "done"
  PROVE  shown = Nothing /\ failure = "none" /\ phase \in {"options", "execute", "parse"}
BY DEF IInv, TypeOK, BeforeParse, WhileParsing

(* What Source says, case by case. *)
LEMMA SourceIs ==
  ASSUME TypeOK
  PROVE  /\ Source \in {"file", "event"} \/ (Source = "hbel" /\ task.action # "PrintPnorList")
              => task.action = "PrintSEL"
         /\ Source = "directory" => task.action = "PrintBmcList"
         /\ task.action = "PrintSEL" =>
              /\ Source # "directory"
              /\ Source = "file" <=> task.pelFile
              /\ Source = "event" => task.bmcEventId # Npos
              /\ Source = "hbel" => task.bmcEventId = Npos /\ task.pnorEventId # Npos
         /\ task.action # "PrintSEL" => Source \in {"directory", "hbel"}
         /\ task.action = "PrintPnorList" => Source = "hbel"
         /\ task.action = "PrintBmcList" => Source = "directory"
<1>1. task.action \in {"PrintSEL", "PrintBmcList", "PrintPnorList"}
  BY DEF TypeOK
<1>2. task.action = "PrintBmcList" => Source = "directory"
  BY DEF Source
<1>3. task.action = "PrintPnorList" => Source = "hbel"
  BY DEF Source
<1>4. CASE task.action = "PrintSEL"
  <2>1. task.pelFile => Source = "file"
    BY <1>4 DEF Source
  <2>2. ~task.pelFile /\ task.bmcEventId # Npos => Source = "event"
    BY <1>4 DEF Source
  <2>3. ~task.pelFile /\ task.bmcEventId = Npos /\ task.pnorEventId # Npos => Source = "hbel"
    BY <1>4 DEF Source
  <2>4. ~task.pelFile /\ task.bmcEventId = Npos /\ task.pnorEventId = Npos
          => Source = "undefined"
    BY <1>4 DEF Source
  <2> QED BY <1>4, <2>1, <2>2, <2>3, <2>4
<1> QED BY <1>1, <1>2, <1>3, <1>4

(* An exception: whatever it is, a code other than zero reaches the parent *)
(* unless pflash was killed by a signal or returned its status.            *)
LEMMA ThrowIInv ==
  ASSUME IInv, phase # "done",
         NEW what \in {"options", "other", "system", "pflash", "format"},
         NEW code \in Nat, what # "pflash" => code < 256,
         Throw(what, code)
  PROVE  IInv'
<1> DEFINE rc == IF what \in {"system", "pflash"} /\ code # 0 THEN code ELSE EXIT_FAILURE
<1>1. /\ shown = Nothing /\ shown' = Nothing /\ failure' = what
      /\ UNCHANGED <<task, printer, size, given, source, cuts, eventVars>>
      /\ phase' = "done" /\ status' = rc % 256
  BY NothingYet DEF Throw, Exit
<1>2. rc \in Nat /\ (what # "pflash" => rc \in 1 .. 255)
  BY DEF EXIT_FAILURE
<1> HIDE DEF rc
<1>3. status' \in 0 .. 255 /\ (what # "pflash" => status' # 0)
  BY <1>1, <1>2
<1>4. EV!IInv'
  BY <1>1, EventRests DEF IInv
<1>5. TypeOK'
  BY <1>1, <1>3 DEF IInv, TypeOK
<1>6. TaskOfOptions' /\ BeforeParse'
  BY <1>1 DEF LastGiven, Given, IInv, TaskOfOptions, BeforeParse, Source
<1>7. WhileParsing' /\ WhatIsShown'
  BY <1>1 DEF WhileParsing, WhatIsShown, Nothing
<1>8. AllOrNothing'
  BY <1>1, <1>3 DEF AllOrNothing, EXIT_SUCCESS
<1> QED BY <1>4, <1>5, <1>6, <1>7, <1>8 DEF IInv

AFailure ==
  \/ BadOption \/ UndefinedSource
  \/ \E e \in Errnos : OpenFails(e)
  \/ \E e \in Errnos \cup {0} : PopenFails(e)
  \/ \E w \in WaitStatuses : PflashFails(w)
  \/ NoSuchData \/ ParseFails

LEMMA FailureIInv ==
  ASSUME IInv, AFailure
  PROVE  IInv'
<1>1. phase # "done"
  BY DEF AFailure, BadOption, UndefinedSource, OpenFails, PopenFails, PflashFails,
         NoSuchData, ParseFails, Executing
<1>2. \A e \in Errnos : e \in Nat /\ e < 256
  BY ToolAssumption DEF ErrnoRange
<1>3. \A w \in WaitStatuses : w \in Nat
  <2>1. WaitRange \subseteq Nat
    BY SMT DEF WaitRange
  <2> QED BY <2>1, ToolAssumption
<1>4. Throw("options", 0) \/ Throw("other", 0) \/ Throw("format", 0) => IInv'
  BY <1>1, ThrowIInv
<1>5. ASSUME NEW e \in Errnos, OpenFails(e) PROVE IInv'
  BY <1>1, <1>2, <1>5, ThrowIInv DEF OpenFails
<1>6. ASSUME NEW e \in Errnos \cup {0}, PopenFails(e) PROVE IInv'
  BY <1>1, <1>2, <1>6, ThrowIInv DEF PopenFails
<1>7. ASSUME NEW w \in WaitStatuses, PflashFails(w) PROVE IInv'
  BY <1>1, <1>3, <1>7, ThrowIInv DEF PflashFails
<1> QED BY <1>4, <1>5, <1>6, <1>7 DEF AFailure, BadOption, UndefinedSource, NoSuchData,
                                      ParseFails

(* main() ends without an event: -h, -v, or a list.                        *)
LEMMA PrintIInv ==
  ASSUME IInv, PrintInfo \/ PrintList
  PROVE  IInv'
<1>1. /\ phase # "done" /\ phase' = "done" /\ failure = "none" /\ status' = 0
      /\ shown' \in {[kind |-> "info", numbers |-> {}], [kind |-> "list", numbers |-> {}]}
      /\ UNCHANGED <<task, printer, size, given, source, failure, eventVars>>
      /\ cuts' \in {cuts, cuts + 1}
  BY NothingYet DEF PrintInfo, PrintList, Executing, Exit, EXIT_SUCCESS
<1>2. /\ shown'.kind \in {"info", "list"} /\ shown'.numbers = {} /\ shown' # Nothing
  BY <1>1 DEF Nothing
<1>3. EV!IInv'
  BY <1>1, EventRests DEF IInv
<1>4. cuts' \in Nat
  BY <1>1 DEF IInv, TypeOK
<1>5. TypeOK'
  BY <1>1, <1>2, <1>4 DEF IInv, TypeOK
<1>6. TaskOfOptions' /\ BeforeParse'
  BY <1>1 DEF LastGiven, Given, IInv, TaskOfOptions, BeforeParse, Source
<1>7. WhileParsing' /\ WhatIsShown' /\ AllOrNothing'
  BY <1>1, <1>2 DEF WhileParsing, WhatIsShown, AllOrNothing, EXIT_SUCCESS
<1> QED BY <1>3, <1>5, <1>6, <1>7 DEF IInv

(* The options are complete: execute() chooses what it reads.              *)
LEMMA ExecuteIInv ==
  ASSUME IInv, Execute
  PROVE  IInv'
<1>1. /\ phase = "options" /\ phase' = "execute" /\ source' = Source
      /\ UNCHANGED <<task, printer, size, status, shown, given, cuts, failure, eventVars>>
  BY DEF Execute
<1>2. /\ Source \in {"directory", "hbel", "file", "event", "undefined"} /\ Source' = Source
      /\ Source # "none"
  BY <1>1 DEF Source
<1>3. EV!IInv'
  BY <1>1, EventRests DEF IInv
<1>4. TypeOK' /\ TaskOfOptions' /\ BeforeParse'
  BY <1>1, <1>2 DEF LastGiven, Given, IInv, TypeOK, TaskOfOptions, BeforeParse, eventVars
<1>5. WhileParsing' /\ WhatIsShown' /\ AllOrNothing'
  BY <1>1, NothingYet DEF WhileParsing, WhatIsShown, AllOrNothing, Nothing
<1> QED BY <1>3, <1>4, <1>5 DEF IInv

(* What was read becomes the buffer of an Event.                           *)
LEMMA Sizes ==
  /\ SlotSize \in 0 .. SizeMod - 1
  /\ \A n \in FileSizes : n \in 0 .. SizeMod - 1 /\ EccRemoved(n) \in 0 .. SizeMod - 1
<1>1. SizeMod \in Nat /\ SlotSize < SizeMod /\ FileSizes \subseteq 0 .. SizeMod - 1
  BY ToolAssumption
<1>2. SlotSize \in 0 .. SizeMod - 1
  BY <1>1 DEF SlotSize
<1>3. ASSUME NEW n \in 0 .. SizeMod - 1
      PROVE  EccRemoved(n) \in 0 .. SizeMod - 1
  <2>1. n \div 9 \in 0 .. n
    OBVIOUS
  <2> QED BY <2>1, <1>1 DEF EccRemoved
<1> QED BY <1>1, <1>2, <1>3

LEMMA ReadIInv ==
  ASSUME IInv, NEW n \in 0 .. SizeMod - 1, Executing, StartParse(n), cuts' \in Nat,
         task.action = "PrintSEL", source \in {"file", "event", "hbel"},
         cuts' = CASE source = "hbel"  -> 1
                   [] source = "event" -> 0
                   [] source = "file"  -> IF task.eccExist THEN 1 ELSE 0
  PROVE  IInv'
<1>1. /\ phase' = "parse" /\ size' = n
      /\ UNCHANGED <<task, printer, status, shown, given, source, failure>>
      /\ EV!Parse(n = 0, n)
  BY DEF StartParse
<1>2. EV!IInv' /\ len' = n /\ base' = Len(sections)
  BY <1>1, EventCalled DEF IInv
<1>3. base' = 0
  BY <1>2 DEF IInv, BeforeParse, Executing
<1>4. shown = Nothing /\ failure = "none"
  BY NothingYet DEF Executing
<1>5. TypeOK' /\ TaskOfOptions'
  BY <1>1 DEF LastGiven, Given, IInv, TypeOK, TaskOfOptions
<1>6. BeforeParse'
  BY <1>1 DEF IInv, BeforeParse, Source, Executing
<1>7. WhileParsing'
  BY <1>1, <1>2, <1>3, <1>4 DEF WhileParsing
<1>8. WhatIsShown' /\ AllOrNothing'
  BY <1>1, <1>4 DEF WhatIsShown, AllOrNothing, Nothing
<1> QED BY <1>2, <1>5, <1>6, <1>7, <1>8 DEF IInv

LEMMA AReadIInv ==
  ASSUME IInv,
         (\E n \in FileSizes : ReadFile(n) \/ ReadBmcEvent(n)) \/ ReadPnorEvent
  PROVE  IInv'
<1>1. Executing
  BY DEF ReadFile, ReadBmcEvent, ReadPnorEvent
<1>2. cuts = 0 /\ source = Source
  BY <1>1 DEF IInv, BeforeParse, Executing
<1>3. ASSUME NEW n \in FileSizes, ReadFile(n) PROVE IInv'
  <2>1. /\ source = "file" /\ task.action = "PrintSEL"
        /\ cuts' = IF task.eccExist THEN 1 ELSE 0
    BY <1>2, <1>3, SourceIs DEF ReadFile, IInv
  <2>2. /\ StartParse(IF task.eccExist THEN EccRemoved(n) ELSE n)
        /\ (IF task.eccExist THEN EccRemoved(n) ELSE n) \in 0 .. SizeMod - 1
    BY <1>3, Sizes DEF ReadFile
  <2> QED BY <1>1, <2>1, <2>2, ReadIInv
<1>4. ASSUME NEW n \in FileSizes, ReadBmcEvent(n) PROVE IInv'
  <2>1. source = "event" /\ task.action = "PrintSEL" /\ cuts' = 0 /\ StartParse(n)
    BY <1>2, <1>4, SourceIs DEF ReadBmcEvent, IInv
  <2> QED BY <1>1, <2>1, Sizes, ReadIInv
<1>5. CASE ReadPnorEvent
  <2>1. source = "hbel" /\ task.action = "PrintSEL" /\ cuts' = 1 /\ StartParse(SlotSize)
    BY <1>2, <1>5 DEF ReadPnorEvent
  <2> QED BY <1>1, <2>1, Sizes, ReadIInv
<1> QED BY <1>3, <1>4, <1>5

(* A step of the parser. *)
LEMMA ParsingIInv ==
  ASSUME IInv, Parsing
  PROVE  IInv'
<1>1. /\ phase = "parse" /\ EV!Step
      /\ UNCHANGED <<phase, task, printer, size, status, shown, given, source, cuts, failure>>
  BY DEF Parsing
<1>2. EV!IInv' /\ UNCHANGED <<calls, len, base>>
  BY <1>1, EventSteps DEF IInv
<1>3. TypeOK' /\ TaskOfOptions' /\ BeforeParse' /\ WhileParsing' /\ AllOrNothing'
  BY <1>1, <1>2 DEF LastGiven, Given, IInv, TypeOK, TaskOfOptions, BeforeParse, Source,
                    WhileParsing,
                    AllOrNothing
<1>4. WhatIsShown'
  BY <1>1, NothingYet DEF WhatIsShown, Nothing
<1> QED BY <1>2, <1>3, <1>4 DEF IInv

(* The event, or its undamaged beginning, is printed.                      *)
LEMMA PrintEventIInv ==
  ASSUME IInv, PrintEvent
  PROVE  IInv'
<1>1. /\ phase = "parse" /\ phase' = "done" /\ status' = 0 /\ failure = "none"
      /\ shown' = [kind |-> "event", numbers |-> Selected]
      /\ UNCHANGED <<task, printer, size, given, source, cuts, failure, eventVars>>
      /\ UNCHANGED <<sections, base>>
  BY NothingYet DEF PrintEvent, Exit, EXIT_SUCCESS, eventVars
<1>2. /\ Selected' = Selected /\ Selected \subseteq DOMAIN sections
  BY <1>1 DEF Selected
<1>3. EV!IInv'
  BY <1>1, EventRests DEF IInv
<1>4. base = 0 /\ sections # <<>>
  <2>1. base = 0
    BY <1>1 DEF IInv, WhileParsing
  <2>2. pc = "returned" => sections # <<>>
    <3>1. sections \in Seq(EV!Section) /\ count \in Nat
      BY DEF IInv, EV!IInv, EV!TypeOK
    <3>2. pc = "returned" => Len(sections) - base = EV!Bigger(1, count)
      BY DEF IInv, EV!IInv, EV!CountHonoured
    <3> QED BY <2>1, <3>1, <3>2 DEF EV!Bigger
  <2> QED BY <2>1, <2>2 DEF PrintEvent
<1>5. TypeOK'
  <2>1. shown'.numbers \subseteq Nat
    BY <1>1, <1>2, EventGuarantees DEF IInv
  <2> QED BY <1>1, <2>1 DEF IInv, TypeOK
<1>6. TaskOfOptions' /\ BeforeParse' /\ WhileParsing'
  BY <1>1 DEF LastGiven, Given, IInv, TaskOfOptions, BeforeParse, Source, WhileParsing
<1>7. WhatIsShown' /\ AllOrNothing'
  <2>1. shown'.kind = "event" /\ shown'.numbers = Selected /\ shown' # Nothing
    BY <1>1 DEF Nothing
  <2> QED BY <2>1, <1>1, <1>2, <1>4 DEF WhatIsShown, AllOrNothing, EXIT_SUCCESS
<1> QED BY <1>3, <1>5, <1>6, <1>7 DEF IInv

LEMMA NextIInv == IInv /\ [Next]_vars => IInv'
<1> SUFFICES ASSUME IInv, [Next]_vars PROVE IInv'
  OBVIOUS
<1>1. CASE UNCHANGED vars
  <2>1. EV!IInv'
    BY <1>1, EventRests DEF IInv, vars
  <2> QED BY <1>1, <2>1 DEF vars, eventVars, LastGiven, Given, IInv, TypeOK,
             TaskOfOptions, BeforeParse,
             Source, WhileParsing, WhatIsShown, Selected, AllOrNothing
<1>2. CASE Next
  <2>1. AnOption \/ AFailure \/ PrintInfo \/ PrintList \/ Execute \/ Parsing \/ PrintEvent
        \/ (\E n \in FileSizes : ReadFile(n) \/ ReadBmcEvent(n)) \/ ReadPnorEvent
    BY <1>2 DEF Next, Run, AnOption, AFailure
  <2> QED BY <2>1, OptionIInv, FailureIInv, PrintIInv, ExecuteIInv, ParsingIInv,
             PrintEventIInv, AReadIInv
<1> QED BY <1>1, <1>2

(* Options, reading, parsing and printing keep the invariant.              *)
THEOREM Invariance == Spec => []IInv
BY InitIInv, NextIInv, PTL DEF Spec

-----------------------------------------------------------------------------
(* The variables keep their types.                                         *)
THEOREM TypeCorrect == Spec => []TypeOK
BY Invariance, PTL DEF IInv

(* The source read is the one the command line names: the last of the      *)
(* lists, else the file, else the last BMC event, else the last PNOR event *)
(* whose id is not -1, and no other.                                       *)
THEOREM Precedence == Spec => []SourcePrecedence
<1>1. IInv => SourcePrecedence
  <2> SUFFICES ASSUME IInv, source # "none" PROVE SourcePrecedence
    BY DEF SourcePrecedence
  <2> DEFINE list == LastGiven({"bmcList", "pnorList"}).name
  <2>1. source = Source /\ TaskOfOptions /\ given \in Seq(Options)
    BY DEF IInv, BeforeParse, TypeOK
  <2>2. list \in {"none", "bmcList", "pnorList"}
    BY <2>1, LastList DEF LastGiven, NoOption
  <2> HIDE DEF list
  <2>3. task.action = ActionOf(list)
    BY <2>1 DEF TaskOfOptions, list
  <2>4. CASE list = "bmcList"
    <3>1. source = "directory"
      BY <2>1, <2>3, <2>4 DEF ActionOf, Source
    <3> QED BY <3>1, <2>4 DEF SourcePrecedence, list
  <2>5. CASE list = "pnorList"
    <3>1. source = "hbel"
      BY <2>1, <2>3, <2>5 DEF ActionOf, Source
    <3> QED BY <3>1, <2>5 DEF SourcePrecedence, list
  <2>6. CASE list = "none"
    <3>1. source = IF Given({"file"}) THEN "file"
                   ELSE IF LastGiven({"bmc"}).id # Npos THEN "event"
                   ELSE IF LastGiven({"pnor"}).id # Npos THEN "hbel"
                   ELSE "undefined"
      BY <2>1, <2>3, <2>6 DEF ActionOf, Source, TaskOfOptions
    <3> QED BY <3>1, <2>6 DEF SourcePrecedence, list
  <2> QED BY <2>2, <2>4, <2>5, <2>6
<1> QED BY <1>1, Invariance, PTL

(* ECC is cut exactly where it is, and the parser stays in what is left.   *)
THEOREM CutOnce == Spec => []EccCutOnce
<1>1. IInv => EccCutOnce
  BY EventGuarantees DEF IInv, EccCutOnce, TaskOfOptions, WhileParsing
<1> QED BY <1>1, Invariance, PTL

(* A run prints what it was asked for, or fails, prints nothing and, but   *)
(* for pflash, says so in its status.                                      *)
THEOREM OutputOrFailure == Spec => []AllOrNothing
BY Invariance, PTL DEF IInv

(* A printed event is shown up to its damage, but for what a filter hides. *)
THEOREM ShowsParsed == Spec => []PrintsWhatWasParsed
<1>1. IInv => PrintsWhatWasParsed
  BY EventGuarantees DEF IInv, PrintsWhatWasParsed, WhatIsShown, Selected
<1> QED BY <1>1, Invariance, PTL
=============================================================================
