------------------------------- MODULE Event -------------------------------
(***************************************************************************)
(* eSEL::Event: the object that turns a raw eSEL buffer into a SEL record  *)
(* and an array of sections (parser/event.cpp).                            *)
(*                                                                         *)
(* A buffer is a size and bytes nobody knows before the parser reads them: *)
(* the two bytes of a section id, a section header or the section count    *)
(* are chosen when the code reads them.  parse() reads each of them once,  *)
(* except the id of the Private Header, and an id already seen is not      *)
(* chosen again, so every choice is some buffer.                           *)
(*                                                                         *)
(* An Event is an API object: nothing stops a caller from calling parse()  *)
(* on it again, after a success or after an exception.                     *)
(***************************************************************************)
EXTENDS Integers, Sequences

CONSTANTS
  Lens,       \* sizes of the buffers a caller passes
  Lengths,    \* values of the 16-bit length field of a section header
  Counts,     \* values of the 8-bit section count of a Private Header
  SizeMod,    \* size_t arithmetic is modulo this
  MaxCalls    \* bound: parse() calls on one Event

ASSUME EventAssumption ==
  /\ SizeMod \in Nat
  /\ Lens \subseteq 0 .. SizeMod - 1
  /\ Lengths \subseteq Nat
  /\ Counts \subseteq Nat
  /\ MaxCalls \in Nat

(* sizeof the packed structures. *)
SidSize     == 2
HeaderSize  == 8
SelSize     == 16
PHSize      == 40
PayloadSize == [PH |-> PHSize, UH |-> 16, PS |-> 72]

Ids     == {"PH", "UH", "PS", "UD", "unknown"}
Headers == [id : Ids, length : Lengths]
Section == [id : Ids, off : Nat, length : Nat]
NoSel   == 0                         \* std::nullopt

VARIABLES
  pc,         \* where parse() stands; between calls, how the last one ended
  calls,      \* parse() calls made on this Event
  len, pos,   \* the arguments and locals of parse()
  count, i,   \* sectionsCount and the loop counter
  sections,   \* Event::sections_, each with the offset it was read from
  sel,        \* Event::selRecord_: the call whose buffer it came from
  base,       \* history: size of sections_ when the call started
  reach       \* history: bytes of the buffer the call has read so far

vars == <<pc, calls, len, pos, count, i, sections, sel, base, reach>>

Settled == {"idle", "returned", "thrown"}

Bigger(a, b) == IF a > b THEN a ELSE b

-----------------------------------------------------------------------------
(* fetchSection(data + pos, len - pos): len - pos is unsigned. *)
Avail == IF pos <= len THEN len - pos ELSE SizeMod + len - pos

HeaderFits    == Avail > HeaderSize
LengthUnbounded(h) == h.length > HeaderSize         \* mutant: only the lower bound
LengthFits(h) == h.length > HeaderSize /\ h.length <= Avail

(* createSection(): the typed constructors refuse a payload of another     *)
(* size; a User Defined or unknown section takes any payload.              *)
Constructs(h) ==
  h.id \in DOMAIN PayloadSize => h.length - HeaderSize = PayloadSize[h.id]

FetchesAnyPayload(h) == HeaderFits /\ LengthFits(h)  \* mutant: untyped payload
Fetches(h) == HeaderFits /\ LengthFits(h) /\ Constructs(h)

(* The bytes fetchSection() reads before it returns or throws. *)
Touched(h) ==
  IF ~HeaderFits THEN reach
  ELSE Bigger(reach, IF LengthFits(h) THEN pos + h.length ELSE pos + HeaderSize)

Stored(h) == [id |-> h.id, off |-> pos, length |-> h.length]

Init ==
  /\ pc = "idle" /\ calls = 0
  /\ len = 0 /\ pos = 0 /\ count = 0 /\ i = 0
  /\ sections = <<>> /\ sel = NoSel
  /\ base = 0 /\ reach = 0

(* Event::parse() is called: check of the arguments.  sections_ and        *)
(* selRecord_ keep what earlier calls left in them.                        *)
Parse(isNull, n) ==
  /\ pc \in Settled
  /\ calls < MaxCalls
  /\ calls' = calls + 1
  /\ len' = n /\ pos' = 0 /\ count' = 0 /\ i' = 0
  /\ base' = Len(sections) /\ reach' = 0
  /\ pc' = IF isNull \/ n < PHSize THEN "thrown" ELSE "top"
  /\ UNCHANGED <<sections, sel>>

(* The buffer starts with a Private Header ... *)
StartsWithPH ==
  /\ pc = "top"
  /\ reach' = SidSize
  /\ pc' = "ph"
  /\ UNCHANGED <<calls, len, pos, count, i, sections, sel, base>>

(* ... or with something else, which is taken for a SEL record. *)
TakeSelRecord ==
  /\ pc = "top"
  /\ IF len < SelSize
       THEN /\ reach' = SidSize
            /\ pc' = "thrown"
            /\ UNCHANGED <<sel, pos>>
       ELSE /\ reach' = SelSize
            /\ pc' = "ph"
            /\ sel' = calls
            /\ pos' = pos + SelSize
  /\ UNCHANGED <<calls, len, count, i, sections, base>>

(* Check for the starting point of the first section. *)
FindPH(id) ==
  /\ pc = "ph"
  /\ pos = 0 => id = "PH"
  /\ IF len < pos + PHSize
       THEN pc' = "thrown" /\ UNCHANGED reach
       ELSE /\ reach' = Bigger(reach, pos + SidSize)
            /\ pc' = IF id = "PH" THEN "first" ELSE "thrown"
  /\ UNCHANGED <<calls, len, pos, count, i, sections, sel, base>>

\* mutant: the position advances by the payload only
StoreWithoutHeader(h) ==
  /\ sections' = Append(sections, Stored(h))
  /\ pos' = pos + h.length - HeaderSize
  /\ i' = i + 1
  /\ pc' = "loop"

Store(h) ==
  /\ sections' = Append(sections, Stored(h))
  /\ pos' = pos + h.length
  /\ i' = i + 1
  /\ pc' = "loop"

\* mutant: an exception drops what was stored
RefuseAndClear == pc' = "thrown" /\ sections' = <<>> /\ UNCHANGED <<pos, i>>

Refuse == pc' = "thrown" /\ UNCHANGED <<sections, pos, i>>

(* The first section, which holds the section count. *)
FetchFirst(h, c) ==
  /\ pc = "first"
  /\ h.id = "PH"
  /\ reach' = Touched(h)
  /\ IF Fetches(h) THEN Store(h) /\ count' = c
                   ELSE Refuse /\ UNCHANGED count
  /\ UNCHANGED <<calls, len, sel, base>>

(* One turn of the loop over the remaining sections. *)
FetchNext(h) ==
  /\ pc = "loop"
  /\ i < count
  /\ IF pos >= len
       THEN Refuse /\ UNCHANGED reach
       ELSE /\ reach' = Touched(h)
            /\ IF Fetches(h) THEN Store(h) ELSE Refuse
  /\ UNCHANGED <<calls, len, count, sel, base>>

\* mutant: the last section announced is not fetched
ReturnEarly ==
  /\ pc = "loop"
  /\ i + 1 >= count
  /\ pc' = "returned"
  /\ UNCHANGED <<calls, len, pos, count, i, sections, sel, base, reach>>

\* mutant: the end of the buffer ends the loop, too
ReturnAtEnd ==
  /\ pc = "loop"
  /\ i >= count \/ pos >= len
  /\ pc' = "returned"
  /\ UNCHANGED <<calls, len, pos, count, i, sections, sel, base, reach>>

Return ==
  /\ pc = "loop"
  /\ i >= count
  /\ pc' = "returned"
  /\ UNCHANGED <<calls, len, pos, count, i, sections, sel, base, reach>>

(* The steps parse() takes by itself once it has been called. *)
Step ==
  \/ StartsWithPH
  \/ TakeSelRecord
  \/ \E id \in Ids : FindPH(id)
  \/ \E h \in Headers, c \in Counts : FetchFirst(h, c)
  \/ \E h \in Headers : FetchNext(h)
  \/ Return

Next ==
  \/ \E isNull \in BOOLEAN, n \in Lens : Parse(isNull, n)
  \/ Step

Spec == Init /\ [][Next]_vars

-----------------------------------------------------------------------------
TypeOK ==
  /\ pc \in Settled \cup {"top", "ph", "first", "loop"}
  /\ calls \in 0 .. MaxCalls
  /\ len \in Nat /\ pos \in Nat /\ count \in Nat /\ i \in Nat
  /\ sections \in Seq(Section)
  /\ sel \in 0 .. calls
  /\ base \in 0 .. Len(sections)
  /\ reach \in Nat

(* Where a section ends, and the sections the current call has stored. *)
End(s) == s.off + s.length
Own    == base + 1 .. Len(sections)

(* The parser never reads a byte past the end of the buffer it was given,  *)
(* and its position never passes it (so len - pos never wraps): every      *)
(* length it follows was checked against what is left, in the SEL record   *)
(* check, the two Private Header checks and fetchSection().                *)
InBounds == pos <= len /\ reach <= len

(* Where the sections start: behind the SEL record, if the call took one. *)
Lead == IF sel = calls THEN SelSize ELSE 0

(* The sections of a call tile the buffer: the first one is a Private      *)
(* Header behind the SEL record that the same call took, or at the top if  *)
(* it took none, whatever record an earlier call left in the Event; each   *)
(* next one starts where the previous one ends, the position is the end of *)
(* the last one, and none is shorter than its header.  This is what makes  *)
(* the parsed part of a damaged event safe to print.                       *)
Tiling ==
  /\ \A k \in Own :
       /\ sections[k].length > HeaderSize
       /\ End(sections[k]) <= len
       /\ sections[k].off = IF k = base + 1 THEN Lead ELSE End(sections[k - 1])
  /\ Own # {} => /\ sections[base + 1].id = "PH"
                 /\ pos = End(sections[Len(sections)])

(* A call that returns has stored exactly as many sections as the Private  *)
(* Header announces (and the header itself when it announces none); one    *)
(* that throws has stored fewer or none.                                   *)
CountHonoured ==
  /\ pc = "returned" => Len(sections) - base = Bigger(1, count)
  /\ pc = "thrown" /\ Own # {} => Len(sections) - base < count

(* Every typed section an Event holds, whichever call stored it and        *)
(* however that call ended, has the payload its structure needs: the       *)
(* accessor data() and the printer rely on it.                             *)
TypedPayloads ==
  \A k \in DOMAIN sections : Constructs(sections[k])

(* Nothing parse() does touches a section that is already stored: a later  *)
(* exception cannot take back or alter what was parsed.                    *)
KeepsParsed ==
  [][/\ Len(sections) <= Len(sections')
     /\ \A k \in DOMAIN sections : sections'[k] = sections[k]]_vars

(* How the place parse() has reached, its position and its loop counter    *)
(* hang together; the properties above are inductive only with it.  The    *)
(* counter is the number of sections stored, so the loop can neither miss  *)
(* a section nor fetch one too many, and it never skips the header.        *)
PhaseInv ==
  /\ pc \in {"idle", "top", "ph", "first"} => Own = {}
  /\ pc = "top" => pos = 0 /\ PHSize <= len
  /\ pc = "top" => sel < calls
  /\ pc = "ph" => pos = Lead
  /\ pc = "first" => pos = Lead /\ pos + PHSize <= len
  /\ pc \in {"top", "ph", "first"} => count = 0 /\ i = 0
  /\ pc = "loop" => /\ Own # {}
                    /\ i = Len(sections) - base
                    /\ i <= Bigger(1, count)
  /\ Own = {} => count = 0

IInv == TypeOK /\ InBounds /\ Tiling /\ CountHonoured /\ TypedPayloads /\ PhaseInv

(* The log of spans an Event has delivered for the current call. *)
Log == INSTANCE EselLog WITH
  Starts    <- {0, SelSize},
  MinSpan   <- HeaderSize,
  log       <- SubSeq(sections, base + 1, Len(sections)),
  announced <- count,
  size      <- len,
  verdict   <- CASE pc = "idle"     -> "none"
                 [] pc = "returned" -> "complete"
                 [] pc = "thrown"   -> "invalid"
                 [] OTHER           -> "open"

(* parse() implements the abstract log: whatever it does to its buffer, a  *)
(* reader of getSections() sees a run of adjacent sections grow one at a   *)
(* time, and the call ends normally exactly when the run is complete.      *)
ImplementsLog == Log!Spec
=============================================================================
