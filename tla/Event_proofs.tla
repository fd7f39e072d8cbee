---------------------------- MODULE Event_proofs ----------------------------
(***************************************************************************)
(* Proofs about Event for every set of buffer sizes, section lengths and   *)
(* section counts, and any number of parse() calls.                        *)
(*                                                                         *)
(* The safety properties follow from one inductive invariant, IInv; the    *)
(* refinement of EselLog uses it as well.                                  *)
(***************************************************************************)
EXTENDS Event, TLAPS

(* The sizes and types a leaf may need. *)
LEMMA Sizes ==
  /\ HeaderSize = 8 /\ SelSize = 16 /\ PHSize = 40 /\ SidSize = 2
  /\ DOMAIN PayloadSize = {"PH", "UH", "PS"}
  /\ PayloadSize["PH"] = 40
BY DEF HeaderSize, SelSize, PHSize, SidSize, PayloadSize

(* A section that fetchSection() accepts lies inside the buffer, behind    *)
(* the position; what it reads of a section it refuses does as well.       *)
LEMMA FetchFits ==
  ASSUME TypeOK, InBounds, NEW h \in Headers
  PROVE  /\ h.length \in Nat
         /\ Avail = len - pos
         /\ Touched(h) \in Nat /\ reach <= Touched(h) /\ Touched(h) <= len
         /\ Fetches(h) => /\ h.length > HeaderSize
                          /\ pos + h.length <= len
                          /\ Constructs(h)
<1>1. h.length \in Nat
  BY EventAssumption DEF Headers
<1>2. Avail = len - pos
  BY DEF Avail, InBounds, TypeOK
<1>3. Touched(h) \in Nat /\ reach <= Touched(h) /\ Touched(h) <= len
  BY <1>1, <1>2, Sizes DEF Touched, HeaderFits, LengthFits, Bigger, InBounds, TypeOK
<1>4. Fetches(h) => /\ h.length > HeaderSize
                    /\ pos + h.length <= len
                    /\ Constructs(h)
  BY <1>1, <1>2, Sizes DEF Fetches, LengthFits, InBounds, TypeOK
<1> QED BY <1>1, <1>2, <1>3, <1>4

(* What Store() adds. *)
LEMMA StoredSection ==
  ASSUME TypeOK, NEW h \in Headers, Store(h)
  PROVE  /\ sections' \in Seq(Section)
         /\ Len(sections') = Len(sections) + 1
         /\ \A k \in DOMAIN sections : sections'[k] = sections[k]
         /\ sections'[Len(sections')] = Stored(h)
         /\ Stored(h).id = h.id /\ Stored(h).off = pos
         /\ Stored(h).length = h.length
         /\ Stored(h) \in Section
<1>1. Stored(h) \in Section
  BY EventAssumption DEF Stored, Section, Headers, TypeOK
<1>2. Stored(h).id = h.id /\ Stored(h).off = pos /\ Stored(h).length = h.length
  BY DEF Stored
<1>3. sections \in Seq(Section) /\ sections' = Append(sections, Stored(h))
  BY DEF Store, TypeOK
<1> QED BY <1>1, <1>2, <1>3

-----------------------------------------------------------------------------
LEMMA InitIInv == Init => IInv
<1> SUFFICES ASSUME Init PROVE IInv
  OBVIOUS
<1>1. TypeOK
  BY EventAssumption DEF Init, TypeOK, Settled, NoSel
<1>2. Own = {} /\ sections = <<>>
  BY DEF Init, Own
<1> QED
  BY <1>1, <1>2 DEF Init, IInv, InBounds, Tiling, CountHonoured, TypedPayloads, PhaseInv


(* A call to parse(): the sections of earlier calls stay, none is the      *)
(* call's own.                                                             *)
LEMMA ParseIInv ==
  ASSUME IInv, NEW isNull \in BOOLEAN, NEW n \in Lens, Parse(isNull, n)
  PROVE  IInv'
<1> USE DEF Parse, IInv
<1>1. n \in Nat
  BY EventAssumption
<1>2. TypeOK'
  BY <1>1, EventAssumption DEF TypeOK, Settled
<1>3. Own' = {}
  BY DEF Own, TypeOK
<1>4. InBounds' /\ Tiling'
  BY <1>1, <1>3 DEF InBounds, Tiling
<1>5. CountHonoured'
  BY <1>3 DEF CountHonoured
<1>6. TypedPayloads'
  BY DEF TypedPayloads, Constructs, PayloadSize, HeaderSize
<1>7. PhaseInv'
  BY <1>1, <1>3, Sizes DEF PhaseInv, Own, TypeOK
<1> QED BY <1>2, <1>4, <1>5, <1>6, <1>7

(* The steps that look for the first section store nothing. *)
LEMMA SearchIInv ==
  ASSUME IInv, StartsWithPH \/ TakeSelRecord \/ (\E id \in Ids : FindPH(id))
  PROVE  IInv'
<1> USE DEF IInv
<1>1. /\ Own = {}
      /\ UNCHANGED <<sections, base, len, count, i, calls>>
      /\ pc \in {"top", "ph"} /\ pc' \in {"ph", "first", "thrown"}
  BY DEF StartsWithPH, TakeSelRecord, FindPH, PhaseInv
<1>2. Own' = {}
  BY <1>1 DEF Own
<1>3. TypeOK' /\ InBounds' /\ PhaseInv'
  <2>1. CASE StartsWithPH
    BY <2>1, <1>2, Sizes DEF StartsWithPH, TypeOK, InBounds, PhaseInv, Settled, Lead
  <2>2. CASE TakeSelRecord
    BY <2>2, <1>2, Sizes DEF TakeSelRecord, TypeOK, InBounds, PhaseInv, Settled, Lead
  <2>3. ASSUME NEW id \in Ids, FindPH(id) PROVE TypeOK' /\ InBounds' /\ PhaseInv'
    BY <2>3, <1>2, Sizes DEF FindPH, TypeOK, InBounds, PhaseInv, Settled, Bigger, Lead
  <2> QED BY <2>1, <2>2, <2>3
<1>4. Tiling' /\ CountHonoured'
  BY <1>1, <1>2 DEF Tiling, CountHonoured
<1>5. TypedPayloads'
  BY <1>1 DEF TypedPayloads, Constructs, PayloadSize, HeaderSize
<1> QED BY <1>3, <1>4, <1>5

(* A section is stored, by the first fetch or by a turn of the loop.       *)
LEMMA StoreIInv ==
  ASSUME IInv, NEW h \in Headers, Store(h), Fetches(h),
         reach' = Touched(h), UNCHANGED <<calls, len, sel, base>>,
         \/ pc = "first" /\ h.id = "PH" /\ count' \in Counts
         \/ pc = "loop" /\ i < count /\ count' = count
  PROVE  IInv'
<1> USE DEF IInv
<1>1. /\ h.length \in Nat /\ h.length > HeaderSize
      /\ pos + h.length <= len /\ Constructs(h)
      /\ Touched(h) \in Nat /\ Touched(h) <= len
  BY FetchFits
<1>2. /\ sections \in Seq(Section) /\ sections' \in Seq(Section)
      /\ Len(sections') = Len(sections) + 1
      /\ \A k \in DOMAIN sections : sections'[k] = sections[k]
      /\ sections'[Len(sections')] = Stored(h)
  BY StoredSection DEF TypeOK
<1>3. /\ Stored(h).id = h.id /\ Stored(h).off = pos
      /\ Stored(h).length = h.length
  BY DEF Stored
<1>4. /\ base \in 0 .. Len(sections)
      /\ DOMAIN sections' = DOMAIN sections \cup {Len(sections')}
      /\ DOMAIN sections = 1 .. Len(sections)
  BY <1>2 DEF TypeOK
<1>5. Own' = Own \cup {Len(sections')} /\ Len(sections') \notin Own /\ Own \subseteq DOMAIN sections
  BY <1>2, <1>4 DEF Own
<1>6. pos' = pos + h.length /\ i' = i + 1 /\ pc' = "loop"
  BY DEF Store
<1>7. TypeOK'
  <2>1. count' \in Nat
    BY EventAssumption DEF TypeOK
  <2>2. base' \in 0 .. Len(sections')
    BY <1>2, <1>4
  <2>3. pos' \in Nat /\ i' \in Nat
    BY <1>1, <1>6 DEF TypeOK
  <2> QED BY <2>1, <2>2, <2>3, <1>1, <1>2, <1>6 DEF TypeOK
<1>8. InBounds'
  BY <1>1, <1>6 DEF InBounds
<1>9. Tiling'
  <2>1. ASSUME NEW k \in Own
        PROVE  /\ sections'[k].length > HeaderSize
               /\ End(sections'[k]) <= len'
               /\ sections'[k].off = IF k = base' + 1
                                     THEN Lead'
                                     ELSE End(sections'[k - 1])
    <3>1. sections'[k] = sections[k]
      BY <1>2, <1>5
    <3>2. k # base + 1 => k - 1 \in DOMAIN sections
      BY <1>4 DEF Own
    <3>3. k # base + 1 => sections'[k - 1] = sections[k - 1]
      BY <3>2, <1>2
    <3> QED BY <3>1, <3>3 DEF Tiling, End, Lead
  <2>2. LET k == Len(sections') IN
          /\ sections'[k].length > HeaderSize
          /\ End(sections'[k]) <= len'
          /\ pos' = End(sections'[k])
    BY <1>1, <1>2, <1>3, <1>6 DEF End
  <2>3. CASE pc = "first"
    <3>1. Own = {} /\ Len(sections') = base + 1 /\ pos = Lead'
      BY <2>3, <1>2, <1>4 DEF PhaseInv, Own, Lead
    <3> QED BY <3>1, <2>2, <2>3, <1>2, <1>3, <1>5 DEF Tiling
  <2>4. CASE pc = "loop"
    <3>1. Own # {} /\ base < Len(sections) /\ base + 1 \in Own
      BY <2>4, <1>2, <1>4 DEF PhaseInv, Own
    <3>2. pos = End(sections[Len(sections)]) /\ sections[base + 1].id = "PH"
      BY <3>1 DEF Tiling
    <3>3. /\ sections'[Len(sections)] = sections[Len(sections)]
          /\ sections'[base + 1] = sections[base + 1]
      BY <3>1, <1>2, <1>4
    <3>4. sections'[Len(sections')].off = End(sections'[Len(sections') - 1])
      BY <3>2, <3>3, <1>2, <1>3, <1>4 DEF End
    <3>5. Len(sections') # base + 1
      BY <3>1, <1>2, <1>4
    <3>6. sections'[base' + 1].id = "PH"
      BY <3>2, <3>3
    <3> QED BY <3>4, <3>5, <3>6, <2>1, <2>2, <1>5 DEF Tiling
  <2> QED BY <2>3, <2>4
<1>10. CountHonoured'
  BY <1>6 DEF CountHonoured
<1>11. TypedPayloads'
  <2>1. ASSUME NEW k \in DOMAIN sections PROVE Constructs(sections'[k])
    BY <1>2, <2>1 DEF TypedPayloads
  <2>2. Constructs(sections'[Len(sections')])
    BY <1>1, <1>2, <1>3 DEF Constructs
  <2> QED BY <1>4, <2>1, <2>2 DEF TypedPayloads, Constructs
<1>12. PhaseInv'
  <2>1. Own' # {}
    BY <1>5
  <2>2. i' = Len(sections') - base'
    <3>1. i = Len(sections) - base
      <4>1. CASE pc = "first"
        <5>1. Own = {} /\ i = 0
          BY <4>1 DEF PhaseInv
        <5>2. base = Len(sections)
          <6>1. base \in Nat /\ Len(sections) \in Nat /\ base <= Len(sections)
            BY <1>2, <1>4
          <6>2. base + 1 \notin base + 1 .. Len(sections)
            BY <5>1 DEF Own
          <6> QED BY <6>1, <6>2
        <5> QED BY <5>1, <5>2, <1>2
      <4>2. CASE pc = "loop"
        BY <4>2 DEF PhaseInv
      <4> QED BY <4>1, <4>2
    <3> QED BY <3>1, <1>2, <1>4, <1>6 DEF TypeOK
  <2>3. i' <= Bigger(1, count')
    <3>1. CASE pc = "first"
      <4>1. i = 0
        BY <3>1 DEF PhaseInv
      <4>2. count' \in Nat
        BY EventAssumption DEF TypeOK
      <4> QED BY <4>1, <4>2, <1>6 DEF Bigger
    <3>2. CASE pc = "loop"
      BY <3>2, <1>6 DEF Bigger, TypeOK
    <3> QED BY <3>1, <3>2
  <2> QED BY <2>1, <2>2, <2>3, <1>6 DEF PhaseInv
<1> QED BY <1>7, <1>8, <1>9, <1>10, <1>11, <1>12

(* A fetch that fails ends the call and leaves what was stored.            *)
LEMMA RefuseIInv ==
  ASSUME IInv, Refuse, reach' \in Nat, reach' <= len,
         UNCHANGED <<calls, len, sel, base, count>>,
         pc = "first" \/ (pc = "loop" /\ i < count)
  PROVE  IInv'
<1> USE DEF IInv
<1>1. /\ UNCHANGED <<sections, pos, i, calls, len, sel, base, count>>
      /\ pc' = "thrown"
  BY DEF Refuse
<1>2. Own' = Own
  BY <1>1 DEF Own
<1>3. TypeOK' /\ InBounds'
  BY <1>1 DEF TypeOK, InBounds, Settled
<1>4. Tiling'
  BY <1>1, <1>2 DEF Tiling, End, Lead
<1>5. CountHonoured'
  BY <1>1, <1>2 DEF CountHonoured, PhaseInv
<1>6. TypedPayloads'
  BY <1>1 DEF TypedPayloads, Constructs, PayloadSize, HeaderSize
<1>7. PhaseInv'
  BY <1>1, <1>2 DEF PhaseInv, Lead
<1> QED BY <1>3, <1>4, <1>5, <1>6, <1>7

(* A normal return.  The loop has run to the end of its counter.           *)
LEMMA ReturnIInv ==
  ASSUME IInv, Return
  PROVE  IInv'
<1> USE DEF IInv
<1>1. /\ UNCHANGED <<sections, pos, i, calls, len, sel, base, count, reach>>
      /\ pc = "loop" /\ pc' = "returned" /\ i >= count
  BY DEF Return
<1>2. Own' = Own
  BY <1>1 DEF Own
<1>3. TypeOK' /\ InBounds'
  BY <1>1 DEF TypeOK, InBounds, Settled
<1>4. Tiling' /\ TypedPayloads' /\ PhaseInv'
  BY <1>1, <1>2 DEF Tiling, End, Lead, TypedPayloads, Constructs, PayloadSize,
                    HeaderSize, PhaseInv
<1>5. CountHonoured'
  <2>1. Own # {} /\ i = Len(sections) - base /\ i <= Bigger(1, count)
    BY <1>1 DEF PhaseInv
  <2>2. i >= 1
    BY <2>1 DEF Own, TypeOK
  <2>3. i = Bigger(1, count)
    BY <2>1, <2>2, <1>1 DEF Bigger, TypeOK
  <2> QED BY <2>1, <2>3, <1>1 DEF CountHonoured, Bigger
<1> QED BY <1>3, <1>4, <1>5

LEMMA NextIInv == IInv /\ [Next]_vars => IInv'
<1> SUFFICES ASSUME IInv, [Next]_vars PROVE IInv'
  OBVIOUS
<1>1. ASSUME NEW isNull \in BOOLEAN, NEW n \in Lens, Parse(isNull, n) PROVE IInv'
  BY <1>1, ParseIInv
<1>2. CASE StartsWithPH \/ TakeSelRecord \/ (\E id \in Ids : FindPH(id))
  BY <1>2, SearchIInv
<1>3. ASSUME NEW h \in Headers, NEW c \in Counts, FetchFirst(h, c) PROVE IInv'
  <2>1. Touched(h) \in Nat /\ Touched(h) <= len
    BY FetchFits DEF IInv
  <2>2. CASE Fetches(h)
    BY <1>3, <2>2, StoreIInv DEF FetchFirst
  <2>3. CASE ~Fetches(h)
    BY <1>3, <2>1, <2>3, RefuseIInv DEF FetchFirst
  <2> QED BY <2>2, <2>3
<1>4. ASSUME NEW h \in Headers, FetchNext(h) PROVE IInv'
  <2>1. Touched(h) \in Nat /\ Touched(h) <= len
    BY FetchFits DEF IInv
  <2>2. CASE pos >= len
    BY <1>4, <2>2, RefuseIInv DEF FetchNext, IInv, TypeOK, InBounds
  <2>3. CASE ~(pos >= len) /\ Fetches(h)
    BY <1>4, <2>3, StoreIInv DEF FetchNext
  <2>4. CASE ~(pos >= len) /\ ~Fetches(h)
    BY <1>4, <2>1, <2>4, RefuseIInv DEF FetchNext
  <2> QED BY <2>2, <2>3, <2>4
<1>5. CASE Return
  BY <1>5, ReturnIInv
<1>6. CASE UNCHANGED vars
  BY <1>6 DEF vars, IInv, TypeOK, InBounds, Tiling, CountHonoured, TypedPayloads,
              PhaseInv, Own, End, Lead, Constructs
<1> QED BY <1>1, <1>2, <1>3, <1>4, <1>5, <1>6 DEF Next, Step

(* parse() and everything a caller can do with it keep the invariant.      *)
THEOREM Invariance == Spec => []IInv
BY InitIInv, NextIInv, PTL DEF Spec

-----------------------------------------------------------------------------
(* State and control of an Event always have their types.                  *)
THEOREM TypeCorrect == Spec => []TypeOK
BY Invariance, PTL DEF IInv

(* No parse() reads past the end of its buffer, whatever its bytes say.    *)
THEOREM NoOverread == Spec => []InBounds
BY Invariance, PTL DEF IInv

(* What a call has stored is a run of adjacent sections inside its buffer, *)
(* led by a Private Header, even if the call is refused later.             *)
THEOREM SectionsTile == Spec => []Tiling
BY Invariance, PTL DEF IInv

(* A normal return delivers as many sections as were announced; an         *)
(* exception means that some are missing.                                  *)
THEOREM CountIsHonoured == Spec => []CountHonoured
BY Invariance, PTL DEF IInv

(* The typed sections of an Event always have the payload they need.       *)
THEOREM PayloadsAreTyped == Spec => []TypedPayloads
BY Invariance, PTL DEF IInv

(* Parsed sections are never lost or altered, neither by an exception nor  *)
(* by a later call.                                                        *)
THEOREM NothingParsedIsLost == Spec => KeepsParsed
<1> DEFINE Kept == /\ Len(sections) <= Len(sections')
                   /\ \A k \in DOMAIN sections : sections'[k] = sections[k]
<1>1. ASSUME TypeOK, [Next]_vars PROVE [Kept]_vars
  <2>1. CASE UNCHANGED sections
    BY <1>1, <2>1 DEF TypeOK
  <2>2. ASSUME NEW h \in Headers, Store(h) PROVE Kept
    BY <1>1, <2>2, StoredSection DEF TypeOK
  <2>3. UNCHANGED sections \/ \E h \in Headers : Store(h)
    BY <1>1 DEF Next, Step, vars, Parse, StartsWithPH, TakeSelRecord, FindPH,
                FetchFirst, FetchNext, Refuse, Return
  <2> QED BY <2>1, <2>2, <2>3
<1> QED BY <1>1, TypeCorrect, PTL DEF Spec, KeepsParsed

-----------------------------------------------------------------------------
(* The log of the current call and what becomes of it in a step.           *)
Delivered == SubSeq(sections, base + 1, Len(sections))

LEMMA DeliveredSections ==
  ASSUME TypeOK
  PROVE  /\ Len(Delivered) = Len(sections) - base
         /\ Delivered \in Seq(Section)
         /\ base = Len(sections) => Delivered = <<>>
         /\ base < Len(sections) => Delivered # <<>>
         /\ base = Len(sections) \/ base < Len(sections)
<1>1. Len(Delivered) = Len(sections) - base /\ Delivered \in Seq(Section)
  BY DEF TypeOK, Delivered
<1>2. base = Len(sections) => Delivered = <<>>
  BY DEF TypeOK, Delivered
<1>3. base < Len(sections) => Len(Delivered) # 0
  BY <1>1 DEF TypeOK
<1>4. base < Len(sections) => Delivered # <<>>
  BY <1>3
<1>5. base = Len(sections) \/ base < Len(sections)
  BY DEF TypeOK
<1> QED BY <1>1, <1>2, <1>4, <1>5

(* The rest of a sequence behind b, when the sequence grows by one.        *)
LEMMA TailGrows ==
  ASSUME NEW S, NEW s \in Seq(S), NEW t \in Seq(S), Len(t) = Len(s) + 1,
         \A k \in DOMAIN s : t[k] = s[k],
         NEW b \in 0 .. Len(s)
  PROVE  /\ Len(SubSeq(s, b + 1, Len(s))) = Len(s) - b
         /\ Len(SubSeq(t, b + 1, Len(t))) = Len(s) - b + 1
         /\ \A k \in DOMAIN SubSeq(s, b + 1, Len(s)) :
              SubSeq(t, b + 1, Len(t))[k] = SubSeq(s, b + 1, Len(s))[k]
         /\ SubSeq(t, b + 1, Len(t))[Len(s) - b + 1] = t[Len(t)]
         /\ b < Len(s) => SubSeq(s, b + 1, Len(s))[Len(s) - b] = s[Len(s)]
<1> DEFINE u == SubSeq(s, b + 1, Len(s))
           v == SubSeq(t, b + 1, Len(t))
<1>1. Len(u) = Len(s) - b /\ DOMAIN u = 1 .. Len(s) - b
  OBVIOUS
<1>2. Len(v) = Len(s) - b + 1 /\ DOMAIN v = 1 .. Len(s) - b + 1
  OBVIOUS
<1>3. \A k \in 1 .. Len(s) - b : u[k] = s[b + k]
  OBVIOUS
<1>4. \A k \in 1 .. Len(s) - b + 1 : v[k] = t[b + k]
  OBVIOUS
<1>5. \A k \in DOMAIN u : v[k] = u[k]
  BY <1>1, <1>3, <1>4
<1>6. v[Len(s) - b + 1] = t[Len(t)]
  BY <1>4
<1>7. b < Len(s) => u[Len(s) - b] = s[Len(s)]
  BY <1>3
<1> QED BY <1>1, <1>2, <1>5, <1>6, <1>7

(* A step that leaves the sections and their beginning alone leaves the    *)
(* log alone.                                                              *)
LEMMA DeliveredKept ==
  ASSUME UNCHANGED <<sections, base>>
  PROVE  Delivered' = Delivered
BY DEF Delivered

LEMMA LogInit == Init => Log!Init
BY DEF Init, Log!Init

(* A call begins a new log.                                                *)
LEMMA LogParse ==
  ASSUME TypeOK, NEW isNull \in BOOLEAN, NEW n \in Lens, Parse(isNull, n)
  PROVE  Log!Begin
<1>1. Delivered' = <<>>
  <2>1. sections' = sections /\ base' = Len(sections)
    BY DEF Parse
  <2> QED BY <2>1 DEF Delivered, TypeOK
<1>2. pc \in Settled /\ pc' \in {"thrown", "top"} /\ count' = 0
  BY DEF Parse
<1> QED BY <1>1, <1>2 DEF Log!Begin, Delivered, Settled

(* A stored section is one more span of the log.                           *)
LEMMA LogGrow ==
  ASSUME IInv, IInv', NEW h \in Headers, Store(h), UNCHANGED <<len, base>>,
         \/ pc = "first"
         \/ pc = "loop" /\ i < count /\ count' = count
  PROVE  Log!Grow
<1>1. /\ sections' \in Seq(Section) /\ Len(sections') = Len(sections) + 1
      /\ \A k \in DOMAIN sections : sections'[k] = sections[k]
      /\ sections \in Seq(Section) /\ base \in 0 .. Len(sections) /\ base' = base
  BY StoredSection DEF IInv, TypeOK
<1>2. /\ Len(Delivered) = Len(sections) - base
      /\ Len(Delivered') = Len(sections) - base + 1
      /\ \A k \in DOMAIN Delivered : Delivered'[k] = Delivered[k]
      /\ Delivered'[Len(sections) - base + 1] = sections'[Len(sections')]
      /\ base < Len(sections) =>
           Delivered[Len(sections) - base] = sections[Len(sections)]
  <2>1. Delivered' = SubSeq(sections', base + 1, Len(sections'))
    BY <1>1 DEF Delivered
  <2>2. Delivered = SubSeq(sections, base + 1, Len(sections))
    BY DEF Delivered
  <2>3. /\ Len(SubSeq(sections, base + 1, Len(sections))) = Len(sections) - base
        /\ Len(SubSeq(sections', base + 1, Len(sections'))) = Len(sections) - base + 1
        /\ \A k \in DOMAIN SubSeq(sections, base + 1, Len(sections)) :
             SubSeq(sections', base + 1, Len(sections'))[k]
               = SubSeq(sections, base + 1, Len(sections))[k]
        /\ SubSeq(sections', base + 1, Len(sections'))[Len(sections) - base + 1]
             = sections'[Len(sections')]
        /\ base < Len(sections) =>
             SubSeq(sections, base + 1, Len(sections))[Len(sections) - base]
               = sections[Len(sections)]
    BY ONLY <1>1, TailGrows, ZenonT(30)
  <2> QED BY ONLY <2>1, <2>2, <2>3, Zenon
<1>3. /\ Len(Delivered') = Len(Delivered) + 1
      /\ Delivered'[Len(Delivered')] = sections'[Len(sections')]
  BY <1>2
<1>4. /\ Len(sections') \in Own'
      /\ sections'[Len(sections')].length > HeaderSize
      /\ End(sections'[Len(sections')]) <= len
  BY <1>1 DEF IInv, Tiling, Own
<1>5. pc \in {"first", "loop"} /\ pc' = "loop"
  BY DEF Store
<1>6. CASE pc = "first"
  <2>1. Own = {} /\ base = Len(sections)
    BY <1>1, <1>6 DEF IInv, PhaseInv, Own
  <2>2. Delivered = <<>> /\ Len(sections') = base + 1
    BY <1>1, <2>1 DEF Delivered
  <2>3. /\ sections'[Len(sections')].id = "PH"
        /\ sections'[Len(sections')].off \in {0, SelSize}
    BY <1>1, <1>4, <2>2 DEF IInv, Tiling, Own, Lead
  <2> QED BY <1>2, <1>3, <1>4, <1>5, <2>2, <2>3
          DEF Log!Grow, Log!Latest, Log!EndOf, Delivered, End
<1>7. CASE pc = "loop"
  <2>1. Own # {} /\ i = Len(sections) - base /\ i < count /\ count' = count
    BY <1>7 DEF IInv, PhaseInv
  <2>2. base < Len(sections)
    BY <1>1, <2>1 DEF Own
  <2>3. Delivered # <<>> /\ Delivered[Len(Delivered)] = sections[Len(sections)]
    BY <1>1, <1>2, <2>2
  <2>4. sections'[Len(sections')].off = End(sections'[Len(sections') - 1])
    BY <1>1, <1>4, <2>2 DEF IInv, Tiling, Own
  <2>5. sections'[Len(sections') - 1] = sections[Len(sections)]
    BY <1>1, <2>2
  <2> QED BY <1>2, <1>3, <1>4, <1>5, <2>1, <2>3, <2>4, <2>5
          DEF Log!Grow, Log!Latest, Log!EndOf, Delivered, End
<1> QED BY <1>5, <1>6, <1>7

(* A step inside a call that stores nothing.                               *)
LEMMA LogStutter ==
  ASSUME UNCHANGED <<sections, base, count, len>>,
         pc \in {"top", "ph"}, pc' \in {"ph", "first"}
  PROVE  UNCHANGED Log!vars
<1>1. Delivered' = Delivered
  BY DeliveredKept
<1> QED BY <1>1 DEF Log!vars, Delivered

(* An exception.                                                           *)
LEMMA LogReject ==
  ASSUME IInv, IInv', UNCHANGED <<sections, base, count, len>>,
         pc \in {"top", "ph", "first", "loop"}, pc' = "thrown"
  PROVE  Log!Reject
<1>1. Delivered' = Delivered
  BY DeliveredKept
<1>2. /\ Len(Delivered) = Len(sections) - base
      /\ Delivered # <<>> => base < Len(sections)
  BY DeliveredSections DEF IInv
<1>3. base < Len(sections) => Len(sections) \in Own
  BY DEF Own, IInv, TypeOK
<1>4. Own' # {} => Len(sections') - base' < count'
  BY DEF IInv, CountHonoured
<1>5. Own' = Own
  BY DEF Own
<1>6. base < Len(sections) => Len(Delivered) < count
  BY <1>2, <1>3, <1>4, <1>5
<1> QED BY <1>1, <1>2, <1>6 DEF Log!Reject, Delivered

(* A normal return.                                                        *)
LEMMA LogComplete ==
  ASSUME IInv, IInv', Return
  PROVE  Log!Complete
<1>1. UNCHANGED <<sections, base, count, len>> /\ pc = "loop" /\ pc' = "returned"
  BY DEF Return
<1>2. Delivered' = Delivered
  BY <1>1, DeliveredKept
<1>3. /\ Len(Delivered) = Len(sections) - base
      /\ base < Len(sections) => Delivered # <<>>
  BY DeliveredSections DEF IInv
<1>4. Len(sections) - base = Bigger(1, count)
  BY <1>1 DEF IInv, CountHonoured, Bigger
<1>5. base < Len(sections)
  BY <1>4 DEF Bigger, IInv, TypeOK
<1>6. /\ Len(sections) - base = 1 \/ Len(sections) - base = count
      /\ count <= Len(sections) - base
  BY <1>4 DEF Bigger, IInv, TypeOK
<1> QED BY <1>1, <1>2, <1>3, <1>5, <1>6 DEF Log!Complete, Delivered

LEMMA LogNext == IInv /\ IInv' /\ [Next]_vars => [Log!Next]_(Log!vars)
<1> SUFFICES ASSUME IInv, IInv', [Next]_vars PROVE [Log!Next]_(Log!vars)
  OBVIOUS
<1>1. ASSUME NEW isNull \in BOOLEAN, NEW n \in Lens, Parse(isNull, n)
      PROVE  Log!Next
  BY <1>1, LogParse DEF Log!Next, IInv
<1>2. CASE StartsWithPH \/ TakeSelRecord \/ (\E id \in Ids : FindPH(id))
  <2>1. /\ UNCHANGED <<sections, base, count, len>>
        /\ pc \in {"top", "ph"} /\ pc' \in {"ph", "first", "thrown"}
    BY <1>2 DEF StartsWithPH, TakeSelRecord, FindPH
  <2> QED BY <2>1, LogStutter, LogReject DEF Log!Next
<1>3. ASSUME NEW h \in Headers, Store(h), UNCHANGED <<len, base>>,
             \/ pc = "first"
             \/ pc = "loop" /\ i < count /\ count' = count
      PROVE  Log!Next
  BY <1>3, LogGrow DEF Log!Next
<1>4. ASSUME Refuse, UNCHANGED <<len, base, count>>, pc \in {"first", "loop"}
      PROVE  Log!Next
  BY <1>4, LogReject DEF Log!Next, Refuse
<1>5. ASSUME NEW h \in Headers, NEW c \in Counts, FetchFirst(h, c) PROVE Log!Next
  BY <1>3, <1>4, <1>5 DEF FetchFirst
<1>6. ASSUME NEW h \in Headers, FetchNext(h) PROVE Log!Next
  BY <1>3, <1>4, <1>6 DEF FetchNext
<1>7. CASE Return
  BY <1>7, LogComplete DEF Log!Next
<1>8. CASE UNCHANGED vars
  <2>1. Delivered' = Delivered
    BY <1>8, DeliveredKept DEF vars
  <2> QED BY <1>8, <2>1 DEF vars, Log!vars, Delivered
<1> QED BY <1>1, <1>2, <1>5, <1>6, <1>7, <1>8 DEF Next, Step

(* Event implements the abstract log: see Log in Event.                    *)
THEOREM LogRefined == Spec => ImplementsLog
BY LogInit, LogNext, Invariance, PTL DEF Spec, ImplementsLog, Log!Spec
=============================================================================
