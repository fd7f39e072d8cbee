--------------------------- MODULE Symbols_proofs ---------------------------
(***************************************************************************)
(* Proofs about Symbols for every set of symbol files, every width of the  *)
(* keys and every interleaving of changes on the disk with the lines that  *)
(* are read, and every sequence of queries.                                *)
(***************************************************************************)
EXTENDS Symbols, SequenceTheorems, WellFoundedInduction, TLAPS

Keys == 0 .. AddrMod - 1

(* As long as nobody reads the file anew, the answer is that of the table. *)
AnswerOfQuery ==
  /\ query = None => answer = None
  /\ query # None => answer = Nearest(query)

(* While the table is being read nobody searches it. *)
NoQueryWhileReading == phase = "reading" => query = None

(* The table has the lines that getline() has returned, and a reader stops *)
(* at the end of its file or at a damaged line.                            *)
TableIsOfLines ==
  /\ table = TableOf(stream, 1 .. pos)
  /\ \A j \in 1 .. pos : stream[j].type # "bad"
  /\ phase = "idle" => pos = Len(stream) \/ stream[pos + 1].type = "bad"

(* What a reader gets is what it opened, unless somebody rewrites that.    *)
StreamIsOrigin == rewrites = 0 => stream = origin

IInv == TypeOK /\ TableIsOfLines /\ StreamIsOrigin /\ NoQueryWhileReading /\ AnswerOfQuery

-----------------------------------------------------------------------------
(* A set of numbers has a least one ...                                    *)
LEMMA LeastExists ==
  ASSUME NEW S, S \subseteq Nat, S # {}
  PROVE  \E n \in S : \A m \in S : n <= m
<1> DEFINE R == {p \in Nat \X Nat : p[1] < p[2]}
<1>1. IsWellFoundedOn(R, Nat)
  BY NatLessThanWellFounded DEF OpToRel
<1>2. PICK n \in S : \A m \in S : ~(<<m, n>> \in R)
  <2> HIDE DEF R
  <2> QED BY <1>1, WFMin
<1>3. ASSUME NEW m \in S PROVE n <= m
  <2>1. <<m, n>> \in Nat \X Nat /\ <<m, n>> \notin R
    BY <1>2
  <2>2. ~(m < n)
    BY <2>1
  <2> QED BY <2>2
<1> QED BY <1>3

(* ... which Min() gives, and a bounded set has a greatest one, for Max(). *)
LEMMA MinIs ==
  ASSUME NEW S, S \subseteq Nat, S # {}
  PROVE  Min(S) \in S /\ \A m \in S : Min(S) <= m
<1>1. \E n \in S : \A m \in S : n <= m
  BY LeastExists
<1> QED BY <1>1 DEF Min

LEMMA MaxIs ==
  ASSUME NEW S, S \subseteq Keys, S # {}
  PROVE  Max(S) \in S /\ \A m \in S : Max(S) >= m
<1> DEFINE T == {AddrMod - x : x \in S}
<1>1. AddrMod \in Nat
  BY SymbolsAssumption
<1>2. T \subseteq Nat /\ T # {}
  <2>1. \A x \in S : AddrMod - x \in Nat
    BY <1>1 DEF Keys
  <2> QED BY <2>1
<1>3. PICK n \in T : \A m \in T : n <= m
  <2> HIDE DEF T
  <2> QED BY <1>2, LeastExists
<1>4. PICK x \in S : n = AddrMod - x
  BY <1>3
<1>5. ASSUME NEW m \in S PROVE x >= m
  <2>1. AddrMod - m \in T
    OBVIOUS
  <2> QED BY <2>1, <1>1, <1>3, <1>4 DEF Keys
<1> QED BY <1>5 DEF Max

-----------------------------------------------------------------------------
(* The good lines of a content end at the first damaged one.               *)
LEMMA GoodLinesAre ==
  ASSUME NEW c \in Seq(Lines), NEW n \in 0 .. Len(c),
         \A j \in 1 .. n : c[j].type # "bad",
         n = Len(c) \/ c[n + 1].type = "bad"
  PROVE  GoodLines(c) = 1 .. n
<1>1. DOMAIN c = 1 .. Len(c) /\ Len(c) \in Nat /\ n \in Nat /\ n <= Len(c)
  OBVIOUS
<1>2. ASSUME NEW k \in 1 .. Len(c), k <= n PROVE k \in GoodLines(c)
  <2>1. k \in Nat /\ n \in Nat
    OBVIOUS
  <2>2. \A j \in 1 .. k : j \in 1 .. n
    BY <2>1, <1>2
  <2> QED BY <1>1, <2>2 DEF GoodLines
<1>3. ASSUME NEW k \in GoodLines(c) PROVE k \in 1 .. n
  <2>1. \A j \in 1 .. k : c[j].type # "bad"
    BY <1>1 DEF GoodLines
  <2>2. k \in 1 .. Len(c)
    BY <1>1 DEF GoodLines
  <2> DEFINE last == Len(c)
  <2>3. last \in Nat /\ k \in 1 .. last /\ n \in 0 .. last
    BY <2>2
  <2>4. ASSUME ~(k <= n) PROVE FALSE
    <3> HIDE DEF last
    <3>1. n + 1 \in 1 .. k /\ n # last
      BY <2>3, <2>4
    <3> QED BY <2>1, <3>1 DEF last
  <2> HIDE DEF last
  <2> QED BY <2>3, <2>4
<1>4. \A k \in 1 .. n : k \in 1 .. Len(c) /\ k <= n
  BY <1>1
<1> QED BY <1>2, <1>3, <1>4

(* Nothing was read: the table is empty.                                   *)
LEMMA EmptyTable ==
  ASSUME NEW c
  PROVE  TableOf(c, 1 .. 0) = NoTable
<1> DEFINE fs == {k \in 1 .. 0 : c[k].type = "function"}
<1>1. fs = {}
  OBVIOUS
<1>2. TableOf(c, 1 .. 0)
        = [a \in {c[k].addr : k \in fs} |-> c[Min({k \in fs : c[k].addr = a})].length]
  BY DEF TableOf
<1>3. {c[k].addr : k \in fs} = {}
  BY <1>1
<1> QED BY <1>2, <1>3 DEF NoTable

(* A table depends on its lines alone.                                     *)
LEMMA TableAgrees ==
  ASSUME NEW c, NEW d, NEW ks, ks \subseteq Nat, \A k \in ks : c[k] = d[k]
  PROVE  TableOf(c, ks) = TableOf(d, ks)
<1> DEFINE fs == {k \in ks : c[k].type = "function"}
           gs == {k \in ks : d[k].type = "function"}
           AtC(a) == {k \in fs : c[k].addr = a}
           AtD(a) == {k \in gs : d[k].addr = a}
<1>1. fs = gs /\ fs \subseteq ks /\ \A k \in fs : c[k] = d[k]
  OBVIOUS
<1> DEFINE DC == {c[k].addr : k \in fs}
           DD == {d[k].addr : k \in gs}
<1>2. DC = DD
  BY <1>1
<1>3. \A a : AtC(a) = AtD(a)
  BY <1>1
<1>4. ASSUME NEW a \in DC PROVE c[Min(AtC(a))].length = d[Min(AtD(a))].length
  <2>1. AtC(a) \subseteq ks /\ AtC(a) # {}
    BY <1>1
  <2> HIDE DEF AtC, AtD
  <2>2. Min(AtC(a)) \in AtC(a)
    BY <2>1, MinIs
  <2> QED BY <1>3, <2>1, <2>2
<1>5. /\ TableOf(c, ks) = [a \in DC |-> c[Min(AtC(a))].length]
      /\ TableOf(d, ks) = [a \in DD |-> d[Min(AtD(a))].length]
  BY DEF TableOf
<1> HIDE DEF DC, DD, AtC, AtD
<1> QED BY <1>2, <1>4, <1>5

(* One more line is one emplace() more.                                    *)
LEMMA TableGrows ==
  ASSUME NEW c \in Seq(Lines), NEW n \in Nat, n < Len(c)
  PROVE  TableOf(c, 1 .. n + 1)
           = IF c[n + 1].type = "function"
               THEN Emplaced(TableOf(c, 1 .. n), c[n + 1].addr, c[n + 1].length)
               ELSE TableOf(c, 1 .. n)
<1> DEFINE fs(m) == {k \in 1 .. m : c[k].type = "function"}
           At(m, a) == {k \in fs(m) : c[k].addr = a}
           D(m) == {c[k].addr : k \in fs(m)}
<1>1. \A m : TableOf(c, 1 .. m) = [a \in D(m) |-> c[Min(At(m, a))].length]
  BY DEF TableOf
<1>2. CASE c[n + 1].type # "function"
  <2>1. fs(n + 1) = fs(n)
    BY <1>2
  <2>2. D(n + 1) = D(n) /\ \A a : At(n + 1, a) = At(n, a)
    BY <2>1
  <2> HIDE DEF At, D
  <2> QED BY <1>1, <1>2, <2>2
<1>3. CASE c[n + 1].type = "function"
  <2> DEFINE addr == c[n + 1].addr
  <2>1. fs(n + 1) = fs(n) \cup {n + 1} /\ fs(n) \subseteq 1 .. n
    BY <1>3
  <2>2. D(n + 1) = D(n) \cup {addr}
    BY <2>1
  <2>3. \A a : At(n, a) \subseteq Nat /\ At(n, a) \subseteq 1 .. n
    BY <2>1
  <2>4. ASSUME NEW a \in D(n) PROVE Min(At(n + 1, a)) = Min(At(n, a))
    <3>1. At(n, a) # {} /\ At(n, a) \subseteq At(n + 1, a)
      BY <2>1
    <3>2. At(n + 1, a) \subseteq At(n, a) \cup {n + 1} /\ At(n + 1, a) \subseteq Nat
      BY <2>1
    <3> HIDE DEF At
    <3>3. Min(At(n, a)) \in At(n, a) /\ \A m \in At(n, a) : Min(At(n, a)) <= m
      BY <2>3, <3>1, MinIs
    <3>4. Min(At(n + 1, a)) \in At(n + 1, a) /\ \A m \in At(n + 1, a) : Min(At(n + 1, a)) <= m
      BY <3>1, <3>2, MinIs
    <3> QED BY <2>3, <3>1, <3>2, <3>3, <3>4
  <2>5. ASSUME addr \notin D(n) PROVE Min(At(n + 1, addr)) = n + 1
    <3>1. At(n + 1, addr) = {n + 1}
      BY <2>1, <2>5
    <3> HIDE DEF At
    <3>2. {n + 1} \subseteq Nat /\ {n + 1} # {}
      OBVIOUS
    <3>3. Min({n + 1}) \in {n + 1}
      BY <3>2, MinIs
    <3> QED BY <3>1, <3>3
  <2> DEFINE T == TableOf(c, 1 .. n)
             E == Emplaced(T, addr, c[n + 1].length)
             G == TableOf(c, 1 .. n + 1)
  <2>6. T = [a \in D(n) |-> c[Min(At(n, a))].length]
    BY <1>1
  <2>7. G = [a \in D(n) \cup {addr} |-> c[Min(At(n + 1, a))].length]
    BY <1>1, <2>2
  <2> HIDE DEF At, D, T, G
  <2>8. DOMAIN T = D(n) /\ \A a \in D(n) : T[a] = c[Min(At(n, a))].length
    BY <2>6
  <2>9. E = [a \in D(n) \cup {addr} |-> IF a \in D(n) THEN T[a] ELSE c[n + 1].length]
    BY <2>8 DEF Emplaced
  <2> HIDE DEF E, addr
  <2>10. ASSUME NEW a \in D(n) \cup {addr}
         PROVE  c[Min(At(n + 1, a))].length = IF a \in D(n) THEN T[a] ELSE c[n + 1].length
    BY <2>4, <2>5, <2>8
  <2>11. G = E
    BY <2>7, <2>9, <2>10
  <2> QED BY <1>3, <2>11 DEF G, E, T, addr
<1> QED BY <1>2, <1>3

-----------------------------------------------------------------------------
LEMMA MissingIsEmpty == Missing \in Seq(Lines) /\ Len(Missing) = 0 /\ 0 \in 0 .. Len(Missing)
BY DEF Missing

LEMMA InitIInv == Init => IInv
<1> SUFFICES ASSUME Init PROVE IInv
  OBVIOUS
<1>1. TypeOK
  <2>1. 0 \in 0 .. MaxReads /\ 0 \in 0 .. MaxRewrites
    BY SymbolsAssumption
  <2>2. DOMAIN NoTable = {}
    BY DEF NoTable
  <2> QED BY <2>1, <2>2, MissingIsEmpty DEF Init, TypeOK
<1>2. TableIsOfLines
  BY EmptyTable DEF Init, TableIsOfLines, Missing
<1> QED BY <1>1, <1>2 DEF Init, IInv, StreamIsOrigin, NoQueryWhileReading, AnswerOfQuery

(* The table and what was read for it stay as they are. *)
LEMMA TableStays ==
  ASSUME TableIsOfLines, UNCHANGED <<phase, stream, pos, table>>
  PROVE  TableIsOfLines'
BY DEF TableIsOfLines

LEMMA AnswerStays ==
  ASSUME AnswerOfQuery, UNCHANGED <<table, query, answer>>
  PROVE  AnswerOfQuery'
BY DEF AnswerOfQuery, Nearest, LowerBound, Below

(* Another file takes the name, or the user names another one.             *)
LEMMA ReplaceIInv ==
  ASSUME IInv, NEW c \in Contents, NEW e \in BOOLEAN, ReplaceFile(c, e)
  PROVE  IInv'
<1> USE DEF IInv
<1>1. /\ UNCHANGED <<phase, stream, pos, table, reads, rc, query, answer, origin, rewrites>>
      /\ file' = c /\ exists' = e /\ linked' = FALSE
  BY DEF ReplaceFile, readerVars
<1>2. TypeOK'
  BY <1>1 DEF TypeOK
<1>3. TableIsOfLines' /\ AnswerOfQuery'
  BY <1>1, TableStays, AnswerStays
<1> QED BY <1>1, <1>2, <1>3 DEF StreamIsOrigin, NoQueryWhileReading

LEMMA SetIInv ==
  ASSUME IInv, NEW c \in Contents, NEW e \in BOOLEAN, SetHostbootSymbols(c, e)
  PROVE  IInv'
<1> USE DEF IInv
<1>1. /\ file' = c /\ exists' = e /\ linked' = FALSE /\ table' = NoTable
      /\ stream' = Missing /\ pos' = 0 /\ origin' = Missing /\ rewrites' = 0
      /\ query' = None /\ answer' = None /\ UNCHANGED <<phase, reads, rc>>
  BY DEF SetHostbootSymbols
<1>2. TypeOK'
  <2>1. 0 \in 0 .. MaxRewrites
    BY SymbolsAssumption
  <2>2. DOMAIN NoTable = {}
    BY DEF NoTable
  <2> QED BY <1>1, <2>1, <2>2, MissingIsEmpty DEF TypeOK
<1>3. TableIsOfLines'
  BY <1>1, EmptyTable DEF TableIsOfLines, Missing
<1> QED BY <1>1, <1>2, <1>3 DEF StreamIsOrigin, NoQueryWhileReading, AnswerOfQuery

(* A rewrite changes what the reader gets, but not what it has got.        *)
LEMMA OverwrittenIs ==
  ASSUME NEW old \in Seq(Lines), NEW n \in 0 .. Len(old), NEW c \in Seq(Lines),
         NEW k \in n .. Len(old), NEW seam \in {<<>>} \cup {<<l>> : l \in Torn},
         NEW j \in 1 .. Len(c) + 1,
         NEW new, new = Overwritten(SubSeq(old, 1, k), seam, c, j)
  PROVE  new \in Seq(Lines) /\ n <= Len(new) /\ \A i \in 1 .. n : new[i] = old[i]
<1>1. new = SubSeq(old, 1, k) \o seam \o SubSeq(c, j, Len(c))
  BY DEF Overwritten
<1> DEFINE lead == SubSeq(old, 1, k)
           tail == SubSeq(c, j, Len(c))
<1>2. Len(old) \in Nat /\ k \in Nat /\ n \in Nat /\ n <= k /\ k <= Len(old) /\ Len(c) \in Nat
  OBVIOUS
<1>3. lead \in Seq(Lines) /\ Len(lead) = k /\ \A i \in 1 .. k : lead[i] = old[i]
  BY <1>2
<1>4. tail \in Seq(Lines)
  <2>1. \A i \in j .. Len(c) : c[i] \in Lines
    BY <1>2
  <2> QED BY <2>1, <1>2
<1>5. seam \in Seq(Lines)
  <2>1. \A l \in Torn : l \in Lines
    BY SymbolsAssumption
  <2>2. <<>> \in Seq(Lines) /\ \A l \in Lines : <<l>> \in Seq(Lines)
    OBVIOUS
  <2> QED BY <2>1, <2>2
<1> HIDE DEF lead, tail
<1>6. /\ lead \o seam \in Seq(Lines) /\ Len(lead \o seam) = k + Len(seam)
      /\ \A i \in 1 .. k : (lead \o seam)[i] = lead[i]
  <2>1. /\ lead \o seam \in Seq(Lines) /\ Len(lead \o seam) = Len(lead) + Len(seam)
        /\ \A i \in 1 .. Len(lead) + Len(seam) :
             (lead \o seam)[i] = IF i <= Len(lead) THEN lead[i] ELSE seam[i - Len(lead)]
    <3>1. lead \in Seq(Lines)
      BY <1>3
    <3> QED BY <3>1, <1>5, ConcatProperties
  <2>2. Len(seam) \in Nat /\ Len(lead) = k
    BY <1>3, <1>5
  <2>3. ASSUME NEW i \in 1 .. k PROVE (lead \o seam)[i] = lead[i]
    <3>1. i \in 1 .. Len(lead) + Len(seam) /\ i <= Len(lead)
      BY <2>2, <1>2
    <3> QED BY <3>1, <2>1
  <2> QED BY <2>1, <2>2, <2>3
<1> DEFINE front == lead \o seam
           all == front \o tail
<1>7. /\ front \in Seq(Lines) /\ Len(front) = k + Len(seam) /\ Len(seam) \in Nat
      /\ \A i \in 1 .. k : front[i] = lead[i]
  BY <1>5, <1>6
<1>8. new = all
  BY <1>1 DEF lead, tail
<1> HIDE DEF front
<1>9. /\ all \in Seq(Lines) /\ Len(all) = Len(front) + Len(tail)
      /\ \A i \in 1 .. Len(front) + Len(tail) : all[i] = IF i <= Len(front) THEN front[i]
                                                               ELSE tail[i - Len(front)]
  <2>1. front \in Seq(Lines)
    BY <1>7
  <2> QED BY <1>4, <2>1, ConcatProperties
<1> HIDE DEF all
<1>10. Len(front) \in Nat /\ Len(tail) \in Nat
  BY <1>4, <1>7
<1>11. n <= Len(all)
  BY <1>2, <1>7, <1>9, <1>10
<1>12. ASSUME NEW i \in 1 .. n PROVE all[i] = old[i]
  <2>1. i \in 1 .. k /\ i \in 1 .. Len(front) + Len(tail) /\ i <= Len(front)
    BY <1>2, <1>7, <1>10
  <2> QED BY <2>1, <1>3, <1>7, <1>9
<1> QED BY <1>8, <1>9, <1>11, <1>12

LEMMA RewriteIInv ==
  ASSUME IInv, NEW c \in Contents, RewriteFile(c)
  PROVE  IInv'
<1> USE DEF IInv
<1>1. /\ UNCHANGED <<exists, linked, phase, pos, table, reads, rc, query, answer, origin>>
      /\ file' = c /\ c \in Seq(Lines)
  BY SymbolsAssumption DEF RewriteFile
<1>2. AnswerOfQuery' /\ NoQueryWhileReading'
  BY <1>1, AnswerStays DEF NoQueryWhileReading
<1>3. CASE phase = "reading" /\ linked
  <2>1. rewrites' = rewrites + 1 /\ rewrites < MaxRewrites
    BY <1>3 DEF RewriteFile
  <2>2. stream \in Seq(Lines) /\ pos \in 0 .. Len(stream)
    BY DEF TypeOK
  <2>3. stream' \in Seq(Lines) /\ pos <= Len(stream') /\ \A j \in 1 .. pos : stream'[j] = stream[j]
    <3>1. PICK k \in pos .. Len(stream), seam \in {<<>>} \cup {<<l>> : l \in Torn},
               from \in 1 .. Len(c) + 1 :
            stream' = Overwritten(SubSeq(stream, 1, k), seam, c, from)
      BY <1>3 DEF RewriteFile
    <3> QED BY <1>1, <2>2, <3>1, OverwrittenIs
  <2>4. TypeOK'
    <3>1. pos \in 0 .. Len(stream')
      BY <2>2, <2>3
    <3>2. rewrites' \in 0 .. MaxRewrites /\ rewrites' # 0
      BY <2>1, SymbolsAssumption DEF TypeOK
    <3> QED BY <1>1, <2>3, <3>1, <3>2 DEF TypeOK
  <2>5. TableIsOfLines'
    <3>1. TableOf(stream', 1 .. pos) = TableOf(stream, 1 .. pos)
      <4>1. 1 .. pos \subseteq Nat
        BY <2>2
      <4> QED BY <2>3, <4>1, TableAgrees
    <3> QED BY <1>1, <1>3, <2>3, <3>1 DEF TableIsOfLines
  <2>6. StreamIsOrigin'
    BY <2>1, SymbolsAssumption DEF TypeOK, StreamIsOrigin
  <2> QED BY <1>2, <2>4, <2>5, <2>6
<1>4. CASE ~(phase = "reading" /\ linked)
  <2>1. UNCHANGED <<stream, rewrites>>
    BY <1>4 DEF RewriteFile
  <2>2. TypeOK'
    BY <1>1, <2>1 DEF TypeOK
  <2>3. TableIsOfLines'
    BY <1>1, <2>1, TableStays
  <2> QED BY <1>1, <1>2, <2>1, <2>2, <2>3 DEF StreamIsOrigin
<1> QED BY <1>3, <1>4

(* readSymbols() is called: the file is opened, if the table is empty.     *)
LEMMA ReadIInv ==
  ASSUME IInv, ReadSymbols
  PROVE  IInv'
<1> USE DEF IInv
<1>1. /\ query' = None /\ answer' = None /\ UNCHANGED <<file, exists, table>>
      /\ file \in Contents /\ exists \in BOOLEAN /\ phase = "idle"
      /\ reads' \in 0 .. MaxReads
  BY SymbolsAssumption DEF ReadSymbols, TypeOK
<1>2. NoQueryWhileReading' /\ AnswerOfQuery'
  BY <1>1 DEF NoQueryWhileReading, AnswerOfQuery
<1>3. CASE table # NoTable
  <2>1. rc' = 0 /\ UNCHANGED <<linked, phase, stream, pos, origin, rewrites>>
    BY <1>3 DEF ReadSymbols
  <2>2. TypeOK'
    BY <1>1, <2>1 DEF TypeOK, None
  <2>3. TableIsOfLines'
    BY <1>1, <2>1, TableStays
  <2> QED BY <1>2, <2>1, <2>2, <2>3 DEF StreamIsOrigin
<1>4. CASE table = NoTable
  <2>1. /\ linked' = exists /\ phase' = (IF exists THEN "reading" ELSE "idle")
        /\ stream' = (IF exists THEN file ELSE Missing) /\ origin' = stream'
        /\ rc' = (IF exists THEN rc ELSE -1) /\ pos' = 0 /\ rewrites' = 0
    BY <1>4 DEF ReadSymbols
  <2>2. stream' \in Seq(Lines) /\ 0 \in 0 .. Len(stream') /\ 0 \in 0 .. MaxRewrites
    BY <1>1, <2>1, SymbolsAssumption DEF Missing
  <2>3. TypeOK'
    BY <1>1, <2>1, <2>2 DEF TypeOK
  <2>4. table' = TableOf(stream', 1 .. pos')
    BY <1>1, <1>4, <2>1, EmptyTable
  <2>5. TableIsOfLines'
    BY <2>1, <2>4 DEF TableIsOfLines, Missing
  <2> QED BY <1>2, <2>1, <2>3, <2>5 DEF StreamIsOrigin
<1> QED BY <1>3, <1>4

(* A line becomes an entry of the table, or none.                          *)
LEMMA LineIInv ==
  ASSUME IInv, GetLine
  PROVE  IInv'
<1> USE DEF IInv
<1> DEFINE line == stream[pos + 1]
<1>1. /\ phase = "reading" /\ pos < Len(stream) /\ line.type # "bad" /\ pos' = pos + 1
      /\ table' = IF line.type = "function" THEN Emplaced(table, line.addr, line.length) ELSE table
      /\ UNCHANGED <<file, exists, linked, phase, stream, reads, rc, query, answer, origin, rewrites>>
  BY DEF GetLine, diskVars
<1>2. /\ stream \in Seq(Lines) /\ pos \in Nat /\ Len(stream) \in Nat
      /\ pos + 1 \in 0 .. Len(stream) /\ line \in Lines
  BY <1>1 DEF TypeOK
<1>3. line.addr \in Keys /\ line.length \in Keys
  BY <1>2 DEF Lines, Keys
<1>4. DOMAIN table \subseteq Keys /\ \A a \in DOMAIN table : table[a] \in Keys
  BY DEF TypeOK, Keys
<1>5. DOMAIN table' \subseteq Keys /\ \A a \in DOMAIN table' : table'[a] \in Keys
  <2> HIDE DEF line
  <2>1. CASE line.type = "function"
    <3>1. table' = [x \in DOMAIN table \cup {line.addr} |->
                      IF x \in DOMAIN table THEN table[x] ELSE line.length]
      BY <1>1, <2>1 DEF Emplaced
    <3> QED BY <3>1, <1>3, <1>4
  <2>2. CASE line.type # "function"
    BY <1>1, <1>4, <2>2
  <2> QED BY <2>1, <2>2
<1>6. TypeOK'
  BY <1>1, <1>2, <1>5 DEF TypeOK, Keys
<1>7. TableIsOfLines'
  <2>1. TableOf(stream, 1 .. pos + 1)
          = IF line.type = "function" THEN Emplaced(TableOf(stream, 1 .. pos), line.addr, line.length)
                                      ELSE TableOf(stream, 1 .. pos)
    BY <1>1, <1>2, TableGrows
  <2>2. table' = TableOf(stream', 1 .. pos')
    BY <1>1, <2>1 DEF TableIsOfLines
  <2>3. \A j \in 1 .. pos + 1 : j \in 1 .. pos \/ j = pos + 1
    BY <1>2
  <2> QED BY <1>1, <2>2, <2>3 DEF TableIsOfLines
<1>8. query = None
  BY <1>1 DEF NoQueryWhileReading
<1> QED BY <1>1, <1>6, <1>7, <1>8 DEF StreamIsOrigin, NoQueryWhileReading, AnswerOfQuery

(* readSymbols() returns, at the end of the file or at a damaged line.     *)
LEMMA ReturnIInv ==
  ASSUME IInv, BadLine \/ EndOfFile
  PROVE  IInv'
<1> USE DEF IInv
<1>1. /\ phase' = "idle" /\ rc' \in {0, -1}
      /\ UNCHANGED <<file, exists, linked, stream, pos, table, reads, query, answer,
                     origin, rewrites>>
      /\ pos = Len(stream) \/ stream[pos + 1].type = "bad"
  BY DEF BadLine, EndOfFile, Finish, diskVars
<1>2. TypeOK'
  BY <1>1 DEF TypeOK
<1>3. TableIsOfLines'
  BY <1>1 DEF TableIsOfLines
<1> QED BY <1>1, <1>2, <1>3, AnswerStays DEF StreamIsOrigin, NoQueryWhileReading

(* What the search steps over: the symbol at or behind the address, and    *)
(* the last one before that.                                               *)
LEMMA NearestIs ==
  ASSUME TypeOK, NEW address \in Nat, Nearest(address) # None
  PROVE  \E it \in DOMAIN table, near \in DOMAIN table :
           /\ LowerBound(address) # {} /\ it = Min(LowerBound(address))
           /\ it \in LowerBound(address) /\ \A a \in LowerBound(address) : it <= a
           /\ near = Nearest(address)
           /\ IF address # it /\ Below(it) # {}
                THEN near \in Below(it) /\ \A b \in Below(it) : b <= near
                ELSE near = it
           /\ address < (near + table[near]) % AddrMod
<1> DEFINE it == Min(LowerBound(address))
           near == IF address # it /\ Below(it) # {} THEN Max(Below(it)) ELSE it
<1>1. /\ DOMAIN table \subseteq Keys /\ Keys \subseteq Nat
      /\ LowerBound(address) \subseteq DOMAIN table /\ Below(it) \subseteq DOMAIN table
  BY SymbolsAssumption DEF TypeOK, Keys, LowerBound, Below
<1>2. /\ LowerBound(address) # {} /\ Nearest(address) = near
      /\ address < (near + table[near]) % AddrMod
  BY DEF Nearest
<1>3. it \in LowerBound(address) /\ \A a \in LowerBound(address) : it <= a
  BY <1>1, <1>2, MinIs
<1> HIDE DEF it
<1>4. Below(it) # {} => /\ Max(Below(it)) \in Below(it)
                        /\ \A b \in Below(it) : Max(Below(it)) >= b
  BY <1>1, MaxIs
<1>5. near \in DOMAIN table
  BY <1>1, <1>3, <1>4
<1>6. IF address # it /\ Below(it) # {}
        THEN near \in Below(it) /\ \A b \in Below(it) : b <= near
        ELSE near = it
  BY <1>1, <1>4 DEF Keys
<1> HIDE DEF near
<1>7. it \in DOMAIN table /\ it = Min(LowerBound(address))
  BY <1>1, <1>3 DEF it
<1> QED BY <1>2, <1>3, <1>5, <1>6, <1>7

LEMMA QueryIInv ==
  ASSUME IInv, NEW address \in Addresses, NearestSymbol(address)
  PROVE  IInv'
<1> USE DEF IInv
<1>1. address \in Nat /\ address # None
  BY SymbolsAssumption DEF None
<1>2. Nearest(address) \in (0 .. AddrMod - 1) \cup {None}
  BY <1>1, NearestIs DEF TypeOK
<1>3. TypeOK'
  BY <1>2 DEF NearestSymbol, TypeOK, diskVars, readerVars
<1>4. AnswerOfQuery'
  BY <1>1 DEF NearestSymbol, AnswerOfQuery, Nearest, LowerBound, Below, readerVars
<1>5. /\ UNCHANGED <<phase, stream, pos, table, origin, rewrites>> /\ phase = "idle"
  BY DEF NearestSymbol, readerVars
<1> QED BY <1>3, <1>4, <1>5, TableStays DEF StreamIsOrigin, NoQueryWhileReading

LEMMA NextIInv == IInv /\ [Next]_vars => IInv'
<1> SUFFICES ASSUME IInv, [Next]_vars PROVE IInv'
  OBVIOUS
<1>1. CASE UNCHANGED vars
  BY <1>1, TableStays, AnswerStays
     DEF vars, diskVars, readerVars, IInv, TypeOK, StreamIsOrigin, NoQueryWhileReading
<1>2. CASE Next
  BY <1>2, ReplaceIInv, SetIInv, RewriteIInv, ReadIInv, LineIInv, ReturnIInv, QueryIInv DEF Next
<1> QED BY <1>1, <1>2

(* Files, reads and queries keep the invariant.                            *)
THEOREM Invariance == Spec => []IInv
BY InitIInv, NextIInv, PTL DEF Spec

-----------------------------------------------------------------------------
(* The variables keep their types; the keys of the table keep their width. *)
THEOREM TypeCorrect == Spec => []TypeOK
BY Invariance, PTL DEF IInv

(* A file that is replaced while readSymbols() reads it line by line, or   *)
(* rewritten before or after that, gives a table of one content: all that  *)
(* the content opened says up to its first damaged line.                   *)
THEOREM OneContent == Spec => []TableIsOfOneContent
<1>1. ASSUME IInv, phase = "idle", rewrites = 0
      PROVE  table = TableOf(origin, GoodLines(origin))
  <2>1. stream \in Seq(Lines) /\ pos \in 0 .. Len(stream) /\ stream = origin
    BY <1>1 DEF IInv, TypeOK, StreamIsOrigin
  <2>2. GoodLines(stream) = 1 .. pos
    BY <1>1, <2>1, GoodLinesAre DEF IInv, TableIsOfLines
  <2> QED BY <1>1, <2>1, <2>2 DEF IInv, TableIsOfLines
<1>2. IInv => TableIsOfOneContent
  BY <1>1 DEF TableIsOfOneContent
<1> QED BY <1>2, Invariance, PTL

(* The function named holds the address, or is the first one of all.       *)
THEOREM NeverFarAway == Spec => []NearestIsSound
<1>1. ASSUME IInv, answer # None PROVE NearestIsSound
  <2>1. /\ query # None /\ answer = Nearest(query) /\ query \in Nat /\ TypeOK
        /\ AddrMod \in Nat \ {0}
    BY <1>1, SymbolsAssumption DEF IInv, AnswerOfQuery, TypeOK
  <2>2. PICK it \in DOMAIN table, near \in DOMAIN table :
           /\ it \in LowerBound(query)
           /\ near = answer
           /\ IF query # it /\ Below(it) # {}
                THEN near \in Below(it) /\ \A b \in Below(it) : b <= near
                ELSE near = it
           /\ query < (near + table[near]) % AddrMod
           /\ \A a \in LowerBound(query) : it <= a
    BY <1>1, <2>1, NearestIs
  <2>3. near \in Nat /\ table[near] \in Nat /\ it \in Nat
    BY <2>1 DEF TypeOK
  <2>4. (near + table[near]) % AddrMod <= near + table[near]
    BY <2>1, <2>3
  <2>5. query < near + table[near]
    BY <2>1, <2>2, <2>3, <2>4
  <2>6. near <= query \/ (query < near /\ Below(near) = {})
    <3>1. CASE query # it /\ Below(it) # {}
      <4>1. near < it
        BY <2>2, <3>1 DEF Below
      <4>2. ~(near >= query % AddrMod)
        BY <2>2, <2>3, <4>1 DEF LowerBound
      <4>3. query % AddrMod <= query /\ query % AddrMod \in Nat
        BY <2>1
      <4> QED BY <4>2, <4>3, <2>1, <2>3
    <3>2. CASE query = it
      BY <3>2, <2>2, <2>3
    <3>3. CASE query # it /\ Below(it) = {}
      BY <3>3, <2>1, <2>2, <2>3
    <3> QED BY <3>1, <3>2, <3>3
  <2> QED BY <2>2, <2>5, <2>6 DEF NearestIsSound, Covers
<1>2. IInv => NearestIsSound
  BY <1>1 DEF NearestIsSound
<1> QED BY <1>2, Invariance, PTL

(* An address in any function but the last is found.                       *)
THEOREM FindsAllButLast == Spec => []FoundUnlessLast
<1>1. ASSUME IInv, query # None, NEW a \in DOMAIN table,
             Disjoint,
             Covers(a, query), a # Max(DOMAIN table)
      PROVE  answer = a
  <2>1. /\ answer = Nearest(query) /\ query \in Nat /\ AddrMod \in Nat \ {0}
        /\ DOMAIN table \subseteq Keys
    BY <1>1, SymbolsAssumption DEF IInv, AnswerOfQuery, TypeOK, Keys
  <2>2. \A x \in DOMAIN table : x \in Nat /\ x < AddrMod /\ table[x] \in Nat
    BY <1>1, <2>1 DEF IInv, TypeOK, Keys
  <2>3. a <= query /\ query < a + table[a]
    BY <1>1 DEF Covers
  <2>4. PICK b \in DOMAIN table : a < b
    <3>1. Max(DOMAIN table) \in DOMAIN table /\ Max(DOMAIN table) >= a
      BY <2>1, MaxIs
    <3> QED BY <3>1, <1>1, <2>2
  <2>5. /\ a + table[a] <= b /\ a + table[a] < AddrMod /\ query < b
        /\ query % AddrMod = query /\ (a + table[a]) % AddrMod = a + table[a]
    <3>1. a + table[a] <= b /\ a + table[a] < AddrMod /\ query < b /\ query < AddrMod
      BY <1>1, <2>1, <2>2, <2>3, <2>4 DEF Disjoint
    <3>2. \A n \in Nat : n < AddrMod => n % AddrMod = n
      BY <2>1
    <3> QED BY <3>1, <3>2, <2>1, <2>2
  <2>6. LowerBound(query) = {x \in DOMAIN table : x >= query}
    BY <2>5 DEF LowerBound
  <2> DEFINE it == Min(LowerBound(query))
             near == IF query # it /\ Below(it) # {} THEN Max(Below(it)) ELSE it
  <2>7. LowerBound(query) # {} /\ LowerBound(query) \subseteq Nat
    BY <2>1, <2>2, <2>4, <2>5, <2>6
  <2>8. /\ it \in LowerBound(query) /\ \A x \in LowerBound(query) : it <= x
    BY <2>7, MinIs
  <2>9. near = a
    <3> HIDE DEF it
    <3>1. it \in DOMAIN table /\ it >= query
      BY <2>6, <2>8
    <3>2. CASE query = a
      <4>1. a \in LowerBound(query)
        BY <3>2, <2>2, <2>6
      <4>2. it = a
        BY <3>1, <3>2, <4>1, <2>2, <2>8
      <4> QED BY <3>2, <4>2
    <3>3. CASE query # a
      <4>1. a < query /\ a < it
        BY <3>1, <3>3, <2>1, <2>2, <2>3
      <4>2. query # it
        BY <4>1, <1>1, <2>2, <2>3, <3>1 DEF Disjoint
      <4>3. a \in Below(it) /\ Below(it) \subseteq Keys
        BY <4>1, <2>1 DEF Below
      <4> DEFINE m == Max(Below(it))
      <4>4. m \in Below(it) /\ m >= a
        BY <4>3, MaxIs
      <4> HIDE DEF m
      <4>5. m \in DOMAIN table /\ m < it
        BY <4>4 DEF Below
      <4>6. m < query
        <5>1. m \notin LowerBound(query)
          BY <4>5, <2>8, <2>2, <3>1
        <5> QED BY <5>1, <4>5, <2>6, <2>1, <2>2
      <4>7. m = a
        <5>1. ~(a < m)
          BY <4>5, <4>6, <1>1, <2>1, <2>2, <2>3 DEF Disjoint
        <5> QED BY <5>1, <4>4, <4>5, <2>2
      <4> QED BY <4>2, <4>3, <4>7 DEF m
    <3> QED BY <3>2, <3>3
  <2>10. Nearest(query) = IF query < (near + table[near]) % AddrMod THEN near ELSE None
    BY <2>7 DEF Nearest
  <2> QED BY <2>1, <2>3, <2>5, <2>9, <2>10
<1>2. IInv => FoundUnlessLast
  BY <1>1 DEF FoundUnlessLast
<1> QED BY <1>2, Invariance, PTL
=============================================================================
