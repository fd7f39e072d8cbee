----------------------------- MODULE Hbel_proofs -----------------------------
(***************************************************************************)
(* Proofs about Hbel for every number and size of slots, every dump, every *)
(* argument of -p and every activity of the host.                          *)
(***************************************************************************)
EXTENDS Hbel, FiniteSetTheorems, SequenceTheorems, WellFoundedInduction, TLAPS

Owner == Entries \cup {Empty}

(* The dump is taken of the whole partition, then cut off.                 *)
DumpIsWhole ==
  phase \in {"dumped", "file"} => Len(dump.got) = Chunks /\ dump.size \in DumpSizes

RequestFits ==
  /\ phase = "file" => request.file
  /\ phase = "pflash" => ~request.file

NothingYet == phase # "done" => result = NoResult

(* Each slot holds what it was last seen to hold, and nothing else while   *)
(* the host is quiet; and each chunk that came through the pipe was there. *)
History ==
  \A s \in Slots : flash[s] \in seen[s] /\ (quiet => seen[s] = {flash[s]})

ReadOfFlash ==
  phase = "pflash" => \A c \in 1 .. Len(got) : got[c] \in seen[(c - 1) \div 2]

ListFits == result.kind = "list" => DOMAIN result.value \subseteq 1 .. NSlots

Promises == ListFits /\ ListIsLeadingRun /\ ReadIsSlot /\ ListedWasThere

IInv ==
  /\ TypeOK /\ DumpIsWhole /\ RequestFits /\ NothingYet
  /\ History /\ ReadOfFlash /\ Promises

-----------------------------------------------------------------------------
(* Quotient and remainder are what the division algorithm says.            *)
LEMMA DivMod ==
  ASSUME NEW d \in Nat \ {0}, NEW q \in Nat, NEW r \in 0 .. d - 1
  PROVE  (q * d + r) \div d = q /\ (q * d + r) % d = r
OBVIOUS

LEMMA DivModExists ==
  ASSUME NEW d \in Nat \ {0}, NEW n \in Nat
  PROVE  \E q \in Nat : \E r \in 0 .. d - 1 : n = q * d + r
<1>1. n \div d \in Nat /\ n % d \in 0 .. d - 1
  OBVIOUS
<1>2. n = ((n \div d) * d) + (n % d)
  OBVIOUS
<1> QED BY <1>1, <1>2

LEMMA LeastExists ==
  ASSUME NEW S, S \subseteq Nat, S # {}
  PROVE  \E n \in S : \A m \in S : n <= m
<1> DEFINE R == {p \in Nat \X Nat : p[1] < p[2]}
<1>1. IsWellFoundedOn(R, Nat)
  BY NatLessThanWellFounded DEF OpToRel
<1>2. PICK n \in S : \A m \in S : ~(<<m, n>> \in R)
  <2> HIDE DEF R
  <2> QED BY <1>1, WFMin
<1>3. ASSUME NEW m \in S PROVE n <= m
  <2>1. <<m, n>> \in Nat \X Nat /\ <<m, n>> \notin R
    BY <1>2
  <2>2. ~(m < n)
    BY <2>1
  <2> QED BY <2>2
<1> QED BY <1>3

-----------------------------------------------------------------------------
(* What is left of the first k raw bytes without the ECC.                  *)
Kept(raw, k) == [j \in 1 .. k - (k \div 9) |-> raw[j + ((j - 1) \div 8)]]

Counted(raw, k) == [i |-> k % 9, out |-> Kept(raw, k)]

NextCounted(acc, byte) ==
  IF acc.i + 1 = 9 THEN [i |-> 0, out |-> acc.out]
                   ELSE [i |-> acc.i + 1, out |-> Append(acc.out, byte)]

(* Nine steps of the counter drop the ninth byte ...                       *)
LEMMA CountsToNine ==
  ASSUME NEW raw, NEW k \in Nat \ {0}
  PROVE  NextCounted(Counted(raw, k - 1), raw[k]) = Counted(raw, k)
<1>1. PICK q \in Nat, r \in 0 .. 8 : k - 1 = q * 9 + r
  <2>1. k - 1 \in Nat
    OBVIOUS
  <2>2. (k - 1) \div 9 \in Nat /\ (k - 1) % 9 \in 0 .. 8
    BY <2>1
  <2>3. k - 1 = (((k - 1) \div 9) * 9) + ((k - 1) % 9)
    BY <2>1
  <2> QED BY <2>2, <2>3
<1>2. (k - 1) % 9 = r /\ (k - 1) \div 9 = q
  BY <1>1
<1>3. CASE r = 8
  <2>1. k % 9 = 0 /\ k \div 9 = q + 1
    BY <1>1, <1>3
  <2>2. Kept(raw, k) = Kept(raw, k - 1)
    BY <1>2, <2>1, (k - 1) - q = k - (q + 1) DEF Kept
  <2> QED BY <1>2, <1>3, <2>1, <2>2 DEF NextCounted, Counted
<1>4. CASE r # 8
  <2> DEFINE n == (k - 1) - q
  <2>1. k % 9 = r + 1 /\ k \div 9 = q
    BY <1>1, <1>4
  <2>2. n \in Nat /\ n + 1 = k - q /\ n = 8 * q + r
    BY <1>1
  <2>3. Kept(raw, k - 1) = [j \in 1 .. n |-> raw[j + ((j - 1) \div 8)]]
    BY <1>2 DEF Kept
  <2>4. Kept(raw, k) = [j \in 1 .. n + 1 |-> raw[j + ((j - 1) \div 8)]]
    BY <2>1, <2>2 DEF Kept
  <2>5. (n + 1) + (((n + 1) - 1) \div 8) = k
    <3>1. n \div 8 = q
      BY <2>2, <1>4
    <3> QED BY <3>1, <2>2, <1>1
  <2>6. Append(Kept(raw, k - 1), raw[k]) = Kept(raw, k)
    <3> DEFINE e(j) == raw[j + ((j - 1) \div 8)]
               S    == {e(j) : j \in 1 .. n + 1}
    <3> HIDE DEF n
    <3>1. e(n + 1) = raw[k]
      BY <2>5
    <3> HIDE DEF e
    <3>2. Kept(raw, k - 1) = [j \in 1 .. n |-> e(j)] /\ Kept(raw, k) = [j \in 1 .. n + 1 |-> e(j)]
      BY <2>3, <2>4 DEF e
    <3>3. Append([j \in 1 .. n |-> e(j)], e(n + 1)) = [j \in 1 .. n + 1 |-> e(j)]
      <4>1. [j \in 1 .. n |-> e(j)] \in Seq(S) /\ [j \in 1 .. n + 1 |-> e(j)] \in Seq(S)
        BY <2>2
      <4>2. e(n + 1) \in S
        BY <2>2
      <4>3. Len([j \in 1 .. n |-> e(j)]) = n /\ Len([j \in 1 .. n + 1 |-> e(j)]) = n + 1
        BY <2>2
      <4> HIDE DEF S
      <4> QED BY <4>1, <4>2, <4>3, <2>2, AppendProperties, SeqEqual
    <3> QED BY <3>1, <3>2, <3>3
  <2> QED BY <1>1, <1>2, <1>4, <2>1, <2>6 DEF NextCounted, Counted
<1> QED BY <1>3, <1>4

(* ... so removeEcc() gives the bytes that are not ECC.                    *)
LEMMA RemoveEccIs ==
  ASSUME NEW raw, Len(raw) \in Nat
  PROVE  RemoveEcc(raw) = Kept(raw, Len(raw))
<1> DEFINE K       == 0 .. Len(raw)
           Body(f) == [k \in K |-> IF k = 0 THEN [i |-> 0, out |-> <<>>]
                                           ELSE NextCounted(f[k - 1], raw[k])]
           F       == [k \in K |-> Counted(raw, k)]
<1>1. Counted(raw, 0) = [i |-> 0, out |-> <<>>]
  BY DEF Counted, Kept
<1>2. F = Body(F)
  <2>1. \A k \in K : k # 0 => k - 1 \in K
    OBVIOUS
  <2>2. \A k \in K : k # 0 => NextCounted(F[k - 1], raw[k]) = F[k]
    BY <2>1, CountsToNine
  <2> QED BY <1>1, <2>2
<1>3. ASSUME NEW f, f = Body(f)
      PROVE  f[Len(raw)] = F[Len(raw)]
  <2> DEFINE D == {k \in K : f[k] # F[k]}
  <2>a. F = Body(F) /\ f = Body(f)
    BY <1>2, <1>3
  <2>b. F[0] = [i |-> 0, out |-> <<>>] /\ Len(raw) \in K
    BY <1>1
  <2>0. F = Body(F) /\ f = Body(f) /\ F[0] = [i |-> 0, out |-> <<>>] /\ Len(raw) \in K
    <3> HIDE DEF F, Body
    <3> QED BY <2>a, <2>b
  <2> HIDE DEF F
  <2>1. CASE D = {}
    BY <2>0, <2>1
  <2>2. CASE D # {}
    <3>1. PICK n \in D : \A m \in D : n <= m
      BY <2>2, D \subseteq Nat, LeastExists
    <3>2. n # 0
      BY <2>0, <3>1
    <3>3. n - 1 \in K /\ n - 1 \notin D
      BY <3>1, <3>2
    <3>4. f[n - 1] = F[n - 1]
      BY <3>3
    <3>5. f[n] = NextCounted(f[n - 1], raw[n])
      BY <2>0, <3>1, <3>2
    <3>6. F[n] = NextCounted(F[n - 1], raw[n])
      BY <2>0, <3>1, <3>2
    <3> QED BY <3>1, <3>4, <3>5, <3>6
  <2> QED BY <2>1, <2>2
<1>4. RemoveEcc(raw) = (CHOOSE f : f = Body(f))[Len(raw)].out
  BY DEF RemoveEcc, NextCounted
<1>5. F[Len(raw)].out = Kept(raw, Len(raw))
  BY DEF Counted
<1> HIDE DEF F, Body
<1> QED BY <1>2, <1>3, <1>4, <1>5

-----------------------------------------------------------------------------
(* Two chunks make a slot, and the slots fill the partition.               *)
LEMMA Sizes ==
  /\ NSlots \in Nat \ {0} /\ EventSize \in Nat \ {0}
  /\ Chunk \in Nat \ {0} /\ EventSize = 2 * Chunk
  /\ EntryAt \in 1 .. Chunk - 1
  /\ RawSize \in Nat /\ RawSize - (RawSize \div 9) = NSlots * EventSize
<1>1. /\ NSlots \in Nat \ {0} /\ EventSize \in Nat /\ EventSize % 16 = 0
      /\ EntryAt \in 1 .. Chunk - 1
  BY HbelAssumption
<1>2. PICK e \in Nat : EventSize = 16 * e
  <2>1. EventSize \div 16 \in Nat /\ EventSize = ((EventSize \div 16) * 16) + (EventSize % 16)
    BY <1>1
  <2> QED BY <1>1, <2>1
<1>3. Chunk = 8 * e
  BY <1>2 DEF Chunk
<1>4. e \in Nat \ {0}
  BY <1>1, <1>3
<1>5. PICK m \in Nat : m = NSlots * e
  BY <1>1
<1>6. NSlots * EventSize = 16 * m
  BY <1>1, <1>2, <1>5
<1>7. RawSize = 18 * m
  BY <1>6 DEF RawSize
<1> QED BY <1>1, <1>2, <1>3, <1>4, <1>6, <1>7

(* The bytes of the data: each knows its slot, its place in it and the     *)
(* owner of its chunk.                                                     *)
DataByte(g, p) ==
  [slot |-> (p - 1) \div EventSize, at |-> (p - 1) % EventSize,
   owner |-> g[((p - 1) \div Chunk) + 1]]

Data(g, size) == [p \in 1 .. size - (size \div 9) |-> DataByte(g, p)]

LEMMA RawByteIs ==
  ASSUME NEW g, NEW p \in Nat \ {0}
  PROVE  RawByte(g, p + ((p - 1) \div 8)) = DataByte(g, p)
<1> DEFINE k == p + ((p - 1) \div 8)
<1>1. k % 9 # 0 /\ (((k - 1) \div 9) * 8) + ((k - 1) % 9) = p - 1
  OBVIOUS
<1> HIDE DEF k
<1>2. RawByte(g, k) = DataByte(g, p)
  BY <1>1 DEF RawByte, DataByte
<1> QED BY <1>2 DEF k

(* What readHbel() returns, for every size of the source.                  *)
LEMMA DataIs ==
  ASSUME NEW g, NEW size \in Nat
  PROVE  RemoveEcc(Raw(g, size)) = Data(g, size)
<1> DEFINE n == size - (size \div 9)
<1>1. Len(Raw(g, size)) = size
  BY DEF Raw
<1>2. \A p \in 1 .. n : p + ((p - 1) \div 8) \in 1 .. size
  OBVIOUS
<1>3. \A p \in 1 .. n : Raw(g, size)[p + ((p - 1) \div 8)] = DataByte(g, p)
  <2> HIDE DEF n
  <2>1. ASSUME NEW p \in 1 .. n
        PROVE  Raw(g, size)[p + ((p - 1) \div 8)] = RawByte(g, p + ((p - 1) \div 8))
    BY <1>2 DEF Raw
  <2>2. n \in Nat
    BY DEF n
  <2> QED BY <2>1, <2>2, RawByteIs
<1>4. RemoveEcc(Raw(g, size)) = Kept(Raw(g, size), size)
  BY <1>1, RemoveEccIs
<1> QED BY <1>3, <1>4 DEF Kept, Data

LEMMA DataAt ==
  ASSUME NEW g, NEW s \in Nat, NEW r \in 0 .. EventSize - 1
  PROVE  /\ DataByte(g, (s * EventSize) + r + 1).slot = s
         /\ DataByte(g, (s * EventSize) + r + 1).at = r
         /\ r < Chunk => DataByte(g, (s * EventSize) + r + 1).owner = g[(2 * s) + 1]
         /\ r >= Chunk => DataByte(g, (s * EventSize) + r + 1).owner = g[(2 * s) + 2]
<1> DEFINE n == (s * EventSize) + r
<1>1. n \in Nat /\ ((n + 1) - 1) = n
  BY Sizes
<1>2. n \div EventSize = s /\ n % EventSize = r
  BY DivMod, Sizes
<1>3. n \div Chunk = IF r < Chunk THEN 2 * s ELSE (2 * s) + 1
  <2>1. CASE r < Chunk
    <3>1. n = ((2 * s) * Chunk) + r /\ 2 * s \in Nat /\ r \in 0 .. Chunk - 1
      BY <2>1, Sizes
    <3> QED BY <2>1, <3>1, Sizes, DivMod
  <2>2. CASE ~(r < Chunk)
    <3>1. /\ n = (((2 * s) + 1) * Chunk) + (r - Chunk)
          /\ (2 * s) + 1 \in Nat /\ r - Chunk \in 0 .. Chunk - 1
      BY <2>2, Sizes
    <3> QED BY <2>2, <3>1, Sizes, DivMod
  <2> QED BY <2>1, <2>2
<1> HIDE DEF n
<1>4. /\ DataByte(g, n + 1).slot = s
      /\ DataByte(g, n + 1).at = r
      /\ r < Chunk => DataByte(g, n + 1).owner = g[(2 * s) + 1]
      /\ r >= Chunk => DataByte(g, n + 1).owner = g[(2 * s) + 2]
  <2>1. r \in Int /\ Chunk \in Int
    BY Sizes
  <2>2. ((2 * s) + 1) + 1 = (2 * s) + 2
    OBVIOUS
  <2> QED BY <1>1, <1>2, <1>3, <2>1, <2>2 DEF DataByte
<1> QED BY <1>4 DEF n

-----------------------------------------------------------------------------
(* The data never go beyond the last slot.                                 *)
DataLen(size) == size - (size \div 9)

LEMMA DataLenIs ==
  ASSUME NEW size \in 0 .. RawSize
  PROVE  /\ DataLen(size) \in 0 .. NSlots * EventSize
         /\ 9 * DataLen(size) <= (8 * size) + 8
         /\ DataLen(RawSize) = NSlots * EventSize
         /\ \A g : Len(Data(g, size)) = DataLen(size)
<1>1. RawSize \in Nat /\ DataLen(RawSize) = NSlots * EventSize /\ size \in Nat
  BY Sizes DEF DataLen
<1>2. DataLen(size) \in Nat /\ 9 * DataLen(size) <= (8 * size) + 8
  BY <1>1 DEF DataLen
<1>3. DataLen(size) <= DataLen(RawSize)
  BY <1>1 DEF DataLen
<1>4. \A g : Len(Data(g, size)) = DataLen(size)
  BY <1>2 DEF Data, DataLen
<1> QED BY <1>1, <1>2, <1>3, <1>4, Sizes

(* A slot that ends inside the data begins with its first chunk.           *)
LEMMA SlotAt ==
  ASSUME NEW g, NEW size \in 0 .. RawSize, NEW i \in Nat,
         NEW r \in 0 .. EventSize - 1, (i + 1) * EventSize <= DataLen(size)
  PROVE  Data(g, size)[(i * EventSize) + r + 1] = DataByte(g, (i * EventSize) + r + 1)
<1>1. (i + 1) * EventSize = (i * EventSize) + EventSize /\ i * EventSize \in Nat
  BY Sizes
<1>2. (i * EventSize) + r + 1 \in 1 .. DataLen(size)
  <2>1. EventSize \in Nat /\ DataLen(size) \in Nat
    BY Sizes, DataLenIs
  <2>2. PICK a \in Nat : a = i * EventSize
    BY <1>1
  <2>3. a + EventSize <= DataLen(size)
    BY <1>1, <2>2
  <2>4. a + r + 1 \in 1 .. DataLen(size)
    BY <2>1, <2>3
  <2> QED BY <2>2, <2>4
<1> QED BY <1>2 DEF Data, DataLen

(* The end of a list, which is always found.                               *)
LEMMA ListSizeIs ==
  ASSUME NEW g, NEW size \in 0 .. RawSize
  PROVE  LET data == Data(g, size)
             n    == ListSize(data)
         IN  /\ n \in Nat
             /\ \A i \in 0 .. n - 1 : Inside(data, i) /\ IsEvent(data, i)
             /\ ~(Inside(data, n) /\ IsEvent(data, n))
<1> DEFINE data  == Data(g, size)
           L     == Len(data)
           ok(i) == Inside(data, i) /\ IsEvent(data, i)
           S     == {n \in 0 .. L : ~ok(n)}
<1>1. L \in Nat
  BY DataLenIs
<1>2. ~Inside(data, L)
  <2> HIDE DEF data
  <2>1. (L + 1) * EventSize >= L + 1
    BY <1>1, Sizes
  <2>2. (L + 1) * EventSize \in Nat
    BY <1>1, Sizes
  <2> QED BY <1>1, <2>1, <2>2 DEF Inside
<1>3. \E n \in 0 .. L : (\A i \in 0 .. n - 1 : ok(i)) /\ ~ok(n)
  <2>1. S \subseteq Nat
    BY <1>1
  <2>2. L \in S
    BY <1>1, <1>2
  <2> HIDE DEF data, ok
  <2>3. PICK n \in S : \A m \in S : n <= m
    BY <2>1, <2>2, LeastExists
  <2>4. \A i \in 0 .. n - 1 : ok(i)
    BY <1>1, <2>3
  <2> QED BY <2>3, <2>4
<1>4. /\ ListSize(data) \in 0 .. L
      /\ \A i \in 0 .. ListSize(data) - 1 : ok(i)
      /\ ~ok(ListSize(data))
  <2> HIDE DEF data
  <2> QED BY <1>3 DEF ListSize
<1> QED BY <1>1, <1>4

(* What printPnorEventList() makes of the data: the first chunk of each    *)
(* slot up to the end, behind which no slot has an event or enough data.   *)
LEMMA ListIs ==
  ASSUME NEW g, NEW size \in 0 .. RawSize
  PROVE  \E n \in 0 .. NSlots :
           /\ EventList(Data(g, size)) =
                [kind |-> "list", value |-> [i \in 1 .. n |-> g[(2 * i) - 1]]]
           /\ \A i \in 1 .. n : g[(2 * i) - 1] # Empty
           /\ n > 0 => n * EventSize < DataLen(size)
           /\ (n + 1) * EventSize >= DataLen(size) \/ g[(2 * n) + 1] = Empty
<1> DEFINE data == Data(g, size)
           n    == ListSize(data)
<1>0. Len(data) = DataLen(size) /\ DataLen(size) \in 0 .. NSlots * EventSize
  BY DataLenIs
<1>1. /\ n \in Nat
      /\ \A i \in 0 .. n - 1 : Inside(data, i) /\ IsEvent(data, i)
      /\ ~(Inside(data, n) /\ IsEvent(data, n))
  BY ListSizeIs
<1>2. ASSUME NEW i \in Nat, (i + 1) * EventSize < DataLen(size)
      PROVE  /\ data[Start(i)].owner = g[(2 * i) + 1]
             /\ data[Start(i) + EntryAt].owner = g[(2 * i) + 1]
  <2>1. (i + 1) * EventSize <= DataLen(size)
    BY <1>0, <1>2, Sizes
  <2>2. /\ 0 \in 0 .. EventSize - 1 /\ EntryAt \in 0 .. EventSize - 1
        /\ 0 < Chunk /\ EntryAt < Chunk
    BY Sizes
  <2>3. /\ Start(i) = (i * EventSize) + 0 + 1
        /\ Start(i) + EntryAt = (i * EventSize) + EntryAt + 1
    BY Sizes DEF Start
  <2>4. data[Start(i)] = DataByte(g, (i * EventSize) + 0 + 1)
    BY <2>1, <2>2, <2>3, SlotAt
  <2>5. data[Start(i) + EntryAt] = DataByte(g, (i * EventSize) + EntryAt + 1)
    BY <2>1, <2>2, <2>3, SlotAt
  <2>6. DataByte(g, (i * EventSize) + 0 + 1).owner = g[(2 * i) + 1]
    BY <2>2, DataAt
  <2>7. DataByte(g, (i * EventSize) + EntryAt + 1).owner = g[(2 * i) + 1]
    BY <2>2, DataAt
  <2> QED BY <2>4, <2>5, <2>6, <2>7
<1> HIDE DEF data, n
<1>3. \A i \in 0 .. n - 1 :
        /\ (i + 1) * EventSize < DataLen(size)
        /\ g[(2 * i) + 1] # Empty
        /\ data[Start(i) + EntryAt].owner = g[(2 * i) + 1]
  <2> SUFFICES ASSUME NEW i \in 0 .. n - 1
               PROVE  /\ (i + 1) * EventSize < DataLen(size)
                      /\ g[(2 * i) + 1] # Empty
                      /\ data[Start(i) + EntryAt].owner = g[(2 * i) + 1]
    OBVIOUS
  <2>1. Inside(data, i) /\ IsEvent(data, i) /\ i \in Nat
    BY <1>1
  <2>2. (i + 1) * EventSize < DataLen(size)
    BY <1>0, <2>1 DEF Inside
  <2> QED BY <1>2, <2>1, <2>2 DEF IsEvent
<1>4. \A i \in 1 .. n : /\ i - 1 \in 0 .. n - 1 /\ (i - 1) + 1 = i
                        /\ (2 * (i - 1)) + 1 = (2 * i) - 1
  BY <1>1
<1>5. \A i \in 1 .. n : /\ g[(2 * i) - 1] # Empty
                        /\ data[Start(i - 1) + EntryAt].owner = g[(2 * i) - 1]
  BY <1>3, <1>4
<1>6. n > 0 => n * EventSize < DataLen(size)
  BY <1>1, <1>3, <1>4
<1>7. n \in 0 .. NSlots
  BY <1>0, <1>1, <1>6, Sizes
<1>8. (n + 1) * EventSize >= DataLen(size) \/ g[(2 * n) + 1] = Empty
  <2>1. (n + 1) * EventSize \in Nat /\ DataLen(size) \in Nat
    BY <1>0, <1>1, Sizes
  <2> QED BY <1>0, <1>1, <1>2, <2>1 DEF Inside, IsEvent
<1>9. EventList(data) = [kind |-> "list", value |-> [i \in 1 .. n |-> g[(2 * i) - 1]]]
  BY <1>5 DEF EventList, n
<1> QED BY <1>5, <1>6, <1>7, <1>8, <1>9 DEF data

-----------------------------------------------------------------------------
(* Numbers that size_t can tell apart.                                     *)
Addressable == SizeMod \div EventSize

LEMMA AddressableIs ==
  /\ Addressable \in Nat \ {0} /\ Addressable > NSlots + 1
  /\ SizeMod \in Nat \ {0} /\ SizeMod = Addressable * EventSize
<1>1. /\ SizeMod \in Nat \ {0} /\ SizeMod % EventSize = 0
      /\ SizeMod > (NSlots + 1) * EventSize
  BY HbelAssumption
<1>2. /\ Addressable \in Nat
      /\ SizeMod = (Addressable * EventSize) + (SizeMod % EventSize)
  BY <1>1, Sizes DEF Addressable
<1>3. SizeMod = Addressable * EventSize
  <2>1. Addressable * EventSize \in Nat
    BY <1>2, Sizes
  <2> QED BY <1>1, <1>2, <2>1
<1>4. Addressable > NSlots + 1
  BY <1>1, <1>2, <1>3, Sizes
<1> QED BY <1>1, <1>2, <1>3, <1>4, Sizes

(* A product wraps where the number of the slot does.                      *)
LEMMA Wraps ==
  ASSUME NEW a \in Nat
  PROVE  (a * EventSize) % SizeMod = (a % Addressable) * EventSize
<1>1. PICK q \in Nat, t \in 0 .. Addressable - 1 : a = (q * Addressable) + t
  BY AddressableIs, Sizes, DivModExists
<1>2. a % Addressable = t
  BY <1>1, AddressableIs, Sizes, DivMod
<1>3. a * EventSize = (q * SizeMod) + (t * EventSize)
  BY <1>1, AddressableIs, Sizes
<1>4. t * EventSize \in 0 .. SizeMod - 1
  <2>1. (t + 1) * EventSize <= Addressable * EventSize
    BY <1>1, AddressableIs, Sizes
  <2> QED BY <2>1, AddressableIs, Sizes
<1>5. (a * EventSize) % SizeMod = t * EventSize
  BY <1>3, <1>4, AddressableIs, DivMod
<1> QED BY <1>2, <1>5

LEMMA EndsWhere ==
  ASSUME NEW id \in Nat
  PROVE  LET slot == id % Addressable
         IN  /\ slot \in Nat
             /\ Offset(id) = slot * EventSize
             /\ EndsAt(slot) # 0 =>
                  EndsAt(id) = (slot + 1) * EventSize
<1>1. PICK q \in Nat, t \in 0 .. Addressable - 1 : id = (q * Addressable) + t
  BY AddressableIs, Sizes, DivModExists
<1>2. id % Addressable = t
  BY <1>1, AddressableIs, Sizes, DivMod
<1>3. Offset(id) = t * EventSize
  BY <1>2, Wraps DEF Offset
<1>4. CASE t + 1 = Addressable
  <2>1. (t + 1) % Addressable = 0
    BY <1>4, AddressableIs
  <2>2. EndsAt(t) = 0
    BY <2>1, Wraps, Sizes DEF EndsAt
  <2> QED BY <1>1, <1>2, <1>3, <2>2
<1>5. CASE t + 1 # Addressable
  <2>1. t + 1 \in 0 .. Addressable - 1 /\ id + 1 = (q * Addressable) + (t + 1)
    BY <1>1, <1>5, AddressableIs
  <2>2. (id + 1) % Addressable = t + 1
    BY <1>1, <2>1, AddressableIs, Sizes, DivMod
  <2>3. EndsAt(id) = (t + 1) * EventSize
    BY <2>2, Wraps DEF EndsAt
  <2> QED BY <1>1, <1>2, <1>3, <2>3
<1> QED BY <1>4, <1>5

(* What readPnorEvent() makes of the data.                                 *)
LEMMA ReadIs ==
  ASSUME NEW g, NEW size \in 0 .. RawSize, NEW id \in Nat,
         NEW r \in EventBytes(Data(g, size), id), r.kind # "error",
         EndsAt(id % Addressable) # 0
  PROVE  LET slot == id % Addressable
         IN  /\ slot \in Slots
             /\ r.kind = "event"
             /\ Len(r.value) = EventSize
             /\ \A j \in 1 .. EventSize :
                  /\ r.value[j].slot = slot
                  /\ r.value[j].at = j - 1
                  /\ j - 1 < Chunk => r.value[j].owner = g[(2 * slot) + 1]
                  /\ j - 1 >= Chunk => r.value[j].owner = g[(2 * slot) + 2]
<1> DEFINE slot == id % Addressable
           data == Data(g, size)
<1>1. /\ slot \in Nat
      /\ Offset(id) = slot * EventSize
      /\ EndsAt(id) = (slot + 1) * EventSize
  BY EndsWhere
<1>2. Len(data) = DataLen(size) /\ DataLen(size) \in 0 .. NSlots * EventSize
  BY DataLenIs
<1> HIDE DEF slot, data
<1>3. /\ slot * EventSize \in Nat /\ EventSize \in Nat
      /\ (slot + 1) * EventSize = (slot * EventSize) + EventSize
  BY <1>1, Sizes
<1>4. EndsAt(id) <= Len(data)
  <2>1. EndsAt(id) > Len(data) => r = Failed
    BY DEF EventBytes, data
  <2>2. Failed.kind = "error"
    BY DEF Failed
  <2>3. EndsAt(id) \in Int /\ Len(data) \in Int
    BY <1>1, <1>2, <1>3
  <2> QED BY <2>1, <2>2, <2>3
<1>5. r = [kind  |-> "event",
           value |-> SubSeq(data, Offset(id) + 1, Offset(id) + EventSize)]
  <2>1. ~(EndsAt(id) > Len(data)) /\ ~(Offset(id) + EventSize > Len(data))
    BY <1>1, <1>2, <1>3, <1>4
  <2> QED BY <2>1 DEF EventBytes, data
<1>6. slot \in Slots
  <2>1. (slot + 1) * EventSize <= NSlots * EventSize
    BY <1>1, <1>2, <1>4, Sizes
  <2>2. slot + 1 <= NSlots
    BY <2>1, <1>1, Sizes
  <2> QED BY <2>2, <1>1, Sizes DEF Slots
<1>7. /\ Len(r.value) = EventSize
      /\ \A j \in 1 .. EventSize : r.value[j] = data[(slot * EventSize) + (j - 1) + 1]
  <2>1. PICK a \in Nat : a = slot * EventSize
    BY <1>3
  <2>2. r.value = SubSeq(data, a + 1, a + EventSize)
    BY <1>1, <1>5, <2>1
  <2>3. a + EventSize <= Len(data)
    BY <1>1, <1>3, <1>4, <2>1
  <2>4. data \in Seq({data[p] : p \in 1 .. Len(data)})
    BY <1>2 DEF data, Data, DataLen
  <2>5. /\ Len(r.value) = EventSize
        /\ \A j \in 1 .. EventSize : r.value[j] = data[a + (j - 1) + 1]
    BY <1>2, <1>3, <2>2, <2>3, <2>4, SubSeqProperties
  <2> QED BY <2>1, <2>5
<1>8. ASSUME NEW j \in 1 .. EventSize
      PROVE  r.value[j] = DataByte(g, (slot * EventSize) + (j - 1) + 1) /\ j - 1 \in 0 .. EventSize - 1
  <2>1. j - 1 \in 0 .. EventSize - 1
    BY <1>3
  <2>2. (slot + 1) * EventSize <= DataLen(size)
    BY <1>1, <1>2, <1>4
  <2>3. data[(slot * EventSize) + (j - 1) + 1] = DataByte(g, (slot * EventSize) + (j - 1) + 1)
    BY <1>1, <2>1, <2>2, SlotAt DEF data
  <2> QED BY <1>7, <2>1, <2>3
<1>9. \A j \in 1 .. EventSize :
        /\ r.value[j].slot = slot
        /\ r.value[j].at = j - 1
        /\ j - 1 < Chunk => r.value[j].owner = g[(2 * slot) + 1]
        /\ j - 1 >= Chunk => r.value[j].owner = g[(2 * slot) + 2]
  <2> SUFFICES ASSUME NEW j \in 1 .. EventSize
               PROVE  /\ r.value[j].slot = slot
                      /\ r.value[j].at = j - 1
                      /\ j - 1 < Chunk => r.value[j].owner = g[(2 * slot) + 1]
                      /\ j - 1 >= Chunk => r.value[j].owner = g[(2 * slot) + 2]
    OBVIOUS
  <2>1. PICK b \in 0 .. EventSize - 1 : b = j - 1
    BY <1>8
  <2>2. r.value[j] = DataByte(g, (slot * EventSize) + b + 1)
    BY <1>8, <2>1
  <2>3. /\ DataByte(g, (slot * EventSize) + b + 1).slot = slot
        /\ DataByte(g, (slot * EventSize) + b + 1).at = b
        /\ b < Chunk => DataByte(g, (slot * EventSize) + b + 1).owner = g[(2 * slot) + 1]
        /\ b >= Chunk => DataByte(g, (slot * EventSize) + b + 1).owner = g[(2 * slot) + 2]
    BY <1>1, DataAt
  <2> QED BY <2>1, <2>2, <2>3
<1>10. r.kind = "event"
  BY <1>5
<1> QED BY <1>6, <1>7, <1>9, <1>10 DEF slot

-----------------------------------------------------------------------------
(* What the run makes of the bytes it has read.                            *)
LEMMA OutcomesAre ==
  ASSUME request \in Requests, NEW g, NEW size \in 0 .. RawSize,
         NEW r \in Outcomes(Raw(g, size))
  PROVE  \/ request.cmd = "list" /\ r = EventList(Data(g, size))
         \/ /\ request.cmd = "read" /\ request.id \in Nat
            /\ r \in EventBytes(Data(g, size), request.id)
<1>1. request.cmd \in {"list", "read"} /\ request.id \in Nat
  <2>1. Ids \subseteq Nat
    <3>1. Ids \subseteq 0 .. SizeMod - 1 /\ SizeMod \in Nat
      BY HbelAssumption
    <3> QED BY <3>1
  <2>2. \/ request \in [cmd : {"list"}, id : {0}, file : BOOLEAN]
        \/ request \in [cmd : {"read"}, id : Ids, file : BOOLEAN]
    BY DEF Requests
  <2>3. \/ request.cmd = "list" /\ request.id = 0
        \/ request.cmd = "read" /\ request.id \in Ids
    BY <2>2
  <2>4. \A id \in Ids : id \in Nat
    BY <2>1
  <2>5. request.cmd \in {"list", "read"}
    BY <2>3
  <2>6. request.id \in Nat
    BY <2>3, <2>4
  <2> QED BY <2>5, <2>6
<1>2. RemoveEcc(Raw(g, size)) = Data(g, size)
  BY Sizes, DataIs
<1> QED BY <1>1, <1>2 DEF Outcomes

LEMMA KindOfBytes ==
  ASSUME NEW data, NEW id, NEW r \in EventBytes(data, id)
  PROVE  r.kind \in {"error", "crashed", "event"}
BY DEF EventBytes, Failed, Crashed, Garbage

(* A run that has nothing to show breaks no promise.                       *)
LEMMA NoneIsFine ==
  ASSUME result.kind \in {"none", "error"}
  PROVE  Promises
BY DEF Promises, ListFits, ListIsLeadingRun, ReadIsSlot, ListedWasThere, Faithful

(* The events at the front of the flash, up to the first erased slot.      *)
LEMMA LeadingRunIs ==
  ASSUME NEW n \in 0 .. NSlots, \A s \in 0 .. n - 1 : flash[s] # Empty
  PROVE  /\ LeadingRun \in n .. NSlots
         /\ n < NSlots /\ flash[n] = Empty => LeadingRun = n
<1> DEFINE S == {s \in Slots : \A t \in 0 .. s : flash[t] # Empty}
<1>1. /\ IsFiniteSet(0 .. n - 1) /\ Cardinality(0 .. n - 1) = n
      /\ IsFiniteSet(Slots) /\ Cardinality(Slots) = NSlots
  <2>1. NSlots \in Nat \ {0}
    BY Sizes
  <2>2. Cardinality(0 .. n - 1) = n /\ IsFiniteSet(0 .. n - 1)
    BY <2>1, FS_Interval
  <2>3. Cardinality(0 .. NSlots - 1) = NSlots /\ IsFiniteSet(0 .. NSlots - 1)
    BY <2>1, FS_Interval
  <2> QED BY <2>2, <2>3 DEF Slots
<1>2. 0 .. n - 1 \subseteq S /\ S \subseteq Slots
  BY Sizes DEF Slots
<1>3. n < NSlots /\ flash[n] = Empty => S = 0 .. n - 1
  BY <1>2, Sizes DEF Slots
<1>4. Cardinality(S) \in n .. NSlots
  <2> HIDE DEF S
  <2>1. IsFiniteSet(S) /\ Cardinality(S) <= NSlots
    BY <1>1, <1>2, FS_Subset
  <2>2. Cardinality(S) \in Nat /\ n <= Cardinality(S)
    BY <1>1, <1>2, <2>1, FS_Subset, FS_CardinalityType
  <2> QED BY <2>1, <2>2, Sizes
<1> QED BY <1>1, <1>3, <1>4 DEF LeadingRun

-----------------------------------------------------------------------------
LEMMA InitIInv == Init => IInv
<1> SUFFICES ASSUME Init PROVE IInv
  OBVIOUS
<1>1. TypeOK
  <2>1. request \in Requests
    BY DEF Init, Requests
  <2>2. result.kind = "none" /\ writes \in 0 .. MaxWrites
    BY HbelAssumption DEF Init, NoResult
  <2>3. dump.got = <<>> /\ dump.size = 0
    BY DEF Init, NoDump
  <2> QED BY <2>1, <2>2, <2>3, Sizes DEF Init, TypeOK, Chunks
<1>2. DumpIsWhole /\ RequestFits /\ NothingYet /\ History /\ ReadOfFlash
  BY DEF Init, DumpIsWhole, RequestFits, NothingYet, History, ReadOfFlash
<1>3. Promises
  BY NoneIsFine DEF Init, NoResult
<1> QED BY <1>1, <1>2, <1>3 DEF IInv

(* The host breaks no promise: it makes itself heard.                      *)
LEMMA HostIInv ==
  ASSUME IInv, NEW s \in Slots, NEW e \in Owner, HostWrites(s, e)
  PROVE  IInv'
<1> USE DEF HostWrites
<1>1. TypeOK /\ flash \in [Slots -> Owner] /\ seen \in [Slots -> SUBSET Owner]
  BY DEF IInv, TypeOK, Owner
<1>2. flash' \in [Slots -> Owner] /\ seen' \in [Slots -> SUBSET Owner]
  BY <1>1
<1>3. TypeOK'
  <2>1. writes' \in 0 .. MaxWrites
    BY <1>1, HbelAssumption DEF TypeOK
  <2> QED BY <1>1, <1>2, <2>1 DEF TypeOK, Owner
<1>4. \A t \in Slots : seen[t] \subseteq seen'[t] /\ flash'[t] \in seen'[t]
  BY <1>1 DEF IInv, History
<1>5. History'
  BY <1>4 DEF History
<1>6. (DumpIsWhole /\ RequestFits /\ NothingYet)'
  BY DEF IInv, DumpIsWhole, RequestFits, NothingYet
<1>7. ReadOfFlash'
  <2>1. ASSUME NEW c \in 1 .. Len(got) PROVE (c - 1) \div 2 \in Slots
    BY <1>1, Sizes DEF TypeOK, Chunks, Slots
  <2> QED BY <1>4, <2>1 DEF IInv, ReadOfFlash
<1>8. ListFits' /\ ListIsLeadingRun'
  BY DEF IInv, Promises, ListFits, ListIsLeadingRun, Faithful
<1>9. ReadIsSlot'
  BY DEF IInv, Promises, ReadIsSlot
<1>10. ListedWasThere'
  <2>1. ASSUME result.kind = "list", NEW n \in DOMAIN result.value PROVE n - 1 \in Slots
    BY <2>1, Sizes DEF IInv, Promises, ListFits, Slots
  <2> QED BY <1>4, <2>1 DEF IInv, Promises, ListedWasThere
<1> QED BY <1>3, <1>5, <1>6, <1>7, <1>8, <1>9, <1>10 DEF IInv, Promises

(* The user takes a dump; the utility starts.                              *)
LEMMA DumpIInv ==
  ASSUME IInv, NEW size \in DumpSizes, TakeDump(size)
  PROVE  IInv'
<1> USE DEF TakeDump
<1>1. TypeOK /\ Owners \in Seq(Owner) /\ Len(Owners) = Chunks
  <2>1. TypeOK /\ flash \in [Slots -> Owner] /\ Chunks \in Nat
    BY Sizes DEF IInv, TypeOK, Owner, Chunks
  <2>2. \A c \in 1 .. Chunks : (c - 1) \div 2 \in Slots
    BY Sizes DEF Chunks, Slots
  <2>3. \A c \in 1 .. Chunks : flash[(c - 1) \div 2] \in Owner
    BY <2>1, <2>2
  <2> QED BY <2>1, <2>3 DEF Owners
<1>2. dump'.got = Owners /\ dump'.size = size
  OBVIOUS
<1>3. TypeOK'
  BY <1>1, <1>2 DEF TypeOK, Owner
<1>4. (DumpIsWhole /\ RequestFits /\ NothingYet /\ History /\ ReadOfFlash)'
  BY <1>1, <1>2 DEF IInv, DumpIsWhole, RequestFits, NothingYet, History, ReadOfFlash
<1>5. result' = NoResult
  BY DEF IInv, NothingYet
<1>6. Promises'
  BY <1>5 DEF NoResult, Promises, ListFits, ListIsLeadingRun, ReadIsSlot, ListedWasThere, Faithful
<1> QED BY <1>3, <1>4, <1>6 DEF IInv

LEMMA StartIInv ==
  ASSUME IInv, NEW r \in Requests, ReadDump(r) \/ StartPflash(r)
  PROVE  IInv'
<1>1. result' = NoResult
  BY DEF IInv, NothingYet, ReadDump, StartPflash
<1>2. Promises'
  BY <1>1 DEF NoResult, Promises, ListFits, ListIsLeadingRun, ReadIsSlot, ListedWasThere, Faithful
<1>3. CASE ReadDump(r)
  BY <1>2, <1>3 DEF ReadDump, IInv, TypeOK, DumpIsWhole, RequestFits, NothingYet, History, ReadOfFlash
<1>4. CASE StartPflash(r)
  <2> USE <1>4 DEF StartPflash
  <2>1. seen' \in [Slots -> SUBSET Owner]
    BY DEF IInv, TypeOK, Owner
  <2>2. got' \in Seq(Owner) /\ Len(got') <= Chunks
    BY Sizes DEF Chunks
  <2>3. TypeOK'
    BY <2>1, <2>2 DEF IInv, TypeOK, Owner
  <2>4. (DumpIsWhole /\ RequestFits /\ NothingYet /\ History /\ ReadOfFlash)'
    BY <1>1 DEF IInv, TypeOK, DumpIsWhole, RequestFits, NothingYet, History, ReadOfFlash
  <2> QED BY <1>2, <2>3, <2>4 DEF IInv
<1> QED BY <1>3, <1>4

(* A chunk comes through the pipe, or pflash fails.                        *)
LEMMA PipeIInv ==
  ASSUME IInv, ReadPipe
  PROVE  IInv'
<1> USE DEF ReadPipe
<1>1. /\ TypeOK /\ got \in Seq(Owner) /\ flash \in [Slots -> Owner]
      /\ Len(got) + 1 \in 1 .. Chunks /\ Chunks = 2 * NSlots
  BY Sizes DEF IInv, TypeOK, Owner, Chunks
<1> DEFINE s == ((Len(got) + 1) - 1) \div 2
<1>2. s \in Slots /\ Owners[Len(got) + 1] = flash[s]
  BY <1>1, Sizes DEF Owners, Slots
<1>3. flash[s] \in Owner /\ flash[s] \in seen[s]
  BY <1>1, <1>2 DEF IInv, History
<1> HIDE DEF s
<1>4. /\ got' \in Seq(Owner) /\ Len(got') = Len(got) + 1
      /\ \A c \in 1 .. Len(got) : got'[c] = got[c]
      /\ got'[Len(got) + 1] = flash[s]
  BY <1>1, <1>2, <1>3, AppendProperties
<1>5. TypeOK'
  BY <1>1, <1>4 DEF TypeOK, Owner
<1>6. ReadOfFlash'
  <2> SUFFICES ASSUME NEW c \in 1 .. Len(got) + 1
               PROVE  got'[c] \in seen[(c - 1) \div 2]
    BY <1>4 DEF ReadOfFlash
  <2>1. CASE c = Len(got) + 1
    BY <1>3, <1>4, <2>1 DEF s
  <2>2. CASE c # Len(got) + 1
    <3>1. c \in 1 .. Len(got)
      BY <1>1, <2>2
    <3> QED BY <1>4, <3>1 DEF IInv, ReadOfFlash
  <2> QED BY <2>1, <2>2
<1>7. (DumpIsWhole /\ RequestFits /\ NothingYet /\ History)'
  BY DEF IInv, DumpIsWhole, RequestFits, NothingYet, History
<1>8. result' = NoResult
  BY DEF IInv, NothingYet
<1>9. Promises'
  BY <1>8 DEF NoResult, Promises, ListFits, ListIsLeadingRun, ReadIsSlot, ListedWasThere, Faithful
<1> QED BY <1>5, <1>6, <1>7, <1>9 DEF IInv

LEMMA FailIInv ==
  ASSUME IInv, PflashFails
  PROVE  IInv'
<1> USE DEF PflashFails
<1>1. result'.kind = "error"
  BY DEF Failed
<1>2. Promises'
  BY <1>1 DEF Promises, ListFits, ListIsLeadingRun, ReadIsSlot, ListedWasThere, Faithful
<1>3. TypeOK'
  BY <1>1 DEF IInv, TypeOK
<1> QED BY <1>2, <1>3 DEF IInv, DumpIsWhole, RequestFits, NothingYet, History, ReadOfFlash

-----------------------------------------------------------------------------
(* The end of a run that read a dump.                                      *)
LEMMA FinishDumpIInv ==
  ASSUME IInv, FinishDump
  PROVE  IInv'
<1> USE DEF FinishDump
<1> DEFINE g == dump.got  size == dump.size
<1>1. /\ request \in Requests /\ request.file /\ size \in 0 .. RawSize
      /\ result' \in Outcomes(Raw(g, size))
  BY HbelAssumption DEF IInv, TypeOK, RequestFits, DumpIsWhole, RawSize
<1> HIDE DEF g
<1>2. CASE request.cmd = "list" /\ result' = EventList(Data(g, size))
  <2>1. PICK n \in 0 .. NSlots :
          /\ result' = [kind |-> "list", value |-> [i \in 1 .. n |-> g[(2 * i) - 1]]]
          /\ n > 0 => n * EventSize < DataLen(size)
    BY <1>1, <1>2, ListIs
  <2>2. /\ result'.kind = "list" /\ Len(result'.value) = n
        /\ DOMAIN result'.value = 1 .. n
    BY <2>1
  <2>3. 9 * n * EventSize <= (8 * size) + 8
    <3>1. DataLen(size) \in Nat /\ 9 * DataLen(size) <= (8 * size) + 8
      BY <1>1, Sizes, DataLenIs
    <3>2. PICK a \in Nat : a = n * EventSize
      BY Sizes
    <3>3. n = 0 => a = 0
      BY <3>2, Sizes
    <3>4. 9 * a <= (8 * size) + 8
      BY <1>1, <2>1, <3>1, <3>2, <3>3, Sizes
    <3>5. 9 * n * EventSize = 9 * a
      BY <3>2, Sizes
    <3> QED BY <3>4, <3>5
  <2>4. DOMAIN result'.value \subseteq 1 .. NSlots
    BY <2>2, Sizes
  <2> QED BY <1>1, <2>2, <2>3, <2>4
          DEF IInv, TypeOK, DumpIsWhole, RequestFits, NothingYet, History, ReadOfFlash, Promises,
              ListFits, ListIsLeadingRun, ReadIsSlot, ListedWasThere, Faithful
<1>3. CASE request.cmd = "read" /\ request.id \in Nat
             /\ result' \in EventBytes(Data(g, size), request.id)
  <2>1. result'.kind \in {"error", "crashed", "event"}
    BY <1>3, KindOfBytes
  <2>2. ReadIsSlot'
    BY <1>1, <1>3, ReadIs DEF ReadIsSlot, Addressable
  <2> QED BY <1>1, <2>1, <2>2
          DEF IInv, TypeOK, DumpIsWhole, RequestFits, NothingYet, History, ReadOfFlash, Promises,
              ListFits, ListIsLeadingRun, ListedWasThere, Faithful
<1> QED BY <1>1, <1>2, <1>3, OutcomesAre

(* The end of a run that read the flash.                                   *)
LEMMA PflashEndsIInv ==
  ASSUME IInv, PflashEnds
  PROVE  IInv'
<1> USE DEF PflashEnds
<1>1. /\ request \in Requests /\ ~request.file /\ RawSize \in 0 .. RawSize
      /\ result' \in Outcomes(Raw(got, RawSize))
      /\ Len(got) = 2 * NSlots
  BY Sizes DEF IInv, TypeOK, RequestFits, Chunks
<1>2. \A s \in Slots : /\ got[(2 * s) + 1] \in seen[s] /\ got[(2 * s) + 2] \in seen[s]
                       /\ quiet => seen[s] = {flash[s]}
  <2> SUFFICES ASSUME NEW s \in Slots
               PROVE  /\ got[(2 * s) + 1] \in seen[s] /\ got[(2 * s) + 2] \in seen[s]
                      /\ quiet => seen[s] = {flash[s]}
    OBVIOUS
  <2>1. /\ (2 * s) + 1 \in 1 .. Len(got) /\ (((2 * s) + 1) - 1) \div 2 = s
        /\ (2 * s) + 2 \in 1 .. Len(got) /\ (((2 * s) + 2) - 1) \div 2 = s
    BY <1>1, Sizes DEF Slots
  <2> QED BY <2>1 DEF IInv, ReadOfFlash, History
<1>3. CASE request.cmd = "list" /\ result' = EventList(Data(got, RawSize))
  <2>1. PICK n \in 0 .. NSlots :
          /\ result' = [kind |-> "list", value |-> [i \in 1 .. n |-> got[(2 * i) - 1]]]
          /\ \A i \in 1 .. n : got[(2 * i) - 1] # Empty
          /\ n > 0 => n * EventSize < DataLen(RawSize)
          /\ (n + 1) * EventSize >= DataLen(RawSize) \/ got[(2 * n) + 1] = Empty
    BY <1>1, <1>3, ListIs
  <2>2. /\ result'.kind = "list" /\ Len(result'.value) = n
        /\ DOMAIN result'.value = 1 .. n /\ 1 .. n \subseteq 1 .. NSlots
        /\ \A i \in 1 .. n : result'.value[i] = got[(2 * i) - 1]
    BY <2>1, Sizes
  <2>3. n < NSlots /\ (n + 1 = NSlots \/ got[(2 * n) + 1] = Empty)
    <3>1. DataLen(RawSize) = NSlots * EventSize
      BY <1>1, DataLenIs
    <3>2. n < NSlots
      BY <2>1, <3>1, Sizes
    <3>3. (n + 1) * EventSize >= NSlots * EventSize => n + 1 >= NSlots
      BY <2>1, Sizes
    <3> QED BY <2>1, <3>1, <3>2, <3>3, Sizes
  <2>4. \A i \in 1 .. n : i - 1 \in Slots /\ (2 * i) - 1 = (2 * (i - 1)) + 1
    BY <2>1, <2>3, Sizes DEF Slots
  <2>5. \A i \in 1 .. n : result'.value[i] \in seen[i - 1] \ {Empty}
    BY <1>2, <2>1, <2>2, <2>4
  <2>6. ASSUME quiet
        PROVE  /\ \A i \in 1 .. n : result'.value[i] = flash[i - 1]
               /\ n <= LeadingRun
               /\ n >= Min({LeadingRun, NSlots - 1})
    <3>1. \A i \in 1 .. n : result'.value[i] = flash[i - 1] /\ flash[i - 1] # Empty
      BY <1>2, <2>4, <2>5, <2>6
    <3>2. \A s \in 0 .. n - 1 : flash[s] # Empty
      <4>1. \A s \in 0 .. n - 1 : s + 1 \in 1 .. n /\ (s + 1) - 1 = s
        BY <2>1
      <4> QED BY <3>1, <4>1
    <3>3. /\ LeadingRun \in n .. NSlots
          /\ n < NSlots /\ flash[n] = Empty => LeadingRun = n
      BY <3>2, LeadingRunIs
    <3>4. n + 1 = NSlots \/ flash[n] = Empty
      <4>1. n \in Slots
        BY <2>1, <2>3, Sizes DEF Slots
      <4> QED BY <1>2, <2>3, <2>6, <4>1
    <3>5. n >= LeadingRun \/ n >= NSlots - 1
      BY <2>1, <2>3, <3>3, <3>4, Sizes
    <3>6. LeadingRun \in Int /\ NSlots - 1 \in Int
      BY <3>3, Sizes
    <3>7. Min({LeadingRun, NSlots - 1}) <= LeadingRun /\ Min({LeadingRun, NSlots - 1}) <= NSlots - 1
           /\ Min({LeadingRun, NSlots - 1}) \in Int
      <4> DEFINE a == LeadingRun  b == NSlots - 1
      <4>1. \E x \in {a, b} : \A y \in {a, b} : x <= y
        BY <3>6
      <4> HIDE DEF a, b
      <4>2. Min({a, b}) \in {a, b} /\ \A y \in {a, b} : Min({a, b}) <= y
        BY <4>1 DEF Min
      <4> QED BY <3>6, <4>2 DEF a, b
    <3> QED BY <2>1, <3>1, <3>3, <3>5, <3>6, <3>7
  <2>7. ListIsLeadingRun'
    <3>1. LeadingRun' = LeadingRun
      BY DEF LeadingRun
    <3> QED BY <1>1, <2>2, <2>6, <3>1 DEF ListIsLeadingRun, Faithful
  <2>8. ListedWasThere' /\ ListFits' /\ ReadIsSlot'
    BY <2>2, <2>5 DEF ListedWasThere, ListFits, ReadIsSlot
  <2> QED BY <2>2, <2>7, <2>8
          DEF IInv, TypeOK, DumpIsWhole, RequestFits, NothingYet, History, ReadOfFlash, Promises
<1>4. CASE request.cmd = "read" /\ request.id \in Nat
             /\ result' \in EventBytes(Data(got, RawSize), request.id)
  <2>1. result'.kind \in {"error", "crashed", "event"}
    BY <1>4, KindOfBytes
  <2>2. ReadIsSlot'
    <3> DEFINE slot == request.id % Addressable
    <3>1. CASE EndsAt(slot) = 0 \/ result'.kind = "error"
      BY <3>1 DEF ReadIsSlot, Addressable
    <3>2. CASE EndsAt(slot) # 0 /\ result'.kind # "error"
      <4>1. /\ slot \in Slots
            /\ result'.kind = "event"
            /\ Len(result'.value) = EventSize
            /\ \A j \in 1 .. EventSize :
                 /\ result'.value[j].slot = slot
                 /\ result'.value[j].at = j - 1
                 /\ j - 1 < Chunk => result'.value[j].owner = got[(2 * slot) + 1]
                 /\ j - 1 >= Chunk => result'.value[j].owner = got[(2 * slot) + 2]
        BY <1>1, <1>4, <3>2, ReadIs
      <4>2. quiet => got[(2 * slot) + 1] = flash[slot] /\ got[(2 * slot) + 2] = flash[slot]
        BY <1>2, <4>1
      <4>3. \A j \in 1 .. EventSize : j - 1 < Chunk \/ j - 1 >= Chunk
        BY Sizes
      <4> QED BY <4>1, <4>2, <4>3 DEF ReadIsSlot, Addressable
    <3> QED BY <3>1, <3>2
  <2> QED BY <2>1, <2>2
          DEF IInv, TypeOK, DumpIsWhole, RequestFits, NothingYet, History, ReadOfFlash, Promises,
              ListFits, ListIsLeadingRun, ListedWasThere, Faithful
<1> QED BY <1>1, <1>3, <1>4, OutcomesAre

-----------------------------------------------------------------------------
LEMMA NextIInv == IInv /\ [Next]_vars => IInv'
<1> SUFFICES ASSUME IInv, [Next]_vars PROVE IInv'
  OBVIOUS
<1>1. CASE UNCHANGED vars
  BY <1>1 DEF vars, IInv, TypeOK, DumpIsWhole, RequestFits, NothingYet, History, ReadOfFlash,
              Promises, ListFits, ListIsLeadingRun, ReadIsSlot, ListedWasThere, Faithful, LeadingRun
<1> QED BY <1>1, HostIInv, DumpIInv, StartIInv, PipeIInv, FailIInv, FinishDumpIInv, PflashEndsIInv
        DEF Next, Owner

(* Whatever the host and the user do, the invariant holds.                 *)
THEOREM Invariance == Spec => []IInv
BY InitIInv, NextIInv, PTL DEF Spec

(* The variables keep their types; the pipe never gives more than the      *)
(* partition has (readHbel).                                               *)
THEOREM TypeCorrect == Spec => []TypeOK
BY Invariance, PTL DEF IInv

(* printPnorEventList() shows the events up to the first erased slot, or   *)
(* up to the last slot of a full partition, and what a dump wholly has.    *)
THEOREM ListsLeadingRun == Spec => []ListIsLeadingRun
BY Invariance, PTL DEF IInv, Promises

(* readPnorEvent() gives the slot asked for, modulo the slots that size_t  *)
(* can address, without a byte of ECC, of every size of the source.        *)
THEOREM ReadsSlot == Spec => []ReadIsSlot
BY Invariance, PTL DEF IInv, Promises

(* An event of the list was in its slot at some time during the run.       *)
THEOREM ListsWhatWasThere == Spec => []ListedWasThere
BY Invariance, PTL DEF IInv, Promises
=============================================================================
