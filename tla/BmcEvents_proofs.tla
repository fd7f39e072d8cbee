-------------------------- MODULE BmcEvents_proofs --------------------------
(***************************************************************************)
(* Proofs about BmcEvents for every set of files, every content and every  *)
(* order of what the logger and the utility do.                            *)
(***************************************************************************)
EXTENDS BmcEvents, FiniteSetTheorems, SequenceTheorems, WellFoundedInduction, TLAPS

Bytes == 0 .. Base * Base - 1
Acc   == [at : {"between", "inside", "ended", "bad"}, high : 0 .. Base - 1, bytes : Seq(Bytes)]

-----------------------------------------------------------------------------
NothingYet ==
  /\ phase # "done" => result = NoResult
  /\ phase = "idle" => visited = {} /\ DOMAIN events = {}

(* Each file is what it was last seen to be.                               *)
FilesSeen == \A f \in Files : files[f] \in was[f] /\ IsFiniteSet(was[f])

(* The file at hand has a number and was there; the files behind are in    *)
(* the list, if they had an eSEL all the time; and the list has no other   *)
(* events than those of such files.                                        *)
AtHand ==
  /\ phase \in {"open", "stat"} => IdOf[cur] # 0 /\ was[cur] # {Absent}
  /\ phase = "stat" => \E v \in was[cur] : v.token

Behind ==
  phase \in {"scan", "open", "stat"} =>
    \A f \in visited :
      (\A v \in was[f] : v.token) /\ IdOf[f] # 0 =>
        IdOf[f] \in DOMAIN events \/ (f = cur /\ phase # "scan")

EventsHaveFiles ==
  \A id \in DOMAIN events : \E f \in Files :
    /\ IdOf[f] = id /\ \E v \in was[f] : v.token
    /\ \E v \in was[f] : v.mtime = events[id]

ListedIsThere == \A id \in listed : \E f \in Files : IdOf[f] = id /\ files[f].token

Promises == ListIsSound /\ ListedCanBeRead /\ DecodesDump

IInv ==
  /\ TypeOK /\ NothingYet /\ FilesSeen /\ AtHand /\ Behind
  /\ EventsHaveFiles /\ ListedIsThere /\ Promises

-----------------------------------------------------------------------------
(* What is true of a conversion that has come through m characters.        *)
Clean(t, m) == \A j \in 1 .. m : t[j] \notin {Nul, Other}

Paired(t, k, bytes) ==
  /\ IsDigit(t[k + 1])
  /\ (DigitsUpTo(t, k) + 1) \div 2 \in 1 .. Len(bytes)
  /\ bytes[(DigitsUpTo(t, k) + 1) \div 2] = (Base * t[k]) + t[k + 1]

Good(t, m, at, high, bytes) ==
  /\ Clean(t, m)
  /\ at = "between" => DigitsUpTo(t, m) = 2 * Len(bytes)
  /\ at = "inside" => /\ m >= 1 /\ IsDigit(t[m]) /\ high = t[m]
                      /\ DigitsUpTo(t, m) = (2 * Len(bytes)) + 1
  /\ \A k \in 1 .. m : IsDigit(t[k]) /\ DigitsUpTo(t, k) % 2 = 1 => k = m \/ Paired(t, k, bytes)

(* The conversion stops at the first character that ends the dump, or that *)
(* breaks a byte.                                                          *)
Tracks(t, n, acc) ==
  /\ acc.at \in {"between", "inside"} => Good(t, n, acc.at, acc.high, acc.bytes)
  /\ acc.at = "ended" =>
       \E e \in 1 .. n : t[e] \in {Nul, Other} /\ Good(t, e - 1, "between", acc.high, acc.bytes)
  /\ acc.at = "bad" =>
       \E e \in 1 .. n : ~IsDigit(t[e]) /\ Good(t, e - 1, "inside", acc.high, acc.bytes)

-----------------------------------------------------------------------------
LEMMA LeastExists ==
  ASSUME NEW S, S \subseteq Nat, S # {}
  PROVE  \E n \in S : \A m \in S : n <= m
<1> DEFINE R == {p \in Nat \X Nat : p[1] < p[2]}
<1>1. IsWellFoundedOn(R, Nat)
  BY NatLessThanWellFounded DEF OpToRel
<1>2. PICK n \in S : \A m \in S : ~(<<m, n>> \in R)
  <2> HIDE DEF R
  <2> QED BY <1>1, WFMin
<1>3. ASSUME NEW m \in S PROVE n <= m
  <2>1. <<m, n>> \in Nat \X Nat /\ <<m, n>> \notin R
    BY <1>2
  <2>2. ~(m < n)
    BY <2>1
  <2> QED BY <2>2
<1> QED BY <1>3

(* Induction up to a length.                                               *)
LEMMA UpTo ==
  ASSUME NEW N \in Nat, NEW S, 0 \in S,
         \A n \in 1 .. N : n - 1 \in S => n \in S
  PROVE  \A n \in 0 .. N : n \in S
<1> DEFINE D == {n \in 0 .. N : n \notin S}
<1>1. CASE D = {}
  BY <1>1
<1>2. CASE D # {}
  <2>1. D \subseteq Nat
    OBVIOUS
  <2>2. PICK n \in D : \A m \in D : n <= m
    <3> HIDE DEF D
    <3> QED BY <1>2, <2>1, LeastExists
  <2>3. n # 0 /\ n \in 1 .. N /\ n - 1 \in 0 .. N /\ n - 1 < n
    BY <2>2
  <2>4. n - 1 \notin D
    <3> HIDE DEF D
    <3> QED BY <2>1, <2>2, <2>3
  <2>5. n \in S
    BY <2>3, <2>4
  <2> QED BY <2>2, <2>5
<1> QED BY <1>1, <1>2

-----------------------------------------------------------------------------
(* Digits are counted one by one.                                          *)
LEMMA CountDigits ==
  ASSUME NEW t
  PROVE  /\ DigitsUpTo(t, 0) = 0
         /\ \A k \in Nat : DigitsUpTo(t, k) \in Nat
         /\ \A k \in Nat \ {0} :
              DigitsUpTo(t, k) = IF IsDigit(t[k]) THEN DigitsUpTo(t, k - 1) + 1
                                                  ELSE DigitsUpTo(t, k - 1)
<1> DEFINE D(k) == {j \in 1 .. k : IsDigit(t[j])}
<1>1. \A k \in Nat : IsFiniteSet(D(k)) /\ Cardinality(D(k)) \in Nat
  <2> SUFFICES ASSUME NEW k \in Nat PROVE IsFiniteSet(D(k)) /\ Cardinality(D(k)) \in Nat
    OBVIOUS
  <2>1. IsFiniteSet(1 .. k)
    BY FS_Interval
  <2>2. D(k) \subseteq 1 .. k
    OBVIOUS
  <2> HIDE DEF D
  <2> QED BY <2>1, <2>2, FS_Subset, FS_CardinalityType
<1>2. D(0) = {} /\ Cardinality({}) = 0
  BY FS_EmptySet
<1>3. ASSUME NEW k \in Nat \ {0}
      PROVE  Cardinality(D(k)) = IF IsDigit(t[k]) THEN Cardinality(D(k - 1)) + 1
                                                  ELSE Cardinality(D(k - 1))
  <2>1. CASE IsDigit(t[k])
    <3>1. D(k) = D(k - 1) \cup {k} /\ k \notin D(k - 1) /\ k - 1 \in Nat
      BY <2>1
    <3> HIDE DEF D
    <3> QED BY <1>1, <2>1, <3>1, FS_AddElement
  <2>2. CASE ~IsDigit(t[k])
    <3>1. D(k) = D(k - 1)
      BY <2>2
    <3> HIDE DEF D
    <3> QED BY <2>2, <3>1
  <2> QED BY <2>1, <2>2
<1> QED BY <1>1, <1>2, <1>3 DEF DigitsUpTo

LEMMA CharIs ==
  ASSUME NEW c \in Chars
  PROVE  /\ c \in Int
         /\ IsDigit(c) => c \in 0 .. Base - 1 /\ c \notin {Nul, Other}
         /\ ~IsDigit(c) => c = Space \/ c \in {Nul, Other}
BY DEF Chars, IsDigit, Base, Space, Nul, Other

LEMMA DigitsMonotone ==
  ASSUME NEW t, NEW n \in Nat
  PROVE  \A k \in 0 .. n : DigitsUpTo(t, k) <= DigitsUpTo(t, n)
<1> DEFINE S == {m \in 0 .. n : DigitsUpTo(t, n - m) <= DigitsUpTo(t, n)}
<1>1. 0 \in S
  BY CountDigits
<1>2. ASSUME NEW m \in 1 .. n, m - 1 \in S
      PROVE  m \in S
  <2>1. (n - (m - 1)) \in Nat \ {0} /\ n - m \in Nat /\ (n - (m - 1)) - 1 = n - m
    OBVIOUS
  <2>2. DigitsUpTo(t, n - m) <= DigitsUpTo(t, n - (m - 1))
    BY <2>1, CountDigits
  <2>3. DigitsUpTo(t, n) \in Nat /\ DigitsUpTo(t, n - m) \in Nat /\ DigitsUpTo(t, n - (m - 1)) \in Nat
    BY <2>1, CountDigits
  <2> QED BY <1>2, <2>2, <2>3
<1> HIDE DEF S
<1>3. \A m \in 0 .. n : m \in S
  BY <1>1, <1>2, UpTo
<1>4. \A k \in 0 .. n : n - k \in 0 .. n /\ n - (n - k) = k
  OBVIOUS
<1> QED BY <1>3, <1>4 DEF S

-----------------------------------------------------------------------------
(* One turn of the loop in readBmcEvent(), by the kind of the character.   *)
LEMMA ConvertIs ==
  ASSUME NEW acc \in Acc, NEW c \in Chars
  PROVE  /\ acc.at = "between" /\ IsDigit(c) =>
              Convert(acc, c) = [at |-> "inside", high |-> c, bytes |-> acc.bytes]
         /\ acc.at = "between" /\ c = Space => Convert(acc, c) = acc
         /\ acc.at = "between" /\ c \in {Nul, Other} =>
              Convert(acc, c) = [at |-> "ended", high |-> acc.high, bytes |-> acc.bytes]
         /\ acc.at = "inside" /\ IsDigit(c) =>
              Convert(acc, c) = [at |-> "between", high |-> acc.high,
                                 bytes |-> Append(acc.bytes, (Base * acc.high) + c)]
         /\ acc.at = "inside" /\ ~IsDigit(c) =>
              Convert(acc, c) = [at |-> "bad", high |-> acc.high, bytes |-> acc.bytes]
         /\ acc.at \in {"ended", "bad"} => Convert(acc, c) = acc
<1>1. Space \notin {Nul, Other} /\ ~IsDigit(Space) /\ ~IsDigit(Nul) /\ ~IsDigit(Other)
  BY DEF Space, Nul, Other, IsDigit
<1>2. acc = [at |-> acc.at, high |-> acc.high, bytes |-> acc.bytes]
  BY DEF Acc
<1>3. CASE acc.at = "between" /\ IsDigit(c)
  BY <1>1, <1>3 DEF Convert, Acc
<1>4. CASE acc.at = "between" /\ c = Space
  BY <1>1, <1>4 DEF Convert
<1>5. CASE acc.at = "between" /\ c \in {Nul, Other}
  BY <1>1, <1>5 DEF Convert, Acc
<1>6. CASE acc.at = "inside" /\ IsDigit(c)
  BY <1>1, <1>6 DEF Convert, Acc
<1>7. CASE acc.at = "inside" /\ ~IsDigit(c)
  BY <1>1, <1>7 DEF Convert, Acc
<1>8. CASE acc.at \in {"ended", "bad"}
  BY <1>8 DEF Convert
<1> QED BY <1>1, <1>3, <1>4, <1>5, <1>6, <1>7, <1>8

(* Behind whole bytes there is no first digit ...                          *)
LEMMA GoodBetween ==
  ASSUME NEW t, NEW m \in Nat, NEW high, NEW bytes \in Seq(Bytes),
         Good(t, m, "between", high, bytes)
  PROVE  \A k \in 1 .. m : IsDigit(t[k]) /\ DigitsUpTo(t, k) % 2 = 1 => Paired(t, k, bytes)
<1>1. DigitsUpTo(t, m) = 2 * Len(bytes) /\ Len(bytes) \in Nat
  BY DEF Good
<1>2. DigitsUpTo(t, m) % 2 # 1
  BY <1>1
<1> QED BY <1>2 DEF Good

(* ... and the bytes before stay what they are.                            *)
LEMMA PairedStays ==
  ASSUME NEW t, NEW k \in Nat, NEW bytes \in Seq(Bytes), NEW b \in Bytes, Paired(t, k, bytes)
  PROVE  Paired(t, k, Append(bytes, b))
<1>1. /\ Len(Append(bytes, b)) = Len(bytes) + 1
      /\ \A i \in 1 .. Len(bytes) : Append(bytes, b)[i] = bytes[i]
  BY AppendProperties
<1>2. 1 .. Len(bytes) \subseteq 1 .. Len(Append(bytes, b))
  BY <1>1
<1> QED BY <1>1, <1>2 DEF Paired

LEMMA CleanGrows ==
  ASSUME NEW t, NEW n \in Nat \ {0}, Clean(t, n - 1), t[n] \notin {Nul, Other}
  PROVE  Clean(t, n)
BY DEF Clean

LEMMA ConvertTracks ==
  ASSUME NEW t \in Seq(Chars), NEW n \in 1 .. Len(t), NEW acc \in Acc, Tracks(t, n - 1, acc)
  PROVE  Convert(acc, t[n]) \in Acc /\ Tracks(t, n, Convert(acc, t[n]))
<1> DEFINE c   == t[n]
           new == Convert(acc, c)
<1>1. /\ c \in Chars /\ c \in Int /\ n \in Nat \ {0} /\ n - 1 \in Nat
      /\ IsDigit(c) => c \in 0 .. Base - 1 /\ c \notin {Nul, Other}
      /\ ~IsDigit(c) => c = Space \/ c \in {Nul, Other}
      /\ Space \notin {Nul, Other} /\ ~IsDigit(Space)
  BY CharIs DEF Space, Nul, Other, IsDigit
<1>2. /\ acc.at \in {"between", "inside", "ended", "bad"} /\ acc.high \in 0 .. Base - 1
      /\ acc.bytes \in Seq(Bytes) /\ Len(acc.bytes) \in Nat
  BY DEF Acc
<1>3. /\ DigitsUpTo(t, n - 1) \in Nat
      /\ IsDigit(c) => DigitsUpTo(t, n) = DigitsUpTo(t, n - 1) + 1
      /\ ~IsDigit(c) => DigitsUpTo(t, n) = DigitsUpTo(t, n - 1)
  BY <1>1, CountDigits
<1>4. CASE acc.at = "between" /\ IsDigit(c)
  <2>1. new = [at |-> "inside", high |-> c, bytes |-> acc.bytes]
    BY <1>1, <1>4, ConvertIs
  <2>2. Good(t, n - 1, "between", acc.high, acc.bytes)
    BY <1>4 DEF Tracks
  <2>3. \A k \in 1 .. n - 1 :
          IsDigit(t[k]) /\ DigitsUpTo(t, k) % 2 = 1 => Paired(t, k, acc.bytes)
    BY <1>1, <1>2, <2>2, GoodBetween
  <2>4. \A k \in 1 .. n : k = n \/ k \in 1 .. n - 1
    OBVIOUS
  <2>5. Clean(t, n)
    BY <1>1, <1>4, <2>2, CleanGrows DEF Good
  <2>6. DigitsUpTo(t, n) = (2 * Len(acc.bytes)) + 1
    BY <1>3, <1>4, <2>2 DEF Good
  <2>7. Good(t, n, "inside", c, acc.bytes)
    BY <1>1, <1>4, <2>3, <2>4, <2>5, <2>6 DEF Good
  <2>8. new \in Acc
    BY <1>1, <1>2, <1>4, <2>1 DEF Acc
  <2> QED BY <2>1, <2>7, <2>8 DEF Tracks
<1>5. CASE acc.at = "between" /\ c = Space
  <2>1. new = acc
    BY <1>1, <1>5, ConvertIs
  <2>2. Good(t, n - 1, "between", acc.high, acc.bytes)
    BY <1>5 DEF Tracks
  <2>3. \A k \in 1 .. n - 1 :
          IsDigit(t[k]) /\ DigitsUpTo(t, k) % 2 = 1 => Paired(t, k, acc.bytes)
    BY <1>1, <1>2, <2>2, GoodBetween
  <2>4. \A k \in 1 .. n : k = n \/ k \in 1 .. n - 1
    OBVIOUS
  <2>5. Clean(t, n)
    BY <1>1, <1>5, <2>2, CleanGrows DEF Good
  <2>6. DigitsUpTo(t, n) = 2 * Len(acc.bytes)
    BY <1>1, <1>3, <1>5, <2>2 DEF Good
  <2>7. Good(t, n, "between", acc.high, acc.bytes)
    BY <1>1, <1>5, <2>3, <2>4, <2>5, <2>6 DEF Good
  <2> QED BY <1>5, <2>1, <2>7 DEF Tracks
<1>6. CASE acc.at = "between" /\ c \in {Nul, Other}
  <2>1. new = [at |-> "ended", high |-> acc.high, bytes |-> acc.bytes]
    BY <1>1, <1>6, ConvertIs
  <2>2. Good(t, n - 1, "between", acc.high, acc.bytes)
    BY <1>6 DEF Tracks
  <2>3. n \in 1 .. n
    OBVIOUS
  <2>4. new \in Acc
    BY <1>2, <2>1 DEF Acc
  <2> QED BY <1>6, <2>1, <2>2, <2>3, <2>4 DEF Tracks
<1>7. CASE acc.at = "inside" /\ IsDigit(c)
  <2> DEFINE b == (Base * acc.high) + c
             bytes == Append(acc.bytes, b)
  <2>1. new = [at |-> "between", high |-> acc.high, bytes |-> bytes]
    BY <1>1, <1>7, ConvertIs
  <2>2. Good(t, n - 1, "inside", acc.high, acc.bytes)
    BY <1>7 DEF Tracks
  <2>3. b \in Bytes
    <3>1. acc.high \in 0 .. 15 /\ c \in 0 .. 15 /\ b = (16 * acc.high) + c
      BY <1>1, <1>2, <1>7 DEF Base
    <3>2. Bytes = 0 .. 255
      BY DEF Bytes, Base
    <3>3. \A h, d \in 0 .. 15 : (16 * h) + d \in 0 .. 255
      OBVIOUS
    <3> HIDE DEF b
    <3>4. b \in 0 .. 255
      BY <3>1, <3>3
    <3> QED BY <3>2, <3>4
  <2>4. /\ bytes \in Seq(Bytes) /\ Len(bytes) = Len(acc.bytes) + 1
        /\ bytes[Len(acc.bytes) + 1] = b
    BY <1>2, <2>3, AppendProperties
  <2>5. /\ n - 1 >= 1 /\ IsDigit(t[n - 1]) /\ acc.high = t[n - 1] /\ Clean(t, n - 1)
        /\ DigitsUpTo(t, n - 1) = (2 * Len(acc.bytes)) + 1
    BY <2>2 DEF Good
  <2>6. DigitsUpTo(t, n) = 2 * Len(bytes) /\ DigitsUpTo(t, n) % 2 # 1
    BY <1>2, <1>3, <1>7, <2>4, <2>5
  <2>7. Paired(t, n - 1, bytes)
    <3>1. (n - 1) + 1 = n
      BY <1>1
    <3>2. (DigitsUpTo(t, n - 1) + 1) \div 2 = Len(acc.bytes) + 1
      BY <1>2, <2>5
    <3>3. Len(acc.bytes) + 1 \in 1 .. Len(bytes)
      BY <1>2, <2>4
    <3> HIDE DEF bytes
    <3> QED BY <1>7, <2>4, <2>5, <3>1, <3>2, <3>3 DEF Paired
  <2>8. ASSUME NEW k \in 1 .. n, IsDigit(t[k]), DigitsUpTo(t, k) % 2 = 1
        PROVE  Paired(t, k, bytes)
    <3>1. k # n
      BY <2>6, <2>8
    <3>2. CASE k = n - 1
      BY <2>7, <3>2
    <3>3. CASE k # n - 1
      <4>1. k \in 1 .. n - 1 /\ k \in Nat
        BY <3>1
      <4>2. Paired(t, k, acc.bytes)
        BY <2>2, <2>8, <3>3, <4>1 DEF Good
      <4> QED BY <1>2, <2>3, <4>1, <4>2, PairedStays
    <3> QED BY <3>2, <3>3
  <2>9. Clean(t, n)
    BY <1>1, <1>7, <2>5, CleanGrows
  <2>10. Good(t, n, "between", acc.high, bytes)
    <3> HIDE DEF bytes
    <3> QED BY <2>6, <2>8, <2>9 DEF Good
  <2>11. new \in Acc
    <3> HIDE DEF bytes
    <3> QED BY <1>2, <2>1, <2>4 DEF Acc
  <2> QED BY <2>1, <2>10, <2>11 DEF Tracks
<1>8. CASE acc.at = "inside" /\ ~IsDigit(c)
  <2>1. new = [at |-> "bad", high |-> acc.high, bytes |-> acc.bytes]
    BY <1>1, <1>8, ConvertIs
  <2>2. Good(t, n - 1, "inside", acc.high, acc.bytes)
    BY <1>8 DEF Tracks
  <2>3. n \in 1 .. n
    OBVIOUS
  <2>4. new \in Acc
    BY <1>2, <2>1 DEF Acc
  <2> QED BY <1>8, <2>1, <2>2, <2>3, <2>4 DEF Tracks
<1>9. CASE acc.at \in {"ended", "bad"}
  <2>1. new = acc
    BY <1>1, <1>9, ConvertIs
  <2>2. 1 .. n - 1 \subseteq 1 .. n
    OBVIOUS
  <2> QED BY <1>9, <2>1, <2>2 DEF Tracks
<1> QED BY <1>1, <1>2, <1>4, <1>5, <1>6, <1>7, <1>8, <1>9

-----------------------------------------------------------------------------
(* The loop as a function of the characters it has come through.           *)
Fresh == [at |-> "between", high |-> 0, bytes |-> <<>>]

Loop(t, n, f) == f[0] = Fresh /\ \A k \in 1 .. n : f[k] = Convert(f[k - 1], t[k])

LEMMA LoopExists ==
  ASSUME NEW t, NEW N \in Nat
  PROVE  \E f : Loop(t, N, f)
<1> DEFINE S == {n \in 0 .. N : \E f : Loop(t, n, f)}
<1>1. 0 \in S
  <2> DEFINE f == [k \in {0} |-> Fresh]
  <2>1. Loop(t, 0, f)
    BY DEF Loop
  <2> QED BY <2>1
<1>2. ASSUME NEW n \in 1 .. N, n - 1 \in S
      PROVE  n \in S
  <2>1. PICK f : Loop(t, n - 1, f)
    BY <1>2
  <2> DEFINE g == [k \in 0 .. n |-> IF k = n THEN Convert(f[n - 1], t[n]) ELSE f[k]]
  <2>2. g[0] = Fresh
    BY <2>1 DEF Loop
  <2>3. ASSUME NEW k \in 1 .. n PROVE g[k] = Convert(g[k - 1], t[k])
    <3>1. k - 1 \in 0 .. n /\ k - 1 # n /\ k \in 0 .. n /\ (k = n \/ k \in 1 .. n - 1)
      OBVIOUS
    <3>2. g[k - 1] = f[k - 1]
      BY <3>1
    <3>3. CASE k = n
      BY <3>1, <3>2, <3>3
    <3>4. CASE k # n
      <4>1. g[k] = f[k]
        BY <3>1, <3>4
      <4>2. f[k] = Convert(f[k - 1], t[k])
        BY <2>1, <3>1, <3>4 DEF Loop
      <4> QED BY <3>2, <4>1, <4>2
    <3> QED BY <3>3, <3>4
  <2>4. Loop(t, n, g)
    <3> HIDE DEF g
    <3> QED BY <2>2, <2>3 DEF Loop
  <2> HIDE DEF g
  <2> QED BY <2>4
<1> HIDE DEF S
<1>3. N \in S
  BY <1>1, <1>2, UpTo
<1> QED BY <1>3 DEF S

LEMMA ConvertedIs ==
  ASSUME NEW t, Len(t) \in Nat
  PROVE  \E f : Loop(t, Len(t), f) /\ Converted(t) = f[Len(t)]
<1> DEFINE K       == 0 .. Len(t)
           Body(f) == [k \in K |-> IF k = 0 THEN [at |-> "between", high |-> 0, bytes |-> <<>>]
                                           ELSE Convert(f[k - 1], t[k])]
<1>1. PICK f : Loop(t, Len(t), f)
  BY LoopExists
<1> DEFINE F == [k \in K |-> f[k]]
<1>2. F = Body(F)
  <2>1. \A k \in K : k # 0 => k - 1 \in K /\ k \in 1 .. Len(t)
    OBVIOUS
  <2>2. \A k \in K : k # 0 => F[k] = Convert(F[k - 1], t[k])
    BY <1>1, <2>1 DEF Loop
  <2>3. 0 \in K /\ F[0] = [at |-> "between", high |-> 0, bytes |-> <<>>]
    BY <1>1 DEF Loop, Fresh
  <2> QED BY <2>2, <2>3
<1>3. Converted(t) = (CHOOSE g : g = Body(g))[Len(t)]
  BY DEF Converted
<1>4. PICK g : g = Body(g) /\ Converted(t) = g[Len(t)]
  <2> HIDE DEF F, Body
  <2> QED BY <1>2, <1>3
<1>5. Loop(t, Len(t), g)
  <2>1. g = Body(g)
    BY <1>4
  <2>2. 0 \in K /\ g[0] = Fresh
    BY <2>1 DEF Fresh
  <2>3. \A k \in 1 .. Len(t) : k \in K /\ k # 0
    OBVIOUS
  <2>4. \A k \in 1 .. Len(t) : g[k] = Convert(g[k - 1], t[k])
    BY <2>1, <2>3
  <2> QED BY <2>2, <2>4 DEF Loop
<1> QED BY <1>4, <1>5

(* What readBmcEvent() has when the loop is over, for every text.          *)
LEMMA ConvertedTracks ==
  ASSUME NEW t \in Seq(Chars)
  PROVE  Converted(t) \in Acc /\ Tracks(t, Len(t), Converted(t))
<1>1. PICK f : Loop(t, Len(t), f) /\ Converted(t) = f[Len(t)]
  BY ConvertedIs
<1> DEFINE S == {n \in 0 .. Len(t) : f[n] \in Acc /\ Tracks(t, n, f[n])}
<1>2. 0 \in S
  <2>1. f[0] = Fresh /\ Fresh \in Acc
    BY <1>1 DEF Loop, Fresh, Acc, Base
  <2>2. Good(t, 0, "between", 0, <<>>)
    BY CountDigits DEF Good, Clean
  <2>3. Tracks(t, 0, Fresh)
    BY <2>2 DEF Tracks, Fresh
  <2> QED BY <2>1, <2>3
<1>3. ASSUME NEW n \in 1 .. Len(t), n - 1 \in S
      PROVE  n \in S
  <2>1. f[n] = Convert(f[n - 1], t[n])
    BY <1>1 DEF Loop
  <2>2. f[n] \in Acc /\ Tracks(t, n, f[n])
    BY <1>3, <2>1, ConvertTracks
  <2> QED BY <2>2
<1> HIDE DEF S
<1>4. Len(t) \in S
  <2>1. Len(t) \in Nat
    OBVIOUS
  <2>2. \A n \in 0 .. Len(t) : n \in S
    BY <1>2, <1>3, <2>1, UpTo
  <2> QED BY <2>1, <2>2
<1> QED BY <1>1, <1>4 DEF S

-----------------------------------------------------------------------------
(* The dump in a text is the text up to its first end.                     *)
LEMMA DumpIs ==
  ASSUME NEW t \in Seq(Chars)
  PROVE  LET d == Dump(t)
         IN  /\ Len(d) \in 0 .. Len(t)
             /\ \A k \in 1 .. Len(d) : d[k] = t[k]
             /\ DOMAIN d = 1 .. Len(d)
             /\ Clean(t, Len(d))
             /\ Len(d) = Len(t) => d = t
             /\ Len(d) < Len(t) => t[Len(d) + 1] \in {Nul, Other}
<1> DEFINE ends == {k \in DOMAIN t : t[k] \in {Nul, Other}}
<1>1. Len(t) \in Nat /\ DOMAIN t = 1 .. Len(t)
  OBVIOUS
<1>2. CASE ends = {}
  <2>1. Dump(t) = t
    BY <1>2 DEF Dump
  <2>2. Clean(t, Len(t))
    BY <1>1, <1>2 DEF Clean
  <2> QED BY <1>1, <2>1, <2>2
<1>3. CASE ends # {}
  <2>1. PICK n \in ends : \A m \in ends : n <= m
    <3>1. ends \subseteq Nat
      BY <1>1
    <3> HIDE DEF ends
    <3> QED BY <1>3, <3>1, LeastExists
  <2>2. PICK e \in ends : (\A j \in ends : e <= j) /\ Dump(t) = SubSeq(t, 1, e - 1)
    <3>1. Dump(t) = SubSeq(t, 1, (CHOOSE k \in ends : \A j \in ends : k <= j) - 1)
      BY <1>3 DEF Dump
    <3> HIDE DEF ends
    <3> QED BY <2>1, <3>1
  <2>3. e \in 1 .. Len(t) /\ e - 1 \in Nat /\ (e - 1) + 1 = e /\ t[e] \in {Nul, Other}
    BY <1>1
  <2>4. \A i \in 1 .. e - 1 : t[i] \in Chars
    BY <1>1, <2>3
  <2>5. /\ Dump(t) \in Seq(Chars) /\ Len(Dump(t)) = e - 1
        /\ \A i \in 1 .. e - 1 : Dump(t)[i] = t[i]
    <3>1. /\ SubSeq(t, 1, e - 1) \in Seq(Chars)
          /\ Len(SubSeq(t, 1, e - 1)) = IF 1 <= e - 1 THEN (e - 1) - 1 + 1 ELSE 0
          /\ \A i \in 1 .. (e - 1) - 1 + 1 : SubSeq(t, 1, e - 1)[i] = t[1 + i - 1]
      BY <2>3, <2>4, SubSeqProperties
    <3>2. Len(SubSeq(t, 1, e - 1)) = e - 1 /\ (e - 1) - 1 + 1 = e - 1
      BY <2>3, <3>1
    <3>3. \A i \in 1 .. e - 1 : 1 + i - 1 = i
      BY <2>3
    <3> QED BY <2>2, <3>1, <3>2, <3>3
  <2>6. Clean(t, e - 1)
    <3>1. ASSUME NEW j \in 1 .. e - 1, t[j] \in {Nul, Other} PROVE FALSE
      <4>1. j \in 1 .. Len(t) /\ j < e
        BY <1>1, <2>3
      <4>2. j \in ends /\ ~(e <= j)
        BY <1>1, <2>3, <3>1, <4>1
      <4> QED BY <2>2, <4>2
    <3> QED BY <3>1 DEF Clean
  <2> HIDE DEF ends
  <2> QED BY <1>1, <2>3, <2>5, <2>6
<1> QED BY <1>2, <1>3

LEMMA SameDigits ==
  ASSUME NEW s, NEW t, NEW n \in Nat, \A k \in 1 .. n : s[k] = t[k]
  PROVE  \A k \in 0 .. n : DigitsUpTo(s, k) = DigitsUpTo(t, k)
<1> SUFFICES ASSUME NEW k \in 0 .. n PROVE DigitsUpTo(s, k) = DigitsUpTo(t, k)
  OBVIOUS
<1>1. \A j \in 1 .. k : s[j] = t[j]
  OBVIOUS
<1>2. {j \in 1 .. k : IsDigit(s[j])} = {j \in 1 .. k : IsDigit(t[j])}
  BY <1>1
<1> QED BY <1>2 DEF DigitsUpTo

(* A conversion that has met the end of the dump in the file.              *)
LEMMA OutcomeDecodes ==
  ASSUME NEW text \in Seq(Chars), NEW id, NEW r, r = Outcome(id, text),
         Converted(text).at \in {"ended", "bad"}
  PROVE  Decodes(r)
<1> DEFINE acc == Converted(text)
           d   == Dump(text)
<1>1. acc \in Acc /\ Tracks(text, Len(text), acc)
  BY ConvertedTracks
<1>2. /\ Len(d) \in 0 .. Len(text)
      /\ \A k \in 1 .. Len(d) : d[k] = text[k]
      /\ DOMAIN d = 1 .. Len(d)
      /\ Clean(text, Len(d))
      /\ Len(d) = Len(text) => d = text
      /\ Len(d) < Len(text) => text[Len(d) + 1] \in {Nul, Other}
  BY DumpIs
<1>a. Len(d) \in Nat /\ Len(text) \in Nat
  BY <1>2
<1>3. \A k \in 0 .. Len(d) : DigitsUpTo(d, k) = DigitsUpTo(text, k)
  <2> HIDE DEF d
  <2> QED BY <1>2, <1>a, SameDigits
<1>4. acc.bytes \in Seq(Bytes) /\ Len(acc.bytes) \in Nat
  BY <1>1 DEF Acc
<1>5. CASE acc.at = "bad"
  <2>1. r.kind = "hex" /\ r.text = text
    BY <1>5 DEF Outcome, Failed, NoResult
  <2>2. PICK e \in 1 .. Len(text) : ~IsDigit(text[e]) /\ Good(text, e - 1, "inside", acc.high, acc.bytes)
    BY <1>1, <1>5 DEF Tracks
  <2>3. /\ Clean(text, e - 1) /\ e - 1 >= 1 /\ IsDigit(text[e - 1])
        /\ DigitsUpTo(text, e - 1) = (2 * Len(acc.bytes)) + 1
    BY <2>2 DEF Good
  <2>4. e - 1 <= Len(d)
    <3> SUFFICES ASSUME Len(d) + 1 <= e - 1 PROVE FALSE
      BY <1>2
    <3>1. Len(d) < Len(text) /\ Len(d) + 1 \in 1 .. e - 1
      BY <1>2
    <3> QED BY <1>2, <2>3, <3>1 DEF Clean
  <2>5. e - 1 \in 1 .. Len(d) /\ (e - 1) + 1 = e
    BY <1>2, <2>3, <2>4
  <2>6. e - 1 \in Firsts(d)
    <3>1. DigitsUpTo(d, e - 1) = (2 * Len(acc.bytes)) + 1
      BY <1>2, <1>3, <2>3, <2>5
    <3>2. DigitsUpTo(d, e - 1) % 2 = 1
      BY <1>4, <3>1
    <3>3. IsDigit(d[e - 1])
      BY <1>2, <2>3, <2>5
    <3> QED BY <1>2, <2>5, <3>2, <3>3 DEF Firsts
  <2>7. IF e - 1 < Len(d) THEN ~IsDigit(d[(e - 1) + 1]) ELSE d # text
    <3>1. CASE e - 1 < Len(d)
      <4>1. e \in 1 .. Len(d)
        BY <1>2, <3>1
      <4> QED BY <1>2, <2>2, <2>5, <3>1, <4>1
    <3>2. CASE ~(e - 1 < Len(d))
      <4>1. Len(d) # Len(text)
        BY <1>2, <2>5, <3>2
      <4> QED BY <3>2, <4>1
    <3> QED BY <3>1, <3>2
  <2>8. Dump(r.text) = d
    BY <2>1
  <2> HIDE DEF d
  <2> QED BY <2>1, <2>6, <2>7, <2>8 DEF Decodes
<1>6. CASE acc.at = "ended"
  <2>1. PICK e \in 1 .. Len(text) :
          text[e] \in {Nul, Other} /\ Good(text, e - 1, "between", acc.high, acc.bytes)
    BY <1>1, <1>6 DEF Tracks
  <2>2. Clean(text, e - 1) /\ DigitsUpTo(text, e - 1) = 2 * Len(acc.bytes)
    BY <2>1 DEF Good
  <2>3. Len(d) = e - 1
    <3>1. ~(Len(d) + 1 <= e - 1)
      <4> SUFFICES ASSUME Len(d) + 1 <= e - 1 PROVE FALSE
        OBVIOUS
      <4>1. Len(d) < Len(text) /\ Len(d) + 1 \in 1 .. e - 1
        BY <1>2
      <4> QED BY <1>2, <2>2, <4>1 DEF Clean
    <3>2. ~(e <= Len(d))
      BY <1>2, <2>1 DEF Clean
    <3> QED BY <1>2, <3>1, <3>2
  <2>4. DigitsUpTo(d, Len(d)) = 2 * Len(acc.bytes)
    BY <1>2, <1>3, <2>2, <2>3
  <2>5. ~IsDigit(text[e])
    BY <2>1 DEF IsDigit, Nul, Other
  <2>6. \A k \in Firsts(d) :
          /\ k < Len(d) /\ IsDigit(d[k + 1])
          /\ acc.bytes[(DigitsUpTo(d, k) + 1) \div 2] = (Base * d[k]) + d[k + 1]
    <3> SUFFICES ASSUME NEW k \in Firsts(d)
                 PROVE  /\ k < Len(d) /\ IsDigit(d[k + 1])
                        /\ acc.bytes[(DigitsUpTo(d, k) + 1) \div 2] = (Base * d[k]) + d[k + 1]
      OBVIOUS
    <3>1. k \in 1 .. Len(d) /\ IsDigit(d[k]) /\ DigitsUpTo(d, k) % 2 = 1
      BY <1>2 DEF Firsts
    <3>2. d[k] = text[k] /\ DigitsUpTo(d, k) = DigitsUpTo(text, k)
      BY <1>2, <1>3, <3>1
    <3>3. Paired(text, k, acc.bytes)
      BY <1>2, <1>4, <2>1, <2>3, <3>1, <3>2, GoodBetween
    <3>4. IsDigit(text[k + 1])
      BY <3>3 DEF Paired
    <3>5. k # Len(d)
      BY <1>2, <2>3, <2>5, <3>4
    <3>6. k < Len(d) /\ k + 1 \in 1 .. Len(d)
      BY <1>a, <3>1, <3>5
    <3>7. d[k + 1] = text[k + 1]
      BY <1>2, <3>6
    <3> QED BY <3>2, <3>3, <3>4, <3>6, <3>7 DEF Paired
  <2>7. CASE acc.bytes = <<>>
    <3>1. r.kind = "noEsel" /\ r.text = text
      BY <1>6, <2>7 DEF Outcome, Failed, NoResult
    <3>2. DigitsUpTo(d, Len(d)) = 0
      BY <2>4, <2>7
    <3>3. Dump(r.text) = d
      BY <3>1
    <3> HIDE DEF d
    <3> QED BY <3>1, <3>2, <3>3 DEF Decodes
  <2>8. CASE acc.bytes # <<>>
    <3>1. r.kind = "event" /\ r.text = text /\ r.bytes = acc.bytes
      BY <1>6, <2>8 DEF Outcome
    <3>2. Dump(r.text) = d
      BY <3>1
    <3> HIDE DEF d, acc
    <3> QED BY <2>4, <2>6, <3>1, <3>2 DEF Decodes
  <2> QED BY <2>7, <2>8
<1> QED BY <1>5, <1>6

(* A conversion that reads on in memory behind the file.                   *)
LEMMA OverreadDecodes ==
  ASSUME NEW text \in Seq(Chars), NEW tail \in Seq(Chars), NEW id, NEW r,
         Clean(text, Len(text)),
         \E k \in DOMAIN tail : tail[k] \in {Nul, Other},
         r = [Outcome(id, text \o tail) EXCEPT !.text = text]
  PROVE  Decodes(r)
<1> DEFINE t   == text \o tail
           acc == Converted(t)
           d   == Dump(text)
           N   == Len(text)
<1>1. /\ t \in Seq(Chars) /\ Len(t) = N + Len(tail) /\ N \in Nat /\ Len(tail) \in Nat
      /\ \A i \in 1 .. N + Len(tail) : t[i] = IF i <= N THEN text[i] ELSE tail[i - N]
  BY ConcatProperties
<1>2. d = text
  <2>1. Len(d) = N
    BY <1>1, DumpIs DEF Clean
  <2> QED BY <2>1, DumpIs
<1>3. r.text = text /\ Dump(r.text) = text
  <2>1. r.text = text
    BY DEF Outcome, Failed, NoResult
  <2> QED BY <1>2, <2>1
<1> HIDE DEF t
<1>4. acc \in Acc /\ Tracks(t, Len(t), acc)
  BY <1>1, ConvertedTracks
<1> HIDE DEF acc
<1>5. acc.bytes \in Seq(Bytes) /\ Len(acc.bytes) \in Nat
  BY <1>4 DEF Acc
<1>6. ~Clean(t, Len(t))
  <2>1. PICK k \in 1 .. Len(tail) : tail[k] \in {Nul, Other}
    OBVIOUS
  <2>2. N + k \in 1 .. N + Len(tail) /\ ~(N + k <= N) /\ (N + k) - N = k
    BY <1>1
  <2>3. t[N + k] = tail[k]
    BY <1>1, <2>2
  <2> QED BY <1>1, <2>1, <2>2, <2>3 DEF Clean
<1>7. acc.at \in {"ended", "bad"}
  <2>1. ~(acc.at \in {"between", "inside"})
    BY <1>4, <1>6 DEF Tracks, Good
  <2> QED BY <1>4, <2>1 DEF Acc
<1>8. CASE acc.at = "bad"
  <2>1. r.kind = "hex"
    BY <1>8 DEF Outcome, Failed, NoResult, acc, t
  <2> QED BY <1>3, <2>1 DEF Decodes
<1>9. CASE acc.at = "ended"
  <2>1. PICK e \in 1 .. Len(t) :
          t[e] \in {Nul, Other} /\ Good(t, e - 1, "between", acc.high, acc.bytes)
    BY <1>4, <1>9 DEF Tracks
  <2>2. /\ DigitsUpTo(t, e - 1) = 2 * Len(acc.bytes)
        /\ \A k \in 1 .. e - 1 :
             IsDigit(t[k]) /\ DigitsUpTo(t, k) % 2 = 1 => Paired(t, k, acc.bytes)
    <3>1. e - 1 \in Nat
      BY <1>1
    <3> QED BY <1>5, <2>1, <3>1, GoodBetween DEF Good
  <2>3. N <= e - 1 /\ e - 1 \in Nat
    <3>1. ~(e <= N)
      <4> SUFFICES ASSUME e <= N PROVE FALSE
        OBVIOUS
      <4>1. e \in 1 .. N /\ t[e] = text[e]
        BY <1>1
      <4> QED BY <2>1, <4>1 DEF Clean
    <3> QED BY <1>1, <3>1
  <2>4. \A k \in 1 .. N : t[k] = text[k]
    BY <1>1
  <2>5. \A k \in 0 .. N : DigitsUpTo(text, k) = DigitsUpTo(t, k)
    BY <1>1, <2>4, SameDigits
  <2>6. \A k \in Firsts(text) :
          k < N => /\ IsDigit(text[k + 1])
                   /\ acc.bytes[(DigitsUpTo(text, k) + 1) \div 2] = (Base * text[k]) + text[k + 1]
    <3> SUFFICES ASSUME NEW k \in Firsts(text), k < N
                 PROVE  /\ IsDigit(text[k + 1])
                        /\ acc.bytes[(DigitsUpTo(text, k) + 1) \div 2] =
                             (Base * text[k]) + text[k + 1]
      OBVIOUS
    <3>1. k \in 1 .. N /\ IsDigit(text[k]) /\ DigitsUpTo(text, k) % 2 = 1
      BY DEF Firsts
    <3>2. /\ k \in 1 .. e - 1 /\ k + 1 \in 1 .. N
          /\ DigitsUpTo(t, k) = DigitsUpTo(text, k) /\ t[k] = text[k] /\ t[k + 1] = text[k + 1]
      <4>1. k \in 1 .. e - 1 /\ k + 1 \in 1 .. N /\ k \in 0 .. N
        BY <1>1, <2>3, <3>1
      <4> HIDE DEF N
      <4> QED BY <2>4, <2>5, <3>1, <4>1
    <3>3. Paired(t, k, acc.bytes)
      BY <2>2, <3>1, <3>2
    <3> QED BY <3>2, <3>3 DEF Paired
  <2>7. CASE acc.bytes = <<>>
    <3>1. r.kind = "noEsel"
      BY <1>9, <2>7 DEF Outcome, Failed, NoResult, acc, t
    <3>2. DigitsUpTo(t, e - 1) = 0
      BY <2>2, <2>7
    <3>3. DigitsUpTo(text, N) = 0
      <4>1. N \in 0 .. e - 1 /\ N \in 0 .. N
        BY <1>1, <2>3
      <4>2. DigitsUpTo(t, N) <= 0 /\ DigitsUpTo(t, N) \in Nat
        BY <1>1, <2>3, <3>2, <4>1, DigitsMonotone, CountDigits
      <4>3. DigitsUpTo(t, N) = 0
        BY <4>2
      <4> QED BY <2>5, <4>1, <4>3
    <3> QED BY <1>3, <3>1, <3>3 DEF Decodes
  <2>8. CASE acc.bytes # <<>>
    <3>1. r.kind = "event" /\ r.bytes = acc.bytes
      BY <1>9, <2>8 DEF Outcome, acc, t
    <3>2. Dump(r.text) = text /\ r.text = text
      BY <1>3
    <3> QED BY <2>6, <3>1, <3>2 DEF Decodes
  <2> QED BY <2>7, <2>8
<1> QED BY <1>7, <1>8, <1>9

(* Whatever readBmcEvent() makes of a text, it is what a reader sees.      *)
LEMMA OutcomesDecode ==
  ASSUME NEW text \in Seq(Chars), NEW id, NEW r \in Outcomes(id, text)
  PROVE  Decodes(r)
<1>1. CASE Converted(text).at \in {"ended", "bad"}
  <2>1. r = Outcome(id, text)
    BY <1>1 DEF Outcomes
  <2> QED BY <1>1, <2>1, OutcomeDecodes
<1>2. CASE ~(Converted(text).at \in {"ended", "bad"})
  <2>1. Clean(text, Len(text))
    <3>1. Converted(text) \in Acc /\ Tracks(text, Len(text), Converted(text))
      BY ConvertedTracks
    <3>2. Converted(text).at \in {"between", "inside"}
      BY <1>2, <3>1 DEF Acc
    <3> QED BY <3>1, <3>2 DEF Tracks, Good
  <2>2. CASE r = [Failed("crashed", id) EXCEPT !.text = text]
    <3>1. r.kind = "crashed" /\ r.text = text
      BY <2>2 DEF Failed, NoResult
    <3>2. Len(Dump(text)) = Len(text)
      BY <2>1, DumpIs DEF Clean
    <3>3. Dump(r.text) = r.text
      BY <3>1, <3>2, DumpIs
    <3> QED BY <3>1, <3>3 DEF Decodes
  <2>3. ASSUME NEW tail \in Tails, r = [Outcome(id, text \o tail) EXCEPT !.text = text]
        PROVE  Decodes(r)
    <3>1. tail \in Seq(Chars) /\ \E k \in DOMAIN tail : tail[k] \in {Nul, Other}
      BY BmcAssumption
    <3> QED BY <2>1, <2>3, <3>1, OverreadDecodes
  <2> QED BY <1>2, <2>2, <2>3 DEF Outcomes
<1> QED BY <1>1, <1>2

-----------------------------------------------------------------------------
(* What the utility may print of a file.                                   *)
LEMMA OutcomesAre ==
  ASSUME NEW text \in Seq(Chars), NEW id, NEW r \in Outcomes(id, text)
  PROVE  /\ r.kind \in {"noEsel", "hex", "crashed", "event"}
         /\ r.id = id /\ r.bytes \in Seq(Bytes)
<1>1. ASSUME NEW t \in Seq(Chars), NEW o, o = Outcome(id, t) \/ o = [Outcome(id, t) EXCEPT !.text = text]
      PROVE  /\ o.kind \in {"noEsel", "hex", "event"}
             /\ o.id = id /\ o.bytes \in Seq(Bytes)
  <2>1. Converted(t).bytes \in Seq(Bytes)
    BY ConvertedTracks DEF Acc
  <2>2. <<>> \in Seq(Bytes)
    OBVIOUS
  <2> DEFINE q == Outcome(id, t)
  <2>3. /\ q.kind \in {"noEsel", "hex", "event"}
        /\ q.id = id /\ q.bytes \in Seq(Bytes)
    BY <2>1, <2>2 DEF Outcome, Failed, NoResult
  <2>4. [q EXCEPT !.text = text].kind = q.kind /\ [q EXCEPT !.text = text].id = q.id
         /\ [q EXCEPT !.text = text].bytes = q.bytes
    BY DEF Outcome, Failed, NoResult
  <2> HIDE DEF q
  <2>5. o = q \/ o = [q EXCEPT !.text = text]
    BY <1>1 DEF q
  <2> QED BY <2>3, <2>4, <2>5
<1>2. CASE Converted(text).at \in {"ended", "bad"}
  <2>1. r = Outcome(id, text)
    BY <1>2 DEF Outcomes
  <2> QED BY <1>1, <2>1
<1>3. CASE r = [Failed("crashed", id) EXCEPT !.text = text]
  <2>1. <<>> \in Seq(Bytes)
    OBVIOUS
  <2> QED BY <1>3, <2>1 DEF Failed, NoResult
<1>4. ASSUME NEW tail \in Tails, r = [Outcome(id, text \o tail) EXCEPT !.text = text]
      PROVE  /\ r.kind \in {"noEsel", "hex", "event"}
             /\ r.id = id /\ r.bytes \in Seq(Bytes)
  <2>1. text \o tail \in Seq(Chars)
    BY BmcAssumption, ConcatProperties
  <2> QED BY <1>1, <1>4, <2>1
<1> QED BY <1>2, <1>3, <1>4 DEF Outcomes

(* No event, no promise.                                                   *)
LEMMA FailedDecodes ==
  ASSUME NEW k \in {"none", "list", "noFile"}, NEW r, r.kind = k
  PROVE  Decodes(r)
BY DEF Decodes

LEMMA Constants ==
  /\ Files # {} /\ IdOf \in [Files -> Nat] /\ MaxChanges \in Nat /\ MaxRuns \in Nat
  /\ NoId \notin DOMAIN FileOf
  /\ \A f \in Files : May[f] \subseteq Contents
  /\ Contents \subseteq Content
  /\ \A f \in Files : IdOf[f] # 0 => IdOf[f] \in Ids
<1>1. NoId \notin Nat
  BY DEF NoId
<1> QED BY <1>1, BmcAssumption DEF Ids

LEMMA StampedIsFile ==
  /\ Absent \in File /\ ~Absent.token /\ Absent.mtime = -1
  /\ \A c \in Content : \A t \in 0 .. MaxChanges : Stamped(c, t) \in File /\ Stamped(c, t) # Absent
<1>1. MaxChanges \in Nat /\ <<>> \in Seq(Chars)
  BY Constants
<1>2. Absent \in File /\ ~Absent.token /\ Absent.mtime = -1
  BY <1>1 DEF Absent, File
<1>3. ASSUME NEW c \in Content, NEW t \in 0 .. MaxChanges
      PROVE  Stamped(c, t) \in File /\ Stamped(c, t) # Absent
  <2>1. c.token \in BOOLEAN /\ c.text \in Seq(Chars) /\ t \in -1 .. MaxChanges /\ t # -1
    BY <1>1 DEF Content
  <2>2. Stamped(c, t).mtime = t
    BY DEF Stamped
  <2> QED BY <1>2, <2>1, <2>2 DEF Stamped, File
<1> QED BY <1>2, <1>3

LEMMA InitIInv == Init => IInv
<1> SUFFICES ASSUME Init PROVE IInv
  OBVIOUS
<1>1. files \in [Files -> File]
  <2>1. {Absent} \cup {Stamped(c, 0) : c \in Contents} \subseteq File
    BY StampedIsFile, Constants
  <2>2. files \in [Files -> {Absent} \cup {Stamped(c, 0) : c \in Contents}]
    BY DEF Init
  <2> QED BY <2>1, <2>2
<1>2. \A f \in Files : was[f] = {files[f]} /\ IsFiniteSet({files[f]})
  BY FS_Singleton DEF Init
<1>3. cur \in Files
  BY Constants DEF Init
<1>4. DOMAIN events = {}
  BY DEF Init
<1>5. TypeOK
  <2>1. was \in [Files -> SUBSET File]
    BY <1>1 DEF Init
  <2>2. changes \in 0 .. MaxChanges /\ runs \in 0 .. MaxRuns
    BY Constants DEF Init
  <2>3. result.kind = "none" /\ result.bytes = <<>>
    BY DEF Init, NoResult
  <2> QED BY <1>1, <1>3, <1>4, <2>1, <2>2, <2>3 DEF Init, TypeOK
<1>6. NothingYet /\ FilesSeen /\ AtHand /\ Behind /\ EventsHaveFiles /\ ListedIsThere
  BY <1>2, <1>4 DEF Init, NothingYet, FilesSeen, AtHand, Behind, EventsHaveFiles, ListedIsThere
<1>7. Promises
  <2>1. result.kind = "none"
    BY DEF Init, NoResult
  <2> QED BY <2>1, FailedDecodes DEF Init, Promises, ListIsSound, ListedCanBeRead, DecodesDump
<1> QED BY <1>5, <1>6, <1>7 DEF IInv

(* The logger changes a file: what was seen of it only grows.              *)
LEMMA LoggerIInv ==
  ASSUME IInv, NEW f \in Files, NEW now \in File, LoggerChanges(f, now)
  PROVE  IInv'
<1> USE DEF LoggerChanges
<1>1. /\ TypeOK /\ files \in [Files -> File] /\ was \in [Files -> SUBSET File]
      /\ files' \in [Files -> File] /\ was' \in [Files -> SUBSET File]
  BY DEF IInv, TypeOK
<1>2. changes' \in 0 .. MaxChanges
  BY <1>1, Constants DEF TypeOK
<1>3. TypeOK'
  BY <1>1, <1>2 DEF TypeOK
<1>4. \A g \in Files : was[g] \subseteq was'[g] /\ files'[g] \in was'[g] /\ IsFiniteSet(was'[g])
  <2> SUFFICES ASSUME NEW g \in Files
               PROVE  was[g] \subseteq was'[g] /\ files'[g] \in was'[g] /\ IsFiniteSet(was'[g])
    OBVIOUS
  <2>1. files[g] \in was[g] /\ IsFiniteSet(was[g])
    BY DEF IInv, FilesSeen
  <2>2. CASE g = f
    <3>1. was'[g] = was[g] \cup {now} /\ files'[g] = now
      BY <1>1, <2>2
    <3> QED BY <2>1, <3>1, FS_AddElement
  <2>3. CASE g # f
    BY <1>1, <2>1, <2>3
  <2> QED BY <2>2, <2>3
<1>5. FilesSeen'
  BY <1>4 DEF FilesSeen
<1>6. NothingYet'
  BY DEF IInv, NothingYet
<1>7. \A g \in Files : (\E v \in was[g] : v.token) => \E v \in was'[g] : v.token
  BY <1>4
<1>8. \A g \in Files : was[g] # {Absent} => was'[g] # {Absent}
  BY <1>4 DEF IInv, FilesSeen
<1>9. cur \in Files /\ visited \subseteq Files
  BY <1>1 DEF TypeOK
<1>10. AtHand'
  BY <1>7, <1>8, <1>9 DEF IInv, AtHand
<1>11. \A g \in Files : (\A v \in was'[g] : v.token) => \A v \in was[g] : v.token
  BY <1>4
<1>12. Behind'
  BY <1>9, <1>11 DEF IInv, Behind
<1>13. EventsHaveFiles'
  BY <1>4 DEF IInv, EventsHaveFiles
<1>14. ListedIsThere' /\ ListedCanBeRead' /\ DecodesDump'
  BY DEF IInv, Promises, ListedIsThere, ListedCanBeRead, DecodesDump
<1>15. ListIsSound'
  <2>1. ASSUME result.kind = "list"
        PROVE  /\ \A g \in Files :
                     (\A v \in was'[g] : v.token) /\ IdOf[g] # 0 => IdOf[g] \in DOMAIN events
               /\ \A id \in DOMAIN events : \E g \in Files :
                    /\ IdOf[g] = id /\ \E v \in was'[g] : v.token
                    /\ \E v \in was'[g] : v.mtime = events[id]
    BY <1>4, <1>11, <2>1 DEF IInv, Promises, ListIsSound
  <2>2. ASSUME result.kind = "noFile", result.id = NoId
        PROVE  \/ ~hasDir
               \/ \E g \in Files : Absent \in was'[g] /\ was'[g] # {Absent} /\ IdOf[g] # 0
    BY <1>4, <1>8, <2>2 DEF IInv, Promises, ListIsSound
  <2> QED BY <2>1, <2>2 DEF ListIsSound
<1> QED BY <1>3, <1>5, <1>6, <1>10, <1>12, <1>13, <1>14, <1>15 DEF IInv, Promises

LEMMA FilesIInv ==
  ASSUME IInv, NEW f \in Files, Create(f) \/ Delete(f) \/ (\E c \in May[f] : Write(f, c))
  PROVE  IInv'
<1>1. changes + 1 \in 0 .. MaxChanges \/ ~(changes < MaxChanges)
  BY Constants DEF IInv, TypeOK
<1>2. CASE Create(f)
  <2>1. [token |-> FALSE, text |-> <<>>] \in Content
    BY DEF Content
  <2> QED BY <1>1, <1>2, <2>1, StampedIsFile, LoggerIInv DEF Create, LoggerChanges
<1>3. CASE Delete(f)
  BY <1>3, StampedIsFile, LoggerIInv DEF Delete
<1>4. ASSUME NEW c \in May[f], Write(f, c)
      PROVE  IInv'
  <2>1. c \in Content
    BY Constants
  <2>2. changes + 1 \in 0 .. MaxChanges
    BY <1>1, <1>4 DEF Write, LoggerChanges
  <2>3. Stamped(c, changes + 1) \in File
    BY <2>1, <2>2, StampedIsFile
  <2> QED BY <1>4, <2>3, LoggerIInv DEF Write
<1> QED BY <1>2, <1>3, <1>4

(* Each run begins with what the files are now.                            *)
LEMMA StartsFresh ==
  ASSUME IInv, Starts
  PROVE  /\ \A f \in Files : was'[f] = {files[f]} /\ IsFiniteSet(was'[f])
         /\ was' \in [Files -> SUBSET File]
         /\ DOMAIN events = {} /\ visited = {} /\ result = NoResult
<1>1. was' = [f \in Files |-> {files[f]}] /\ files \in [Files -> File]
  BY DEF IInv, TypeOK, Starts
<1>2. was' \in [Files -> SUBSET File]
  BY <1>1
<1>3. \A f \in Files : was'[f] = {files[f]}
  BY <1>1
<1>4. \A f \in Files : IsFiniteSet({files[f]})
  BY FS_Singleton
<1>5. DOMAIN events = {} /\ visited = {} /\ result = NoResult
  BY DEF IInv, NothingYet, Starts
<1> QED BY <1>2, <1>3, <1>4, <1>5

LEMMA StartListIInv ==
  ASSUME IInv, StartList
  PROVE  IInv'
<1> USE DEF StartList
<1>1. /\ \A f \in Files : was'[f] = {files[f]} /\ IsFiniteSet(was'[f])
      /\ was' \in [Files -> SUBSET File]
      /\ DOMAIN events = {} /\ visited = {} /\ result = NoResult
  BY StartsFresh
<1>2. /\ result'.kind \in {"none", "noFile"} /\ result'.bytes = <<>>
      /\ result'.kind = "noFile" => ~hasDir
      /\ phase' # "done" => result' = NoResult
      /\ phase' \in {"scan", "done"}
  <2>1. CASE hasDir
    BY <1>1, <2>1 DEF NoResult
  <2>2. CASE ~hasDir
    BY <2>2 DEF Finish, Failed, NoResult
  <2> QED BY <2>1, <2>2
<1>3. TypeOK'
  BY <1>1, <1>2 DEF IInv, TypeOK
<1>4. (NothingYet /\ FilesSeen /\ AtHand /\ Behind /\ EventsHaveFiles /\ ListedIsThere)'
  BY <1>1, <1>2 DEF NothingYet, FilesSeen, AtHand, Behind, EventsHaveFiles, ListedIsThere
<1>5. Promises'
  <2>1. DecodesDump'
    BY <1>2, FailedDecodes DEF DecodesDump
  <2>2. ListIsSound' /\ ListedCanBeRead'
    BY <1>2 DEF ListIsSound, ListedCanBeRead
  <2> QED BY <2>1, <2>2 DEF Promises
<1> QED BY <1>3, <1>4, <1>5 DEF IInv

LEMMA VisitIInv ==
  ASSUME IInv, NEW f \in Files, Visit(f)
  PROVE  IInv'
<1> USE DEF Visit
<1>1. TypeOK'
  BY DEF IInv, TypeOK
<1>2. (NothingYet /\ FilesSeen /\ EventsHaveFiles /\ ListedIsThere)'
  BY DEF IInv, NothingYet, FilesSeen, EventsHaveFiles, ListedIsThere
<1>3. AtHand'
  BY DEF AtHand
<1>4. Behind'
  BY DEF IInv, Behind
<1>5. Promises'
  BY DEF IInv, Promises, ListIsSound, ListedCanBeRead, DecodesDump
<1> QED BY <1>1, <1>2, <1>3, <1>4, <1>5 DEF IInv

(* A file with the token is looked at; one that has gone ends the list.    *)
LEMMA OpenIInv ==
  ASSUME IInv, OpenEvent
  PROVE  IInv'
<1> USE DEF OpenEvent
<1>1. /\ TypeOK /\ cur \in Files /\ files[cur] \in was[cur] /\ IdOf[cur] # 0
      /\ was[cur] # {Absent} /\ result = NoResult
  BY DEF IInv, TypeOK, FilesSeen, AtHand, NothingYet
<1>2. CASE Exists(cur)
  <2>1. result' = NoResult /\ phase' = IF files[cur].token THEN "stat" ELSE "scan"
    BY <1>1, <1>2
  <2>2. TypeOK'
    BY <1>2, <2>1 DEF IInv, TypeOK
  <2>3. (NothingYet /\ FilesSeen /\ EventsHaveFiles /\ ListedIsThere)'
    BY <1>1, <2>1 DEF IInv, NothingYet, FilesSeen, EventsHaveFiles, ListedIsThere
  <2>4. AtHand'
    BY <1>1, <2>1 DEF AtHand
  <2>5. Behind'
    <3> SUFFICES ASSUME NEW f \in visited, \A v \in was[f] : v.token, IdOf[f] # 0
                 PROVE  IdOf[f] \in DOMAIN events \/ (f = cur /\ phase' # "scan")
      BY DEF Behind
    <3>1. IdOf[f] \in DOMAIN events \/ f = cur
      BY DEF IInv, Behind
    <3>2. f = cur => files[cur].token
      BY <1>1
    <3> QED BY <2>1, <3>1, <3>2
  <2>6. Promises'
    <3>1. result'.kind = "none"
      BY <2>1 DEF NoResult
    <3> QED BY <3>1, FailedDecodes, <2>1 DEF Promises, ListIsSound, ListedCanBeRead, DecodesDump
  <2> QED BY <2>2, <2>3, <2>4, <2>5, <2>6 DEF IInv
<1>3. CASE ~Exists(cur)
  <2>1. phase' = "done" /\ result' = Failed("noFile", NoId)
    BY <1>3 DEF Finish
  <2>2. result'.kind = "noFile" /\ result'.id = NoId /\ result'.bytes = <<>>
    BY <2>1 DEF Failed, NoResult
  <2>3. TypeOK'
    <3>1. result'.bytes \in Seq(0 .. Base * Base - 1)
      BY <2>2
    <3> QED BY <1>1, <2>1, <2>2, <3>1 DEF TypeOK
  <2>4. (NothingYet /\ FilesSeen /\ AtHand /\ Behind /\ EventsHaveFiles /\ ListedIsThere)'
    BY <2>1 DEF IInv, NothingYet, FilesSeen, AtHand, Behind, EventsHaveFiles, ListedIsThere
  <2>5. ListIsSound'
    <3>1. Absent \in was[cur]
      BY <1>1, <1>3 DEF Exists
    <3>2. \E f \in Files : Absent \in was[f] /\ was[f] # {Absent} /\ IdOf[f] # 0
      BY <1>1, <3>1
    <3> QED BY <2>2, <3>2 DEF ListIsSound
  <2>6. ListedCanBeRead' /\ DecodesDump'
    BY <2>2, FailedDecodes, Constants DEF ListedCanBeRead, DecodesDump
  <2> QED BY <2>3, <2>4, <2>5, <2>6 DEF IInv, Promises
<1> QED BY <1>2, <1>3

(* The event gets into the list, dated by the file, if it is still there.  *)
LEMMA StatIInv ==
  ASSUME IInv, StatEvent
  PROVE  IInv'
<1> DEFINE stamp == IF Exists(cur) THEN files[cur].mtime ELSE NoStamp
<1> USE DEF StatEvent
<1>1. /\ TypeOK /\ cur \in Files /\ files[cur] \in was[cur] /\ IdOf[cur] # 0
      /\ result = NoResult /\ \E v \in was[cur] : v.token
  BY DEF IInv, TypeOK, FilesSeen, AtHand, NothingYet
<1>2. stamp \in -1 .. MaxChanges /\ \E v \in was[cur] : v.mtime = stamp
  <2>1. CASE Exists(cur)
    <3>1. files[cur].mtime \in -1 .. MaxChanges
      BY <1>1 DEF TypeOK, File
    <3> QED BY <1>1, <2>1, <3>1
  <2>2. CASE ~Exists(cur)
    <3>1. files[cur] = Absent /\ Absent.mtime = -1
      BY <2>2, StampedIsFile DEF Exists
    <3>2. stamp = -1
      BY <2>2 DEF NoStamp
    <3> QED BY <1>1, <3>1, <3>2, Constants
  <2> QED BY <2>1, <2>2
<1>3. events' = Inserted(events, IdOf[cur], stamp)
  OBVIOUS
<1> HIDE DEF stamp
<1>4. /\ DOMAIN events' = DOMAIN events \cup {IdOf[cur]}
      /\ \A id \in DOMAIN events' : IF id \in DOMAIN events THEN events'[id] = events[id]
                                                           ELSE id = IdOf[cur] /\ events'[id] = stamp
  BY <1>3 DEF Inserted
<1>5. TypeOK'
  BY <1>1, <1>2, <1>4, Constants DEF TypeOK
<1>6. (NothingYet /\ FilesSeen /\ AtHand /\ ListedIsThere)'
  BY <1>1 DEF IInv, NothingYet, FilesSeen, AtHand, ListedIsThere
<1>7. Behind'
  BY <1>4 DEF IInv, Behind
<1>8. EventsHaveFiles'
  <2> SUFFICES ASSUME NEW id \in DOMAIN events'
               PROVE  \E f \in Files : /\ IdOf[f] = id /\ \E v \in was[f] : v.token
                                       /\ \E v \in was[f] : v.mtime = events'[id]
    BY DEF EventsHaveFiles
  <2>1. CASE id \in DOMAIN events
    BY <1>4, <2>1 DEF IInv, EventsHaveFiles
  <2>2. CASE id \notin DOMAIN events
    BY <1>1, <1>2, <1>4, <2>2
  <2> QED BY <2>1, <2>2
<1>9. Promises'
  <2>1. result'.kind = "none"
    BY <1>1 DEF NoResult
  <2> QED BY <2>1, FailedDecodes DEF Promises, ListIsSound, ListedCanBeRead, DecodesDump
<1> QED BY <1>5, <1>6, <1>7, <1>8, <1>9 DEF IInv

(* The end of the directory: every file that stayed has been visited.      *)
LEMMA EndIInv ==
  ASSUME IInv, EndList
  PROVE  IInv'
<1> USE DEF EndList
<1>1. TypeOK /\ result' = [NoResult EXCEPT !.kind = "list"] /\ phase' = "done"
  BY DEF IInv, Finish
<1>2. result'.kind = "list" /\ result'.id = NoId /\ result'.bytes = <<>>
  BY <1>1 DEF NoResult
<1>3. TypeOK'
  <2>1. listed' \subseteq Ids
    BY <1>1 DEF TypeOK
  <2>2. result'.bytes \in Seq(0 .. Base * Base - 1)
    BY <1>2
  <2> QED BY <1>1, <1>2, <2>1, <2>2 DEF TypeOK
<1>4. (NothingYet /\ FilesSeen /\ AtHand /\ Behind /\ EventsHaveFiles)'
  BY <1>1 DEF IInv, NothingYet, FilesSeen, AtHand, Behind, EventsHaveFiles
<1>5. ListIsSound'
  <2>1. ASSUME NEW f \in Files, \A v \in was[f] : v.token, IdOf[f] # 0
        PROVE  IdOf[f] \in DOMAIN events
    <3>1. Absent \notin was[f]
      BY <2>1, StampedIsFile
    <3>2. f \in visited
      BY <3>1
    <3> QED BY <2>1, <3>2 DEF IInv, Behind
  <2> QED BY <1>2, <2>1 DEF IInv, EventsHaveFiles, ListIsSound
<1>6. ListedIsThere'
  <2>1. CASE listed' = {}
    BY <2>1 DEF ListedIsThere
  <2>2. CASE listed' # {}
    <3>1. listed' = DOMAIN events /\ \A f \in Files : Cardinality(was[f]) = 1
      BY <2>2
    <3>2. ASSUME NEW f \in Files PROVE \A v \in was[f] : v = files[f]
      <4>1. files[f] \in was[f] /\ IsFiniteSet(was[f])
        BY DEF IInv, FilesSeen
      <4>2. \E x : was[f] = {x}
        BY <3>1, <4>1, FS_Singleton
      <4> QED BY <4>1, <4>2
    <3>3. \A id \in DOMAIN events : \E f \in Files : IdOf[f] = id /\ files[f].token
      BY <3>2 DEF IInv, EventsHaveFiles
    <3> QED BY <3>1, <3>3 DEF ListedIsThere
  <2> QED BY <2>1, <2>2
<1>7. ListedCanBeRead' /\ DecodesDump'
  BY <1>2, FailedDecodes, Constants DEF ListedCanBeRead, DecodesDump
<1> QED BY <1>3, <1>4, <1>5, <1>6, <1>7 DEF IInv, Promises

(* -b reads one file.                                                      *)
LEMMA ReadIInv ==
  ASSUME IInv, NEW id \in DOMAIN FileOf, ReadEvent(id)
  PROVE  IInv'
<1> USE DEF ReadEvent
<1> DEFINE here == FileOf[id] \in Files /\ files[FileOf[id]] # Absent
<1>1. /\ \A f \in Files : was'[f] = {files[f]} /\ IsFiniteSet(was'[f])
      /\ was' \in [Files -> SUBSET File]
      /\ DOMAIN events = {} /\ visited = {} /\ TypeOK
  BY StartsFresh DEF IInv
<1>2. phase' = "done"
  BY DEF Finish
<1>3. \/ ~here /\ result' = Failed("noFile", id)
      \/ here /\ files[FileOf[id]].token /\ result' \in Outcomes(id, files[FileOf[id]].text)
      \/ here /\ ~files[FileOf[id]].token /\ result' = Failed("noEsel", id)
  BY DEF Finish
<1>4. here => files[FileOf[id]].text \in Seq(Chars)
  BY <1>1 DEF TypeOK, File
<1>5. /\ result'.kind \in {"noFile", "noEsel", "hex", "crashed", "event"}
      /\ result'.id = id /\ result'.bytes \in Seq(Bytes)
      /\ result'.kind = "noFile" => ~here
      /\ result'.kind = "noEsel" => here
  <2>1. CASE ~here /\ result' = Failed("noFile", id)
    <3>1. <<>> \in Seq(Bytes)
      OBVIOUS
    <3> QED BY <2>1, <3>1 DEF Failed, NoResult
  <2>2. CASE here /\ result' \in Outcomes(id, files[FileOf[id]].text)
    BY <1>4, <2>2, OutcomesAre
  <2>3. CASE here /\ result' = Failed("noEsel", id)
    <3>1. <<>> \in Seq(Bytes)
      OBVIOUS
    <3> QED BY <2>3, <3>1 DEF Failed, NoResult
  <2> QED BY <1>3, <2>1, <2>2, <2>3
<1>6. TypeOK'
  BY <1>1, <1>2, <1>5 DEF TypeOK, Bytes
<1>7. (NothingYet /\ FilesSeen /\ AtHand /\ Behind /\ EventsHaveFiles /\ ListedIsThere)'
  BY <1>1, <1>2 DEF IInv, NothingYet, FilesSeen, AtHand, Behind, EventsHaveFiles, ListedIsThere
<1>8. ListIsSound'
  BY <1>5, Constants DEF ListIsSound
<1>9. ListedCanBeRead'
  <2>1. PlainIsThere(id)' = PlainIsThere(id) /\ OddNames(id)' = OddNames(id)
    BY <1>1 DEF PlainIsThere, OddNames
  <2>2. PlainIsThere(id) => here
    BY StampedIsFile DEF PlainIsThere
  <2>3. ~PlainIsThere(id) => result'.kind \in {"noFile", "noEsel"}
    <3>1. here => FileOf[id] \in Files
      OBVIOUS
    <3> QED BY <1>3, <3>1 DEF PlainIsThere, Failed, NoResult
  <2>4. ASSUME id \in listed, ~PlainIsThere(id) PROVE OddNames(id) # {}
    <3>1. PICK f \in Files : IdOf[f] = id /\ files[f].token
      BY <2>4 DEF IInv, ListedIsThere
    <3>2. f # FileOf[id]
      BY <2>4, <3>1 DEF PlainIsThere
    <3> QED BY <3>1, <3>2 DEF OddNames
  <2>5. listed' = listed /\ result'.id = id
    BY <1>1, <1>5
  <2> QED BY <1>5, <2>1, <2>2, <2>3, <2>4, <2>5 DEF ListedCanBeRead
<1>10. DecodesDump'
  <2>1. CASE result' = Failed("noFile", id)
    <3>1. result'.kind = "noFile"
      BY <2>1 DEF Failed, NoResult
    <3> QED BY <3>1, FailedDecodes DEF DecodesDump
  <2>2. CASE here /\ result' \in Outcomes(id, files[FileOf[id]].text)
    BY <1>4, <2>2, OutcomesDecode DEF DecodesDump
  <2>3. CASE result' = Failed("noEsel", id)
    <3>1. result'.kind = "noEsel" /\ result'.text = <<>>
      BY <2>3 DEF Failed, NoResult
    <3>2. Len(Dump(result'.text)) = 0
      <4>1. result'.text \in Seq(Chars) /\ Len(result'.text) = 0
        BY <3>1
      <4>2. Len(Dump(result'.text)) \in 0 .. Len(result'.text)
        BY <4>1, DumpIs
      <4> QED BY <4>1, <4>2
    <3>3. DigitsUpTo(Dump(result'.text), Len(Dump(result'.text))) = 0
      BY <3>2, CountDigits
    <3> QED BY <3>1, <3>3 DEF DecodesDump, Decodes
  <2> QED BY <1>3, <2>1, <2>2, <2>3
<1> QED BY <1>6, <1>7, <1>8, <1>9, <1>10 DEF IInv, Promises

LEMMA RestartIInv ==
  ASSUME IInv, Restart
  PROVE  IInv'
<1> USE DEF Restart
<1>1. result'.kind = "none" /\ result'.bytes = <<>> /\ DOMAIN events' = {}
  BY DEF NoResult
<1>2. TypeOK'
  <2>1. runs' \in 0 .. MaxRuns
    BY Constants DEF IInv, TypeOK
  <2> QED BY <1>1, <2>1 DEF IInv, TypeOK
<1>3. (NothingYet /\ FilesSeen /\ AtHand /\ Behind /\ EventsHaveFiles /\ ListedIsThere)'
  BY <1>1 DEF IInv, NothingYet, FilesSeen, AtHand, Behind, EventsHaveFiles, ListedIsThere
<1>4. Promises'
  BY <1>1, FailedDecodes DEF Promises, ListIsSound, ListedCanBeRead, DecodesDump
<1> QED BY <1>2, <1>3, <1>4 DEF IInv

-----------------------------------------------------------------------------
LEMMA NextIInv == IInv /\ [Next]_vars => IInv'
<1> SUFFICES ASSUME IInv, [Next]_vars PROVE IInv'
  OBVIOUS
<1>1. CASE UNCHANGED vars
  BY <1>1 DEF vars, IInv, TypeOK, NothingYet, FilesSeen, AtHand, Behind, EventsHaveFiles,
              ListedIsThere, Promises, ListIsSound, ListedCanBeRead, PlainIsThere, OddNames,
              DecodesDump
<1> QED BY <1>1, FilesIInv, StartListIInv, VisitIInv, OpenIInv, StatIInv, EndIInv, ReadIInv,
          RestartIInv DEF Next

(* Whatever the logger and the user do, the invariant holds.               *)
THEOREM Invariance == Spec => []IInv
BY InitIInv, NextIInv, PTL DEF Spec

(* The variables keep their types; what readBmcEvent() gives are bytes.    *)
THEOREM TypeCorrect == Spec => []TypeOK
BY Invariance, PTL DEF IInv

(* printBmcEventList() misses no event that stays and invents none,        *)
(* however the logger changes the directory meanwhile.                     *)
THEOREM ListsWhatStays == Spec => []ListIsSound
BY Invariance, PTL DEF IInv, Promises

(* A number in the list can be given to -b (readBmcEvent), which finds the *)
(* eSEL unless the entry is that of a file with an odd name.               *)
THEOREM ListedIsReadable == Spec => []ListedCanBeRead
BY Invariance, PTL DEF IInv, Promises

(* readBmcEvent() gives the bytes that the dump shows, for every text.     *)
THEOREM DumpIsDecoded == Spec => []DecodesDump
BY Invariance, PTL DEF IInv, Promises
=============================================================================
