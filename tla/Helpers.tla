------------------------------ MODULE Helpers ------------------------------
(***************************************************************************)
(* Functions of utils/utilsString.go, utils/utilsNumbers.go and            *)
(* ldap/utils.go that compute with positions.  A string is the sequence of *)
(* its bytes or, where runes matter, of the sizes of its runes; the parts  *)
(* that a formatted result is made of are its result.                      *)
(***************************************************************************)
EXTENDS Integers, Sequences, SequencesExt, FiniteSetsExt

CONSTANTS
  MaxInt,   \* the greatest int
  Byte      \* the number of values of a byte

ASSUME HelpersAssumption == MaxInt \in Nat /\ Byte \in Nat \ {0, 1}

Panic == <<-1, -1, -1>>
Wrap(n) == ((n + MaxInt + 1) % (2 * (MaxInt + 1))) - (MaxInt + 1)

(* content[from:to], positions from 0. *)
Slice(s, from, to) == IF 0 <= from /\ from <= to /\ to <= Len(s) THEN SubSeq(s, from + 1, to) ELSE Panic

----------------------------------------------------------------------------
(* SubStr: runes is a sequence of sizes, the result the first byte and the *)
(* byte after the last.  Offset is what the loop finds for rune n.         *)
ByteOf(runes, n) == FoldLeft(LAMBDA a, b : a + b, 0, SubSeq(runes, 1, n))
Offset(runes, n) == IF n \in 0..(Len(runes) - 1) THEN ByteOf(runes, n) ELSE 0

(* Fault: a length past the end is not cut. *)
SubStrUncut(runes, start, length) ==
  LET from == Offset(runes, start)
      to == Offset(runes, Wrap(start + length))
  IN IF start >= Len(runes) THEN <<0, 0>>
     ELSE IF start < 0 \/ length < 0 \/ from > to THEN Panic
     ELSE <<from, to>>

SubStr(runes, start, length) ==
  LET total == Len(runes)
      from == Offset(runes, start)
      to == IF Wrap(start + length) >= total THEN ByteOf(runes, total)
            ELSE Offset(runes, Wrap(start + length))
  IN IF start > total THEN <<0, 0>>
     ELSE IF start < 0 \/ length < 0 THEN Panic
     ELSE IF start = total THEN <<0, 0>>
     ELSE IF from > to THEN Panic
     ELSE <<from, to>>

(* strings.Index *)
Occurs(s, p, i) == i + Len(p) <= Len(s) /\ SubSeq(s, i + 1, i + Len(p)) = p
Index(s, p) ==
  LET found == {i \in 0..Len(s) : Occurs(s, p, i)}
  IN IF found = {} THEN -1 ELSE Min(found)

GetSubStr(content, startsWith, endsWith) ==
  LET startPos == Index(content, startsWith) + Len(startsWith)
      rest == Slice(content, startPos, Len(content))
      endPos == IF endsWith = <<>> THEN Len(rest) ELSE Index(rest, endsWith)
  IN IF Index(content, startsWith) = -1 \/ endPos = -1 THEN <<>>
     ELSE Slice(content, startPos, startPos + endPos)

----------------------------------------------------------------------------
Numbers(from, to) == [i \in 1..(to - from + 1) |-> from + i - 1]

SieveOfEratosthenes(m, n) ==
  LET strike(composite, i) ==
        IF i * i < n /\ i \notin composite
        THEN composite \cup {j \in (i * i)..(n - 1) : (j - i * i) % i = 0}
        ELSE composite
      composite == FoldLeft(strike, {}, Numbers(2, n))
  IN IF n < 3 THEN <<>> ELSE SelectSeq(Numbers(Max({m, 2}), n - 1), LAMBDA j : j \notin composite)

----------------------------------------------------------------------------
(* decodeSID: revision, authority and sub-authorities. *)
SIDHead == 8
SIDSize == 4

decodeSID(b) ==
  LET authority == MapThenSumSet(LAMBDA i : b[i + 1] * Byte ^ (5 - (i - 2)), 2..7)
      sub(i) == MapThenSumSet(LAMBDA k : b[SIDHead + SIDSize * i + k + 1] * Byte ^ k, 0..(SIDSize - 1))
      short == \E i \in 0..(b[2] - 1) : SIDHead + SIDSize * i + SIDSize > Len(b)
  IN IF Len(b) < SIDHead \/ short THEN <<>>
     ELSE <<b[1], authority>> \o [i \in 1..b[2] |-> sub(i - 1)]

(* GuidToOctetString on the digit pairs of a GUID, and                     *)
(* ConvertToDashedString on its bytes: mixed-endian both ways.             *)
idxs == <<3, 2, 1, 0, 5, 4, 7, 6, 8, 9, 10, 11, 12, 13, 14, 15>>
GuidToOctetString(pairs) == IF Len(pairs) # 16 THEN <<>> ELSE [i \in 1..16 |-> pairs[idxs[i] + 1]]
ConvertToDashedString(guid) == IF Len(guid) < 16 THEN <<>> ELSE [i \in 1..16 |-> guid[idxs[i] + 1]]

----------------------------------------------------------------------------
(* What they are for. *)
SubStrMeans(runes, start, length, result) ==
  LET last == Min({start + length, Len(runes)}) IN
    CASE start >= Len(runes) /\ (start > Len(runes) \/ length >= 0) -> result = <<0, 0>>
      [] start < 0 \/ length < 0 -> result = Panic
      [] start + length > MaxInt -> result = Panic
      [] OTHER -> result = <<ByteOf(runes, start), ByteOf(runes, last)>>

GetSubStrMeans(content, s, e, result) ==
  LET cuts == {<<i, j>> \in (0..Len(content)) \X (0..Len(content)) :
                 /\ Occurs(content, s, i) /\ j >= i + Len(s)
                 /\ IF e = <<>> THEN j = Len(content) ELSE Occurs(content, e, j)}
      first == {c \in cuts : \A i \in 0..(c[1] - 1) : ~Occurs(content, s, i)}
  IN IF first = {} THEN result = <<>>
     ELSE \E c \in first : (\A d \in first : c[2] <= d[2]) /\ result = SubSeq(content, c[1] + Len(s) + 1, c[2])

SieveMeans(m, n, result) ==
  /\ Range(result) = {p \in m..(n - 1) : p >= 2 /\ \A d \in 2..(p - 1) : p % d # 0}
  /\ \A i \in 1..(Len(result) - 1) : result[i] < result[i + 1]

(* A number from its digits, the most significant first. *)
Value(digits) == FoldLeft(LAMBDA a, d : Byte * a + d, 0, digits)

DecodeSIDMeans(b, result) ==
  IF Len(b) < SIDHead \/ Len(b) < SIDHead + SIDSize * b[2] THEN result = <<>>
  ELSE /\ Len(result) = 2 + b[2]
       /\ result[1] = b[1] /\ result[2] = Value(SubSeq(b, 3, 8))
       /\ \A i \in 1..b[2] :
            result[i + 2] = Value(Reverse(SubSeq(b, SIDHead + SIDSize * (i - 1) + 1, SIDHead + SIDSize * i)))
=============================================================================
