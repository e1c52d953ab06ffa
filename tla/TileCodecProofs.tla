--------------------------- MODULE TileCodecProofs ---------------------------
(***************************************************************************)
(* For every tile size, match length, window, table size and buffer that   *)
(* meets TileCodec's assumptions, and every sequence of tiles encoded with *)
(* one table: the decoder gets back what was encoded, the encoder stays    *)
(* inside its buffer, and compress_tile_adaptive's answer is the tile.     *)
(***************************************************************************)
EXTENDS TileCodec, NumberFacts, SequenceTheorems

-----------------------------------------------------------------------------
(* The inductive invariant. *)

Tile == [0..Size - 1 -> Bytes]
RowOf(p) == p \div RowBytes
StartOf(p) == RowOf(p) * RowBytes

TypeInv ==
    /\ job \in {"idle", "direct", "delta"}
    /\ enc \in {"check", "solid", "scan", "row", "flush", "match", "full"}
    /\ pixels \in Tile /\ prev \in Tile /\ raw \in Tile
    /\ dec \in Tile /\ dst \in Tile
    /\ pos \in 0..Size /\ lit \in Seq(Bytes)
    /\ out \in Nat /\ best \in Nat /\ boff \in Nat
    /\ tok \in [len : Nat, off : Nat, lit : Seq(Bytes), done : Nat]
    /\ dlen \in Nat /\ dsize \in Nat /\ result \in Int
    /\ current_gen \in Nat /\ htab \in [Slots -> [gen : Nat, pos : Nat]]

(* What is decoded, what the token under way will add, and the literals not yet
   written make up the tile up to pos. *)
Start == dlen - tok.done
TokenInv ==
    /\ \A i \in 0..dlen - 1 : dec[i] = raw[i]
    /\ Start \in Nat /\ Start + tok.len + Len(lit) = pos
    /\ tok = NoToken \/ tok.done < tok.len
    /\ tok.off <= Start
    /\ \A k \in 0..tok.len - 1 :
          raw[Start + k] = IF tok.off = 0 THEN tok.lit[k + 1] ELSE raw[Start + k - tok.off]
    /\ \A k \in 1..Len(lit) : lit[k] = raw[pos - Len(lit) + k - 1]

(* Where the encoder is, and what it found there. *)
Matching(n, off) == \A k \in 0..n - 1 : raw[pos + k] = raw[pos + k - off]
PlaceInv ==
    /\ enc \in {"check", "solid", "row"} => lit = <<>>
    /\ enc = "check" => pos = 0 /\ out = 0
    /\ enc = "solid" => Solid
    /\ enc = "scan" => Len(lit) <= pos - StartOf(pos)
    /\ enc = "flush" => lit # <<>> /\ pos = StartOf(pos)
    /\ enc = "row" => /\ pos < Size /\ StartOf(pos) > 0
                      /\ \A i \in StartOf(pos)..StartOf(pos) + RowBytes - 1 :
                            raw[i] = raw[i - RowBytes]
    /\ enc = "match" => /\ pos < Size /\ best >= MinMatch
                        /\ pos + best <= StartOf(pos) + RowBytes
                        /\ boff \in 1..pos /\ Matching(best, boff)

(* The entries of this generation are of this encoding, and behind pos. *)
TableInv ==
    /\ current_gen < GenMod
    /\ \A h \in Slots :
          /\ htab[h].gen <= current_gen
          /\ enc \in {"scan", "flush", "row", "match"} /\ htab[h].gen = current_gen
                => htab[h].pos < pos \/ (enc = "match" /\ htab[h].pos = pos)

(* What is written so far costs at most a byte more per row than it stands for;
   a solid tile costs four bytes per row after its first pixel. *)
RoomInv ==
    LET q == RowOf(pos) IN
    /\ job # "idle" => out <= Limit
    /\ job # "idle" /\ enc = "full" => ~Room(Limit)
    /\ enc = "solid" =>
         \/ pos = 0 /\ out = 0
         \/ pos = PixelBytes /\ out = 1 + PixelBytes
         \/ pos = PixelBytes + MaxMatch /\ out = 3 + PixelBytes
         \/ q > 0 /\ pos = StartOf(pos) /\ out <= 1 + PixelBytes + 4 * q
         \/ q > 0 /\ pos = StartOf(pos) + MaxMatch /\ out <= 3 + PixelBytes + 4 * q
    /\ enc \in {"scan", "row"} => out <= pos - Len(lit) + q
    /\ enc = "flush" => out < pos - Len(lit) + q
    /\ enc = "match" => out <= pos - Len(lit) + q + 1
    /\ enc = "match" /\ lit # <<>> => out <= pos - Len(lit) + q

(* dst holds the tile itself, or its difference, from the Finish that put it
   there. *)
AnswerInv ==
    /\ job = "direct" => raw = pixels
    /\ job = "delta" => raw = Delta /\ (dsize > 0 => dst = pixels)
    /\ job = "idle" /\ result < 0 => dst = pixels
    /\ job = "idle" /\ result > 0 => dst = Delta

CodecInv == /\ TypeInv /\ TokenInv /\ PlaceInv /\ TableInv /\ RoomInv /\ AnswerInv

LEMMA ConstFacts ==
    /\ RowBytes \in Nat /\ Rows \in Nat /\ PixelBytes \in Nat /\ MaxMatch \in Nat
    /\ Rows > 0 /\ PixelBytes > 0 /\ MaxMatch > 3 /\ MinMatch = 3
    /\ PixelBytes + MaxMatch + 3 <= RowBytes /\ RowBytes <= MaxMatch + MaxMatch
    /\ Size \in Nat /\ Size >= RowBytes
    /\ MaxLiterals \in Nat /\ RowBytes <= MaxLiterals
    /\ DstMax \in Nat /\ TempMax \in Nat /\ GenMod \in Nat /\ GenMod > 1
<1>1. Size >= RowBytes /\ Size \in Nat
  BY CodecAssumption DEF Size
<1> QED
  BY <1>1, CodecAssumption DEF MinMatch

(* The row of a byte. *)
LEMMA RowFacts ==
    ASSUME NEW p \in 0..Size
    PROVE  /\ RowOf(p) \in Nat /\ StartOf(p) \in Nat
           /\ StartOf(p) <= p /\ p < StartOf(p) + RowBytes
           /\ RowOf(p) <= Rows
           /\ p < Size => RowOf(p) < Rows /\ StartOf(p) + RowBytes <= Size
           /\ RowOf(p) > 0 <=> StartOf(p) > 0
           /\ StartOf(p) > 0 => StartOf(p) >= RowBytes
           /\ p = Size => StartOf(p) = p
<1> DEFINE q == RowOf(p)
<1>1. /\ q \in Nat /\ q * RowBytes \in Nat
      /\ q * RowBytes <= p /\ p < q * RowBytes + RowBytes
  BY ConstFacts, DivMod DEF RowOf
<1>2. p <= RowBytes * Rows /\ Size = RowBytes * Rows
  BY ConstFacts DEF Size
<1> HIDE DEF q
<1>3. q <= Rows
  BY <1>1, <1>2, ConstFacts
<1>4. p < Size => q < Rows /\ q * RowBytes + RowBytes <= RowBytes * Rows
  <2> SUFFICES ASSUME p < Size PROVE q < Rows /\ q * RowBytes + RowBytes <= RowBytes * Rows
    OBVIOUS
  <2>1. q < Rows
    BY <1>1, <1>2, ConstFacts
  <2> QED
    BY <1>1, <2>1, ConstFacts
<1>5. q > 0 <=> q * RowBytes > 0
  BY <1>1, ConstFacts
<1>6. q > 0 => q * RowBytes >= RowBytes
  BY <1>1, ConstFacts
<1>7. p = Size => q = Rows
  BY <1>1, <1>2, <1>3, ConstFacts
<1>8. StartOf(p) = q * RowBytes
  BY DEF StartOf, q
<1> QED
  BY <1>1, <1>2, <1>3, <1>4, <1>5, <1>6, <1>7, <1>8, ConstFacts DEF q

LEMMA RowNext ==
    ASSUME NEW p \in 0..Size, NEW r \in Nat, StartOf(p) <= r
    PROVE  /\ r < StartOf(p) + RowBytes => RowOf(r) = RowOf(p) /\ StartOf(r) = StartOf(p)
           /\ r = StartOf(p) + RowBytes => RowOf(r) = RowOf(p) + 1 /\ StartOf(r) = r
<1> DEFINE q == RowOf(p)
<1>1. q \in Nat /\ StartOf(p) = q * RowBytes
  BY RowFacts DEF StartOf
<1> HIDE DEF q
<1>2. r < StartOf(p) + RowBytes => r \div RowBytes = q
  BY <1>1, ConstFacts, DivUnique
<1>3. (q + 1) * RowBytes = q * RowBytes + RowBytes
  BY <1>1, ConstFacts
<1>4. r = StartOf(p) + RowBytes => r \div RowBytes = q + 1
  BY <1>1, <1>3, ConstFacts, DivUnique
<1> QED
  BY <1>1, <1>2, <1>3, <1>4 DEF RowOf, StartOf, q

-----------------------------------------------------------------------------
(* The matches the encoder finds, and the rows of a solid tile. *)

(* MatchLen's CHOOSE has a value: the least length that cannot be extended. *)
LEMMA MatchLenSound ==
    ASSUME NEW off \in Int, NEW max \in Nat
    PROVE  MatchLen(off, max) \in 0..max /\ Matching(MatchLen(off, max), off)
<1> DEFINE Stop == {n \in 0..max : n = max \/ raw[pos + n - off] # raw[pos + n]}
<1>1. PICK t \in Stop : \A u \in Stop : t <= u
  <2>1. max \in Stop /\ Stop \in SUBSET (0..max)
    OBVIOUS
  <2> HIDE DEF Stop
  <2> QED
    BY <2>1, LeastOf
<1>2. \A k \in 0..t - 1 : raw[pos + k - off] = raw[pos + k]
  BY <1>1
<1>3. t < max => raw[pos + t - off] # raw[pos + t]
  BY <1>1
<1>4. MatchLen(off, max) \in 0..max
      /\ \A k \in 0..MatchLen(off, max) - 1 : raw[pos + k - off] = raw[pos + k]
  BY <1>1, <1>2, <1>3 DEF MatchLen
<1> DEFINE n == MatchLen(off, max)
<1>5. \A k \in 0..n - 1 : raw[pos + k] = raw[pos + k - off]
  BY <1>4
<1> QED
  BY <1>4, <1>5 DEF Matching

LEMMA CandidateSound ==
    ASSUME TypeInv, TableInv, enc = "scan", Slot \in Slots
    PROVE  Candidate = 0 \/ Candidate \in 1..pos
<1>1. htab[Slot].gen \in Nat /\ htab[Slot].pos \in Nat /\ pos \in Nat
  BY ConstFacts DEF TypeInv
<1>2. htab[Slot].gen = current_gen => htab[Slot].pos < pos
  BY DEF TableInv
<1> QED
  BY <1>1, <1>2 DEF Candidate

LEMMA SlotInTable ==
    ASSUME TypeInv, Searched, pos < Size
    PROVE  Slot \in Slots
<1>1. pos \in 0..Size /\ RowEnd = StartOf(pos) + RowBytes
  BY DEF TypeInv, RowEnd, RowStart, StartOf, RowOf
<1>2. pos + 2 < Size
  BY <1>1, RowFacts, ConstFacts DEF Searched
<1>3. raw[pos] \in Bytes /\ raw[pos + 1] \in Bytes /\ raw[pos + 2] \in Bytes
  BY <1>1, <1>2, ConstFacts DEF TypeInv, Tile
<1> QED
  BY <1>3, BytesAssumption DEF Slot

(* What a scan finds is a match: inside the row, and of bytes already written. *)
LEMMA FoundSound ==
    ASSUME TypeInv, TableInv, enc = "scan", pos < Size
    PROVE  /\ Found[1] \in Nat /\ Found[2] \in Nat
           /\ Found[1] >= MinMatch =>
                /\ pos + Found[1] <= StartOf(pos) + RowBytes
                /\ Found[2] \in 1..pos
                /\ Matching(Found[1], Found[2])
<1> DEFINE near == IF Candidate = 0 THEN 0 ELSE MatchLen(Candidate, LongestHere)
           above == IF pos >= RowBytes THEN MatchLen(RowBytes, LongestHere) ELSE 0
           kept == IF near >= MinMatch THEN near ELSE 0
<1>1. pos \in 0..Size /\ pos \in Nat /\ RowEnd = StartOf(pos) + RowBytes /\ pos < RowEnd
  BY RowFacts, ConstFacts DEF TypeInv, RowEnd, RowStart, StartOf, RowOf
<1>2. LongestHere \in Nat /\ pos + LongestHere <= RowEnd
  BY <1>1, RowFacts, ConstFacts DEF LongestHere, Shorter
<1>3. CASE ~Searched
  BY <1>3, ConstFacts DEF Found
<1>4. CASE Searched
  <2>1. Candidate = 0 \/ Candidate \in 1..pos
    BY <1>4, SlotInTable, CandidateSound
  <2>2. /\ near \in 0..LongestHere
        /\ near > 0 => Candidate \in 1..pos /\ Matching(near, Candidate)
    <3>1. CASE Candidate = 0
      BY <1>2, <3>1
    <3>2. CASE Candidate \in 1..pos
      <4>1. Candidate \in Int
        BY <1>1, <3>2
      <4>2. /\ MatchLen(Candidate, LongestHere) \in 0..LongestHere
            /\ Matching(MatchLen(Candidate, LongestHere), Candidate)
        BY <1>2, <4>1, MatchLenSound, Zenon
      <4> QED
        BY <1>1, <3>2, <4>2
    <3> QED
      BY <2>1, <3>1, <3>2
  <2>3. /\ above \in 0..LongestHere
        /\ above > 0 => RowBytes \in 1..pos /\ Matching(above, RowBytes)
    <3>1. CASE pos < RowBytes
      BY <1>1, <1>2, <3>1, ConstFacts
    <3>2. CASE pos >= RowBytes
      <4>1. /\ MatchLen(RowBytes, LongestHere) \in 0..LongestHere
            /\ Matching(MatchLen(RowBytes, LongestHere), RowBytes)
        <5>1. RowBytes \in Int
          BY ConstFacts
        <5> QED
          BY <1>2, <5>1, MatchLenSound, Zenon
      <4> QED
        BY <1>1, <3>2, <4>1, ConstFacts
    <3> QED
      BY <1>1, <3>1, <3>2, ConstFacts
  <2>4. Found = IF kept < LongestHere /\ above > kept THEN <<above, RowBytes>>
                ELSE <<kept, IF kept = 0 THEN 0 ELSE Candidate>>
    BY <1>4 DEF Found
  <2> HIDE DEF near, above
  <2>5. CASE kept < LongestHere /\ above > kept
    BY <1>1, <1>2, <2>2, <2>3, <2>4, <2>5, ConstFacts
  <2>6. CASE ~(kept < LongestHere /\ above > kept)
    BY <1>1, <1>2, <2>1, <2>2, <2>3, <2>4, <2>6, ConstFacts
  <2> QED
    BY <2>5, <2>6
<1> QED
  BY <1>3, <1>4

(* Bytes of a solid tile that lie whole pixels apart are equal. *)
LEMMA SolidPeriod ==
    ASSUME Solid, NEW n \in Nat
    PROVE  \A m \in 0..n : \A i \in Nat : i < Size /\ m * PixelBytes <= i
              => raw[i] = raw[i - m * PixelBytes]
<1> DEFINE Bad == {m \in 0..n : \E i \in Nat : i < Size /\ m * PixelBytes <= i
                                    /\ raw[i] # raw[i - m * PixelBytes]}
<1> SUFFICES ASSUME Bad # {} PROVE FALSE
  OBVIOUS
<1>1. PICK m \in Bad : \A k \in Bad : m <= k
  BY LeastOf
<1>2. PICK i \in Nat : i < Size /\ m * PixelBytes <= i /\ raw[i] # raw[i - m * PixelBytes]
  BY <1>1
<1>3. m # 0
  BY <1>2, ConstFacts
<1>4. /\ (m - 1) * PixelBytes = m * PixelBytes - PixelBytes
      /\ m - 1 \in 0..n /\ m - 1 \notin Bad
      /\ (m - 1) * PixelBytes \in Nat
  BY <1>1, <1>3, ConstFacts
<1> DEFINE j == i - (m - 1) * PixelBytes
<1>5. j \in Nat /\ j >= PixelBytes /\ j < Size /\ j - PixelBytes = i - m * PixelBytes
  BY <1>2, <1>4, ConstFacts
<1>6. raw[i] = raw[j]
  BY <1>2, <1>4, <1>5, ConstFacts
<1>7. raw[j] = raw[j - PixelBytes]
  BY <1>5, ConstFacts DEF Solid
<1> QED
  BY <1>2, <1>5, <1>6, <1>7

LEMMA SolidRows ==
    ASSUME Solid, NEW i \in RowBytes..Size - 1
    PROVE  raw[i] = raw[i - RowBytes]
<1>1. PICK m \in Nat : RowBytes = m * PixelBytes
  <2>1. RowBytes % PixelBytes = 0
    BY CodecAssumption
  <2>2. /\ RowBytes \div PixelBytes \in Nat
        /\ RowBytes % PixelBytes = RowBytes - (RowBytes \div PixelBytes) * PixelBytes
        /\ (RowBytes \div PixelBytes) * PixelBytes \in Nat
    BY ConstFacts, DivMod
  <2>3. RowBytes = (RowBytes \div PixelBytes) * PixelBytes
    <3> DEFINE q == (RowBytes \div PixelBytes) * PixelBytes
    <3>1. q \in Nat /\ 0 = RowBytes - q
      BY <2>1, <2>2
    <3> HIDE DEF q
    <3>2. RowBytes = q
      BY <3>1, ConstFacts
    <3> QED
      BY <3>2 DEF q
  <2> QED
    BY <2>2, <2>3
<1>2. \A k \in 0..m : \A j \in Nat : j < Size /\ k * PixelBytes <= j
        => raw[j] = raw[j - k * PixelBytes]
  BY SolidPeriod
<1> QED
  BY <1>1, <1>2, ConstFacts

-----------------------------------------------------------------------------
(* What a token does to the decoder's part of the invariant. *)

LEMMA Caught ==
    ASSUME CodecInv, Quiet
    PROVE  /\ tok.len = 0 /\ tok.done = 0 /\ Start = dlen
           /\ dlen \in Nat /\ pos \in Nat /\ pos <= Size /\ Len(lit) \in Nat
           /\ dlen + Len(lit) = pos
<1>1. tok.len = 0 /\ tok.done = 0
  BY DEF Quiet, NoToken
<1>2. /\ dlen \in Nat /\ pos \in Nat /\ pos <= Size /\ Len(lit) \in Nat
      /\ Start + tok.len + Len(lit) = pos
  BY ConstFacts DEF CodecInv, TypeInv, TokenInv
<1> QED
  BY <1>1, <1>2 DEF Start

LEMMA LiteralsWritten ==
    ASSUME CodecInv, Quiet, NEW bytes \in Seq(Bytes), bytes # <<>>,
           \A k \in 0..Len(bytes) - 1 : raw[dlen + k] = bytes[k + 1],
           Write(Len(bytes), 0, bytes), pos' = dlen + Len(bytes), lit' = <<>>,
           UNCHANGED <<raw, dec, dlen>>
    PROVE  TokenInv' /\ tok' \in [len : Nat, off : Nat, lit : Seq(Bytes), done : Nat]
<1>1. tok' = [len |-> Len(bytes), off |-> 0, lit |-> bytes, done |-> 0]
  BY DEF Write
<1>2. Len(bytes) \in Nat /\ Len(bytes) > 0 /\ Len(<<>>) = 0
  BY EmptySeq
<1>3. /\ tok'.len = Len(bytes) /\ tok'.off = 0 /\ tok'.lit = bytes /\ tok'.done = 0
      /\ tok' \in [len : Nat, off : Nat, lit : Seq(Bytes), done : Nat]
  BY <1>1, <1>2
<1>4. Start' = dlen /\ dlen \in Nat /\ \A i \in 0..dlen - 1 : dec[i] = raw[i]
  BY <1>3, Caught DEF Start, CodecInv, TokenInv
<1>5. \A k \in 1..Len(lit') : lit'[k] = raw'[pos' - Len(lit') + k - 1]
  BY <1>2
<1> QED
  BY <1>2, <1>3, <1>4, <1>5 DEF TokenInv

LEMMA CopyWritten ==
    ASSUME CodecInv, Quiet, lit = <<>>, NEW len \in Nat \ {0}, NEW off \in 1..pos,
           Matching(len, off), Write(len, off, <<>>), pos' = pos + len, lit' = lit,
           UNCHANGED <<raw, dec, dlen>>
    PROVE  TokenInv' /\ tok' \in [len : Nat, off : Nat, lit : Seq(Bytes), done : Nat]
<1>1. tok' = [len |-> len, off |-> off, lit |-> <<>>, done |-> 0]
  BY DEF Write
<1>2. Len(<<>>) = 0 /\ <<>> \in Seq(Bytes) /\ off \in Nat
  BY Caught
<1>3. /\ tok'.len = len /\ tok'.off = off /\ tok'.done = 0
      /\ tok' \in [len : Nat, off : Nat, lit : Seq(Bytes), done : Nat]
  BY <1>1, <1>2
<1>4. Start' = pos /\ dlen = pos /\ \A i \in 0..dlen - 1 : dec[i] = raw[i]
  BY <1>2, <1>3, Caught DEF Start, CodecInv, TokenInv
<1>5. \A k \in 1..Len(lit') : lit'[k] = raw'[pos' - Len(lit') + k - 1]
  BY <1>2
<1>6. \A k \in 0..len - 1 : raw[pos + k] = raw[pos + k - off]
  BY DEF Matching
<1> QED
  BY <1>2, <1>3, <1>4, <1>5, <1>6, Caught DEF TokenInv

(* The decoder takes a byte. *)
LEMMA DecodeKeeps == ASSUME CodecInv, DecodeByte PROVE CodecInv'
<1>1. /\ dlen \in Nat /\ tok.done \in Nat /\ tok.len \in Nat /\ tok.off \in Nat
      /\ tok.lit \in Seq(Bytes) /\ Len(lit) \in Nat /\ pos \in 0..Size
      /\ dec \in Tile /\ raw \in Tile
      /\ tok \in [len : Nat, off : Nat, lit : Seq(Bytes), done : Nat]
  BY DEF CodecInv, TypeInv
<1>2. /\ Start \in Nat /\ dlen = Start + tok.done /\ tok.done < tok.len
      /\ Start + tok.len + Len(lit) = pos /\ tok.off <= Start
      /\ \A i \in 0..dlen - 1 : dec[i] = raw[i]
      /\ raw[dlen] = IF tok.off = 0 THEN tok.lit[tok.done + 1] ELSE raw[dlen - tok.off]
  <2>1. /\ Start \in Nat /\ tok.done < tok.len
        /\ Start + tok.len + Len(lit) = pos /\ tok.off <= Start
        /\ \A i \in 0..dlen - 1 : dec[i] = raw[i]
    BY DEF CodecInv, TokenInv, DecodeByte, Quiet
  <2>2. dlen = Start + tok.done /\ tok.done \in 0..tok.len - 1
    BY <1>1, <2>1 DEF Start
  <2>3. \A k \in 0..tok.len - 1 :
          raw[Start + k] = IF tok.off = 0 THEN tok.lit[k + 1] ELSE raw[Start + k - tok.off]
    BY DEF CodecInv, TokenInv
  <2>4. raw[Start + tok.done] = IF tok.off = 0 THEN tok.lit[tok.done + 1]
                                ELSE raw[Start + tok.done - tok.off]
    BY <2>2, <2>3
  <2>5. Start + tok.done - tok.off = dlen - tok.off
    BY <1>1, <2>1, <2>2
  <2>6. raw[dlen] = IF tok.off = 0 THEN tok.lit[tok.done + 1] ELSE raw[dlen - tok.off]
    BY <2>2, <2>4, <2>5, Zenon
  <2> QED
    BY <2>1, <2>2, <2>6
<1>3. dlen < Size
  BY <1>1, <1>2, ConstFacts
<1>4. dec' = [dec EXCEPT ![dlen] = raw[dlen]]
  <2>1. CASE tok.off = 0
    BY <1>2, <2>1 DEF DecodeByte
  <2>2. CASE tok.off # 0
    <3>1. dlen - tok.off \in 0..dlen - 1
      BY <1>1, <1>2, <2>2
    <3>2. dec[dlen - tok.off] = raw[dlen]
      BY <1>2, <2>2, <3>1
    <3> QED
      BY <2>2, <3>2 DEF DecodeByte
  <2> QED
    BY <2>1, <2>2
<1>5. dec' \in Tile /\ \A i \in 0..dlen : dec'[i] = raw[i]
  BY <1>1, <1>2, <1>3, <1>4, ConstFacts DEF Tile
<1>6. dlen' = dlen + 1 /\ UNCHANGED <<job, enc, encoder, table, request, answer>>
  BY DEF DecodeByte
<1>7. /\ TokenInv'
      /\ tok' \in [len : Nat, off : Nat, lit : Seq(Bytes), done : Nat]
  <2> SUFFICES /\ tok' = NoToken \/ tok'.done < tok'.len
               /\ Start' \in Nat /\ Start' + tok'.len + Len(lit) = pos /\ tok'.off <= Start'
               /\ \A k \in 0..tok'.len - 1 :
                     raw[Start' + k] = IF tok'.off = 0 THEN tok'.lit[k + 1]
                                       ELSE raw[Start' + k - tok'.off]
               /\ tok' \in [len : Nat, off : Nat, lit : Seq(Bytes), done : Nat]
    <3>1. \A i \in 0..dlen' - 1 : dec'[i] = raw[i]
      BY <1>1, <1>5, <1>6
    <3>2. \A k \in 1..Len(lit) : lit[k] = raw[pos - Len(lit) + k - 1]
      BY DEF CodecInv, TokenInv
    <3>3. UNCHANGED <<pos, lit, raw>>
      BY <1>6 DEF encoder, request
    <3> QED
      BY <3>1, <3>2, <3>3 DEF TokenInv
  <2>1. CASE tok.done + 1 = tok.len
    <3>1. tok' = NoToken
      BY <2>1 DEF DecodeByte
    <3>2. /\ tok'.len = 0 /\ tok'.off = 0 /\ tok'.done = 0
          /\ tok' \in [len : Nat, off : Nat, lit : Seq(Bytes), done : Nat]
      BY <3>1 DEF NoToken
    <3>3. Start' = dlen + 1
      BY <1>1, <1>6, <3>2 DEF Start
    <3> QED
      <4>1. Start' \in Nat /\ Start' + Len(lit) = pos
        BY <1>1, <1>2, <2>1, <3>3, SMTT(30)
      <4>2. 0..tok'.len - 1 = {}
        BY <3>2
      <4>3. Start' + tok'.len + Len(lit) = pos /\ tok'.off <= Start'
        BY <1>1, <3>2, <4>1
      <4> QED
        BY <3>1, <3>2, <4>1, <4>2, <4>3
  <2>2. CASE tok.done + 1 # tok.len
    <3>1. tok' = [tok EXCEPT !.done = @ + 1]
      BY <2>2 DEF DecodeByte
    <3>2. /\ tok'.len = tok.len /\ tok'.off = tok.off /\ tok'.lit = tok.lit
          /\ tok'.done = tok.done + 1
          /\ tok' \in [len : Nat, off : Nat, lit : Seq(Bytes), done : Nat]
      BY <1>1, <3>1
    <3>3. Start' = Start
      BY <1>1, <1>6, <3>2 DEF Start
    <3>4. tok'.done < tok'.len
      BY <1>1, <1>2, <2>2, <3>2
    <3>5. \A k \in 0..tok.len - 1 :
            raw[Start + k] = IF tok.off = 0 THEN tok.lit[k + 1] ELSE raw[Start + k - tok.off]
      BY DEF CodecInv, TokenInv
    <3> QED
      BY <1>2, <3>2, <3>3, <3>4, <3>5
  <2> QED
    BY <2>1, <2>2
<1>8. TypeInv'
  BY <1>1, <1>5, <1>6, <1>7 DEF CodecInv, TypeInv, encoder, table, request, answer, Tile
<1>9. PlaceInv' /\ TableInv' /\ RoomInv' /\ AnswerInv'
  BY <1>6 DEF CodecInv, PlaceInv, TableInv, RoomInv, AnswerInv, Matching, Solid,
     Limit, Delta, Changed, encoder, table, request, answer
<1> QED
  BY <1>7, <1>8, <1>9 DEF CodecInv

-----------------------------------------------------------------------------
(* The encoder's steps. *)

(* A step that changes neither the decoder's side nor the position keeps its
   part of the invariant. *)
LEMMA TokenUntouched ==
    ASSUME CodecInv, UNCHANGED <<raw, pos, lit, tok, dec, dlen>>
    PROVE  TokenInv'
BY DEF CodecInv, TokenInv, Start

LEMMA AnswerUntouched ==
    ASSUME CodecInv, UNCHANGED <<job, request, answer>>
    PROVE  AnswerInv'
BY DEF CodecInv, AnswerInv, request, answer, Delta, Changed

(* The numbers of a state. *)
LEMMA Here ==
    ASSUME CodecInv
    PROVE  /\ pos \in Nat /\ pos <= Size /\ out \in Nat /\ best \in Nat
           /\ Len(lit) \in Nat /\ (lit = <<>> <=> Len(lit) = 0) /\ Len(lit) <= pos
           /\ RowOf(pos) \in Nat /\ StartOf(pos) \in Nat
           /\ StartOf(pos) <= pos /\ pos < StartOf(pos) + RowBytes
           /\ RowOf(pos) <= Rows
           /\ pos < Size => RowOf(pos) < Rows /\ StartOf(pos) + RowBytes <= Size
           /\ StartOf(pos) > 0 => StartOf(pos) >= RowBytes
           /\ RowOf(pos) > 0 <=> StartOf(pos) > 0
           /\ pos = Size => StartOf(pos) = pos
           /\ RowStart = StartOf(pos) /\ RowEnd = StartOf(pos) + RowBytes
           /\ Limit \in Nat
<1>1. pos \in 0..Size /\ lit \in Seq(Bytes) /\ out \in Nat /\ best \in Nat
  BY DEF CodecInv, TypeInv
<1>2. Len(lit) \in Nat /\ (lit = <<>> <=> Len(lit) = 0)
  BY <1>1, EmptySeq
<1>3. Start \in Nat /\ tok.len \in Nat /\ Start + tok.len + Len(lit) = pos
  BY DEF CodecInv, TypeInv, TokenInv
<1>4. Len(lit) <= pos
  BY <1>1, <1>2, <1>3, ConstFacts
<1>5. Limit \in Nat
  BY ConstFacts DEF Limit
<1>6. RowStart = StartOf(pos) /\ RowEnd = StartOf(pos) + RowBytes
  BY DEF RowEnd, RowStart, StartOf, RowOf
<1>7. /\ RowOf(pos) \in Nat /\ StartOf(pos) \in Nat
      /\ StartOf(pos) <= pos /\ pos < StartOf(pos) + RowBytes
      /\ RowOf(pos) <= Rows
      /\ pos < Size => RowOf(pos) < Rows /\ StartOf(pos) + RowBytes <= Size
      /\ StartOf(pos) > 0 => StartOf(pos) >= RowBytes
      /\ RowOf(pos) > 0 <=> StartOf(pos) > 0
      /\ pos = Size => StartOf(pos) = pos
  BY <1>1, RowFacts, Zenon
<1>8. pos \in Nat /\ pos <= Size
  BY <1>1, ConstFacts
<1> QED
  BY <1>1, <1>2, <1>4, <1>5, <1>6, <1>7, <1>8

LEMMA EncodeSolidKeeps == ASSUME CodecInv, EncodeSolid PROVE CodecInv'
<1> USE DEF EncodeSolid, encoder, table, decoder, request, answer
<1>1. TokenInv' /\ AnswerInv'
  BY TokenUntouched, AnswerUntouched
<1>2. TypeInv'
  BY DEF CodecInv, TypeInv, Tile
<1>3. PlaceInv' /\ TableInv' /\ RoomInv'
  BY DEF CodecInv, PlaceInv, TableInv, RoomInv, Solid, Limit
<1> QED
  BY <1>1, <1>2, <1>3 DEF CodecInv

LEMMA BumpGenerationKeeps == ASSUME CodecInv, BumpGeneration PROVE CodecInv'
<1> USE DEF BumpGeneration, encoder, decoder, request, answer
<1>1. TokenInv' /\ AnswerInv'
  BY TokenUntouched, AnswerUntouched
<1>2. /\ current_gen' \in Nat /\ current_gen' < GenMod
      /\ htab' \in [Slots -> [gen : Nat, pos : Nat]]
      /\ \A h \in Slots : htab'[h].gen < current_gen'
  <2>1. /\ current_gen \in Nat /\ current_gen < GenMod
        /\ htab \in [Slots -> [gen : Nat, pos : Nat]]
        /\ \A h \in Slots : htab[h].gen <= current_gen
    BY DEF CodecInv, TypeInv, TableInv
  <2>2. CASE current_gen + 1 = GenMod
    BY <2>1, <2>2, ConstFacts
  <2>3. CASE current_gen + 1 # GenMod
    BY <2>1, <2>3, ConstFacts
  <2> QED
    BY <2>2, <2>3
<1>3. TypeInv'
  BY <1>2 DEF CodecInv, TypeInv, Tile
<1>4. \A h \in Slots : htab'[h].gen <= current_gen' /\ htab'[h].gen # current_gen'
  BY <1>2
<1>5. TableInv'
  BY <1>2, <1>4 DEF TableInv
<1>6. pos = 0 /\ lit = <<>> /\ out = 0
  BY DEF CodecInv, PlaceInv
<1>7. RowOf(pos) \in Nat /\ StartOf(pos) = 0 /\ Len(<<>>) = 0
  BY <1>6, RowFacts, ConstFacts
<1>8. PlaceInv'
  BY <1>6, <1>7 DEF PlaceInv
<1>9. RoomInv'
  BY <1>6, <1>7 DEF CodecInv, RoomInv, Limit
<1> QED
  BY <1>1, <1>3, <1>5, <1>8, <1>9 DEF CodecInv

LEMMA StartRowCopyKeeps == ASSUME CodecInv, StartRowCopy PROVE CodecInv'
<1> USE DEF StartRowCopy, encoder, table, decoder, request, answer
<1>1. TokenInv' /\ AnswerInv'
  BY TokenUntouched, AnswerUntouched
<1>2. TypeInv'
  BY DEF CodecInv, TypeInv, Tile
<1>3. pos = StartOf(pos) /\ pos > 0 /\ pos < Size
      /\ \A i \in StartOf(pos)..StartOf(pos) + RowBytes - 1 : raw[i] = raw[i - RowBytes]
  <2>1. /\ RowStart = StartOf(pos) /\ RowEnd = StartOf(pos) + RowBytes
        /\ StartOf(pos) \in Nat /\ RowBytes \in Nat
    BY Here, ConstFacts
  <2>2. pos < Size /\ pos = RowStart /\ pos > 0
        /\ \A i \in RowStart..RowEnd - 1 : raw[i] = raw[i - RowBytes]
    BY DEF SameRow
  <2> QED
    BY <2>1, <2>2
<1>4. lit = <<>>
  BY <1>3, Here DEF CodecInv, PlaceInv
<1>5. PlaceInv'
  BY <1>3, <1>4 DEF PlaceInv
<1>6. TableInv' /\ RoomInv'
  BY DEF CodecInv, TableInv, RoomInv, Limit
<1> QED
  BY <1>1, <1>2, <1>5, <1>6 DEF CodecInv

LEMMA OutOfRoomKeeps == ASSUME CodecInv, OutOfRoom PROVE CodecInv'
<1> USE DEF OutOfRoom, NoRoom, encoder, table, decoder, request, answer
<1>1. TokenInv' /\ AnswerInv'
  BY TokenUntouched, AnswerUntouched
<1>2. TypeInv' /\ PlaceInv' /\ TableInv'
  BY DEF CodecInv, TypeInv, PlaceInv, TableInv, Tile
<1>3. Rows \in Nat /\ Size \in Nat
  BY ConstFacts
<1>5. Limit < Size + Rows
  <2>1. CASE enc = "row" /\ out + 2 > Limit
    <3>1. pos < Size /\ out <= pos - Len(lit) + RowOf(pos)
      BY <2>1 DEF CodecInv, PlaceInv, RoomInv
    <3> QED
      BY <1>3, Here, <2>1, <3>1, ConstFacts
  <2>2. CASE enc = "flush" /\ out + 1 + Len(lit) > Limit
    <3>1. out < pos - Len(lit) + RowOf(pos)
      BY <2>2 DEF CodecInv, RoomInv
    <3> QED
      BY <1>3, Here, <2>2, <3>1, ConstFacts
  <2>3. CASE enc = "match" /\ lit # <<>> /\ out + 1 + Len(lit) > Limit
    <3>1. pos < Size /\ out <= pos - Len(lit) + RowOf(pos)
      BY <2>3 DEF CodecInv, PlaceInv, RoomInv
    <3> QED
      BY <1>3, Here, <2>3, <3>1, ConstFacts
  <2>4. CASE enc = "match" /\ lit = <<>> /\ out + 2 > Limit
    <3>1. /\ pos < Size /\ best >= 3 /\ pos + best <= StartOf(pos) + RowBytes
          /\ out <= pos - Len(lit) + RowOf(pos) + 1
      BY <2>4, ConstFacts DEF CodecInv, PlaceInv, RoomInv
    <3> QED
      BY <1>3, Here, <2>4, <3>1, ConstFacts
  <2> QED
    BY <2>1, <2>2, <2>3, <2>4
<1>6. ~Room(Limit) /\ Limit' = Limit
  BY <1>3, <1>5, Here DEF Room, Limit
<1>7. RoomInv'
  BY <1>6 DEF CodecInv, RoomInv
<1> QED
  BY <1>1, <1>2, <1>7 DEF CodecInv

(* A copy inside the row: where it ends, and what it leaves of the row. *)
LEMMA RowCut ==
    ASSUME CodecInv, pos < Size, NEW len \in Nat \ {0}, pos + len <= StartOf(pos) + RowBytes
    PROVE  /\ pos + len \in Nat /\ pos + len <= Size
           /\ pos + len < StartOf(pos) + RowBytes
                => RowOf(pos + len) = RowOf(pos) /\ StartOf(pos + len) = StartOf(pos)
           /\ pos + len = StartOf(pos) + RowBytes
                => RowOf(pos + len) = RowOf(pos) + 1 /\ StartOf(pos + len) = pos + len
           /\ StartOf(pos + len) <= pos + len
<1> DEFINE r == pos + len
<1>1. /\ pos \in Nat /\ StartOf(pos) \in Nat /\ StartOf(pos) <= pos /\ pos <= Size
      /\ StartOf(pos) + RowBytes <= Size /\ RowBytes \in Nat /\ Size \in Nat
  BY Here, ConstFacts
<1>2. pos \in 0..Size /\ r \in Nat /\ StartOf(pos) <= r /\ r <= Size /\ r \in 0..Size
  BY <1>1
<1> HIDE DEF r
<1>3. /\ r < StartOf(pos) + RowBytes => RowOf(r) = RowOf(pos) /\ StartOf(r) = StartOf(pos)
      /\ r = StartOf(pos) + RowBytes => RowOf(r) = RowOf(pos) + 1 /\ StartOf(r) = r
  BY <1>2, RowNext, Zenon
<1>4. StartOf(r) <= r
  BY <1>2, RowFacts, Zenon
<1> QED
  BY <1>2, <1>3, <1>4 DEF r

LEMMA TypeAfterToken ==
    ASSUME CodecInv, UNCHANGED <<job, best, boff, table, dec, dlen, request, answer>>,
           enc' \in {"solid", "scan", "row", "match"}, pos' \in Nat, pos' <= Size,
           lit' = <<>>, out' \in Nat,
           tok' \in [len : Nat, off : Nat, lit : Seq(Bytes), done : Nat]
    PROVE  TypeInv'
<1>1. pos' \in 0..Size
  BY ConstFacts
<1>2. lit' \in Seq(Bytes)
  OBVIOUS
<1> QED
  BY <1>1, <1>2 DEF CodecInv, TypeInv, Tile, table, request, answer

LEMMA RowTokenKeeps == ASSUME CodecInv, RowToken PROVE CodecInv'
<1> DEFINE len == Shorter(MaxMatch, RowEnd - pos)
<1>1. /\ Quiet /\ enc = "row" /\ lit = <<>> /\ pos < Size /\ StartOf(pos) > 0
      /\ \A i \in StartOf(pos)..StartOf(pos) + RowBytes - 1 : raw[i] = raw[i - RowBytes]
      /\ out <= pos - Len(lit) + RowOf(pos)
  BY DEF RowToken, Encoding, CodecInv, PlaceInv, RoomInv
<1>2. /\ len \in Nat \ {0} /\ pos + len <= StartOf(pos) + RowBytes
      /\ len >= 2 \/ pos + len = StartOf(pos) + RowBytes
  BY <1>1, Here, ConstFacts DEF Shorter
<1> HIDE DEF len
<1>3. Matching(len, RowBytes) /\ RowBytes \in 1..pos
  <2>1. RowBytes \in 1..pos
    BY <1>1, Here, ConstFacts
  <2>2. ASSUME NEW k \in 0..len - 1
        PROVE  raw[pos + k] = raw[pos + k - RowBytes]
    <3> DEFINE i == pos + k
    <3>1. i \in StartOf(pos)..StartOf(pos) + RowBytes - 1
      BY <1>2, Here, ConstFacts
    <3> HIDE DEF i
    <3>2. raw[i] = raw[i - RowBytes]
      BY <1>1, <3>1
    <3>3. i - RowBytes = pos + k - RowBytes
      BY Here, ConstFacts DEF i
    <3> QED
      BY <3>2, <3>3 DEF i
  <2> QED
    BY <2>1, <2>2 DEF Matching
<1>4. /\ Write(len, RowBytes, <<>>) /\ pos' = pos + len /\ out' = out + 2
      /\ enc' = IF pos + len = StartOf(pos) + RowBytes THEN "scan" ELSE "row"
      /\ out + 2 <= Limit /\ job # "idle"
      /\ UNCHANGED <<job, lit, best, boff, table, dec, dlen, request, answer>>
  BY Here DEF RowToken, Encoding, len
<1>5. TokenInv' /\ tok' \in [len : Nat, off : Nat, lit : Seq(Bytes), done : Nat]
  BY <1>1, <1>2, <1>3, <1>4, CopyWritten DEF request
<1>6. /\ pos' \in Nat /\ pos' <= Size /\ pos < pos' /\ StartOf(pos') <= pos'
      /\ pos' < StartOf(pos) + RowBytes
           => RowOf(pos') = RowOf(pos) /\ StartOf(pos') = StartOf(pos)
      /\ pos' = StartOf(pos) + RowBytes
           => RowOf(pos') = RowOf(pos) + 1 /\ StartOf(pos') = pos'
  BY <1>1, <1>2, <1>4, RowCut, Here
<1>7. TypeInv'
  <2>1. out' \in Nat /\ lit' = <<>> /\ enc' \in {"solid", "scan", "row", "match"}
    BY <1>1, <1>4, Here
  <2> QED
    BY <1>4, <1>5, <1>6, <2>1, TypeAfterToken
<1>8. Len(lit) = 0 /\ lit' = <<>>
  BY <1>1, <1>4
<1>9. PlaceInv'
  <2>1. CASE pos' = StartOf(pos) + RowBytes
    BY <1>4, <1>6, <1>8, <2>1, Here DEF PlaceInv, request
  <2>2. CASE pos' # StartOf(pos) + RowBytes
    <3>1. pos' < StartOf(pos) + RowBytes /\ enc' = "row" /\ pos' < Size
      <4>1. /\ StartOf(pos) \in Nat /\ RowBytes \in Nat /\ Size \in Nat
            /\ StartOf(pos) + RowBytes <= Size
        BY <1>1, Here, ConstFacts
      <4>2. pos' = pos + len /\ pos + len <= StartOf(pos) + RowBytes
        BY <1>2, <1>4
      <4>3. pos' < StartOf(pos) + RowBytes
        BY <1>6, <2>2, <4>1, <4>2
      <4>4. enc' = "row"
        BY <1>4, <2>2, <4>2
      <4> QED
        BY <1>6, <4>1, <4>3, <4>4
    <3> QED
      BY <1>1, <1>4, <1>6, <1>8, <3>1 DEF PlaceInv, request
  <2> QED
    BY <2>1, <2>2
<1>10. TableInv'
  BY <1>1, <1>4, <1>6, Here DEF CodecInv, TypeInv, TableInv, table
<1>11. Limit' = Limit
  BY <1>4 DEF Limit
<1>12. RoomInv'
  <2>1. out' <= pos' + RowOf(pos')
    <3>1. out \in Nat /\ pos \in Nat /\ RowOf(pos) \in Nat /\ out <= pos + RowOf(pos)
      BY <1>1, <1>8, Here
    <3>2. CASE pos + len = StartOf(pos) + RowBytes
      BY <1>2, <1>4, <1>6, <3>1, <3>2
    <3>3. CASE pos + len # StartOf(pos) + RowBytes
      <4>1. len >= 2 /\ pos' < StartOf(pos) + RowBytes
        BY <1>2, <1>4, <3>1, <3>3, Here, ConstFacts
      <4> QED
        BY <1>2, <1>4, <1>6, <3>1, <4>1
    <3> QED
      BY <3>2, <3>3
  <2>2. enc' \in {"scan", "row"} /\ Len(lit') = 0
    BY <1>4, <1>8
  <2> QED
    BY <1>4, <1>6, <1>11, <2>1, <2>2, Here DEF RoomInv
<1>13. AnswerInv'
  BY <1>4, AnswerUntouched
<1> QED
  BY <1>5, <1>7, <1>9, <1>10, <1>12, <1>13 DEF CodecInv

LEMMA MatchTokenKeeps == ASSUME CodecInv, MatchToken PROVE CodecInv'
<1>1. /\ Quiet /\ enc = "match" /\ lit = <<>> /\ pos < Size
      /\ best >= 3 /\ pos + best <= StartOf(pos) + RowBytes
      /\ boff \in 1..pos /\ Matching(best, boff)
      /\ out <= pos - Len(lit) + RowOf(pos) + 1
  BY ConstFacts DEF MatchToken, Encoding, CodecInv, PlaceInv, RoomInv
<1>2. best \in Nat \ {0} /\ Len(lit) = 0
  BY <1>1, Here
<1>3. /\ Write(best, boff, <<>>) /\ pos' = pos + best /\ out' = out + 2 /\ enc' = "scan"
      /\ out + 2 <= Limit /\ job # "idle"
      /\ UNCHANGED <<job, lit, best, boff, table, dec, dlen, request, answer>>
  BY DEF MatchToken, Encoding
<1>4. TokenInv' /\ tok' \in [len : Nat, off : Nat, lit : Seq(Bytes), done : Nat]
  BY <1>1, <1>2, <1>3, CopyWritten DEF request
<1>5. /\ pos' \in Nat /\ pos' <= Size /\ pos < pos' /\ StartOf(pos') <= pos'
      /\ RowOf(pos') = RowOf(pos) \/ RowOf(pos') = RowOf(pos) + 1
  <2>1. /\ pos + best \in Nat /\ pos + best <= Size /\ StartOf(pos + best) <= pos + best
        /\ RowOf(pos + best) = RowOf(pos) \/ RowOf(pos + best) = RowOf(pos) + 1
    <3>1. CASE pos + best = StartOf(pos) + RowBytes
      BY <1>1, <1>2, <3>1, RowCut
    <3>2. CASE pos + best # StartOf(pos) + RowBytes
      <4>1. pos + best < StartOf(pos) + RowBytes
        BY <1>1, <1>2, <3>2, Here, ConstFacts
      <4> QED
        BY <1>1, <1>2, <4>1, RowCut
    <3> QED
      BY <3>1, <3>2
  <2> QED
    BY <1>2, <1>3, <2>1, Here
<1>6. TypeInv'
  <2>1. out' \in Nat /\ lit' = <<>> /\ enc' \in {"solid", "scan", "row", "match"}
    BY <1>1, <1>3, Here
  <2> QED
    BY <1>3, <1>4, <1>5, <2>1, TypeAfterToken
<1>7. PlaceInv'
  <2>1. Len(lit') = 0
    BY <1>2, <1>3
  <2>2. Len(lit') <= pos' - StartOf(pos')
    <3>1. StartOf(pos') \in Nat
      BY <1>5, RowFacts, ConstFacts
    <3> QED
      BY <1>5, <2>1, <3>1
  <2> QED
    BY <1>3, <2>2 DEF PlaceInv
<1>8. TableInv'
  <2>1. /\ current_gen < GenMod
        /\ \A h \in Slots : htab[h].gen <= current_gen
        /\ \A h \in Slots : htab[h].gen = current_gen => htab[h].pos <= pos
    <3>1. \A h \in Slots : htab[h].pos \in Nat
      BY DEF CodecInv, TypeInv
    <3> QED
      BY <1>1, <3>1, Here DEF CodecInv, TableInv
  <2>2. \A h \in Slots : htab[h].gen = current_gen => htab[h].pos < pos'
    <3>1. \A h \in Slots : htab[h].pos \in Nat
      BY DEF CodecInv, TypeInv
    <3> QED
      BY <1>5, <2>1, <3>1, Here
  <2> QED
    BY <1>3, <2>1, <2>2 DEF TableInv, table
<1>9. RoomInv'
  <2>1. Limit' = Limit /\ Len(lit') = 0
    BY <1>2, <1>3 DEF Limit
  <2>2. out' <= pos' + RowOf(pos')
    BY <1>1, <1>2, <1>3, <1>5, Here
  <2> QED
    BY <1>3, <1>5, <2>1, <2>2, Here DEF RoomInv
<1>10. AnswerInv'
  BY <1>3, AnswerUntouched
<1> QED
  BY <1>4, <1>6, <1>7, <1>8, <1>9, <1>10 DEF CodecInv

LEMMA LiteralTokenKeeps == ASSUME CodecInv, LiteralToken PROVE CodecInv'
<1>1. /\ Quiet /\ enc \in {"flush", "match"} /\ lit # <<>> /\ job # "idle"
      /\ Write(Len(lit), 0, lit) /\ out' = out + 1 + Len(lit) /\ lit' = <<>>
      /\ out + 1 + Len(lit) <= Limit
      /\ enc' = IF enc = "flush" THEN "scan" ELSE "match"
      /\ UNCHANGED <<job, pos, best, boff, table, dec, dlen, request, answer>>
  BY DEF LiteralToken, Encoding
<1>2. lit \in Seq(Bytes) /\ Len(lit) > 0 /\ pos = dlen + Len(lit) /\ dlen \in Nat
  BY <1>1, Here, Caught DEF CodecInv, TypeInv
<1>3. \A k \in 0..Len(lit) - 1 : raw[dlen + k] = lit[k + 1]
  <2>1. \A k \in 1..Len(lit) : lit[k] = raw[pos - Len(lit) + k - 1]
    BY DEF CodecInv, TokenInv
  <2> SUFFICES ASSUME NEW k \in 0..Len(lit) - 1 PROVE raw[dlen + k] = lit[k + 1]
    OBVIOUS
  <2>2. k + 1 \in 1..Len(lit) /\ pos - Len(lit) + (k + 1) - 1 = dlen + k
    BY <1>2, Here
  <2> QED
    BY <2>1, <2>2
<1>4. TokenInv' /\ tok' \in [len : Nat, off : Nat, lit : Seq(Bytes), done : Nat]
  BY <1>1, <1>2, <1>3, LiteralsWritten DEF request
<1>5. TypeInv'
  <2>1. out' \in Nat /\ pos' \in Nat /\ pos' <= Size
    BY <1>1, Here
  <2> QED
    BY <1>1, <1>4, <2>1, TypeAfterToken
<1>6. Len(lit') = 0 /\ UNCHANGED <<pos, raw, htab, current_gen>>
  BY <1>1 DEF table, request
<1>7. PlaceInv'
  <2>1. CASE enc = "flush"
    BY <1>1, <1>6, <2>1, Here DEF PlaceInv
  <2>2. CASE enc = "match"
    BY <1>1, <1>6, <2>2, Here DEF CodecInv, PlaceInv, Matching
  <2> QED
    BY <1>1, <2>1, <2>2
<1>8. TableInv'
  BY <1>1, <1>6 DEF CodecInv, TableInv
<1>9. RoomInv'
  <2>1. Limit' = Limit
    BY <1>1 DEF Limit
  <2>2. CASE enc = "flush"
    <3>1. out < pos - Len(lit) + RowOf(pos)
      BY <2>2 DEF CodecInv, RoomInv
    <3>2. out' <= pos' - Len(lit') + RowOf(pos')
      BY <1>1, <1>6, <3>1, Here
    <3> QED
      BY <1>1, <2>1, <2>2, <3>2, Here DEF RoomInv
  <2>3. CASE enc = "match"
    <3>1. out <= pos - Len(lit) + RowOf(pos)
      BY <1>1, <2>3 DEF CodecInv, RoomInv
    <3>2. out' <= pos' - Len(lit') + RowOf(pos') + 1
      BY <1>1, <1>6, <3>1, Here
    <3> QED
      BY <1>1, <2>1, <2>3, <3>2, Here DEF RoomInv
  <2> QED
    BY <1>1, <2>2, <2>3
<1>10. AnswerInv'
  BY <1>1, AnswerUntouched
<1> QED
  BY <1>4, <1>5, <1>7, <1>8, <1>9, <1>10 DEF CodecInv

(* The first pixel of a solid tile, and the copies of it. *)
LEMMA SolidTokenKeeps == ASSUME CodecInv, SolidToken PROVE CodecInv'
<1> DEFINE len == IF pos = 0 THEN PixelBytes ELSE Shorter(MaxMatch, RowEnd - pos)
<1>1. /\ Quiet /\ enc = "solid" /\ Solid /\ lit = <<>> /\ Len(lit) = 0
      /\ pos < Size /\ job # "idle"
      /\ \/ pos = 0 /\ out = 0
         \/ pos = PixelBytes /\ out = 1 + PixelBytes
         \/ pos = PixelBytes + MaxMatch /\ out = 3 + PixelBytes
         \/ /\ RowOf(pos) > 0 /\ pos = StartOf(pos)
            /\ out <= 1 + PixelBytes + 4 * RowOf(pos)
         \/ /\ RowOf(pos) > 0 /\ pos = StartOf(pos) + MaxMatch
            /\ out <= 3 + PixelBytes + 4 * RowOf(pos)
  BY Here DEF SolidToken, Encoding, CodecInv, PlaceInv, RoomInv
<1>2. /\ pos' = pos + len /\ out' = out + (IF pos = 0 THEN 1 + PixelBytes ELSE 2)
      /\ pos = 0 => Write(len, 0, [k \in 1..len |-> raw[k - 1]])
      /\ pos # 0 => Write(len, IF pos < RowBytes THEN PixelBytes ELSE RowBytes, <<>>)
      /\ UNCHANGED <<job, enc, lit, best, boff, table, dec, dlen, request, answer>>
  BY DEF SolidToken
<1>3. /\ len \in Nat \ {0} /\ pos + len <= StartOf(pos) + RowBytes
      /\ pos = 0 => len = PixelBytes
      /\ pos # 0 => len = Shorter(MaxMatch, RowEnd - pos)
  <2>1. /\ pos \in Nat /\ StartOf(pos) \in Nat /\ pos < StartOf(pos) + RowBytes
        /\ RowEnd = StartOf(pos) + RowBytes /\ RowBytes \in Nat
    BY Here, ConstFacts
  <2>2. CASE pos = 0
    BY <2>1, <2>2, ConstFacts
  <2>3. CASE pos # 0
    <3>1. Shorter(MaxMatch, RowEnd - pos) \in Nat \ {0}
          /\ pos + Shorter(MaxMatch, RowEnd - pos) <= RowEnd
      BY <2>1, ConstFacts DEF Shorter
    <3> QED
      BY <2>1, <2>3, <3>1
  <2> QED
    BY <2>2, <2>3
<1> HIDE DEF len
<1>4. TokenInv' /\ tok' \in [len : Nat, off : Nat, lit : Seq(Bytes), done : Nat]
  <2>1. CASE pos = 0
    <3> DEFINE first == [k \in 1..len |-> raw[k - 1]]
    <3>1. first \in Seq(Bytes) /\ Len(first) = len /\ first # <<>>
      <4>1. \A k \in 1..len : raw[k - 1] \in Bytes
        <5>1. raw \in Tile /\ len <= Size
          BY <1>3, <2>1, Here, ConstFacts DEF CodecInv, TypeInv
        <5> QED
          BY <1>3, <5>1, ConstFacts DEF Tile
      <4>2. first \in [1..len -> Bytes]
        BY <4>1
      <4>3. first \in Seq(Bytes) /\ Len(first) = len
        BY <1>3, <4>2
      <4> HIDE DEF first
      <4> QED
        BY <1>3, <4>3, EmptySeq
    <3>2. dlen = 0
      BY <1>1, <2>1, Caught
    <3>3. \A k \in 0..len - 1 : raw[dlen + k] = first[k + 1]
      BY <1>3, <3>2
    <3>4. Write(Len(first), 0, first) /\ pos' = dlen + Len(first) /\ lit' = <<>>
      BY <1>1, <1>2, <1>3, <2>1, <3>1, <3>2
    <3> HIDE DEF first
    <3> QED
      BY <1>1, <1>2, <3>1, <3>3, <3>4, LiteralsWritten DEF request
  <2>2. CASE pos # 0
    <3> DEFINE off == IF pos < RowBytes THEN PixelBytes ELSE RowBytes
    <3>1. off \in 1..pos
      BY <1>1, <2>2, Here, ConstFacts
    <3>2. ASSUME NEW k \in 0..len - 1 PROVE raw[pos + k] = raw[pos + k - off]
      <4> DEFINE i == pos + k
      <4>1. i \in off..Size - 1
        <5>1. /\ pos \in Nat /\ Size \in Nat /\ off \in Nat /\ off <= pos
              /\ pos + len <= Size
          BY <1>1, <1>3, <3>1, Here, RowCut, ConstFacts
        <5> QED
          BY <1>3, <5>1
      <4>2. i - off = pos + k - off
        BY <3>1, Here
      <4>3. raw[i] = raw[i - off]
        <5> HIDE DEF i
        <5>1. CASE pos < RowBytes
          BY <1>1, <4>1, <5>1 DEF Solid
        <5>2. CASE ~(pos < RowBytes)
          BY <1>1, <4>1, <5>2, SolidRows
        <5> QED
          BY <5>1, <5>2
      <4> QED
        BY <4>2, <4>3
    <3> HIDE DEF off
    <3>3. Matching(len, off)
      BY <3>2 DEF Matching
    <3>4. Write(len, off, <<>>)
      BY <1>2, <2>2 DEF off
    <3> QED
      BY <1>1, <1>2, <1>3, <3>1, <3>3, <3>4, CopyWritten DEF request
  <2> QED
    BY <2>1, <2>2
<1>5. pos' \in Nat /\ pos' <= Size /\ out' \in Nat
  <2>1. pos + len \in Nat /\ pos + len <= Size
    BY <1>1, <1>3, RowCut
  <2>2. out \in Nat /\ PixelBytes \in Nat
    BY Here, ConstFacts
  <2>3. out' \in Nat
    BY <1>2, <2>2
  <2> QED
    BY <1>2, <2>1, <2>3
<1>6. TypeInv' /\ PlaceInv' /\ AnswerInv'
  <2>1. TypeInv'
    BY <1>1, <1>2, <1>4, <1>5, TypeAfterToken
  <2>2. AnswerInv'
    BY <1>2, AnswerUntouched
  <2> QED
    BY <1>1, <1>2, <2>1, <2>2 DEF PlaceInv, Solid, request
<1>7. TableInv'
  BY <1>1, <1>2 DEF CodecInv, TableInv, table
<1>8. /\ RowOf(0) = 0 /\ StartOf(0) = 0
      /\ pos > 0 /\ pos < RowBytes => RowOf(pos) = 0 /\ StartOf(pos) = 0
  <2>1. 0 \in 0..Size /\ RowBytes \in Nat /\ RowBytes > 0
    BY ConstFacts
  <2>2. StartOf(0) \in Nat /\ StartOf(0) <= 0 /\ RowOf(0) \in Nat
        /\ (RowOf(0) > 0 <=> StartOf(0) > 0)
    BY <2>1, RowFacts, Zenon
  <2>3. RowOf(0) = 0 /\ StartOf(0) = 0
    BY <2>2
  <2>4. pos < RowBytes => RowOf(pos) = 0 /\ StartOf(pos) = 0
    BY <2>1, Here
  <2> QED
    BY <2>3, <2>4
<1>9. \/ pos' = PixelBytes /\ out' = 1 + PixelBytes
      \/ pos' = PixelBytes + MaxMatch /\ out' = 3 + PixelBytes
      \/ /\ RowOf(pos') > 0 /\ pos' = StartOf(pos')
         /\ out' <= 1 + PixelBytes + 4 * RowOf(pos')
      \/ /\ RowOf(pos') > 0 /\ pos' = StartOf(pos') + MaxMatch
         /\ out' <= 3 + PixelBytes + 4 * RowOf(pos')
  <2>1. CASE pos = 0
    <3>1. out = 0
      BY <1>1, <2>1, <1>8, ConstFacts
    <3> QED
      BY <1>2, <1>3, <2>1, <3>1, ConstFacts
  <2>2. ASSUME pos + len = StartOf(pos) + RowBytes
        PROVE  RowOf(pos') = RowOf(pos) + 1 /\ StartOf(pos') = pos'
    BY <1>1, <1>2, <1>3, <2>2, RowCut
  <2>3. ASSUME pos + len < StartOf(pos) + RowBytes
        PROVE  RowOf(pos') = RowOf(pos) /\ StartOf(pos') = StartOf(pos)
    BY <1>1, <1>2, <1>3, <2>3, RowCut
  <2>4. /\ RowOf(pos) \in Nat /\ out \in Nat /\ pos \in Nat /\ StartOf(pos) \in Nat
        /\ RowEnd = StartOf(pos) + RowBytes
    BY Here
  <2>5. CASE pos = PixelBytes /\ out = 1 + PixelBytes
    <3>1. StartOf(pos) = 0 /\ len = MaxMatch /\ pos # 0
      BY <1>3, <1>8, <2>4, <2>5, ConstFacts DEF Shorter
    <3> QED
      BY <1>2, <2>4, <2>5, <3>1, ConstFacts
  <2>6. CASE pos = PixelBytes + MaxMatch /\ out = 3 + PixelBytes
    <3>1. StartOf(pos) = 0 /\ RowOf(pos) = 0 /\ pos # 0
      BY <1>8, <2>4, <2>6, ConstFacts
    <3>2. pos + len = RowBytes
      BY <1>3, <2>4, <2>6, <3>1, ConstFacts DEF Shorter
    <3> QED
      BY <1>2, <2>2, <2>4, <2>6, <3>1, <3>2, ConstFacts
  <2>7. CASE /\ RowOf(pos) > 0 /\ pos = StartOf(pos)
             /\ out <= 1 + PixelBytes + 4 * RowOf(pos)
    <3>1. len = MaxMatch /\ pos # 0
      BY <1>3, <2>4, <2>7, Here, ConstFacts DEF Shorter
    <3>2. RowOf(pos') = RowOf(pos) /\ StartOf(pos') = StartOf(pos)
      BY <2>3, <2>4, <2>7, <3>1, ConstFacts
    <3>3. pos' = StartOf(pos') + MaxMatch
      BY <1>2, <2>7, <3>1, <3>2
    <3>4. out' <= 3 + PixelBytes + 4 * RowOf(pos')
      <4> DEFINE q == RowOf(pos)
      <4>1. q \in Nat /\ out <= 1 + PixelBytes + 4 * q /\ out' = out + 2 /\ RowOf(pos') = q
        BY <1>2, <2>4, <2>7, <3>1, <3>2
      <4> HIDE DEF q
      <4> QED
        BY <4>1, <2>4, ConstFacts
    <3> QED
      BY <2>7, <3>2, <3>3, <3>4
  <2>8. CASE /\ RowOf(pos) > 0 /\ pos = StartOf(pos) + MaxMatch
             /\ out <= 3 + PixelBytes + 4 * RowOf(pos)
    <3>1. pos # 0 /\ pos + len = StartOf(pos) + RowBytes
      BY <1>3, <2>4, <2>8, ConstFacts DEF Shorter
    <3>2. RowOf(pos') = RowOf(pos) + 1 /\ StartOf(pos') = pos'
      BY <2>2, <3>1
    <3>3. out' <= 1 + PixelBytes + 4 * RowOf(pos') /\ RowOf(pos') > 0
      <4> DEFINE q == RowOf(pos)
      <4>1. /\ q \in Nat /\ out <= 3 + PixelBytes + 4 * q /\ out' = out + 2
            /\ RowOf(pos') = q + 1
        BY <1>2, <2>4, <2>8, <3>1, <3>2
      <4> HIDE DEF q
      <4> QED
        BY <4>1, <2>4, ConstFacts
    <3> QED
      BY <3>2, <3>3
  <2> QED
    BY <1>1, <2>1, <2>5, <2>6, <2>7, <2>8
<1>10. out' <= Limit
  <2>1. RowOf(pos') \in Nat /\ RowOf(pos') <= Rows
    BY <1>5, RowFacts, ConstFacts
  <2>2. pos' = StartOf(pos') + MaxMatch => RowOf(pos') < Rows
    <3>1. pos' \in 0..Size
      BY <1>5, ConstFacts
    <3>2. pos' = Size => StartOf(pos') = pos'
      BY <3>1, RowFacts
    <3>3. pos' < Size => RowOf(pos') < Rows
      BY <3>1, RowFacts
    <3>4. StartOf(pos') \in Nat
      BY <3>1, RowFacts
    <3> QED
      BY <1>5, <3>2, <3>3, <3>4, ConstFacts
  <2>3. Limit \in Nat /\ 1 + PixelBytes + 4 * Rows <= Limit
    BY CodecAssumption, ConstFacts DEF Limit
  <2> QED
    BY <1>5, <1>9, <2>1, <2>2, <2>3, ConstFacts
<1>11. RoomInv'
  <2>1. Limit' = Limit /\ enc' = "solid"
    BY <1>1, <1>2 DEF Limit
  <2> QED
    BY <1>9, <1>10, <2>1 DEF RoomInv
<1> QED
  BY <1>4, <1>6, <1>7, <1>11 DEF CodecInv

LEMMA RememberKeeps ==
    ASSUME CodecInv, enc = "scan", pos < Size, Remember
    PROVE  /\ htab' \in [Slots -> [gen : Nat, pos : Nat]]
           /\ \A h \in Slots : /\ htab'[h].gen <= current_gen
                               /\ htab'[h].gen = current_gen => htab'[h].pos <= pos
<1>1. /\ htab \in [Slots -> [gen : Nat, pos : Nat]] /\ current_gen \in Nat /\ pos \in Nat
      /\ \A h \in Slots : /\ htab[h].gen <= current_gen
                          /\ htab[h].gen = current_gen => htab[h].pos < pos
  BY Here DEF CodecInv, TypeInv, TableInv
<1>2. CASE ~Searched
  BY <1>1, <1>2 DEF Remember
<1>3. CASE Searched
  <2>1. Slot \in Slots
    BY <1>3, SlotInTable DEF CodecInv
  <2>2. htab' = [htab EXCEPT ![Slot] = [gen |-> current_gen, pos |-> pos]]
    BY <1>3 DEF Remember
  <2> QED
    BY <1>1, <2>1, <2>2
<1> QED
  BY <1>2, <1>3

LEMMA ScanMatchKeeps == ASSUME CodecInv, ScanMatch PROVE CodecInv'
<1>1. /\ enc = "scan" /\ pos < Size /\ Found[1] >= MinMatch /\ Remember
      /\ best' = Found[1] /\ boff' = Found[2] /\ enc' = "match"
      /\ UNCHANGED <<job, pos, lit, out, current_gen, decoder, request, answer>>
  BY DEF ScanMatch
<1>2. /\ Found[1] \in Nat /\ Found[2] \in Nat
      /\ pos + Found[1] <= StartOf(pos) + RowBytes
      /\ Found[2] \in 1..pos /\ Matching(Found[1], Found[2])
  BY <1>1, FoundSound DEF CodecInv
<1>3. TokenInv' /\ AnswerInv'
  BY <1>1, TokenUntouched, AnswerUntouched DEF decoder, request
<1>4. /\ htab' \in [Slots -> [gen : Nat, pos : Nat]]
      /\ \A h \in Slots : /\ htab'[h].gen <= current_gen
                          /\ htab'[h].gen = current_gen => htab'[h].pos <= pos
  BY <1>1, RememberKeeps
<1>5. TypeInv'
  BY <1>1, <1>2, <1>4 DEF CodecInv, TypeInv, Tile, decoder, request, answer
<1>6. PlaceInv'
  BY <1>1, <1>2 DEF PlaceInv, Matching, request
<1>7. TableInv'
  <2>1. current_gen < GenMod /\ pos \in Nat /\ \A h \in Slots : htab'[h].pos \in Nat
    BY <1>4, Here DEF CodecInv, TableInv
  <2>2. \A h \in Slots : htab'[h].gen = current_gen =>
           htab'[h].pos < pos \/ htab'[h].pos = pos
    BY <1>4, <2>1
  <2> QED
    BY <1>1, <1>4, <2>1, <2>2 DEF TableInv
<1>8. RoomInv'
  <2>1. out <= pos - Len(lit) + RowOf(pos) /\ (job # "idle" => out <= Limit)
    BY <1>1 DEF CodecInv, RoomInv
  <2>2. out <= pos - Len(lit) + RowOf(pos) + 1
    BY <2>1, Here
  <2> QED
    BY <1>1, <2>1, <2>2 DEF RoomInv, Limit
<1> QED
  BY <1>3, <1>5, <1>6, <1>7, <1>8 DEF CodecInv

LEMMA ScanLiteralKeeps == ASSUME CodecInv, ScanLiteral PROVE CodecInv'
<1>1. /\ enc = "scan" /\ pos < Size /\ Remember
      /\ lit' = Append(lit, raw[pos]) /\ pos' = pos + 1
      /\ enc' = IF Len(lit) + 1 = MaxLiterals \/ pos + 1 = RowEnd THEN "flush" ELSE "scan"
      /\ UNCHANGED <<job, out, best, boff, current_gen, decoder, request, answer>>
  BY DEF ScanLiteral
<1>2. /\ pos \in Nat /\ Len(lit) \in Nat /\ Len(lit) <= pos - StartOf(pos)
      /\ StartOf(pos) \in Nat /\ StartOf(pos) <= pos /\ pos < StartOf(pos) + RowBytes
      /\ RowEnd = StartOf(pos) + RowBytes /\ RowBytes \in Nat /\ RowOf(pos) \in Nat
      /\ MaxLiterals \in Nat /\ RowBytes <= MaxLiterals
      /\ out \in Nat /\ out <= pos - Len(lit) + RowOf(pos)
  BY <1>1, Here, ConstFacts DEF CodecInv, PlaceInv, RoomInv
<1>3. lit \in Seq(Bytes) /\ raw[pos] \in Bytes
  <2>1. pos \in 0..Size - 1 /\ raw \in Tile
    BY <1>1, <1>2, ConstFacts DEF CodecInv, TypeInv
  <2> QED
    BY <2>1 DEF Tile, CodecInv, TypeInv
<1>4. /\ lit' \in Seq(Bytes) /\ lit' # <<>> /\ Len(lit') = Len(lit) + 1
      /\ \A k \in 1..Len(lit) : lit'[k] = lit[k]
      /\ lit'[Len(lit) + 1] = raw[pos]
  BY <1>1, <1>3, AppendProperties
<1>5. TokenInv'
  <2>1. \A k \in 1..Len(lit') : lit'[k] = raw[pos' - Len(lit') + k - 1]
    <3>1. \A k \in 1..Len(lit) : lit[k] = raw[pos - Len(lit) + k - 1]
      BY DEF CodecInv, TokenInv
    <3> SUFFICES ASSUME NEW k \in 1..Len(lit')
                 PROVE  lit'[k] = raw[pos' - Len(lit') + k - 1]
      OBVIOUS
    <3>2. pos' - Len(lit') + k - 1 = pos - Len(lit) + k - 1
      BY <1>1, <1>2, <1>4
    <3>3. CASE k = Len(lit) + 1
      <4>1. pos - Len(lit) + k - 1 = pos
        BY <1>2, <3>3
      <4> QED
        BY <1>4, <3>2, <3>3, <4>1
    <3>4. CASE k \in 1..Len(lit)
      BY <1>4, <3>1, <3>2, <3>4
    <3> QED
      BY <1>2, <1>4, <3>3, <3>4
  <2>2. Start' = Start /\ UNCHANGED <<raw, tok, dec, dlen>>
    BY <1>1 DEF Start, decoder, request
  <2>3. Start \in Nat /\ tok.len \in Nat /\ Start + tok.len + Len(lit) = pos
    BY DEF CodecInv, TypeInv, TokenInv
  <2>4. Start' + tok'.len + Len(lit') = pos'
    <3>1. Start' = Start /\ tok'.len = tok.len /\ Len(lit') = Len(lit) + 1 /\ pos' = pos + 1
      BY <1>1, <1>4, <2>2
    <3>2. Start + tok.len + (Len(lit) + 1) = pos + 1
      <4> DEFINE a == Start
                 b == tok.len
                 c == Len(lit)
      <4>1. a \in Nat /\ b \in Nat /\ c \in Nat /\ a + b + c = pos
        BY <1>2, <2>3
      <4> HIDE DEF a, b, c
      <4>2. a + b + (c + 1) = pos + 1
        BY <1>2, <4>1
      <4> QED
        BY <4>2 DEF a, b, c
    <3> QED
      BY <3>1, <3>2
  <2> QED
    BY <2>1, <2>2, <2>4 DEF CodecInv, TokenInv
<1>6. /\ htab' \in [Slots -> [gen : Nat, pos : Nat]]
      /\ \A h \in Slots : /\ htab'[h].gen <= current_gen
                          /\ htab'[h].gen = current_gen => htab'[h].pos <= pos
  BY <1>1, RememberKeeps
<1>7. TypeInv'
  <2>1. pos' \in 0..Size
    BY <1>1, <1>2, ConstFacts
  <2> QED
    BY <1>1, <1>4, <1>6, <2>1 DEF CodecInv, TypeInv, Tile, decoder, request, answer
<1>8. /\ pos + 1 < RowEnd => RowOf(pos') = RowOf(pos) /\ StartOf(pos') = StartOf(pos)
      /\ pos + 1 = RowEnd => RowOf(pos') = RowOf(pos) + 1 /\ StartOf(pos') = pos'
  BY <1>1, <1>2, RowCut
<1>9. PlaceInv' /\ RoomInv'
  <2>1. out' = out /\ (job # "idle" => out <= Limit) /\ Limit' = Limit /\ job' = job
    BY <1>1 DEF CodecInv, RoomInv, Limit
  <2>2. CASE pos + 1 = RowEnd
    <3>1. enc' = "flush" /\ pos' = StartOf(pos') /\ RowOf(pos') = RowOf(pos) + 1
      BY <1>1, <1>8, <2>2
    <3>2. out' < pos' - Len(lit') + RowOf(pos')
      BY <1>1, <1>2, <1>4, <2>1, <3>1
    <3> QED
      BY <1>4, <2>1, <3>1, <3>2 DEF PlaceInv, RoomInv
  <2>3. CASE pos + 1 # RowEnd
    <3>1. pos + 1 < RowEnd /\ Len(lit) + 1 # MaxLiterals
      BY <1>2, <2>3
    <3>2. enc' = "scan" /\ RowOf(pos') = RowOf(pos) /\ StartOf(pos') = StartOf(pos)
      BY <1>1, <1>8, <2>3, <3>1
    <3>3. /\ Len(lit') <= pos' - StartOf(pos')
          /\ out' <= pos' - Len(lit') + RowOf(pos')
      BY <1>1, <1>2, <1>4, <2>1, <3>2
    <3> QED
      BY <2>1, <3>2, <3>3 DEF PlaceInv, RoomInv
  <2> QED
    BY <2>2, <2>3
<1>10. TableInv'
  <2>1. current_gen < GenMod /\ \A h \in Slots : htab'[h].pos \in Nat
    BY <1>6 DEF CodecInv, TableInv
  <2>2. \A h \in Slots : htab'[h].gen = current_gen => htab'[h].pos < pos'
    BY <1>1, <1>2, <1>6, <2>1
  <2> QED
    BY <1>1, <1>6, <2>1, <2>2 DEF TableInv
<1>11. AnswerInv'
  BY <1>1, AnswerUntouched
<1> QED
  BY <1>5, <1>7, <1>9, <1>10, <1>11 DEF CodecInv

-----------------------------------------------------------------------------
(* The steps of compress_tile_adaptive around the encoder. *)

LEMMA DeltaIsTile == ASSUME TypeInv PROVE Delta \in Tile
<1>1. \A i \in 0..Size - 1 : pixels[i] \in Bytes
  BY DEF TypeInv, Tile
<1> QED
  BY <1>1, BytesAssumption DEF Delta, Tile

(* An encoding starts with nothing written and nothing decoded. *)
LEMMA RestartKeeps ==
    ASSUME CodecInv, NEW b \in Tile, Restart(b), UNCHANGED table, job' # "idle"
    PROVE  /\ TokenInv' /\ PlaceInv' /\ TableInv' /\ RoomInv'
           /\ enc' = "check" /\ raw' = b /\ dec' \in Tile
           /\ pos' \in 0..Size /\ lit' \in Seq(Bytes) /\ out' \in Nat /\ best' \in Nat
           /\ boff' \in Nat /\ dlen' \in Nat
           /\ tok' \in [len : Nat, off : Nat, lit : Seq(Bytes), done : Nat]
<1>1. /\ raw' = b /\ enc' = "check" /\ pos' = 0 /\ lit' = <<>> /\ out' = 0 /\ best' = 0
      /\ boff' = 0 /\ tok' = NoToken /\ dec' = Blank /\ dlen' = 0
  BY DEF Restart
<1>2. /\ tok'.len = 0 /\ tok'.off = 0 /\ tok'.done = 0 /\ Len(lit') = 0
      /\ tok' \in [len : Nat, off : Nat, lit : Seq(Bytes), done : Nat]
  BY <1>1 DEF NoToken
<1>3. dec' \in Tile /\ pos' \in 0..Size /\ lit' \in Seq(Bytes)
  BY <1>1, BytesAssumption, ConstFacts DEF Blank, Tile
<1>4. Start' = 0
  BY <1>1, <1>2 DEF Start
<1>5. TokenInv'
  BY <1>1, <1>2, <1>4 DEF TokenInv
<1>6. PlaceInv'
  BY <1>1 DEF PlaceInv
<1>7. TableInv'
  BY <1>1 DEF CodecInv, TableInv, table
<1>8. Limit' \in Nat
  BY ConstFacts DEF Limit
<1>9. RoomInv'
  BY <1>1, <1>8 DEF RoomInv
<1> QED
  BY <1>1, <1>2, <1>3, <1>5, <1>6, <1>7, <1>9

LEMMA CompressTileKeeps == ASSUME CodecInv, CompressTile PROVE CodecInv'
<1>1. PICK t \in Tiles, p \in Prevs : pixels' = t /\ prev' = p /\ Restart(t)
  BY DEF CompressTile
<1>2. t \in Tile /\ p \in Tile
  BY BytesAssumption DEF Tile
<1>3. job' = "direct" /\ result' = 0 /\ UNCHANGED <<table, dst, dsize>>
  BY DEF CompressTile
<1>4. /\ TokenInv' /\ PlaceInv' /\ TableInv' /\ RoomInv'
      /\ enc' = "check" /\ raw' = t /\ dec' \in Tile
      /\ pos' \in 0..Size /\ lit' \in Seq(Bytes) /\ out' \in Nat /\ best' \in Nat
      /\ boff' \in Nat /\ dlen' \in Nat
      /\ tok' \in [len : Nat, off : Nat, lit : Seq(Bytes), done : Nat]
  BY <1>1, <1>2, <1>3, RestartKeeps
<1>5. TypeInv'
  <2>1. /\ dst' \in Tile /\ dsize' \in Nat /\ result' \in Int /\ current_gen' \in Nat
        /\ htab' \in [Slots -> [gen : Nat, pos : Nat]]
    BY <1>3 DEF CodecInv, TypeInv, Tile, table
  <2>2. pixels' \in Tile /\ prev' \in Tile /\ raw' \in Tile
    BY <1>1, <1>2, <1>4
  <2> QED
    BY <1>3, <1>4, <2>1, <2>2 DEF TypeInv, Tile
<1>6. AnswerInv'
  BY <1>1, <1>3, <1>4 DEF AnswerInv
<1> QED
  BY <1>4, <1>5, <1>6 DEF CodecInv

(* An encoding that ended without running out of room was decoded whole. *)
LEMMA WholeTile ==
    ASSUME CodecInv, Encoding, enc \in {"scan", "solid"}, pos = Size
    PROVE  dlen = Size /\ dec = raw
<1>1. lit = <<>>
  <2>1. enc = "scan" => Len(lit) <= pos - StartOf(pos)
    BY DEF CodecInv, PlaceInv
  <2>2. enc = "scan" => Len(lit) <= 0
    BY <2>1, Here
  <2> QED
    BY <2>2, Here DEF CodecInv, PlaceInv
<1>2. dlen = Size
  BY <1>1, Caught, Here DEF Encoding
<1>3. dec \in Tile /\ raw \in Tile /\ \A i \in 0..Size - 1 : dec[i] = raw[i]
  BY <1>2 DEF CodecInv, TypeInv, TokenInv
<1>4. dec = [i \in 0..Size - 1 |-> dec[i]] /\ raw = [i \in 0..Size - 1 |-> raw[i]]
  BY <1>3 DEF Tile
<1>5. dec = raw
  BY <1>3, <1>4, Zenon
<1> QED
  BY <1>2, <1>5

LEMMA EncodedFacts ==
    ASSUME CodecInv, Encoded
    PROVE  EncodedSize \in Nat /\ (EncodedSize > 0 => dec = raw)
<1>1. EncodedSize \in Nat
  BY Here DEF EncodedSize
<1>2. EncodedSize > 0 => enc # "full"
  BY DEF EncodedSize
<1> QED
  BY <1>1, <1>2, WholeTile DEF Encoded

LEMMA FinishDirectKeeps == ASSUME CodecInv, FinishDirect PROVE CodecInv'
<1>1. /\ job = "direct" /\ Encoded /\ dst' = dec /\ dsize' = EncodedSize
      /\ UNCHANGED <<table, pixels, prev, tiles>> /\ raw = pixels
      /\ dec \in Tile /\ pixels \in Tile /\ prev \in Tile
  BY DEF FinishDirect, CodecInv, AnswerInv, TypeInv
<1>2. EncodedSize \in Nat /\ (EncodedSize > 0 => dec = raw)
  BY <1>1, EncodedFacts
<1>3. CASE DeltaWorthTrying
  <2>1. job' = "delta" /\ Restart(Delta) /\ UNCHANGED result
    BY <1>3 DEF FinishDirect
  <2>2. Delta \in Tile /\ UNCHANGED table /\ job' # "idle"
    BY <1>1, <2>1, DeltaIsTile DEF CodecInv
  <2>3. /\ TokenInv' /\ PlaceInv' /\ TableInv' /\ RoomInv'
        /\ enc' = "check" /\ raw' = Delta /\ dec' \in Tile
        /\ pos' \in 0..Size /\ lit' \in Seq(Bytes) /\ out' \in Nat /\ best' \in Nat
        /\ boff' \in Nat /\ dlen' \in Nat
        /\ tok' \in [len : Nat, off : Nat, lit : Seq(Bytes), done : Nat]
    BY <2>1, <2>2, RestartKeeps
  <2>4. TypeInv'
    BY <1>1, <1>2, <2>1, <2>2, <2>3 DEF CodecInv, TypeInv, Tile, table
  <2>5. Delta' = Delta
    BY <1>1 DEF Delta, Changed
  <2>6. AnswerInv'
    BY <1>1, <1>2, <2>1, <2>3, <2>5 DEF AnswerInv
  <2> QED
    BY <2>3, <2>4, <2>6 DEF CodecInv
<1>4. CASE ~DeltaWorthTrying
  <2>1. job' = "idle" /\ result' = -EncodedSize /\ UNCHANGED <<raw, enc, encoder, decoder>>
    BY <1>4 DEF FinishDirect
  <2>2. TokenInv'
    BY <2>1, TokenUntouched DEF encoder, decoder
  <2>3. TypeInv'
    <3>1. result' \in Int
      BY <1>2, <2>1
    <3> QED
      BY <1>1, <1>2, <2>1, <3>1 DEF CodecInv, TypeInv, Tile, encoder, decoder, table
  <2>4. PlaceInv' /\ TableInv' /\ RoomInv'
    BY <1>1, <2>1 DEF CodecInv, PlaceInv, TableInv, RoomInv, Solid, Matching, encoder, table
  <2>5. AnswerInv'
    BY <1>1, <1>2, <2>1 DEF AnswerInv
  <2> QED
    BY <2>2, <2>3, <2>4, <2>5 DEF CodecInv
<1> QED
  BY <1>3, <1>4

LEMMA FinishDeltaKeeps == ASSUME CodecInv, FinishDelta PROVE CodecInv'
<1>1. /\ job = "delta" /\ Encoded /\ job' = "idle"
      /\ UNCHANGED <<enc, encoder, table, decoder, request, tiles>>
      /\ raw = Delta /\ (dsize > 0 => dst = pixels)
      /\ dec \in Tile /\ dst \in Tile /\ dsize \in Nat
  BY DEF FinishDelta, CodecInv, AnswerInv, TypeInv
<1>2. EncodedSize \in Nat /\ (EncodedSize > 0 => dec = raw)
  BY <1>1, EncodedFacts
<1>3. \/ EncodedSize > 0 /\ result' = EncodedSize /\ dst' = dec /\ dsize' = EncodedSize
      \/ result' = -dsize /\ UNCHANGED <<dst, dsize>>
  BY DEF FinishDelta
<1>4. TokenInv'
  BY <1>1, TokenUntouched DEF encoder, decoder, request
<1>5. TypeInv'
  <2>1. result' \in Int /\ dst' \in Tile /\ dsize' \in Nat
    BY <1>1, <1>2, <1>3
  <2> QED
    BY <1>1, <2>1 DEF CodecInv, TypeInv, Tile, encoder, decoder, table, request
<1>6. PlaceInv' /\ TableInv' /\ RoomInv'
  BY <1>1 DEF CodecInv, PlaceInv, TableInv, RoomInv, Solid, Matching, encoder, table, request
<1>7. AnswerInv'
  <2>1. Delta' = Delta /\ pixels' = pixels
    BY <1>1 DEF Delta, Changed, request
  <2>2. CASE EncodedSize > 0 /\ result' = EncodedSize /\ dst' = dec
    BY <1>1, <1>2, <2>1, <2>2 DEF AnswerInv
  <2>3. CASE result' = -dsize /\ UNCHANGED dst
    BY <1>1, <2>1, <2>3 DEF AnswerInv
  <2> QED
    BY <1>3, <2>2, <2>3
<1> QED
  BY <1>4, <1>5, <1>6, <1>7 DEF CodecInv

-----------------------------------------------------------------------------
LEMMA InitCodecInv == Init => CodecInv
<1> SUFFICES ASSUME Init PROVE CodecInv
  OBVIOUS
<1>1. Blank \in Tile
  BY BytesAssumption DEF Blank, Tile
<1>2. /\ tok.len = 0 /\ tok.off = 0 /\ tok.done = 0 /\ Len(lit) = 0 /\ Start = 0
      /\ tok \in [len : Nat, off : Nat, lit : Seq(Bytes), done : Nat]
  BY DEF Init, NoToken, Start
<1>3. TypeInv
  BY <1>1, <1>2, ConstFacts DEF Init, TypeInv
<1>4. TokenInv
  BY <1>2 DEF Init, TokenInv
<1>5. PlaceInv
  BY DEF Init, PlaceInv
<1>6. TableInv
  BY ConstFacts DEF Init, TableInv
<1>7. RoomInv
  BY DEF Init, RoomInv
<1>8. AnswerInv
  BY DEF Init, AnswerInv
<1> QED
  BY <1>3, <1>4, <1>5, <1>6, <1>7, <1>8 DEF CodecInv

LEMMA StepCodecInv == CodecInv /\ [Next]_vars => CodecInv'
<1> SUFFICES ASSUME CodecInv, [Next]_vars PROVE CodecInv'
  OBVIOUS
<1>1. CASE UNCHANGED vars
  <2>1. TokenInv' /\ AnswerInv'
    BY <1>1, TokenUntouched, AnswerUntouched DEF vars, encoder, decoder, request
  <2>2. TypeInv'
    BY <1>1 DEF vars, encoder, table, decoder, request, answer, CodecInv, TypeInv, Tile
  <2>3. PlaceInv' /\ TableInv' /\ RoomInv'
    BY <1>1 DEF vars, encoder, table, decoder, request, CodecInv, PlaceInv, TableInv,
                RoomInv, Solid, Matching, Limit
  <2> QED
    BY <2>1, <2>2, <2>3 DEF CodecInv
<1>2. CASE Encode
  BY <1>2, EncodeSolidKeeps, BumpGenerationKeeps, SolidTokenKeeps, StartRowCopyKeeps,
     RowTokenKeeps, ScanMatchKeeps, ScanLiteralKeeps, LiteralTokenKeeps,
     MatchTokenKeeps, OutOfRoomKeeps DEF Encode
<1>3. CASE CompressTile \/ DecodeByte \/ FinishDirect \/ FinishDelta
  BY <1>3, CompressTileKeeps, DecodeKeeps, FinishDirectKeeps, FinishDeltaKeeps
<1> QED
  BY <1>1, <1>2, <1>3 DEF Next

(* The inductive invariant: what is decoded, what the token under way adds and
   the literals not yet written make up the tile; what the encoder found is
   there; the table has only places of this encoding; and each row costs at most
   one byte more than it has. *)
THEOREM CodecInvariant == Spec => []CodecInv
BY InitCodecInv, StepCodecInv, PTL DEF Spec

(* Decoding gives back what was encoded, for every tile size, window and match
   length, whatever earlier tiles left in the table. *)
THEOREM DecodesToTile == Spec => []RoundTrip
<1>1. CodecInv => RoundTrip
  <2> SUFFICES ASSUME CodecInv PROVE RoundTrip
    OBVIOUS
  <2>1. \A i \in 0..dlen - 1 : dec[i] = raw[i]
    BY DEF CodecInv, TokenInv
  <2> QED
    BY <2>1, WholeTile DEF RoundTrip
<1> QED
  BY <1>1, CodecInvariant, PTL

(* The encoder never writes past the end of its buffer, and a buffer of one byte
   per row more than the tile is always enough. *)
THEOREM StaysInBuffer == Spec => []FitsBuffer
<1>1. CodecInv => FitsBuffer
  BY DEF CodecInv, RoomInv, FitsBuffer
<1> QED
  BY <1>1, CodecInvariant, PTL

(* The pixel a byte belongs to. *)
LEMMA PixelFacts ==
    ASSUME NEW i \in 0..Size - 1
    PROVE  LET a == PixelAt(i) + PixelBytes - 1
           IN /\ a \in 0..Size - 1 /\ IsAlpha(a) /\ PixelAt(a) = PixelAt(i)
              /\ ~IsAlpha(i) => i \in PixelAt(i)..PixelAt(i) + PixelBytes - 2
<1> DEFINE q == i \div PixelBytes
           a == PixelAt(i) + PixelBytes - 1
<1>1. /\ q \in Nat /\ PixelAt(i) = q * PixelBytes /\ PixelAt(i) \in Nat
      /\ PixelAt(i) <= i /\ i < PixelAt(i) + PixelBytes
      /\ i % PixelBytes = i - PixelAt(i) /\ i \in Nat
  BY ConstFacts, DivMod DEF PixelAt
<1>2. PICK n \in Nat : RowBytes = n * PixelBytes
  <2>1. RowBytes % PixelBytes = 0
    BY CodecAssumption
  <2>2. /\ RowBytes \div PixelBytes \in Nat
        /\ RowBytes % PixelBytes = RowBytes - (RowBytes \div PixelBytes) * PixelBytes
        /\ (RowBytes \div PixelBytes) * PixelBytes \in Nat
    BY ConstFacts, DivMod
  <2>3. RowBytes = (RowBytes \div PixelBytes) * PixelBytes
    <3> DEFINE p == (RowBytes \div PixelBytes) * PixelBytes
    <3>1. p \in Nat /\ 0 = RowBytes - p
      BY <2>1, <2>2
    <3> HIDE DEF p
    <3>2. RowBytes = p
      BY <3>1, ConstFacts
    <3> QED
      BY <3>2 DEF p
  <2> QED
    BY <2>2, <2>3
<1>3. Size = (n * Rows) * PixelBytes /\ n * Rows \in Nat
  BY <1>2, ConstFacts DEF Size
<1> HIDE DEF q
<1>4. q < n * Rows
  <2> DEFINE m == n * Rows
  <2>1. m \in Nat /\ Size = m * PixelBytes /\ q * PixelBytes < m * PixelBytes
    BY <1>1, <1>3, ConstFacts
  <2> HIDE DEF m
  <2>2. q < m
    BY <1>1, <2>1, ConstFacts
  <2> QED
    BY <2>2 DEF m
<1>5. q * PixelBytes + PixelBytes <= Size
  <2> DEFINE m == n * Rows
  <2>1. m \in Nat /\ Size = m * PixelBytes /\ q + 1 <= m
    BY <1>1, <1>3, <1>4
  <2> HIDE DEF m
  <2>2. (q + 1) * PixelBytes <= m * PixelBytes
    BY <1>1, <2>1, ConstFacts
  <2>3. (q + 1) * PixelBytes = q * PixelBytes + PixelBytes
    BY <1>1, ConstFacts
  <2> QED
    BY <2>1, <2>2, <2>3
<1>6. a \in 0..Size - 1 /\ a \in Nat /\ q * PixelBytes <= a /\ a < q * PixelBytes + PixelBytes
  BY <1>1, <1>5, ConstFacts
<1>7. a = PixelAt(i) + PixelBytes - 1
  OBVIOUS
<1> HIDE DEF a
<1>8. a \div PixelBytes = q
  BY <1>1, <1>6, DivUnique, ConstFacts
<1>9. PixelAt(a) = PixelAt(i)
  BY <1>1, <1>8 DEF PixelAt
<1>10. IsAlpha(a)
  <2>1. a % PixelBytes = a - (a \div PixelBytes) * PixelBytes
    BY <1>6, DivMod, ConstFacts
  <2>2. a % PixelBytes = a - PixelAt(i)
    BY <1>1, <1>8, <2>1
  <2> QED
    BY <1>1, <1>6, <1>7, <2>2, ConstFacts DEF IsAlpha
<1>11. ~IsAlpha(i) => i \in PixelAt(i)..PixelAt(i) + PixelBytes - 2
  BY <1>1, ConstFacts DEF IsAlpha
<1> QED
  BY <1>6, <1>9, <1>10, <1>11 DEF a

(* The answer of compress_tile_adaptive is the tile: all of it for a direct
   encoding, all but the alpha the frame does not use for a difference. *)
THEOREM AnswersTile == Spec => []AnswerIsTile
<1>1. CodecInv => AnswerIsTile
  <2> SUFFICES ASSUME CodecInv, job = "idle" PROVE
        /\ result < 0 => dst = pixels
        /\ result > 0 => \A i \in 0..Size - 1 : ~IsAlpha(i) => Overlaid(i) = pixels[i]
    BY DEF AnswerIsTile
  <2>1. result < 0 => dst = pixels
    BY DEF CodecInv, AnswerInv
  <2>2. ASSUME result > 0, NEW i \in 0..Size - 1, ~IsAlpha(i)
        PROVE  Overlaid(i) = pixels[i]
    <3> DEFINE a == PixelAt(i) + PixelBytes - 1
    <3>1. dst = Delta
      BY <2>2 DEF CodecInv, AnswerInv
    <3>2. /\ a \in 0..Size - 1 /\ IsAlpha(a) /\ PixelAt(a) = PixelAt(i)
          /\ i \in PixelAt(i)..PixelAt(i) + PixelBytes - 2
      BY <2>2, PixelFacts
    <3>3. Overlaid(i) = IF dst[a] = 0 THEN prev[i] ELSE dst[i]
      BY DEF Overlaid
    <3> HIDE DEF a
    <3>4. Changed(a) <=> Changed(i)
      BY <3>2 DEF Changed
    <3>5. dst[a] = IF Changed(i) THEN Opaque ELSE 0
      BY <3>1, <3>2, <3>4 DEF Delta
    <3>6. CASE Changed(i)
      BY <2>2, <3>1, <3>3, <3>5, <3>6, BytesAssumption DEF Delta
    <3>7. CASE ~Changed(i)
      BY <3>2, <3>3, <3>5, <3>7 DEF Changed
    <3> QED
      BY <3>6, <3>7
  <2> QED
    BY <2>1, <2>2
<1> QED
  BY <1>1, CodecInvariant, PTL
=============================================================================
