------------------------------ MODULE TileCodec ------------------------------
(***************************************************************************)
(* The tile encoder of draw/compress.c, as detect_region_scroll calls it   *)
(* (compress_tile_adaptive): the pixels of a tile, and the difference to   *)
(* the previous tile, are each encoded with LZ77 over a hash table that    *)
(* lives as long as the thread and is cleared by counting generations; the *)
(* shorter encoding wins.  One step is one turn of the encoder's loop or   *)
(* one token.  The decoder is the reader of the format, outside src/: it   *)
(* takes each token byte by byte.  A tile is RowBytes * Rows bytes; its    *)
(* pixels have PixelBytes bytes each, the last of them alpha.              *)
(* An action that Next does not use is a slip of the one below it          *)
(* (README, Slips).                                                        *)
(***************************************************************************)
EXTENDS Integers, Sequences, FiniteSets

CONSTANTS
    RowBytes, Rows, PixelBytes,   \* 64, 16, 4
    MaxMatch,                     \* 34, the longest match of a token
    Window,                       \* 256, how far back a candidate may be
    MaxLiterals,                  \* 128
    GenMod,                       \* 2^16, the range of current_gen
    DstMax, TempMax,              \* room in dst (1280) and in temp (1200)
    Bytes, Opaque,                \* Opaque is 0xFF
    Slots, Hash(_, _, _),         \* HASH_SIZE, hash3
    Tiles, Prevs,                 \* the tiles, the previous tiles
    MaxTiles                      \* bounds the tiles encoded

Size == RowBytes * Rows
MinMatch == 3
Room(n) == n \in Nat /\ n >= Size + Rows

ASSUME CodecAssumption ==
    /\ Rows \in Nat \ {0} /\ PixelBytes \in Nat \ {0}
    /\ RowBytes \in Nat /\ MaxMatch \in Nat
    /\ MinMatch <= RowBytes - PixelBytes - MaxMatch    \* the splits of a solid row:
    /\ RowBytes - MaxMatch <= MaxMatch                 \* 4 + 34 + 26, then 34 + 30
    /\ RowBytes <= MaxLiterals /\ MaxLiterals \in Nat /\ RowBytes % PixelBytes = 0
    /\ Window \in Nat /\ GenMod \in Nat /\ GenMod > 1
    /\ DstMax \in Nat /\ TempMax \in Nat /\ MaxTiles \in Nat
    /\ 1 + PixelBytes + 4 * Rows <= DstMax             \* a solid tile fits: it is
    /\ 1 + PixelBytes + 4 * Rows <= TempMax            \* written without a test
ASSUME BytesAssumption ==
    /\ 0 \in Bytes /\ Opaque \in Bytes /\ Opaque # 0
    /\ \A a, b, c \in Bytes : Hash(a, b, c) \in Slots
    /\ Tiles \subseteq [0..Size - 1 -> Bytes]
    /\ Prevs \subseteq [0..Size - 1 -> Bytes]

VARIABLES
    job,          \* "idle", "direct" or "delta"
    pixels, prev, \* the tile and the previous one
    raw,          \* what is being encoded
    enc,          \* where the encoder is
    pos, lit, out,
    best, boff,   \* the match found
    current_gen, htab,
    tok,          \* the token last written, until it is decoded
    dec, dlen,    \* what the decoder has made of the tokens
    dst, dsize,   \* what dst decodes to, and its size
    result, tiles

encoder == <<pos, lit, out, best, boff>>
table == <<current_gen, htab>>
decoder == <<tok, dec, dlen>>
request == <<pixels, prev, raw>>
answer == <<dst, dsize, result, tiles>>
vars == <<job, enc, encoder, table, decoder, request, answer>>

Blank == [i \in 0..Size - 1 |-> 0]
NoToken == [len |-> 0, off |-> 0, lit |-> <<>>, done |-> 0]
Quiet == tok = NoToken

Init == /\ job = "idle" /\ enc = "check"
        /\ pixels = Blank /\ prev = Blank /\ raw = Blank
        /\ pos = 0 /\ lit = <<>> /\ out = 0 /\ best = 0 /\ boff = 0
        /\ current_gen = 0 /\ htab = [h \in Slots |-> [gen |-> 0, pos |-> 0]]
        /\ tok = NoToken /\ dec = Blank /\ dlen = 0
        /\ dst = Blank /\ dsize = 0 /\ result = 0 /\ tiles = 0

-----------------------------------------------------------------------------
(* compress_tile_data and lz77_compress_fast. *)

Limit == IF job = "direct" THEN DstMax ELSE TempMax
RowStart == (pos \div RowBytes) * RowBytes
RowEnd == RowStart + RowBytes

Solid == \A i \in PixelBytes..Size - 1 : raw[i] = raw[i - PixelBytes]

Encoding == job \in {"direct", "delta"} /\ Quiet

(* The start of one encoding; the decoder starts afresh with it. *)
Restart(bytes) == /\ raw' = bytes /\ enc' = "check"
                  /\ pos' = 0 /\ lit' = <<>> /\ out' = 0 /\ best' = 0 /\ boff' = 0
                  /\ tok' = NoToken /\ dec' = Blank /\ dlen' = 0

EncodeSolid == /\ Encoding /\ enc = "check" /\ Solid
               /\ enc' = "solid"
               /\ UNCHANGED <<job, encoder, table, decoder, request, answer>>

BumpOnly ==
    /\ Encoding /\ enc = "check" /\ ~Solid
    /\ enc' = "scan"
    /\ current_gen' = IF current_gen + 1 = GenMod THEN 1 ELSE current_gen + 1
    /\ UNCHANGED <<job, encoder, htab, decoder, request, answer>>

(* The generation moves on; when it wraps, the table is cleared. *)
BumpGeneration ==
    /\ Encoding /\ enc = "check" /\ ~Solid
    /\ enc' = "scan"
    /\ IF current_gen + 1 = GenMod
       THEN /\ current_gen' = 1
            /\ htab' = [h \in Slots |-> [htab[h] EXCEPT !.gen = 0]]
       ELSE /\ current_gen' = current_gen + 1
            /\ UNCHANGED htab
    /\ UNCHANGED <<job, encoder, decoder, request, answer>>

Write(len, off, bytes) ==
    tok' = [len |-> len, off |-> off, lit |-> bytes, done |-> 0]

Shorter(a, b) == IF a < b THEN a ELSE b

(* A solid tile: a pixel, the rest of its row from it, each row from the one
   before it.  The code's lengths 34, 26, 34 and 30 are these for 64 bytes. *)
SolidToken ==
    /\ Encoding /\ enc = "solid" /\ pos < Size
    /\ LET len == IF pos = 0 THEN PixelBytes ELSE Shorter(MaxMatch, RowEnd - pos)
       IN /\ IF pos = 0
             THEN Write(len, 0, [k \in 1..len |-> raw[k - 1]])
             ELSE Write(len, IF pos < RowBytes THEN PixelBytes ELSE RowBytes, <<>>)
          /\ pos' = pos + len
          /\ out' = out + (IF pos = 0 THEN 1 + PixelBytes ELSE 2)
    /\ UNCHANGED <<job, enc, lit, best, boff, table, dec, dlen, request, answer>>

SameRow == /\ pos = RowStart /\ pos > 0
           /\ \A i \in RowStart..RowEnd - 1 : raw[i] = raw[i - RowBytes]

(* The row equals the previous one.  (No literals are left over then: a row's
   last ones are flushed at its end.) *)
StartRowCopy == /\ Encoding /\ enc = "scan" /\ pos < Size /\ SameRow
                /\ enc' = "row"
                /\ UNCHANGED <<job, encoder, table, decoder, request, answer>>

NoRoom == /\ enc' = "full"
          /\ UNCHANGED <<job, encoder, table, decoder, request, answer>>

RowToken ==
    /\ Encoding /\ enc = "row" /\ out + 2 <= Limit
    /\ LET len == Shorter(MaxMatch, RowEnd - pos)
       IN /\ Write(len, RowBytes, <<>>)
          /\ pos' = pos + len
          /\ enc' = IF pos + len = RowEnd THEN "scan" ELSE "row"
    /\ out' = out + 2
    /\ UNCHANGED <<job, lit, best, boff, table, dec, dlen, request, answer>>

(* How many bytes from pos on, at most max, repeat those `off' earlier. *)
MatchLen(off, max) ==
    CHOOSE n \in 0..max :
        /\ \A k \in 0..n - 1 : raw[pos + k - off] = raw[pos + k]
        /\ n < max => raw[pos + n - off] # raw[pos + n]

Searched == RowEnd - pos >= MinMatch /\ pos >= MinMatch
LongestHere == Shorter(MaxMatch, RowEnd - pos)
Slot == Hash(raw[pos], raw[pos + 1], raw[pos + 2])

Candidate == LET e == htab[Slot]
             IN IF e.gen = current_gen /\ e.pos > 0 /\ pos - e.pos <= Window
                THEN pos - e.pos ELSE 0

(* <<best, boff>>: the candidate's match, unless the row above has a longer one. *)
Found ==
    IF ~Searched THEN <<0, 0>>
    ELSE LET near == IF Candidate = 0 THEN 0 ELSE MatchLen(Candidate, LongestHere)
             above == IF pos >= RowBytes THEN MatchLen(RowBytes, LongestHere) ELSE 0
             kept == IF near >= MinMatch THEN near ELSE 0
         IN IF kept < LongestHere /\ above > kept THEN <<above, RowBytes>>
            ELSE <<kept, IF kept = 0 THEN 0 ELSE Candidate>>

Remember == IF Searched
            THEN htab' = [htab EXCEPT ![Slot] = [gen |-> current_gen, pos |-> pos]]
            ELSE UNCHANGED htab

ScanMatch == /\ Encoding /\ enc = "scan" /\ pos < Size /\ ~SameRow
             /\ Found[1] >= MinMatch
             /\ best' = Found[1] /\ boff' = Found[2]
             /\ Remember
             /\ enc' = "match"
             /\ UNCHANGED <<job, pos, lit, out, current_gen, decoder, request, answer>>

ScanLiteralOnly ==
    /\ Encoding /\ enc = "scan" /\ pos < Size /\ ~SameRow
    /\ Found[1] < MinMatch
    /\ Remember
    /\ lit' = Append(lit, raw[pos]) /\ pos' = pos + 1
    /\ enc' = IF Len(lit) + 1 = MaxLiterals THEN "flush" ELSE "scan"
    /\ UNCHANGED <<job, out, best, boff, current_gen, decoder, request, answer>>

ScanLiteral ==
    /\ Encoding /\ enc = "scan" /\ pos < Size /\ ~SameRow
    /\ Found[1] < MinMatch
    /\ Remember
    /\ lit' = Append(lit, raw[pos]) /\ pos' = pos + 1
    /\ enc' = IF Len(lit) + 1 = MaxLiterals \/ pos + 1 = RowEnd THEN "flush" ELSE "scan"
    /\ UNCHANGED <<job, out, best, boff, current_gen, decoder, request, answer>>

LiteralToken ==
    /\ Encoding /\ enc \in {"flush", "match"} /\ lit # <<>>
    /\ out + 1 + Len(lit) <= Limit
    /\ Write(Len(lit), 0, lit)
    /\ out' = out + 1 + Len(lit)
    /\ lit' = <<>>
    /\ enc' = IF enc = "flush" THEN "scan" ELSE "match"
    /\ UNCHANGED <<job, pos, best, boff, table, dec, dlen, request, answer>>

MatchUnchecked ==
    /\ Encoding /\ enc = "match" /\ lit = <<>>
    /\ Write(best, boff, <<>>)
    /\ out' = out + 2
    /\ pos' = pos + best
    /\ enc' = "scan"
    /\ UNCHANGED <<job, lit, best, boff, table, dec, dlen, request, answer>>

MatchToken ==
    /\ Encoding /\ enc = "match" /\ lit = <<>> /\ out + 2 <= Limit
    /\ Write(best, boff, <<>>)
    /\ out' = out + 2
    /\ pos' = pos + best
    /\ enc' = "scan"
    /\ UNCHANGED <<job, lit, best, boff, table, dec, dlen, request, answer>>

(* "if (out + ... > dst_max) return 0" before each token. *)
OutOfRoom ==
    /\ Encoding
    /\ \/ enc = "row" /\ out + 2 > Limit
       \/ enc \in {"flush", "match"} /\ lit # <<>> /\ out + 1 + Len(lit) > Limit
       \/ enc = "match" /\ lit = <<>> /\ out + 2 > Limit
    /\ NoRoom

-----------------------------------------------------------------------------
(* The reader of the format. *)
DecodeByte ==
    /\ ~Quiet
    /\ dec' = [dec EXCEPT ![dlen] = IF tok.off = 0 THEN tok.lit[tok.done + 1]
                                    ELSE dec[dlen - tok.off]]
    /\ dlen' = dlen + 1
    /\ tok' = IF tok.done + 1 = tok.len THEN NoToken
              ELSE [tok EXCEPT !.done = @ + 1]
    /\ UNCHANGED <<job, enc, encoder, table, request, answer>>

-----------------------------------------------------------------------------
(* compress_tile_adaptive, whose callers pass a previous tile. *)

CompressTile == /\ job = "idle" /\ tiles < MaxTiles
                /\ \E t \in Tiles, p \in Prevs :
                      pixels' = t /\ prev' = p /\ Restart(t)
                /\ job' = "direct" /\ result' = 0
                /\ tiles' = tiles + 1
                /\ UNCHANGED <<table, dst, dsize>>

Encoded == /\ Encoding
           /\ \/ enc = "full"
              \/ enc \in {"scan", "solid"} /\ pos = Size

(* The value of compress_tile_data: 0 unless a quarter is saved.  (A tile of
   zeros is returned without this test, which it passes: it is solid.) *)
EncodedSize == IF enc = "full" \/ out >= (Size * 3) \div 4 THEN 0 ELSE out

PixelAt(i) == (i \div PixelBytes) * PixelBytes
IsAlpha(i) == i % PixelBytes = PixelBytes - 1
Changed(i) == \E k \in PixelAt(i)..PixelAt(i) + PixelBytes - 2 : pixels[k] # prev[k]

DeltaUnmarked == [i \in 0..Size - 1 |->
                    IF ~Changed(i) \/ IsAlpha(i) THEN 0 ELSE pixels[i]]

(* The tile where it differs, opaque, and zeros elsewhere. *)
Delta == [i \in 0..Size - 1 |-> IF ~Changed(i) THEN 0
                                ELSE IF IsAlpha(i) THEN Opaque ELSE pixels[i]]

ChangedPixels == Cardinality({i \in 0..Size - 1 : IsAlpha(i) /\ Changed(i)})
DeltaWorthTrying ==
    /\ ChangedPixels # 0
    /\ ChangedPixels <= ((Size \div PixelBytes) * 3) \div 4

FinishDirect ==
    /\ job = "direct" /\ Encoded
    /\ dst' = dec /\ dsize' = EncodedSize
    /\ IF DeltaWorthTrying
       THEN job' = "delta" /\ Restart(Delta) /\ UNCHANGED result
       ELSE /\ job' = "idle" /\ result' = -EncodedSize
            /\ UNCHANGED <<raw, enc, encoder, decoder>>
    /\ UNCHANGED <<table, pixels, prev, tiles>>

FinishDelta ==
    /\ job = "delta" /\ Encoded
    /\ IF EncodedSize > 0 /\ (dsize = 0 \/ EncodedSize < dsize)
       THEN result' = EncodedSize /\ dst' = dec /\ dsize' = EncodedSize
       ELSE result' = -dsize /\ UNCHANGED <<dst, dsize>>
    /\ job' = "idle"
    /\ UNCHANGED <<enc, encoder, table, decoder, request, tiles>>

-----------------------------------------------------------------------------
Encode == \/ EncodeSolid \/ BumpGeneration \/ SolidToken \/ StartRowCopy \/ RowToken
          \/ ScanMatch \/ ScanLiteral \/ LiteralToken \/ MatchToken \/ OutOfRoom

Next == CompressTile \/ Encode \/ DecodeByte \/ FinishDirect \/ FinishDelta

Spec == Init /\ [][Next]_vars

-----------------------------------------------------------------------------
(* Whatever was encoded before it with the same table, what the decoder makes of
   the tokens is, at every moment, the beginning of what is encoded, and all of
   it when the encoder is done. *)
RoundTrip ==
    /\ \A i \in 0..dlen - 1 : dec[i] = raw[i]
    /\ Encoding /\ enc \in {"scan", "solid"} /\ pos = Size => dlen = Size

(* The encoder stays inside the buffer it was given, and with room for one byte
   per row more than the tile has, it never has to give up. *)
FitsBuffer ==
    job # "idle" => /\ out <= Limit
                    /\ Room(Limit) => enc # "full"

(* The tile a viewer gets from the answer: a direct encoding replaces the tile,
   a difference is laid over the previous one where it is opaque. *)
Overlaid(i) == IF dst[PixelAt(i) + PixelBytes - 1] = 0 THEN prev[i] ELSE dst[i]

AnswerIsTile ==
    job = "idle" =>
        /\ result < 0 => dst = pixels
        /\ result > 0 => \A i \in 0..Size - 1 : ~IsAlpha(i) => Overlaid(i) = pixels[i]
=============================================================================
