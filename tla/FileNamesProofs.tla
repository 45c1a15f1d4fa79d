--------------------------- MODULE FileNamesProofs ---------------------------
(***************************************************************************)
(* What the codecs give back, for every name: the loops are steps, so what *)
(* they compute is an invariant over the chunks they have done.            *)
(***************************************************************************)
EXTENDS FileNames, SequenceTheorems, WellFoundedInduction, TLAPS

Bytes == 0 .. 255

(* The arithmetic of one chunk: the sextets of three bytes are sextets, and  *)
(* put together again they are the bytes.                                    *)
LEMMA FirstByte ==
  ASSUME NEW b \in Bytes, NEW c \in Bytes
  PROVE  /\ b \div 4 \in 0 .. 63
         /\ (b % 4) * 16 + c \div 16 \in 0 .. 63
         /\ (b \div 4) * 4 + ((b % 4) * 16 + c \div 16) \div 16 = b
  BY DEF Bytes

LEMMA SecondByte ==
  ASSUME NEW b \in Bytes, NEW c \in Bytes, NEW d \in Bytes
  PROVE  /\ (c % 16) * 4 + d \div 64 \in 0 .. 63
         /\ (((b % 4) * 16 + c \div 16) % 16) * 16
              + ((c % 16) * 4 + d \div 64) \div 4 = c
  BY DEF Bytes

LEMMA ThirdByte ==
  ASSUME NEW c \in Bytes, NEW d \in Bytes
  PROVE  /\ d % 64 \in 0 .. 63
         /\ (((c % 16) * 4 + d \div 64) % 4) * 64 + (d % 64) = d
  BY DEF Bytes

(* pos_of_char undoes base64_chars, and no character is filler.              *)
LEMMA CharFacts ==
  ASSUME NEW v \in 0 .. 63, NEW u \in BOOLEAN
  PROVE  /\ CharOf(v, u) \in Chars \cap Nat
         /\ CharOf(v, u) \notin Padding
         /\ pos_of_char(CharOf(v, u)) = v
<1>1. CASE v \in 0 .. 25
  BY <1>1 DEF CharOf, Chars, Padding, pos_of_char
<1>2. CASE v \in 26 .. 51
  BY <1>2 DEF CharOf, Chars, Padding, pos_of_char
<1>3. CASE v \in 52 .. 61
  BY <1>3 DEF CharOf, Chars, Padding, pos_of_char
<1>4. CASE v = 62
  BY <1>4 DEF CharOf, Chars, Padding, pos_of_char
<1>5. CASE v = 63
  BY <1>5 DEF CharOf, Chars, Padding, pos_of_char
<1> QED
  BY <1>1, <1>2, <1>3, <1>4, <1>5

-----------------------------------------------------------------------------
(* Chunk j of the code: bytes 3j + 1 to 3j + 3 of the text.                  *)
Byte(n) == IF n <= Len(text) THEN text[n] ELSE 0

Sextet(j, r) ==
  CASE r = 1 -> Byte(3*j + 1) \div 4
    [] r = 2 -> (Byte(3*j + 1) % 4) * 16 + Byte(3*j + 2) \div 16
    [] r = 3 -> (Byte(3*j + 2) % 16) * 4 + Byte(3*j + 3) \div 64
    [] r = 4 -> Byte(3*j + 3) % 64

(* Whether the text reaches as far as character r of chunk j.                *)
Data(j, r) == r = 1 \/ 3*j + r - 1 <= Len(text)

Character(j, r) ==
  IF Data(j, r) THEN CharOf(Sextet(j, r), url) ELSE IF url THEN 46 ELSE 61

TypeInv ==
  /\ text \in Seq(Bytes)
  /\ url \in BOOLEAN
  /\ coded \in Seq(Nat)
  /\ decoded \in Seq(Bytes)
  /\ pos \in Nat
  /\ pc \in {"encode", "sent", "decode", "decoded", "thrown"}

(* What stands at a place of the code, however far it has come.              *)
Chunked ==
  \A j \in Nat, r \in 1 .. 4, n \in 1 .. Len(coded) :
    n = 4*j + r => coded[n] = Character(j, r)

EncodeInv ==
  pc = "encode" =>
    /\ decoded = <<>>
    /\ \E j \in Nat : pos = 3*j /\ Len(coded) = 4*j /\ 3*j < Len(text) + 3

(* m chunks; filler may be missing, data not.                                *)
SentInv ==
  pc # "encode" =>
    \E m \in Nat : /\ Len(text) <= 3*m /\ 3*m < Len(text) + 3
                   /\ m + Len(text) <= Len(coded) /\ Len(coded) <= 4*m

DecodeInv ==
  pc = "decode" =>
    \E j \in Nat :
       /\ pos = 4*j /\ 3*j < Len(text) + 3
       /\ Len(decoded) = IF 3*j <= Len(text) THEN 3*j ELSE Len(text)
       /\ \A k \in 1 .. Len(decoded) : decoded[k] = text[k]

CodecInv ==
  /\ TypeInv /\ Chunked /\ EncodeInv /\ SentInv /\ DecodeInv
  /\ pc = "sent" => decoded = <<>>
  /\ RoundTrip

(* A concatenation, place by place.                                          *)
LEMMA Joined ==
  ASSUME NEW S, NEW s \in Seq(S), NEW t \in Seq(S)
  PROVE  /\ s \o t \in Seq(S)
         /\ Len(s \o t) = Len(s) + Len(t)
         /\ \A n \in 1 .. Len(s) : (s \o t)[n] = s[n]
         /\ \A n \in 1 .. Len(t) : (s \o t)[Len(s) + n] = t[n]
<1>1. Len(s) \in Nat /\ Len(t) \in Nat
  BY LenProperties
<1>2. /\ s \o t \in Seq(S)
      /\ Len(s \o t) = Len(s) + Len(t)
      /\ \A n \in 1 .. Len(s) + Len(t) :
            (s \o t)[n] = IF n <= Len(s) THEN s[n] ELSE t[n - Len(s)]
  BY ConcatProperties
<1>3. ASSUME NEW n \in 1 .. Len(t) PROVE (s \o t)[Len(s) + n] = t[n]
  <2>1. Len(s) + n \in 1 .. Len(s) + Len(t) /\ ~(Len(s) + n <= Len(s))
    BY <1>1
  <2>2. (Len(s) + n) - Len(s) = n
    BY <1>1
  <2> QED
    BY <1>2, <2>1, <2>2
<1>4. ASSUME NEW n \in 1 .. Len(s) PROVE (s \o t)[n] = s[n]
  <2>1. n \in 1 .. Len(s) + Len(t) /\ n <= Len(s)
    BY <1>1
  <2> QED
    BY <1>2, <2>1
<1> QED
  BY <1>2, <1>3, <1>4

LEMMA TextFacts ==
  ASSUME TypeInv
  PROVE  /\ Len(text) \in Nat /\ Len(coded) \in Nat /\ Len(decoded) \in Nat
         /\ \A n \in 1 .. Len(text) : text[n] \in Bytes
         /\ \A n \in Nat \ {0} : Byte(n) \in Bytes
<1>1. /\ Len(text) \in Nat /\ Len(coded) \in Nat /\ Len(decoded) \in Nat
  BY LenProperties DEF TypeInv
<1>2. ASSUME NEW n \in 1 .. Len(text) PROVE text[n] \in Bytes
  BY ElementOfSeq DEF TypeInv
<1>3. ASSUME NEW n \in Nat \ {0} PROVE Byte(n) \in Bytes
  <2>1. CASE n <= Len(text)
    BY <1>1, <1>2, <2>1 DEF Byte
  <2>2. CASE ~(n <= Len(text))
    BY <2>2 DEF Byte, Bytes
  <2> QED
    BY <2>1, <2>2
<1> QED
  BY <1>1, <1>2, <1>3

LEMMA SextetFacts ==
  ASSUME TypeInv, NEW j \in Nat, NEW r \in 1 .. 4
  PROVE  /\ Sextet(j, r) \in 0 .. 63
         /\ Character(j, r) \in Nat
         /\ Data(j, r) => /\ Character(j, r) \in Chars
                          /\ Character(j, r) \notin Padding
                          /\ pos_of_char(Character(j, r)) = Sextet(j, r)
         /\ ~Data(j, r) => Character(j, r) \in {61, 46}
<1>2. /\ Byte(3*j + 1) \in Bytes
      /\ Byte(3*j + 2) \in Bytes
      /\ Byte(3*j + 3) \in Bytes
  BY TextFacts
<1>3. Sextet(j, r) \in 0 .. 63
  BY <1>2, FirstByte, SecondByte, ThirdByte DEF Sextet
<1>4. url \in BOOLEAN
  BY DEF TypeInv
<1> QED
  BY <1>3, <1>4, CharFacts DEF Character, Data

LEMMA EncodeChunkStep ==
  ASSUME CodecInv, EncodeChunk
  PROVE  CodecInv'
<1> USE DEF CodecInv
<1>1. PICK j \in Nat : pos = 3*j /\ Len(coded) = 4*j /\ 3*j < Len(text) + 3
  BY DEF EncodeChunk, EncodeInv
<1>2. 3*j < Len(text) /\ Len(text) \in Nat
  BY <1>1, TextFacts DEF EncodeChunk
<1>3. EncodedChunk =
        <<Character(j, 1), Character(j, 2), Character(j, 3), Character(j, 4)>>
  <2>1. /\ ByteAt(0) = Byte(3*j + 1)
        /\ ByteAt(1) = Byte(3*j + 2)
        /\ ByteAt(2) = Byte(3*j + 3)
    BY <1>1, <1>2 DEF ByteAt, Byte
  <2>2. /\ Character(j, 1) = CharOf(ByteAt(0) \div 4, url)
        /\ Character(j, 2) = CharOf((ByteAt(0) % 4) * 16 + ByteAt(1) \div 16, url)
    BY <1>2, <2>1 DEF Character, Data, Sextet
  <2>3. Character(j, 3) =
          IF pos + 1 < Len(text)
          THEN CharOf((ByteAt(1) % 16) * 4 + ByteAt(2) \div 64, url)
          ELSE IF url THEN 46 ELSE 61
    BY <1>1, <1>2, <2>1 DEF Character, Data, Sextet
  <2>4. Character(j, 4) =
          IF pos + 2 < Len(text) THEN CharOf(ByteAt(2) % 64, url)
          ELSE IF url THEN 46 ELSE 61
    BY <1>1, <1>2, <2>1 DEF Character, Data, Sextet
  <2> QED
    BY <2>2, <2>3, <2>4 DEF EncodedChunk
<1>4. /\ EncodedChunk \in Seq(Nat) /\ Len(EncodedChunk) = 4
      /\ \A r \in 1 .. 4 : EncodedChunk[r] = Character(j, r)
  BY <1>3, SextetFacts
<1>5. /\ coded' \in Seq(Nat) /\ Len(coded') = 4*j + 4
      /\ \A k \in 1 .. 4*j : coded'[k] = coded[k]
      /\ \A r \in 1 .. 4 : coded'[4*j + r] = Character(j, r)
  <2>1. coded \in Seq(Nat) /\ coded' = coded \o EncodedChunk
    BY DEF EncodeChunk, TypeInv
  <2>2. EncodedChunk \in Seq(Nat)
    BY <1>4
  <2>3. coded' \in Seq(Nat) /\ Len(coded') = Len(coded) + Len(EncodedChunk)
    BY <2>1, <2>2, Joined
  <2>4. \A k \in 1 .. Len(coded) : coded'[k] = coded[k]
    BY <2>1, <2>2, Joined
  <2>5. \A r \in 1 .. Len(EncodedChunk) : coded'[Len(coded) + r] = EncodedChunk[r]
    BY <2>1, <2>2, Joined
  <2> QED
    BY <1>1, <1>4, <2>3, <2>4, <2>5
<1>6. TypeInv'
  <2>1. coded' \in Seq(Nat)
    BY <1>5
  <2>2. TypeInv /\ UNCHANGED <<text, url, decoded, pc>> /\ pos' = pos + 3
    BY DEF EncodeChunk
  <2> QED
    BY <2>1, <2>2 DEF TypeInv
<1>7. Chunked'
  <2> SUFFICES ASSUME NEW h \in Nat, NEW r \in 1 .. 4,
                      NEW n \in 1 .. Len(coded'), n = 4*h + r
               PROVE  coded'[n] = Character(h, r)'
    BY DEF Chunked
  <2>1. Character(h, r)' = Character(h, r)
    BY DEF EncodeChunk, Character, Data, Sextet, Byte
  <2>2. CASE h < j
    <3>1. n \in 1 .. 4*j
      BY <2>2
    <3> QED
      BY <1>1, <1>5, <2>1, <3>1 DEF Chunked
  <2>3. CASE h = j
    BY <1>5, <2>1, <2>3
  <2>4. CASE h > j
    <3>1. n > 4*j + 4
      BY <2>4
    <3> QED
      BY <1>5, <3>1
  <2> QED
    BY <2>2, <2>3, <2>4
<1>8. EncodeInv'
  <2>1. pos' = 3*(j + 1) /\ Len(coded') = 4*(j + 1) /\ 3*(j + 1) < Len(text') + 3
    BY <1>1, <1>2, <1>5 DEF EncodeChunk
  <2>2. decoded' = <<>> /\ j + 1 \in Nat
    BY DEF EncodeChunk, EncodeInv
  <2> QED
    BY <2>1, <2>2 DEF EncodeInv
<1> QED
  BY <1>6, <1>7, <1>8 DEF EncodeChunk, SentInv, DecodeInv, RoundTrip

LEMMA UnchangedChunked ==
  ASSUME Chunked, UNCHANGED <<text, url, coded>>
  PROVE  Chunked'
<1>1. \A j \in Nat, r \in 1 .. 4 : Character(j, r)' = Character(j, r)
  BY DEF Character, Data, Sextet, Byte
<1> QED
  BY <1>1 DEF Chunked

LEMMA EncodeReturnStep ==
  ASSUME CodecInv, EncodeReturn
  PROVE  CodecInv'
<1> USE DEF CodecInv, EncodeReturn
<1>1. Chunked'
  BY UnchangedChunked
<1>2. PICK j \in Nat : pos = 3*j /\ Len(coded) = 4*j /\ 3*j < Len(text) + 3
  BY DEF EncodeInv
<1>3. Len(text) <= 3*j /\ j + Len(text) <= Len(coded)
  BY <1>2, TextFacts
<1>4. SentInv'
  BY <1>2, <1>3 DEF SentInv
<1> QED
  BY <1>1, <1>4 DEF TypeInv, EncodeInv, DecodeInv, RoundTrip

LEMMA SubSeqFacts ==
  ASSUME NEW S, NEW s, NEW n \in Nat, \A k \in 1 .. n : s[k] \in S
  PROVE  /\ SubSeq(s, 1, n) \in Seq(S) /\ Len(SubSeq(s, 1, n)) = n
         /\ \A k \in 1 .. n : SubSeq(s, 1, n)[k] = s[k]
<1>1. /\ SubSeq(s, 1, n) \in Seq(S)
      /\ Len(SubSeq(s, 1, n)) = IF 1 <= n THEN n - 1 + 1 ELSE 0
      /\ \A k \in 1 .. n - 1 + 1 : SubSeq(s, 1, n)[k] = s[1 + k - 1]
  BY SubSeqProperties
<1> QED
  BY <1>1

(* A client that leaves out filler leaves out no data.                       *)
LEMMA TrimStep ==
  ASSUME CodecInv, Trim
  PROVE  CodecInv'
<1> USE DEF CodecInv
<1>1. PICK m \in Nat : /\ Len(text) <= 3*m /\ 3*m < Len(text) + 3
                       /\ m + Len(text) <= Len(coded) /\ Len(coded) <= 4*m
  BY DEF Trim, SentInv
<1>2. Len(text) \in Nat /\ Len(coded) \in Nat
  BY TextFacts
<1>3. /\ coded' \in Seq(Nat) /\ Len(coded') = Len(coded) - 1
      /\ \A k \in 1 .. Len(coded) - 1 : coded'[k] = coded[k]
  <2>1. coded \in Seq(Nat) /\ coded' = SubSeq(coded, 1, Len(coded) - 1)
    BY DEF Trim, TypeInv
  <2>2. \A k \in 1 .. Len(coded) - 1 : coded[k] \in Nat
    BY <1>2, <2>1, ElementOfSeq
  <2>3. Len(coded) - 1 \in Nat
    BY <1>2 DEF Trim
  <2>4. PICK n \in Nat : n = Len(coded) - 1
    BY <2>3
  <2>5. \A k \in 1 .. n : coded[k] \in Nat
    BY <2>2, <2>4
  <2>6. SubSeq(coded, 1, n) \in Seq(Nat) /\ Len(SubSeq(coded, 1, n)) = n
    BY <2>5, SubSeqFacts
  <2>7. \A k \in 1 .. n : SubSeq(coded, 1, n)[k] = coded[k]
    BY <2>5, SubSeqFacts
  <2> QED
    BY <2>1, <2>4, <2>6, <2>7
<1>4. m + Len(text) < Len(coded)
  <2> SUFFICES ASSUME m + Len(text) = Len(coded) PROVE FALSE
    BY <1>1, <1>2
  <2>1. m # 0
    BY <1>1, <1>2 DEF Trim
  <2>2. PICK j \in Nat : j = m - 1
    BY <2>1
  <2>3. PICK r \in 2 .. 4 : r = Len(text) - 3*j + 1
    BY <1>1, <1>2, <2>2
  <2>4. Len(coded) = 4*j + r /\ Len(coded) \in 1 .. Len(coded)
    BY <1>1, <1>2, <2>2, <2>3
  <2>5. Data(j, r)
    BY <1>2, <2>3 DEF Data
  <2>6. r \in 1 .. 4
    BY <2>3
  <2>7. coded[Len(coded)] = Character(j, r)
    <3>1. Chunked
      OBVIOUS
    <3> QED
      BY <2>4, <2>6, <3>1, Zenon DEF Chunked
  <2>8. Character(j, r) \notin {61, 46}
    <3>1. TypeInv
      OBVIOUS
    <3>2. Character(j, r) \notin Padding
      BY <2>5, <2>6, <3>1, SextetFacts, Zenon
    <3> QED
      BY <3>2 DEF Padding
  <2> QED
    BY <2>7, <2>8 DEF Trim
<1>5. SentInv'
  <2>1. /\ Len(text') <= 3*m /\ 3*m < Len(text') + 3
        /\ m + Len(text') <= Len(coded') /\ Len(coded') <= 4*m
    BY <1>1, <1>2, <1>3, <1>4 DEF Trim
  <2> QED
    BY <2>1 DEF SentInv
<1>6. Chunked'
  <2>1. \A j \in Nat, r \in 1 .. 4 : Character(j, r)' = Character(j, r)
    BY DEF Trim, Character, Data, Sextet, Byte
  <2>2. \A n \in 1 .. Len(coded') : n \in 1 .. Len(coded) /\ coded'[n] = coded[n]
    BY <1>2, <1>3
  <2>3. Chunked
    OBVIOUS
  <2> QED
    BY <2>1, <2>2, <2>3, Zenon DEF Chunked
<1>7. TypeInv'
  BY <1>3 DEF Trim, TypeInv
<1> QED
  BY <1>5, <1>6, <1>7 DEF Trim, EncodeInv, DecodeInv, RoundTrip

LEMMA DecodeCallStep ==
  ASSUME CodecInv, DecodeCall
  PROVE  CodecInv'
<1> USE DEF CodecInv, DecodeCall
<1>1. Chunked'
  BY UnchangedChunked
<1>2. SentInv'
  BY DEF SentInv
<1>3. DecodeInv'
  <2>1. /\ pos' = 4*0 /\ 3*0 < Len(text') + 3
        /\ Len(decoded') = 0 /\ 3*0 <= Len(text')
    BY TextFacts
  <2> QED
    BY <2>1 DEF DecodeInv
<1> QED
  BY <1>1, <1>2, <1>3 DEF TypeInv, EncodeInv, RoundTrip

(* The chunk at pos does not throw and gives its bytes of the text.          *)
LEMMA ChunkDecoded ==
  ASSUME CodecInv, pc = "decode", pos < Len(coded), NEW j \in Nat, pos = 4*j
  PROVE  /\ ~ChunkThrows
         /\ 3*j < Len(text)
         /\ DecodedChunk \in Seq(Bytes)
         /\ Len(DecodedChunk) = IF 3*j + 3 <= Len(text) THEN 3 ELSE Len(text) - 3*j
         /\ \A k \in 1 .. Len(DecodedChunk) : DecodedChunk[k] = text[3*j + k]
<1> USE DEF CodecInv
<1>1. PICK m \in Nat : /\ Len(text) <= 3*m /\ 3*m < Len(text) + 3
                       /\ m + Len(text) <= Len(coded) /\ Len(coded) <= 4*m
  BY DEF SentInv
<1>2. Len(text) \in Nat /\ Len(coded) \in Nat
  BY TextFacts
<1>3. j < m /\ 3*j < Len(text) /\ 4*j + 2 <= Len(coded)
  BY <1>1, <1>2
<1>4. Data(j, 1) /\ Data(j, 2) /\ (Data(j, 4) => Data(j, 3))
  BY <1>2, <1>3 DEF Data
<1>5. ASSUME NEW r \in 1 .. 4, Data(j, r) PROVE 4*j + r <= Len(coded)
  BY <1>1, <1>2, <1>3, <1>5 DEF Data
<1>6. ASSUME NEW r \in 1 .. 4, Data(j, r)
      PROVE  /\ coded[4*j + r] \in Chars
             /\ coded[4*j + r] \notin Padding
             /\ pos_of_char(coded[4*j + r]) = Sextet(j, r)
  <2>1. coded[4*j + r] = Character(j, r)
    <3>1. 4*j + r \in 1 .. Len(coded)
      BY <1>2, <1>5, <1>6
    <3> QED
      BY <3>1 DEF Chunked
  <2> QED
    BY <1>6, <2>1, SextetFacts
<1>7. ASSUME NEW r \in 1 .. 4, ~Data(j, r), 4*j + r <= Len(coded)
      PROVE  coded[4*j + r] \in Padding
  <2>1. coded[4*j + r] = Character(j, r)
    <3>1. 4*j + r \in 1 .. Len(coded)
      BY <1>2, <1>7
    <3> QED
      BY <3>1 DEF Chunked
  <2> QED
    BY <1>7, <2>1, SextetFacts DEF Padding
<1>8. HasSecond <=> Data(j, 3)
  BY <1>2, <1>5, <1>6, <1>7 DEF HasSecond
<1>9. HasThird <=> Data(j, 4)
  BY <1>2, <1>4, <1>5, <1>6, <1>7, <1>8 DEF HasThird
<1>10. ~ChunkThrows
  BY <1>2, <1>3, <1>4, <1>6, <1>8, <1>9 DEF ChunkThrows
<1> DEFINE p(k) == pos_of_char(coded[pos + k + 1])
<1>11. /\ p(0) = Sextet(j, 1)
       /\ p(1) = Sextet(j, 2)
       /\ Data(j, 3) => p(2) = Sextet(j, 3)
       /\ Data(j, 4) => p(3) = Sextet(j, 4)
  BY <1>4, <1>6
<1>12. /\ Byte(3*j + 1) \in Bytes
       /\ Byte(3*j + 2) \in Bytes
       /\ Byte(3*j + 3) \in Bytes
  BY TextFacts
<1>13. p(0) * 4 + p(1) \div 16 = Byte(3*j + 1)
  BY <1>11, <1>12, FirstByte DEF Sextet
<1>14. Data(j, 3) => (p(1) % 16) * 16 + p(2) \div 4 = Byte(3*j + 2)
  BY <1>11, <1>12, SecondByte DEF Sextet
<1>15. Data(j, 4) => (p(2) % 4) * 64 + p(3) = Byte(3*j + 3)
  BY <1>4, <1>11, <1>12, ThirdByte DEF Sextet
<1>16. /\ Byte(3*j + 1) = text[3*j + 1]
       /\ Data(j, 3) <=> 3*j + 2 <= Len(text)
       /\ Data(j, 4) <=> 3*j + 3 <= Len(text)
       /\ Data(j, 3) => Byte(3*j + 2) = text[3*j + 2]
       /\ Data(j, 4) => Byte(3*j + 3) = text[3*j + 3]
  BY <1>2, <1>3 DEF Data, Byte
<1>17. CASE Data(j, 4)
  <2>1. DecodedChunk = <<Byte(3*j + 1), Byte(3*j + 2), Byte(3*j + 3)>>
    BY <1>4, <1>9, <1>13, <1>14, <1>15, <1>17 DEF DecodedChunk
  <2> QED
    BY <1>3, <1>4, <1>10, <1>12, <1>16, <1>17, <2>1
<1>18. CASE ~Data(j, 4) /\ Data(j, 3)
  <2>1. DecodedChunk = <<Byte(3*j + 1), Byte(3*j + 2)>>
    BY <1>8, <1>9, <1>13, <1>14, <1>18 DEF DecodedChunk
  <2>2. Len(text) - 3*j = 2
    BY <1>2, <1>16, <1>18
  <2> QED
    BY <1>2, <1>3, <1>10, <1>12, <1>16, <1>18, <2>1, <2>2
<1>19. CASE ~Data(j, 4) /\ ~Data(j, 3)
  <2>1. DecodedChunk = <<Byte(3*j + 1)>>
    BY <1>8, <1>9, <1>13, <1>19 DEF DecodedChunk
  <2>2. Len(text) - 3*j = 1
    BY <1>2, <1>3, <1>16, <1>19
  <2> QED
    BY <1>2, <1>3, <1>10, <1>12, <1>16, <1>19, <2>1, <2>2
<1> QED
  BY <1>17, <1>18, <1>19

LEMMA DecodeChunkStep ==
  ASSUME CodecInv, DecodeChunk
  PROVE  CodecInv'
<1> USE DEF CodecInv
<1>1. PICK j \in Nat :
         /\ pos = 4*j /\ 3*j < Len(text) + 3
         /\ Len(decoded) = IF 3*j <= Len(text) THEN 3*j ELSE Len(text)
         /\ \A k \in 1 .. Len(decoded) : decoded[k] = text[k]
  BY DEF DecodeChunk, DecodeInv
<1>2. /\ ~ChunkThrows
      /\ 3*j < Len(text)
      /\ DecodedChunk \in Seq(Bytes)
      /\ Len(DecodedChunk) = IF 3*j + 3 <= Len(text) THEN 3 ELSE Len(text) - 3*j
      /\ \A k \in 1 .. Len(DecodedChunk) : DecodedChunk[k] = text[3*j + k]
  BY <1>1, ChunkDecoded DEF DecodeChunk
<1>3. Len(text) \in Nat /\ decoded \in Seq(Bytes) /\ Len(decoded) = 3*j
  BY <1>1, <1>2, TextFacts DEF TypeInv
<1>4. /\ decoded' = decoded \o DecodedChunk /\ pos' = pos + 4
      /\ UNCHANGED <<text, url, coded, pc>>
  BY <1>2 DEF DecodeChunk
<1>5. /\ decoded' \in Seq(Bytes)
      /\ Len(decoded') = 3*j + Len(DecodedChunk)
      /\ \A k \in 1 .. 3*j : decoded'[k] = decoded[k]
      /\ \A k \in 1 .. Len(DecodedChunk) : decoded'[3*j + k] = DecodedChunk[k]
  <2>1. DecodedChunk \in Seq(Bytes) /\ decoded \in Seq(Bytes)
    BY <1>2, <1>3
  <2>2. decoded' = decoded \o DecodedChunk
    BY <1>4
  <2>3. decoded' \in Seq(Bytes) /\ Len(decoded') = Len(decoded) + Len(DecodedChunk)
    BY <2>1, <2>2, Joined
  <2>4. \A k \in 1 .. Len(decoded) : decoded'[k] = decoded[k]
    BY <2>1, <2>2, Joined
  <2>5. \A k \in 1 .. Len(DecodedChunk) :
           decoded'[Len(decoded) + k] = DecodedChunk[k]
    BY <2>1, <2>2, Joined
  <2> QED
    BY <1>3, <2>3, <2>4, <2>5
<1>6. \A k \in 1 .. Len(decoded') : decoded'[k] = text'[k]
  <2> SUFFICES ASSUME NEW k \in 1 .. Len(decoded')
               PROVE  decoded'[k] = text[k]
    BY <1>4
  <2>0. Len(DecodedChunk) \in Nat
    BY <1>2, <1>3
  <2>1. CASE k <= 3*j
    BY <1>1, <1>3, <1>5, <2>0, <2>1
  <2>2. CASE k > 3*j
    <3>1. k - 3*j \in 1 .. Len(DecodedChunk)
      BY <1>5, <2>0, <2>2
    <3>2. 3*j + (k - 3*j) = k
      OBVIOUS
    <3>3. decoded'[3*j + (k - 3*j)] = text[3*j + (k - 3*j)]
      BY <1>2, <1>5, <3>1
    <3> QED
      BY <3>2, <3>3
  <2> QED
    BY <2>1, <2>2
<1>7. DecodeInv'
  <2>1. /\ pos' = 4*(j + 1) /\ 3*(j + 1) < Len(text') + 3
        /\ Len(decoded') = IF 3*(j + 1) <= Len(text') THEN 3*(j + 1) ELSE Len(text')
    <3>1. Len(decoded') = IF 3*j + 3 <= Len(text) THEN 3*j + 3 ELSE Len(text)
      <4>1. /\ Len(decoded') = 3*j + Len(DecodedChunk) /\ Len(text) \in Nat
            /\ Len(DecodedChunk) = IF 3*j + 3 <= Len(text) THEN 3 ELSE Len(text) - 3*j
        BY <1>2, <1>3, <1>5
      <4>2. CASE 3*j + 3 <= Len(text)
        BY <4>1, <4>2
      <4>3. CASE ~(3*j + 3 <= Len(text))
        <5>1. Len(decoded') = 3*j + (Len(text) - 3*j)
          BY <4>1, <4>3
        <5> QED
          BY <4>1, <4>3, <5>1
      <4> QED
        BY <4>2, <4>3
    <3> QED
      BY <1>1, <1>2, <1>3, <1>4, <3>1
  <2>2. j + 1 \in Nat
    OBVIOUS
  <2> QED
    BY <1>6, <2>1, <2>2 DEF DecodeInv
<1>8. Chunked'
  BY <1>4, UnchangedChunked
<1>9. TypeInv'
  BY <1>1, <1>4, <1>5 DEF TypeInv
<1> QED
  BY <1>4, <1>7, <1>8, <1>9 DEF DecodeChunk, EncodeInv, SentInv, RoundTrip

LEMMA DecodeReturnStep ==
  ASSUME CodecInv, DecodeReturn
  PROVE  CodecInv'
<1> USE DEF CodecInv, DecodeReturn
<1>1. Chunked'
  BY UnchangedChunked
<1>2. PICK m \in Nat : /\ Len(text) <= 3*m /\ 3*m < Len(text) + 3
                       /\ m + Len(text) <= Len(coded) /\ Len(coded) <= 4*m
  BY DEF SentInv
<1>3. PICK j \in Nat :
         /\ pos = 4*j /\ 3*j < Len(text) + 3
         /\ Len(decoded) = IF 3*j <= Len(text) THEN 3*j ELSE Len(text)
         /\ \A k \in 1 .. Len(decoded) : decoded[k] = text[k]
  BY DEF DecodeInv
<1>4. Len(decoded) = Len(text) /\ Len(text) \in Nat
  BY <1>2, <1>3, TextFacts
<1>5. decoded = text
  BY <1>3, <1>4, SeqEqual DEF TypeInv
<1> QED
  BY <1>1, <1>5 DEF TypeInv, EncodeInv, SentInv, DecodeInv, RoundTrip

LEMMA CodecInit ==
  ASSUME Base64Init
  PROVE  CodecInv
<1> USE DEF Base64Init
<1>1. text \in Seq(Bytes)
  BY TextsAssumption DEF Bytes
<1>2. TypeInv
  BY <1>1 DEF TypeInv
<1>3. Chunked
  BY DEF Chunked
<1>4. EncodeInv
  <2>1. pos = 3*0 /\ Len(coded) = 4*0 /\ 3*0 < Len(text) + 3
    BY <1>2, TextFacts
  <2> QED
    BY <2>1 DEF EncodeInv
<1> QED
  BY <1>2, <1>3, <1>4 DEF CodecInv, SentInv, DecodeInv, RoundTrip

LEMMA CodecStutter ==
  ASSUME CodecInv, UNCHANGED base64Vars
  PROVE  CodecInv'
<1>1. Chunked'
  BY UnchangedChunked DEF base64Vars, CodecInv
<1> QED
  BY <1>1 DEF base64Vars, CodecInv, TypeInv, EncodeInv, SentInv, DecodeInv, RoundTrip

LEMMA CodecStep ==
  ASSUME CodecInv, [Next]_vars
  PROVE  CodecInv'
<1>1. CASE UNCHANGED base64Vars
  BY <1>1, CodecStutter
<1>2. CASE Base64Next
  BY <1>2, EncodeChunkStep, EncodeReturnStep, TrimStep, DecodeCallStep,
     DecodeChunkStep, DecodeReturnStep
     DEF Base64Next, base64_encode, base64_decode
<1>3. UNCHANGED base64Vars \/ Base64Next
  BY DEF Next, vars, Encoding, Click, EscapeNext, Request, UrlDecode, DecodePlain,
         DecodeEscape, DecodeAborts, Lookup
<1> QED
  BY <1>1, <1>2, <1>3

(* Decoding gives every name back, in both alphabets, with and without the   *)
(* filler, and never throws.                                                 *)
THEOREM NamesComeBack == Spec => []RoundTrip
<1>1. Init => CodecInv
  BY CodecInit DEF Init
<1>2. CodecInv /\ [Next]_vars => CodecInv'
  BY CodecStep
<1>3. CodecInv => RoundTrip
  BY DEF CodecInv
<1> QED
  BY <1>1, <1>2, <1>3, PTL DEF Spec

-----------------------------------------------------------------------------
(* The link.  Character k of the url stands at Place(k) of the link, and     *)
(* UrlDecode is always at the place of some character.                       *)

Place(k) == IF k <= Len(starts) THEN starts[k] ELSE Len(link)

RequestType ==
  /\ link \in Seq(Nat) /\ starts \in Seq(Nat) /\ res \in Seq(Nat) /\ i \in Nat
  /\ req \in {"none", "escape", "decode", "found", "missed", "abort"}
  /\ req # "none" => pc = "decoded"

EscapeInv ==
  /\ Len(starts) <= Len(url_)
  /\ Place(1) = 0
  /\ \A k \in 1 .. Len(starts) :
       LET e == Escaped(url_[k])
       IN /\ Place(k) + Len(e) = Place(k + 1)
          /\ Place(k + 1) <= Len(link)
          /\ \A n \in 1 .. Len(e) : link[Place(k) + n] = e[n]

DecodedInv ==
  /\ Len(res) <= Len(url_)
  /\ \A k \in 1 .. Len(res) : res[k] = url_[k]
  /\ i = Place(Len(res) + 1)

RequestInv ==
  /\ CodecInv /\ RequestType /\ EscapeInv
  /\ req = "none" => starts = <<>> /\ link = <<>>
  /\ req \in {"none", "escape"} => res = <<>> /\ i = 0
  /\ req \notin {"none", "escape"} /\ PlainName =>
       Len(starts) = Len(url_) /\ DecodedInv
  /\ LinkFindsFile

LEMMA UrlFacts ==
  ASSUME CodecInv
  PROVE  /\ url_ \in Seq(Bytes) /\ Len(url_) \in Nat
         /\ \A k \in 1 .. Len(url_) : url_[k] \in Bytes
         /\ PlainName /\ pc = "decoded" =>
              \A k \in 1 .. Len(url_) : url_[k] \notin {9, 37, 63, 35} /\ ~PathEnds(k)
<1>1. decoded \in Seq(Bytes) /\ (pc = "decoded" => decoded = text)
  BY DEF CodecInv, TypeInv, RoundTrip
<1>2. /\ Prefix \in Seq(Bytes) /\ Len(Prefix) > 0
      /\ \A k \in 1 .. Len(Prefix) : Prefix[k] \notin {9, 37, 63, 35} /\ Prefix[k] > 32
  <2>1. Prefix \in Seq(Bytes)
    BY PrefixAssumption, SeqMonotonic DEF Bytes
  <2>2. \A k \in 1 .. Len(Prefix) : Prefix[k] \in (33 .. 126) \ {35, 37, 63}
    BY PrefixAssumption, ElementOfSeq
  <2>3. Len(Prefix) > 0
    BY <2>1, EmptySeq, PrefixAssumption
  <2>4. ASSUME NEW k \in 1 .. Len(Prefix)
        PROVE  Prefix[k] \notin {9, 37, 63, 35} /\ Prefix[k] > 32
    <3>1. \A b \in (33 .. 126) \ {35, 37, 63} : b \notin {9, 37, 63, 35} /\ b > 32
      OBVIOUS
    <3> QED
      BY <2>2, <3>1
  <2> QED
    BY <2>1, <2>3, <2>4
<1>3. url_ \in Seq(Bytes) /\ Len(url_) = Len(Prefix) + Len(decoded)
  BY <1>1, <1>2, Joined DEF url_
<1>4. \A k \in 1 .. Len(Prefix) : url_[k] = Prefix[k]
  BY <1>1, <1>2, Joined DEF url_
<1>5. \A k \in 1 .. Len(decoded) : url_[Len(Prefix) + k] = decoded[k]
  BY <1>1, <1>2, Joined DEF url_
<1>6. Len(Prefix) \in Nat /\ Len(decoded) \in Nat
  BY <1>1, <1>2, LenProperties
<1>7. ASSUME NEW k \in 1 .. Len(url_) PROVE url_[k] \in Bytes
  BY <1>3, ElementOfSeq
<1>8. ASSUME PlainName, pc = "decoded", NEW k \in 1 .. Len(url_)
      PROVE  url_[k] \notin {9, 37, 63, 35}
  <2>1. CASE k <= Len(Prefix)
    BY <1>2, <1>4, <1>6, <2>1
  <2>2. CASE k > Len(Prefix)
    <3>1. PICK n \in 1 .. Len(decoded) : n = k - Len(Prefix)
      BY <1>3, <1>6, <2>2
    <3>2. url_[k] = text[n] /\ n \in 1 .. Len(text)
      <4>1. Len(Prefix) + n = k
        BY <1>6, <3>1
      <4> QED
        BY <1>1, <1>5, <1>8, <4>1
    <3> QED
      BY <1>8, <3>2 DEF PlainName
  <2> QED
    BY <1>6, <2>1, <2>2
<1>9. ASSUME PlainName, pc = "decoded" PROVE url_[Len(url_)] > 32
  <2>1. CASE text = <<>>
    <3>1. Len(decoded) = 0
      BY <1>1, <1>9, <2>1
    <3> QED
      BY <1>2, <1>3, <1>4, <1>6, <3>1
  <2>2. CASE text # <<>>
    <3>1. Len(decoded) \in 1 .. Len(decoded) /\ Len(decoded) = Len(text)
      BY <1>1, <1>6, <1>9, <2>2, EmptySeq
    <3> QED
      BY <1>1, <1>3, <1>5, <1>9, <2>2, <3>1 DEF PlainName
  <2> QED
    BY <2>1, <2>2
<1>10. ASSUME PlainName, pc = "decoded", NEW k \in 1 .. Len(url_) PROVE ~PathEnds(k)
  <2>1. Len(url_) \in k .. Len(url_) /\ url_[Len(url_)] \in Bytes
    <3>1. Len(url_) \in Nat
      BY <1>3, <1>6
    <3>2. Len(url_) \in k .. Len(url_) /\ Len(url_) \in 1 .. Len(url_)
      BY <3>1
    <3>3. url_[Len(url_)] \in Bytes
      BY <1>7, <3>2
    <3> QED
      BY <3>2, <3>3
  <2>2. \A b \in Bytes : ~(b > 32 /\ b <= 32)
    BY DEF Bytes
  <2> QED
    BY <1>8, <1>9, <1>10, <2>1, <2>2 DEF PathEnds
<1> QED
  BY <1>3, <1>6, <1>7, <1>8, <1>10

(* What an escape of a byte is, and that it is undone.                       *)
LEMMA EscapedFacts ==
  ASSUME NEW c \in Bytes
  PROVE  \/ c = 9 /\ Escaped(c) = <<>>
         \/ Escaped(c) = <<c>>
         \/ \E h \in HexDigits, l \in HexDigits :
               /\ Escaped(c) = <<37, h, l>>
               /\ (FromHex(h) * 16 + FromHex(l)) % 256 = c
<1>1. ASSUME NEW x \in 0 .. 15
      PROVE  ToHex(x) \in HexDigits /\ FromHex(ToHex(x)) = x
  <2>1. CASE x > 9
    BY <2>1 DEF ToHex, HexDigits, FromHex
  <2>2. CASE ~(x > 9)
    BY <2>2 DEF ToHex, HexDigits, FromHex
  <2> QED
    BY <2>1, <2>2
<1>2. c \div 16 \in 0 .. 15 /\ c % 16 \in 0 .. 15
  BY DEF Bytes
<1>3. ((c \div 16) * 16 + (c % 16)) % 256 = c
  BY DEF Bytes
<1>4. CASE Escaped(c) = <<37, ToHex(c \div 16), ToHex(c % 16)>>
  BY <1>1, <1>2, <1>3, <1>4
<1>5. \/ c = 9 /\ Escaped(c) = <<>>
      \/ Escaped(c) = <<c>>
      \/ Escaped(c) = <<37, ToHex(c \div 16), ToHex(c % 16)>>
  BY DEF Escaped
<1> QED
  BY <1>4, <1>5

LEMMA EscapedShape ==
  ASSUME NEW c \in Bytes
  PROVE  /\ Escaped(c) \in Seq(Nat) /\ Len(Escaped(c)) \in {0, 1, 3}
         /\ c # 9 => Len(Escaped(c)) # 0
<1>0. CASE c = 9 /\ Escaped(c) = <<>>
  <2>1. <<>> \in Seq(Nat) /\ Len(<<>>) = 0
    OBVIOUS
  <2> QED
    BY <1>0, <2>1
<1>1. CASE Escaped(c) = <<c>>
  BY <1>1 DEF Bytes
<1>2. CASE \E h \in HexDigits, l \in HexDigits : Escaped(c) = <<37, h, l>>
  BY <1>2 DEF HexDigits
<1> QED
  BY <1>0, <1>1, <1>2, EscapedFacts

LEMMA HexFacts ==
  ASSUME NEW h \in HexDigits, NEW l \in HexDigits
  PROVE  (FromHex(h) * 16 + FromHex(l)) % 256 \in Nat
<1>1. \A x \in HexDigits : FromHex(x) \in Nat
  BY DEF HexDigits, FromHex
<1> QED
  BY <1>1

LEMMA LengthFacts ==
  ASSUME RequestType
  PROVE  /\ Len(link) \in Nat /\ Len(starts) \in Nat /\ Len(res) \in Nat
         /\ \A k \in 1 .. Len(starts) : starts[k] \in Nat
         /\ \A k \in Nat \ {0} : Place(k) \in Nat
         /\ \A n \in 1 .. Len(link) : link[n] \in Nat
<1>1. Len(link) \in Nat /\ Len(starts) \in Nat /\ Len(res) \in Nat
  BY LenProperties DEF RequestType
<1>2. \A k \in 1 .. Len(starts) : starts[k] \in Nat
  BY ElementOfSeq DEF RequestType
<1>3. \A n \in 1 .. Len(link) : link[n] \in Nat
  BY ElementOfSeq DEF RequestType
<1> QED
  BY <1>1, <1>2, <1>3 DEF Place

LEMMA EscapeNextStep ==
  ASSUME RequestInv, EscapeNext
  PROVE  RequestInv'
<1> DEFINE k0 == Len(starts) + 1
           c == url_[k0]
<1>1. CodecInv /\ RequestType /\ EscapeInv
  BY DEF RequestInv
<1>2. /\ Len(link) \in Nat /\ Len(starts) \in Nat
      /\ \A k \in Nat \ {0} : Place(k) \in Nat
  BY <1>1, LengthFacts
<1>3. /\ url_ \in Seq(Bytes) /\ Len(url_) \in Nat
      /\ \A k \in 1 .. Len(url_) : url_[k] \in Bytes
  BY <1>1, UrlFacts
<1>4. k0 \in 1 .. Len(url_) /\ c \in Bytes
  BY <1>2, <1>3 DEF EscapeNext
<1>5. PICK e : e = Escaped(c)
  OBVIOUS
<1>6. e \in Seq(Nat) /\ Len(e) \in {0, 1, 3}
  BY <1>4, <1>5, EscapedShape
<1>7. /\ link' = link \o e /\ starts' = Append(starts, Len(link))
      /\ url_' = url_ /\ UNCHANGED <<text, pc, decoded, res, i, req>> /\ req = "escape"
  BY <1>5 DEF EscapeNext, base64Vars, url_
<1>8. link \in Seq(Nat) /\ starts \in Seq(Nat)
  BY <1>1 DEF RequestType
<1>9. link' \in Seq(Nat) /\ Len(link') = Len(link) + Len(e)
  BY <1>6, <1>7, <1>8, Joined
<1>10. \A n \in 1 .. Len(link) : link'[n] = link[n]
  BY <1>6, <1>7, <1>8, Joined
<1>11. \A n \in 1 .. Len(e) : link'[Len(link) + n] = e[n]
  BY <1>6, <1>7, <1>8, Joined
<1>12. /\ starts' \in Seq(Nat) /\ Len(starts') = k0
       /\ \A k \in 1 .. Len(starts) : starts'[k] = starts[k]
       /\ starts'[k0] = Len(link)
  BY <1>2, <1>7, <1>8, AppendProperties
<1>13. /\ \A k \in 1 .. k0 : Place(k)' = Place(k)
       /\ Place(k0 + 1)' = Len(link') /\ Place(k0) = Len(link)
  BY <1>2, <1>12 DEF Place
<1>14. EscapeInv'
  <2>1. Len(starts') <= Len(url_')
    BY <1>4, <1>7, <1>12
  <2>2. Place(1)' = 0
    BY <1>1, <1>2, <1>13 DEF EscapeInv
  <2>3. ASSUME NEW k \in 1 .. Len(starts')
        PROVE  /\ Place(k)' + Len(Escaped(url_[k])) = Place(k + 1)'
               /\ Place(k + 1)' <= Len(link')
               /\ \A n \in 1 .. Len(Escaped(url_[k])) :
                    link'[Place(k)' + n] = Escaped(url_[k])[n]
    <3> SUFFICES ASSUME NEW f, f = Escaped(url_[k])
                 PROVE  /\ Place(k)' + Len(f) = Place(k + 1)'
                        /\ Place(k + 1)' <= Len(link')
                        /\ \A n \in 1 .. Len(f) : link'[Place(k)' + n] = f[n]
      BY Zenon
    <3>1. CASE k = k0
      <4>1. f = e
        BY <1>5, <3>1
      <4>2. Place(k)' = Len(link) /\ Place(k + 1)' = Len(link')
        BY <1>2, <1>12, <3>1 DEF Place
      <4>3. Len(link') \in Nat /\ Len(e) \in Nat
        BY <1>2, <1>6, <1>9
      <4>4. Place(k)' + Len(f) = Place(k + 1)' /\ Place(k + 1)' <= Len(link')
        BY <1>9, <4>1, <4>2, <4>3
      <4> QED
        BY <1>11, <4>1, <4>2, <4>4
    <3>2. CASE k # k0
      <4>1. k \in 1 .. Len(starts) /\ k + 1 \in 1 .. k0 /\ k \in 1 .. k0
        BY <1>2, <1>12, <3>2
      <4>2. Place(k)' = Place(k) /\ Place(k + 1)' = Place(k + 1)
        BY <1>13, <4>1
      <4>3. /\ Place(k) + Len(f) = Place(k + 1)
            /\ Place(k + 1) <= Len(link)
            /\ \A n \in 1 .. Len(f) : link[Place(k) + n] = f[n]
        BY <1>1, <4>1 DEF EscapeInv
      <4>4. Len(f) \in Nat /\ Place(k) \in Nat /\ Place(k + 1) \in Nat
        <5>1. k \in 1 .. Len(url_)
          BY <1>4, <4>1
        <5> QED
          BY <1>2, <1>3, <4>1, <5>1, EscapedShape
      <4>5. ASSUME NEW n \in 1 .. Len(f) PROVE link'[Place(k)' + n] = f[n]
        <5>1. Place(k) + n \in 1 .. Len(link)
          BY <1>2, <4>3, <4>4
        <5> QED
          BY <1>10, <4>2, <4>3, <5>1
      <4> QED
        BY <1>2, <1>6, <1>9, <4>2, <4>3, <4>4, <4>5
    <3> QED
      BY <3>1, <3>2
  <2> QED
    BY <1>7, <2>1, <2>2, <2>3 DEF EscapeInv
<1>15. RequestType'
  BY <1>1, <1>7, <1>9, <1>12 DEF RequestType
<1>16. CodecInv'
  BY <1>1, CodecStep DEF EscapeNext, Next
<1> QED
  BY <1>7, <1>14, <1>15, <1>16 DEF RequestInv, LinkFindsFile

(* UrlDecode of a plain name is at a character of the url, or at the end.    *)
LEMMA AtCharacter ==
  ASSUME RequestInv, req = "decode", PlainName, i < Len(link)
  PROVE  \E k \in 1 .. Len(url_) :
            /\ k = Len(res) + 1 /\ i = Place(k) /\ url_[k] \in Bytes \ {9, 37}
            /\ \/ /\ link[i + 1] = url_[k] /\ Place(k + 1) = i + 1
               \/ /\ link[i + 1] = 37 /\ i + 2 < Len(link) /\ Place(k + 1) = i + 3
                  /\ link[i + 2] \in HexDigits /\ link[i + 3] \in HexDigits
                  /\ (FromHex(link[i + 2]) * 16 + FromHex(link[i + 3])) % 256 = url_[k]
<1>1. /\ CodecInv /\ RequestType /\ EscapeInv /\ DecodedInv
      /\ Len(starts) = Len(url_) /\ pc = "decoded"
  BY DEF RequestInv, RequestType
<1>2. /\ Len(link) \in Nat /\ Len(res) \in Nat
      /\ \A k \in Nat \ {0} : Place(k) \in Nat
  BY <1>1, LengthFacts
<1>3. Len(url_) \in Nat /\ \A k \in 1 .. Len(url_) : url_[k] \in Bytes \ {9, 37}
  BY <1>1, UrlFacts
<1>4. PICK k \in Nat : k = Len(res) + 1
  BY <1>2
<1>5. i = Place(k) /\ Len(res) <= Len(url_)
  BY <1>1, <1>4 DEF DecodedInv
<1>6. k \in 1 .. Len(url_)
  <2>1. k > Len(url_) => i = Len(link)
    BY <1>1, <1>3, <1>5 DEF Place
  <2> QED
    BY <1>2, <1>3, <1>4, <1>5, <2>1
<1>7. PICK e : e = Escaped(url_[k])
  OBVIOUS
<1>8. /\ i + Len(e) = Place(k + 1) /\ Place(k + 1) <= Len(link)
      /\ \A n \in 1 .. Len(e) : link[i + n] = e[n]
  BY <1>1, <1>5, <1>6, <1>7 DEF EscapeInv
<1>9. i \in Nat /\ url_[k] \in Bytes \ {9, 37}
  BY <1>1, <1>3, <1>6 DEF RequestType
<1>10. CASE e = <<url_[k]>>
  <2>1. Len(e) = 1 /\ e[1] = url_[k]
    BY <1>10
  <2>2. link[i + 1] = url_[k] /\ Place(k + 1) = i + 1
    BY <1>8, <2>1
  <2> QED
    BY <1>4, <1>5, <1>6, <1>9, <2>2
<1>11. ASSUME NEW h \in HexDigits, NEW l \in HexDigits, e = <<37, h, l>>,
              (FromHex(h) * 16 + FromHex(l)) % 256 = url_[k]
       PROVE  /\ link[i + 1] = 37 /\ i + 2 < Len(link) /\ Place(k + 1) = i + 3
              /\ link[i + 2] \in HexDigits /\ link[i + 3] \in HexDigits
              /\ (FromHex(link[i + 2]) * 16 + FromHex(link[i + 3])) % 256 = url_[k]
  <2>1. Len(e) = 3 /\ e[1] = 37 /\ e[2] = h /\ e[3] = l
    BY <1>11
  <2>2. link[i + 1] = 37 /\ link[i + 2] = h /\ link[i + 3] = l
    BY <1>8, <2>1
  <2>3. Place(k + 1) = i + 3 /\ i + 2 < Len(link)
    BY <1>2, <1>8, <1>9, <2>1
  <2> QED
    BY <1>11, <2>2, <2>3
<1> QED
  BY <1>4, <1>5, <1>6, <1>7, <1>9, <1>10, <1>11, EscapedFacts

(* One more character, whichever it is, keeps what was decoded a beginning   *)
(* of the url.                                                               *)
LEMMA OneMore ==
  ASSUME RequestInv, req = "decode", UNCHANGED <<base64Vars, link, starts, req>>,
         NEW c \in Nat, NEW n \in Nat, res' = Append(res, c), i' = n,
         PlainName => \E k \in 1 .. Len(url_) :
                         k = Len(res) + 1 /\ n = Place(k + 1) /\ c = url_[k]
  PROVE  RequestInv'
<1>1. /\ CodecInv /\ RequestType /\ EscapeInv /\ pc = "decoded"
      /\ res \in Seq(Nat)
  BY DEF RequestInv, RequestType
<1>2. CodecInv'
  BY <1>1, CodecStutter
<1>3. url_' = url_ /\ (\A k : Place(k)' = Place(k)) /\ PlainName' = PlainName
  BY DEF base64Vars, url_, Place, PlainName
<1>4. /\ res' \in Seq(Nat) /\ Len(res') = Len(res) + 1
      /\ \A k \in 1 .. Len(res) : res'[k] = res[k]
      /\ res'[Len(res) + 1] = c
  BY <1>1, AppendProperties
<1>5. RequestType'
  BY <1>1, <1>4 DEF RequestType, base64Vars
<1>6. EscapeInv'
  BY <1>1, <1>3 DEF EscapeInv
<1>7. ASSUME PlainName PROVE Len(starts') = Len(url_') /\ DecodedInv'
  <2>1. Len(starts) = Len(url_) /\ DecodedInv
    BY <1>7 DEF RequestInv
  <2>2. PICK k \in 1 .. Len(url_) : k = Len(res) + 1 /\ n = Place(k + 1) /\ c = url_[k]
    BY <1>7
  <2>3. Len(res) \in Nat /\ Len(url_) \in Nat
    BY <1>1, LengthFacts, UrlFacts
  <2>4. Len(res') <= Len(url_') /\ Len(res') = k
    BY <1>3, <1>4, <2>2, <2>3
  <2>5. i' = Place(k + 1)'
    BY <1>3, <2>2
  <2>6. ASSUME NEW m \in 1 .. Len(res') PROVE res'[m] = url_'[m]
    <3>1. CASE m = Len(res) + 1
      BY <1>3, <1>4, <2>2, <3>1
    <3>2. CASE m # Len(res) + 1
      <4>1. m \in 1 .. Len(res)
        BY <1>4, <2>3, <3>2
      <4> QED
        BY <1>3, <1>4, <2>1, <4>1 DEF DecodedInv
    <3> QED
      BY <3>1, <3>2
  <2> QED
    BY <1>3, <2>1, <2>4, <2>5, <2>6 DEF DecodedInv, Place
<1> QED
  BY <1>2, <1>3, <1>5, <1>6, <1>7 DEF RequestInv, LinkFindsFile

LEMMA DecodePlainStep ==
  ASSUME RequestInv, DecodePlain
  PROVE  RequestInv'
<1>1. i \in Nat /\ i < Len(link) /\ Len(link) \in Nat /\ i + 1 \in 1 .. Len(link)
  BY LengthFacts DEF RequestInv, RequestType, DecodePlain
<1>2. link[i + 1] \in Nat
  BY <1>1, LengthFacts DEF RequestInv
<1>3. PlainName => \E k \in 1 .. Len(url_) :
         k = Len(res) + 1 /\ i + 1 = Place(k + 1) /\ link[i + 1] = url_[k]
  BY <1>1, AtCharacter DEF DecodePlain
<1> QED
  BY <1>1, <1>2, <1>3, OneMore DEF DecodePlain

LEMMA DecodeEscapeStep ==
  ASSUME RequestInv, DecodeEscape
  PROVE  RequestInv'
<1> DEFINE c == (FromHex(link[i + 2]) * 16 + FromHex(link[i + 3])) % 256
<1>1. i + 3 \in Nat /\ i < Len(link)
  BY DEF RequestInv, RequestType, DecodeEscape
<1>2. c \in Nat
  BY HexFacts DEF DecodeEscape, EscapeIsWhole
<1>3. PlainName => \E k \in 1 .. Len(url_) :
         k = Len(res) + 1 /\ i + 3 = Place(k + 1) /\ c = url_[k]
  BY <1>1, AtCharacter DEF DecodeEscape
<1> HIDE DEF c
<1>4. res' = Append(res, c) /\ i' = i + 3
  BY DEF DecodeEscape, c
<1> QED
  BY <1>1, <1>2, <1>3, <1>4, OneMore DEF DecodeEscape

LEMMA DecodeAbortsStep ==
  ASSUME RequestInv, DecodeAborts
  PROVE  RequestInv'
<1>1. ~PlainName
  BY AtCharacter DEF DecodeAborts, EscapeIsWhole
<1>2. CodecInv' /\ RequestType' /\ EscapeInv' /\ ~PlainName'
  <2>1. CodecInv'
    BY CodecStep DEF RequestInv, DecodeAborts, UrlDecode, Next
  <2>2. url_' = url_ /\ (\A k : Place(k)' = Place(k))
    BY DEF DecodeAborts, base64Vars, url_, Place
  <2> QED
    BY <1>1, <2>1, <2>2 DEF RequestInv, RequestType, EscapeInv, DecodeAborts,
                            base64Vars, PlainName
<1> QED
  BY <1>2 DEF RequestInv, LinkFindsFile, DecodeAborts

LEMMA LookupStep ==
  ASSUME RequestInv, Lookup
  PROVE  RequestInv'
<1>1. /\ CodecInv /\ RequestType /\ EscapeInv /\ pc = "decoded"
  BY DEF RequestInv, RequestType, Lookup
<1>2. CodecInv'
  BY <1>1, CodecStep DEF Lookup, Next
<1>3. /\ url_' = url_ /\ (\A k : Place(k)' = Place(k)) /\ PlainName' = PlainName
      /\ res' = res /\ i' = i /\ starts' = starts /\ link' = link
  BY DEF Lookup, base64Vars, url_, Place, PlainName
<1>4. RequestType' /\ EscapeInv'
  BY <1>1, <1>3 DEF RequestType, EscapeInv, Lookup, base64Vars
<1>5. ASSUME PlainName PROVE res = url_
  <2>1. DecodedInv /\ Len(starts) = Len(url_) /\ i = Len(link)
    BY <1>5 DEF RequestInv, Lookup
  <2>2. url_ \in Seq(Bytes) /\ Len(url_) \in Nat /\ res \in Seq(Nat) /\ Len(res) \in Nat
    BY <1>1, UrlFacts, LengthFacts DEF RequestType
  <2>3. Len(res) = Len(url_)
    <3> SUFFICES ASSUME Len(res) < Len(url_) PROVE FALSE
      BY <2>1, <2>2 DEF DecodedInv
    <3>1. PICK k \in 1 .. Len(starts) : k = Len(res) + 1
      BY <2>1, <2>2
    <3>2. Place(k) + Len(Escaped(url_[k])) <= Len(link) /\ Place(k) = Len(link)
      BY <1>1, <2>1, <3>1 DEF EscapeInv, DecodedInv
    <3>3. url_[k] \in Bytes /\ url_[k] # 9
      BY <1>1, <1>5, <2>1, <3>1, UrlFacts
    <3>4. Len(Escaped(url_[k])) \in {1, 3} /\ Len(link) \in Nat
      BY <1>1, <3>3, EscapedShape, LengthFacts
    <3>5. PICK n \in {1, 3} : n = Len(Escaped(url_[k]))
      BY <3>4
    <3>6. Len(link) + n <= Len(link)
      BY <3>2, <3>5
    <3> QED
      BY <3>4, <3>6
  <2>4. url_ \in Seq(Nat)
    <3>1. Bytes \subseteq Nat
      BY DEF Bytes
    <3> QED
      BY <2>2, <3>1, SeqMonotonic
  <2> QED
    BY <2>1, <2>2, <2>3, <2>4, SeqEqual DEF DecodedInv
<1>6. DecodedInv => DecodedInv'
  BY <1>3 DEF DecodedInv
<1> QED
  BY <1>2, <1>3, <1>4, <1>5, <1>6 DEF RequestInv, LinkFindsFile, Lookup

LEMMA RequestStep ==
  ASSUME RequestInv, Request
  PROVE  RequestInv'
<1>1. /\ CodecInv /\ RequestType /\ EscapeInv /\ pc = "decoded" /\ res = <<>> /\ i = 0
  BY DEF RequestInv, RequestType, Request
<1>2. CodecInv'
  BY <1>1, CodecStep DEF Request, Next
<1>3. /\ url_' = url_ /\ (\A k : Place(k)' = Place(k)) /\ PlainName' = PlainName
      /\ res' = res /\ i' = i /\ starts' = starts /\ link' = link
  BY DEF Request, base64Vars, url_, Place, PlainName
<1>4. RequestType' /\ EscapeInv'
  BY <1>1, <1>3 DEF RequestType, EscapeInv, Request, base64Vars
<1>5. ASSUME PlainName PROVE Len(starts) = Len(url_) /\ DecodedInv
  <2>1. Len(url_) \in Nat /\ Len(starts) \in Nat /\ Len(starts) <= Len(url_)
    BY <1>1, UrlFacts, LengthFacts DEF EscapeInv
  <2>2. ~(Len(starts) < Len(url_))
    BY <1>1, <1>5, <2>1, UrlFacts DEF Request
  <2>3. Len(res) = 0 /\ Place(Len(res) + 1) = 0
    BY <1>1 DEF EscapeInv
  <2> QED
    BY <1>1, <2>1, <2>2, <2>3 DEF DecodedInv
<1>6. DecodedInv => DecodedInv'
  BY <1>3 DEF DecodedInv
<1> QED
  BY <1>2, <1>3, <1>4, <1>5, <1>6 DEF RequestInv, LinkFindsFile, Request

(* Before the click nothing of the link is there.                            *)
LEMMA BeforeClick ==
  ASSUME RequestInv, req = "none", CodecInv',
         UNCHANGED <<link, starts, res, i>>,
         \/ UNCHANGED req
         \/ req' = "escape" /\ pc' = "decoded"
  PROVE  RequestInv'
<1>1. starts' = <<>> /\ link' = <<>> /\ res' = <<>> /\ i' = 0
  BY DEF RequestInv
<1>2. EscapeInv'
  <2>1. Len(url_') \in Nat /\ Len(starts') = 0 /\ Len(link') = 0
    <3>1. (Len(url_) \in Nat)'
      BY UrlFacts
    <3> QED
      BY <1>1, <3>1
  <2> QED
    BY <2>1 DEF EscapeInv, Place
<1>3. RequestType'
  BY <1>1 DEF RequestInv, RequestType
<1> QED
  BY <1>1, <1>2, <1>3 DEF RequestInv, LinkFindsFile

LEMMA RequestHolds == Spec => []RequestInv
<1>1. Init => RequestInv
  <2> SUFFICES ASSUME Init PROVE RequestInv
    OBVIOUS
  <2>1. CodecInv
    BY CodecInit DEF Init
  <2>2. Len(url_) \in Nat
    BY <2>1, UrlFacts
  <2> QED
    BY <2>1, <2>2 DEF Init, RequestInv, RequestType, EscapeInv, Place, LinkFindsFile
<1>2. RequestInv /\ [Next]_vars => RequestInv'
  <2> SUFFICES ASSUME RequestInv, [Next]_vars PROVE RequestInv'
    OBVIOUS
  <2>1. CodecInv'
    BY CodecStep DEF RequestInv
  <2>2. CASE Encoding
    <3>1. req = "none"
      BY <2>2 DEF Encoding, Base64Next, base64_encode, base64_decode, EncodeChunk,
           EncodeReturn, Trim, DecodeCall, DecodeChunk, DecodeReturn,
           RequestInv, RequestType
    <3> QED
      BY <2>1, <2>2, <3>1, BeforeClick DEF Encoding, nameVars
  <2>3. CASE Click
    BY <2>1, <2>3, BeforeClick DEF Click, base64Vars
  <2>4. CASE UrlDecode
    BY <2>4, DecodePlainStep, DecodeEscapeStep, DecodeAbortsStep DEF UrlDecode
  <2>5. CASE UNCHANGED vars
    <3>1. url_' = url_ /\ (\A k : Place(k)' = Place(k)) /\ PlainName' = PlainName
      BY <2>5 DEF vars, base64Vars, nameVars, url_, Place, PlainName
    <3>2. RequestType' /\ EscapeInv' /\ (DecodedInv => DecodedInv')
      BY <2>5, <3>1 DEF vars, base64Vars, nameVars, RequestInv, RequestType, EscapeInv,
           DecodedInv
    <3> QED
      BY <2>1, <2>5, <3>1, <3>2 DEF vars, base64Vars, nameVars, RequestInv, LinkFindsFile
  <2> QED
    BY <2>2, <2>3, <2>4, <2>5, EscapeNextStep, RequestStep, LookupStep DEF Next
<1> QED
  BY <1>1, <1>2, PTL DEF Spec

(* The button in the list leads back to the file, for every name that has no *)
(* percent, question or number sign and no tab and does not end in a space   *)
(* or a control character (DataManager.hpp:30, Service.hpp:307).             *)
THEOREM LinksWork == Spec => []LinkFindsFile
<1>1. RequestInv => LinkFindsFile
  BY DEF RequestInv
<1> QED
  BY <1>1, RequestHolds, PTL

-----------------------------------------------------------------------------
(* The other names.  UrlDecode takes a percent sign of the name and what     *)
(* follows it for one character, and never sees a tab, so it has always read *)
(* at least as many characters of the url as it has written, and more after  *)
(* such a sign.                                                              *)

(* The first n characters of the url have been read.                         *)
HasRead(n) ==
  /\ Len(res) <= n /\ n <= Len(starts)
  /\ i = Place(n + 1)
  /\ n = Len(res) => \A k \in 1 .. n : url_[k] \notin {9, 37}

FoundInv ==
  /\ \A k \in 1 .. Len(starts) : ~PathEnds(k)
  /\ req \notin {"none", "escape"} => \E n \in Nat : HasRead(n)
  /\ OnlyPlainIsFound

(* Each character of the link's url is there as it is, or as an escape, but  *)
(* for tabs; a percent sign is there as it is.                               *)
LEMMA CharacterAt ==
  ASSUME RequestInv, NEW k \in 1 .. Len(starts)
  PROVE  /\ Place(k) \in Nat /\ Place(k + 1) \in Nat
         /\ \/ /\ link[Place(k) + 1] = url_[k] /\ Place(k + 1) = Place(k) + 1
               /\ url_[k] # 9
            \/ /\ link[Place(k) + 1] = 37 /\ Place(k + 1) = Place(k) + 3
               /\ url_[k] \notin {9, 37}
            \/ url_[k] = 9 /\ Place(k + 1) = Place(k)
<1>1. CodecInv /\ RequestType /\ EscapeInv
  BY DEF RequestInv
<1>2. /\ Len(url_) \in Nat /\ Len(starts) \in Nat /\ Len(starts) <= Len(url_)
      /\ \A m \in Nat \ {0} : Place(m) \in Nat
  BY <1>1, UrlFacts, LengthFacts DEF EscapeInv
<1>3. k \in 1 .. Len(url_) /\ k \in Nat \ {0} /\ k + 1 \in Nat \ {0}
  BY <1>2
<1>4. PICK c \in Bytes : c = url_[k]
  BY <1>1, <1>3, UrlFacts
<1>5. PICK e : e = Escaped(c)
  OBVIOUS
<1>6. Place(k) + Len(e) = Place(k + 1) /\ \A n \in 1 .. Len(e) : link[Place(k) + n] = e[n]
  BY <1>1, <1>4, <1>5 DEF EscapeInv
<1>7. CASE c # 9 /\ e = <<c>>
  <2>1. Len(e) = 1 /\ e[1] = c
    BY <1>7
  <2> QED
    BY <1>2, <1>3, <1>4, <1>6, <1>7, <2>1
<1>8. CASE c \notin {9, 37} /\ \E h, l : e = <<37, h, l>>
  <2>1. Len(e) = 3 /\ e[1] = 37
    BY <1>8
  <2>2. Place(k) + 3 = Place(k + 1) /\ link[Place(k) + 1] = 37
    BY <1>6, <2>1
  <2> QED
    BY <1>2, <1>3, <1>4, <1>8, <2>2
<1>9. CASE c = 9 /\ e = <<>>
  <2>1. Len(e) = 0
    BY <1>9
  <2> QED
    BY <1>2, <1>3, <1>4, <1>6, <1>9, <2>1
<1>10. \/ c = 9 /\ e = <<>>
       \/ c # 9 /\ e = <<c>>
       \/ c \notin {9, 37} /\ \E h, l : e = <<37, h, l>>
  <2>1. CASE c = 9
    BY <1>5, <2>1 DEF Escaped
  <2>2. CASE c # 9 /\ c \in (33 .. 126) \ {34, 60, 62, 96, 123, 125}
    BY <1>5, <2>2 DEF Escaped
  <2>3. CASE c # 9 /\ c \notin (33 .. 126) \ {34, 60, 62, 96, 123, 125}
    <3>1. c \notin {9, 37}
      BY <2>3
    <3>2. e = <<37, ToHex(c \div 16), ToHex(c % 16)>>
      BY <1>5, <2>3 DEF Escaped
    <3> QED
      BY <3>1, <3>2, Zenon
  <2> QED
    BY <2>1, <2>2, <2>3
<1> QED
  BY <1>7, <1>8, <1>9, <1>10, Zenon

LEMMA SmallestThereIs ==
  ASSUME NEW D \in SUBSET Nat, D # {}
  PROVE  \E m \in D : \A k \in D : m <= k
<1> DEFINE R == OpToRel(<, Nat)
<1>1. IsWellFoundedOn(R, Nat)
  BY NatLessThanWellFounded
<1>2. \A x, y \in Nat : <<x, y>> \notin R => ~(x < y)
  BY DEF OpToRel
<1> HIDE DEF R
<1>3. PICK m \in D : \A k \in D : ~(<<k, m>> \in R)
  BY <1>1, WFMin
<1>4. ASSUME NEW k \in D PROVE m <= k
  <2>1. m \in Nat /\ k \in Nat
    OBVIOUS
  <2>2. ~(k < m)
    BY <1>2, <1>3, <2>1, Zenon
  <2> QED
    BY <2>1, <2>2
<1> QED
  BY <1>4

(* Before the end of the link there is a character to read, after tabs.      *)
LEMMA MoreToRead ==
  ASSUME RequestInv, NEW n \in Nat, n <= Len(starts), Place(n + 1) < Len(link)
  PROVE  \E m \in Nat :
            /\ n <= m /\ m + 1 \in 1 .. Len(starts)
            /\ Place(m + 1) = Place(n + 1) /\ url_[m + 1] # 9
<1>1. /\ Len(starts) \in Nat /\ Len(link) \in Nat
      /\ \A k \in Nat \ {0} : Place(k) \in Nat
  BY LengthFacts DEF RequestInv
<1> DEFINE D == {d \in 0 .. Len(starts) - n : Place(Len(starts) - d + 1) = Place(n + 1)}
<1>2. D \in SUBSET Nat /\ Len(starts) - n \in D
  <2>1. Len(starts) - (Len(starts) - n) + 1 = n + 1 /\ Len(starts) - n \in 0 .. Len(starts) - n
    BY <1>1
  <2>2. Len(starts) - n \in D
    BY <2>1, Zenon
  <2> QED
    BY <1>1, <2>2
<1>3. PICK d \in D : \A k \in D : d <= k
  BY <1>2, SmallestThereIs
<1>4. PICK m \in Nat : m = Len(starts) - d /\ n <= m /\ m <= Len(starts)
  <2>1. d \in 0 .. Len(starts) - n
    OBVIOUS
  <2>2. Len(starts) - d \in Nat /\ n <= Len(starts) - d /\ Len(starts) - d <= Len(starts)
    BY <1>1, <2>1
  <2> QED
    BY <2>2
<1>5. Place(m + 1) = Place(n + 1)
  BY <1>3, <1>4
<1>6. m + 1 \in 1 .. Len(starts)
  <2> SUFFICES ASSUME m = Len(starts) PROVE FALSE
    BY <1>1, <1>4
  <2>1. Place(m + 1) = Len(link)
    BY <1>1 DEF Place
  <2> QED
    BY <1>1, <1>5, <2>1
<1>7. Place(m + 2) # Place(n + 1)
  <2> SUFFICES ASSUME Place(m + 2) = Place(n + 1) PROVE FALSE
    OBVIOUS
  <2>1. d - 1 \in 0 .. Len(starts) - n /\ Len(starts) - (d - 1) + 1 = m + 2 /\ ~(d <= d - 1)
    BY <1>1, <1>3, <1>4, <1>6
  <2>2. d - 1 \in D
    BY <2>1, Zenon
  <2> QED
    BY <1>3, <2>1, <2>2
<1>8. url_[m + 1] # 9
  <2>1. (m + 1) + 1 = m + 2
    BY <1>4
  <2>2. url_[m + 1] = 9 => Place(m + 2) = Place(m + 1)
    BY <1>6, <2>1, CharacterAt
  <2> QED
    BY <1>5, <1>7, <2>2
<1> QED
  BY <1>4, <1>5, <1>6, <1>8

(* One character is written after so many have been read.                    *)
LEMMA ReadOn ==
  ASSUME RequestInv, FoundInv, req = "decode", NEW c, NEW m \in Nat,
         UNCHANGED <<base64Vars, link, starts, req>>, res' = Append(res, c),
         i' = Place(m + 1), Len(res) + 1 <= m, m <= Len(starts),
         m = Len(res) + 1 => \A k \in 1 .. m : url_[k] \notin {9, 37}
  PROVE  FoundInv'
<1>1. res \in Seq(Nat) /\ Len(res) \in Nat
  BY LengthFacts DEF RequestInv, RequestType
<1>2. Len(res') = Len(res) + 1
  BY <1>1
<1>3. /\ url_' = url_ /\ (\A k : Place(k)' = Place(k)) /\ starts' = starts
      /\ \A k : PathEnds(k)' = PathEnds(k)
  BY DEF base64Vars, url_, Place, PathEnds
<1>4. HasRead(m)'
  BY <1>2, <1>3 DEF HasRead, Place
<1>5. OnlyPlainIsFound'
  BY DEF OnlyPlainIsFound
<1> QED
  BY <1>3, <1>4, <1>5 DEF FoundInv

LEMMA FoundPlain ==
  ASSUME RequestInv, FoundInv, DecodePlain
  PROVE  FoundInv'
<1>1. /\ req = "decode" /\ i < Len(link) /\ link[i + 1] # 37 /\ i' = i + 1
      /\ res' = Append(res, link[i + 1]) /\ UNCHANGED <<base64Vars, link, starts, req>>
  BY DEF DecodePlain
<1>2. PICK n \in Nat : HasRead(n)
  BY <1>1 DEF FoundInv
<1>3. PICK l \in Nat : /\ n <= l /\ l + 1 \in 1 .. Len(starts)
                       /\ Place(l + 1) = i /\ url_[l + 1] # 9
  BY <1>1, <1>2, MoreToRead DEF HasRead
<1>4. Place(l + 2) = i + 1 /\ url_[l + 1] \notin {9, 37}
  <2>1. (l + 1) + 1 = l + 2
    OBVIOUS
  <2> QED
    BY <1>1, <1>3, <2>1, CharacterAt
<1>5. Len(res) \in Nat /\ Len(starts) \in Nat
  BY LengthFacts DEF RequestInv
<1>6. PICK m \in Nat : m = l + 1
  OBVIOUS
<1>7. /\ i' = Place(m + 1) /\ Len(res) + 1 <= m /\ m <= Len(starts)
      /\ m = Len(res) + 1 => \A k \in 1 .. m : url_[k] \notin {9, 37}
  <2>0. Len(res) <= n /\ n <= l /\ l + 1 <= Len(starts)
    BY <1>2, <1>3, <1>5 DEF HasRead
  <2>1. m = Len(res) + 1 => n = Len(res) /\ l = n
    BY <1>5, <1>6, <2>0
  <2>2. \A k \in 1 .. m : k \in 1 .. l \/ k = l + 1
    BY <1>6
  <2>3. m + 1 = l + 2
    BY <1>6
  <2> QED
    BY <1>1, <1>2, <1>4, <1>5, <1>6, <2>0, <2>1, <2>2, <2>3 DEF HasRead
<1>8. PICK c : c = link[i + 1]
  OBVIOUS
<1>9. /\ req = "decode" /\ res' = Append(res, c)
      /\ UNCHANGED <<base64Vars, link, starts, req>>
  BY <1>1, <1>8
<1> QED
  BY <1>6, <1>7, <1>9, ReadOn

LEMMA FoundEscape ==
  ASSUME RequestInv, FoundInv, DecodeEscape
  PROVE  FoundInv'
<1> DEFINE c == (FromHex(link[i + 2]) * 16 + FromHex(link[i + 3])) % 256
<1>1. /\ req = "decode" /\ i < Len(link) /\ link[i + 1] = 37 /\ i' = i + 3
      /\ res' = Append(res, c) /\ UNCHANGED <<base64Vars, link, starts, req>>
      /\ i + 2 < Len(link) /\ link[i + 2] # 37 /\ link[i + 3] # 37
  <2>1. /\ link[i + 2] \in HexDigits /\ link[i + 3] \in HexDigits
        /\ i + 2 < Len(link)
    BY DEF DecodeEscape, EscapeIsWhole
  <2>2. 37 \notin HexDigits
    BY DEF HexDigits
  <2>3. /\ req = "decode" /\ i < Len(link) /\ link[i + 1] = 37 /\ i' = i + 3
        /\ res' = Append(res, c) /\ UNCHANGED <<base64Vars, link, starts, req>>
    BY DEF DecodeEscape
  <2> QED
    BY <2>1, <2>2, <2>3
<1> HIDE DEF c
<1>2. PICK n \in Nat : HasRead(n)
  BY <1>1 DEF FoundInv
<1>3. PICK l \in Nat : /\ n <= l /\ l + 1 \in 1 .. Len(starts)
                       /\ Place(l + 1) = i /\ url_[l + 1] # 9
  BY <1>1, <1>2, MoreToRead DEF HasRead
<1>4. Len(res) \in Nat /\ Len(starts) \in Nat /\ i \in Nat /\ Len(link) \in Nat
  BY LengthFacts DEF RequestInv, RequestType
<1>5. (l + 1) + 1 = l + 2 /\ (i + 1) + 1 = i + 2 /\ (i + 2) + 1 = i + 3
  BY <1>4
<1>6. \/ Place(l + 2) = i + 1
      \/ Place(l + 2) = i + 3 /\ url_[l + 1] \notin {9, 37}
  BY <1>1, <1>3, <1>5, CharacterAt
<1>7. CASE Place(l + 2) = i + 3 /\ url_[l + 1] \notin {9, 37}
  <2>1. PICK m \in Nat : m = l + 1
    OBVIOUS
  <2>2. Len(res) <= n /\ (m = Len(res) + 1 => n = Len(res) /\ l = n)
    BY <1>2, <1>3, <1>4, <2>1 DEF HasRead
  <2>3. \A k \in 1 .. m : k \in 1 .. l \/ k = l + 1
    BY <2>1
  <2>4. /\ i' = Place(m + 1) /\ Len(res) + 1 <= m /\ m <= Len(starts)
        /\ m = Len(res) + 1 => \A k \in 1 .. m : url_[k] \notin {9, 37}
    <3>1. i' = Place(m + 1)
      BY <1>1, <1>5, <1>7, <2>1
    <3>2. Len(res) + 1 <= m /\ m <= Len(starts)
      BY <1>3, <1>4, <2>1, <2>2
    <3>3. ASSUME m = Len(res) + 1 PROVE \A k \in 1 .. m : url_[k] \notin {9, 37}
      BY <1>2, <1>7, <2>2, <2>3, <3>3 DEF HasRead
    <3> QED
      BY <3>1, <3>2, <3>3
  <2> QED
    BY <1>1, <2>1, <2>4, ReadOn
<1>8. CASE Place(l + 2) = i + 1
  <2>1. PICK p \in Nat : /\ l + 1 <= p /\ p + 1 \in 1 .. Len(starts)
                         /\ Place(p + 1) = i + 1 /\ url_[p + 1] # 9
    <3>1. PICK m \in Nat : m = l + 1
      OBVIOUS
    <3>2. m <= Len(starts) /\ Place(m + 1) = i + 1 /\ i + 1 < Len(link)
      BY <1>1, <1>3, <1>4, <1>5, <1>8, <3>1
    <3> QED
      BY <3>1, <3>2, MoreToRead
  <2>2. Place(p + 2) = i + 2
    <3>1. (p + 1) + 1 = p + 2
      OBVIOUS
    <3> QED
      BY <1>1, <1>4, <1>5, <2>1, <3>1, CharacterAt
  <2>3. PICK q \in Nat : /\ p + 1 <= q /\ q + 1 \in 1 .. Len(starts)
                         /\ Place(q + 1) = i + 2 /\ url_[q + 1] # 9
    <3>1. PICK m \in Nat : m = p + 1
      OBVIOUS
    <3>2. m <= Len(starts) /\ Place(m + 1) = i + 2 /\ i + 2 < Len(link)
      BY <1>1, <1>4, <2>1, <2>2, <3>1
    <3> QED
      BY <3>1, <3>2, MoreToRead
  <2>4. Place(q + 2) = i + 3
    <3>1. (q + 1) + 1 = q + 2
      OBVIOUS
    <3> QED
      BY <1>1, <1>4, <1>5, <2>3, <3>1, CharacterAt
  <2>5. PICK m \in Nat : m = q + 1
    OBVIOUS
  <2>6. i' = Place(m + 1) /\ m <= Len(starts)
    BY <1>1, <1>4, <2>3, <2>4, <2>5
  <2>7. Len(res) + 1 <= m /\ m # Len(res) + 1
    BY <1>2, <1>3, <1>4, <2>1, <2>3, <2>5 DEF HasRead
  <2> QED
    BY <1>1, <2>6, <2>7, ReadOn
<1> QED
  BY <1>6, <1>7, <1>8

(* The whole url was written, so it was read character by character.         *)
LEMMA FoundLookup ==
  ASSUME RequestInv, FoundInv, Lookup
  PROVE  FoundInv'
<1>1. /\ req = "decode" /\ UNCHANGED <<base64Vars, link, starts, res, i>>
      /\ req' = "found" => res = url_
  BY DEF Lookup
<1>2. CodecInv /\ EscapeInv /\ RequestType /\ pc = "decoded"
  BY <1>1 DEF RequestInv, RequestType
<1>3. PICK n \in Nat : HasRead(n)
  BY <1>1 DEF FoundInv
<1>4. url_' = url_ /\ (\A k : Place(k)' = Place(k)) /\ PlainName' = PlainName
  BY <1>1 DEF base64Vars, url_, Place, PlainName
<1>5. ASSUME res = url_ PROVE PlainName
  <2>1. /\ Len(url_) \in Nat /\ Len(starts) \in Nat /\ Len(starts) <= Len(url_)
        /\ Len(res) = Len(url_)
    BY <1>2, <1>5, UrlFacts, LengthFacts DEF EscapeInv
  <2>2. n = Len(res) /\ n = Len(starts) /\ n = Len(url_)
    BY <1>3, <2>1 DEF HasRead
  <2>3. \A k \in 1 .. Len(url_) : url_[k] \notin {9, 37, 63, 35} /\ ~PathEnds(k)
    BY <1>3, <2>2 DEF HasRead, FoundInv, PathEnds
  <2>4. decoded \in Seq(Bytes) /\ decoded = text /\ Prefix \in Seq(Bytes)
    <3>1. Prefix \in Seq(Bytes)
      BY PrefixAssumption, SeqMonotonic DEF Bytes
    <3> QED
      BY <1>2, <3>1 DEF CodecInv, TypeInv, RoundTrip
  <2>5. /\ Len(url_) = Len(Prefix) + Len(text)
        /\ \A k \in 1 .. Len(text) : url_[Len(Prefix) + k] = text[k]
    BY <2>4, Joined DEF url_
  <2>6. Len(Prefix) \in Nat /\ Len(text) \in Nat
    BY <2>4, LenProperties
  <2>7. ASSUME NEW k \in 1 .. Len(text) PROVE text[k] \notin {9, 37, 63, 35}
    <3>1. Len(Prefix) + k \in 1 .. Len(url_)
      BY <2>5, <2>6
    <3> QED
      BY <2>3, <2>5, <3>1
  <2>8. ASSUME text # <<>> PROVE text[Len(text)] > 32
    <3>1. Len(text) \in 1 .. Len(text)
      BY <2>4, <2>6, <2>8, EmptySeq
    <3>2. Len(url_) \in 1 .. Len(url_) /\ url_[Len(url_)] = text[Len(text)]
      BY <2>5, <2>6, <3>1
    <3>3. \A j \in Len(url_) .. Len(url_) : j = Len(url_)
      BY <2>1
    <3>4. ~(url_[Len(url_)] <= 32)
      BY <2>3, <3>2, <3>3 DEF PathEnds
    <3>5. text[Len(text)] \in Bytes
      BY <2>4, <3>1, ElementOfSeq
    <3>6. \A b \in Bytes : b > 32 \/ b <= 32
      BY DEF Bytes
    <3> QED
      BY <3>2, <3>4, <3>5, <3>6
  <2> QED
    BY <2>7, <2>8 DEF PlainName
<1>6. OnlyPlainIsFound'
  BY <1>1, <1>4, <1>5 DEF OnlyPlainIsFound
<1>7. HasRead(n)'
  BY <1>1, <1>3, <1>4 DEF HasRead
<1>8. \A k \in 1 .. Len(starts') : ~PathEnds(k)'
  BY <1>1, <1>4 DEF FoundInv, PathEnds
<1> QED
  BY <1>6, <1>7, <1>8 DEF FoundInv

LEMMA FoundStep ==
  ASSUME RequestInv, FoundInv, [Next]_vars
  PROVE  FoundInv'
<1>1. CASE Encoding \/ Click
  <2>1. req = "none"
    BY <1>1 DEF Encoding, Base64Next, base64_encode, base64_decode, EncodeChunk,
         EncodeReturn, Trim, DecodeCall, DecodeChunk, DecodeReturn, Click,
         RequestInv, RequestType
  <2>2. starts' = starts /\ req' \in {"none", "escape"}
    BY <1>1, <2>1 DEF Encoding, Click, nameVars
  <2>3. Len(starts') = 0
    BY <2>1, <2>2 DEF RequestInv
  <2> QED
    BY <2>2, <2>3 DEF FoundInv, OnlyPlainIsFound
<1>2. CASE EscapeNext
  <2>1. /\ req = "escape" /\ req' = req /\ url_' = url_
        /\ starts' = Append(starts, Len(link)) /\ ~PathEnds(Len(starts) + 1)
    BY <1>2 DEF EscapeNext, base64Vars, url_
  <2>2. starts \in Seq(Nat) /\ Len(starts) \in Nat
    BY LengthFacts DEF RequestInv, RequestType
  <2>3. Len(starts') = Len(starts) + 1
    BY <2>1, <2>2
  <2>4. \A k \in 1 .. Len(starts') : k \in 1 .. Len(starts) \/ k = Len(starts) + 1
    BY <2>2, <2>3
  <2>5. \A k \in 1 .. Len(starts') : ~PathEnds(k)'
    BY <2>1, <2>4 DEF FoundInv, PathEnds
  <2> QED
    BY <2>1, <2>5 DEF FoundInv, OnlyPlainIsFound
<1>3. CASE Request
  <2>1. /\ req = "escape" /\ req' = "decode" /\ res' = <<>> /\ i' = 0 /\ starts' = starts
        /\ url_' = url_ /\ \A k : Place(k)' = Place(k)
    BY <1>3 DEF Request, RequestInv, base64Vars, url_, Place
  <2>2. Place(0 + 1)' = 0 /\ Len(res') = 0 /\ Len(starts) \in Nat
    BY <2>1, LengthFacts DEF RequestInv, EscapeInv
  <2>3. HasRead(0)'
    BY <2>1, <2>2 DEF HasRead
  <2>4. \A k \in 1 .. Len(starts') : ~PathEnds(k)'
    BY <2>1 DEF FoundInv, PathEnds
  <2> QED
    BY <2>1, <2>3, <2>4 DEF FoundInv, OnlyPlainIsFound
<1>4. CASE DecodePlain \/ DecodeEscape \/ Lookup
  BY <1>4, FoundPlain, FoundEscape, FoundLookup
<1>5. CASE DecodeAborts \/ UNCHANGED vars
  <2>1. /\ UNCHANGED <<base64Vars, link, starts, res, i>>
        /\ req' = req \/ (req = "decode" /\ req' = "abort")
    BY <1>5 DEF DecodeAborts, vars, nameVars
  <2>2. url_' = url_ /\ (\A k : Place(k)' = Place(k)) /\ PlainName' = PlainName
    BY <2>1 DEF base64Vars, url_, Place, PlainName
  <2>3. \A n \in Nat : HasRead(n) => HasRead(n)'
    BY <2>1, <2>2 DEF HasRead
  <2>4. \A k \in 1 .. Len(starts') : ~PathEnds(k)'
    BY <2>1, <2>2 DEF FoundInv, PathEnds
  <2>5. OnlyPlainIsFound'
    BY <2>1, <2>2 DEF FoundInv, OnlyPlainIsFound
  <2>6. (req \notin {"none", "escape"} => \E n \in Nat : HasRead(n))'
    BY <2>1, <2>3 DEF FoundInv
  <2> QED
    BY <2>4, <2>5, <2>6 DEF FoundInv
<1> QED
  BY <1>1, <1>2, <1>3, <1>4, <1>5 DEF Next, UrlDecode

(* LinksWork is exact: a name with a percent, question or number sign or a   *)
(* tab in it, or a space at its end, is never found by its button, whatever  *)
(* follows the sign (Util.hpp:30-65, DataManager.hpp:30, Service.hpp:307).   *)
THEOREM OthersAreLost == Spec => []OnlyPlainIsFound
<1>1. Init => FoundInv
  BY DEF Init, FoundInv, OnlyPlainIsFound
<1>2. RequestInv /\ FoundInv /\ [Next]_vars => FoundInv'
  BY FoundStep
<1>3. FoundInv => OnlyPlainIsFound
  BY DEF FoundInv
<1> QED
  BY <1>1, <1>2, <1>3, RequestHolds, PTL DEF Spec
=============================================================================
