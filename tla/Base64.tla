------------------------------- MODULE Base64 --------------------------------
(***************************************************************************)
(* The base64 codec (src/server/base64.cpp).  The page encodes the name of *)
(* a file, Upload decodes it.  Both are loops over chunks: three bytes     *)
(* become four characters and back.  An iteration of a loop is a step.     *)
(*                                                                         *)
(* A character is its ASCII code, a string the sequence of its characters, *)
(* and byte number k of the code is number k + 1 of the sequence.          *)
(***************************************************************************)
EXTENDS Integers, Sequences

CONSTANT Texts    (* the texts somebody may encode                         *)

ASSUME TextsAssumption == Texts \subseteq Seq(0 .. 255)

VARIABLES
  text,      (* bytes_to_encode                                            *)
  url,       (* the parameter url of base64_encode                         *)
  coded,     (* what base64_encode returns, then encoded_string            *)
  decoded,   (* what base64_decode returns                                 *)
  pos,       (* the position of the loop that runs                         *)
  pc         (* "encode", "sent", "decode", then "decoded" or "thrown"     *)

base64Vars == <<text, url, coded, decoded, pos, pc>>

(* base64_chars[u]: letters, digits and two more, which depend on u.        *)
CharOf(v, u) ==
  CASE v \in 0 .. 25  -> v + 65
    [] v \in 26 .. 51 -> v + 71
    [] v \in 52 .. 61 -> v - 4
    [] v = 62 -> IF u THEN 45 ELSE 43
    [] v = 63 -> IF u THEN 95 ELSE 47

(* The characters of both alphabets: pos_of_char throws at any other.       *)
Chars == (65 .. 90) \cup (97 .. 122) \cup (48 .. 57) \cup {43, 45, 47, 95}

pos_of_char(c) ==
  CASE c \in 65 .. 90  -> c - 65
    [] c \in 97 .. 122 -> c - 71
    [] c \in 48 .. 57  -> c + 4
    [] c \in {43, 45}  -> 62
    [] c \in {47, 95}  -> 63

\* mutant: the filler of the other alphabet is taken for data.
Padding_EqualsOnly == {61}

(* '=' and '.', at which a chunk that is decoded ends early.                *)
Padding == {61, 46}

Base64Init ==
  /\ text \in Texts
  /\ url \in BOOLEAN
  /\ coded = <<>>
  /\ decoded = <<>>
  /\ pos = 0
  /\ pc = "encode"

-----------------------------------------------------------------------------
(* base64_encode                                                             *)

(* The byte at pos + k; past the end the formulas do without it.             *)
ByteAt(k) == IF pos + k < Len(text) THEN text[pos + k + 1] ELSE 0

(* The four characters of the chunk at pos.                                  *)
EncodedChunk ==
  LET trailing_char == IF url THEN 46 ELSE 61
      b0 == ByteAt(0)
      b1 == ByteAt(1)
      b2 == ByteAt(2)
  IN << CharOf(b0 \div 4, url),
        CharOf((b0 % 4) * 16 + b1 \div 16, url),
        IF pos + 1 < Len(text) THEN CharOf((b1 % 16) * 4 + b2 \div 64, url)
                               ELSE trailing_char,
        IF pos + 2 < Len(text) THEN CharOf(b2 % 64, url) ELSE trailing_char >>

EncodeChunk ==
  /\ pc = "encode"
  /\ pos < Len(text)
  /\ coded' = coded \o EncodedChunk
  /\ pos' = pos + 3
  /\ UNCHANGED <<text, url, decoded, pc>>

EncodeReturn ==
  /\ pc = "encode"
  /\ pos >= Len(text)
  /\ pc' = "sent"
  /\ UNCHANGED <<text, url, coded, decoded, pos>>

(* RFC 2045 lets a client leave the filler out.                              *)
Trim ==
  /\ pc = "sent"
  /\ Len(coded) > 0 /\ coded[Len(coded)] \in {61, 46}
  /\ coded' = SubSeq(coded, 1, Len(coded) - 1)
  /\ UNCHANGED <<text, url, decoded, pos, pc>>

-----------------------------------------------------------------------------
(* base64_decode                                                             *)

DecodeCall ==
  /\ pc = "sent"
  /\ pos' = 0
  /\ pc' = "decode"
  /\ UNCHANGED <<text, url, coded, decoded>>

(* Whether the chunk at pos has a second and a third byte.                   *)
HasSecond == pos + 2 < Len(coded) /\ coded[pos + 3] \notin Padding
HasThird  == HasSecond /\ pos + 3 < Len(coded) /\ coded[pos + 4] \notin Padding

(* encoded_string.at(pos+1) is past the end, or some pos_of_char throws.     *)
ChunkThrows ==
  \/ pos + 1 >= Len(coded)
  \/ coded[pos + 1] \notin Chars
  \/ coded[pos + 2] \notin Chars
  \/ HasSecond /\ coded[pos + 3] \notin Chars
  \/ HasThird /\ coded[pos + 4] \notin Chars

(* Every byte is below 256, so the cast to char takes nothing away.          *)
DecodedChunk ==
  LET p(k) == pos_of_char(coded[pos + k + 1])
      first  == p(0) * 4 + p(1) \div 16
      second == (p(1) % 16) * 16 + p(2) \div 4
      third  == (p(2) % 4) * 64 + p(3)
  IN IF HasThird THEN <<first, second, third>>
     ELSE IF HasSecond THEN <<first, second>> ELSE <<first>>

DecodeChunk ==
  /\ pc = "decode"
  /\ pos < Len(coded)
  /\ IF ChunkThrows
     THEN pc' = "thrown" /\ UNCHANGED <<decoded, pos>>
     ELSE decoded' = decoded \o DecodedChunk /\ pos' = pos + 4 /\ UNCHANGED pc
  /\ UNCHANGED <<text, url, coded>>

DecodeReturn ==
  /\ pc = "decode"
  /\ pos >= Len(coded)
  /\ pc' = "decoded"
  /\ UNCHANGED <<text, url, coded, decoded, pos>>

base64_encode == EncodeChunk \/ EncodeReturn
base64_decode == DecodeCall \/ DecodeChunk \/ DecodeReturn

Base64Next == base64_encode \/ Trim \/ base64_decode

-----------------------------------------------------------------------------
(* Decoding gives back what was encoded, for every text, in both alphabets,  *)
(* and however much of the filler the client left out; and it does not throw *)
(* out of the handler.  The last chunk is short in the code in two ways,     *)
(* filler and end of string, and both must be told from a character.         *)
RoundTrip ==
  /\ pc \notin {"encode", "sent", "decode", "thrown"} => decoded = text
  /\ pc # "thrown"
=============================================================================
