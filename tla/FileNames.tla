------------------------------ MODULE FileNames ------------------------------
(***************************************************************************)
(* The way of a file's name through the server: the page encodes it for a  *)
(* header (Base64), Upload decodes it and puts it behind a directory, the  *)
(* url of the row is a prefix and the path, the list of files links to     *)
(* that url, the browser makes an address of it, and GenHandler and        *)
(* Download unescape that (UrlDecode, src/server/Util.hpp) and look for    *)
(* the row.                                                                *)
(***************************************************************************)
EXTENDS Base64

CONSTANT Prefix    (* download_prefix and the directory without its "./"   *)

(* Storage.conf: "/download/" and "./low_storage/", printable, and nothing  *)
(* that could end the path of a request or start an escape.                 *)
ASSUME PrefixAssumption ==
  Prefix # <<>> /\ Prefix \in Seq((33 .. 126) \ {35, 37, 63})

VARIABLES
  link,     (* the path of the request, as the browser sends it            *)
  starts,   (* history: what length link had before each character         *)
  res,      (* what UrlDecode returns                                      *)
  i,        (* the position of its loop                                    *)
  req       (* "none", "escape", "decode", then "found", "missed", "abort" *)

nameVars == <<link, starts, res, i, req>>
vars == <<base64Vars, nameVars>>

(* NewStorageInfo: url_, the key of the table.                              *)
url_ == Prefix \o decoded

Init ==
  /\ Base64Init
  /\ link = <<>>
  /\ starts = <<>>
  /\ res = <<>>
  /\ i = 0
  /\ req = "none"

Encoding == Base64Next /\ UNCHANGED nameVars

-----------------------------------------------------------------------------
(* The page and the browser                                                  *)

(* A digit of an escape.                                                    *)
ToHex(x) == IF x > 9 THEN x + 55 ELSE x + 48

(* The url standard: a tab is taken out of an address; what is no printable *)
(* ASCII, and space " < > ` { } of the rest, is escaped; a percent sign     *)
(* stays as it is.                                                          *)
Escaped(c) ==
  CASE c = 9 -> <<>>
    [] c \in (33 .. 126) \ {34, 60, 62, 96, 123, 125} -> <<c>>
    [] OTHER -> <<37, ToHex(c \div 16), ToHex(c % 16)>>

(* Character k of the url ends the path: a question mark, a number sign, or *)
(* the first of the spaces and control characters at the end of an address. *)
PathEnds(k) ==
  \/ url_[k] \in {63, 35}
  \/ \A j \in k .. Len(url_) : url_[j] <= 32

(* How many bytes of a character come after its first one.                  *)
Follow(b) ==
  CASE b \in 194 .. 223 -> 1
    [] b \in 224 .. 239 -> 2
    [] b \in 240 .. 244 -> 3
    [] OTHER -> 0

Continuation == 128 .. 191

(* Well-formed UTF-8: in anything else the page shows, and links to, the    *)
(* character that stands for an error.                                      *)
IsUTF8(s) ==
  \A k \in 1 .. Len(s) :
    /\ s[k] \notin {192, 193} \cup (245 .. 255)
    /\ \A j \in 1 .. Follow(s[k]) : k + j <= Len(s) /\ s[k + j] \in Continuation
    /\ s[k] \in Continuation => \E j \in 1 .. 3 : j < k /\ Follow(s[k - j]) >= j
    /\ CASE s[k] = 224 -> s[k + 1] >= 160
         [] s[k] = 237 -> s[k + 1] < 160
         [] s[k] = 240 -> s[k + 1] >= 144
         [] s[k] = 244 -> s[k + 1] < 144
         [] OTHER -> TRUE

(* NUL, line feed, carriage return, " $ & ' / < \ and {: the template, the  *)
(* page, its script or the file system take them for their own, and there   *)
(* is no file or no button that works.                                      *)
Markup == {0, 10, 13, 34, 36, 38, 39, 47, 60, 92, 123}

(* The file was stored, and the list has a button for it that works;        *)
(* somebody opens the list and clicks.                                      *)
Click ==
  /\ pc = "decoded"
  /\ decoded \notin {<<>>, <<46>>, <<46, 46>>}
  /\ IsUTF8(decoded) /\ \A k \in 1 .. Len(decoded) : decoded[k] \notin Markup
  /\ req = "none"
  /\ req' = "escape"
  /\ UNCHANGED <<base64Vars, link, starts, res, i>>

EscapeNext ==
  /\ req = "escape"
  /\ Len(starts) < Len(url_)
  /\ LET c == url_[Len(starts) + 1]
     IN /\ ~PathEnds(Len(starts) + 1)
        /\ link' = link \o Escaped(c)
        /\ starts' = Append(starts, Len(link))
  /\ UNCHANGED <<base64Vars, res, i, req>>

Request ==
  /\ req = "escape"
  /\ Len(starts) < Len(url_) => PathEnds(Len(starts) + 1)
  /\ req' = "decode"
  /\ UNCHANGED <<base64Vars, link, starts, res, i>>

-----------------------------------------------------------------------------
(* UrlDecode, and GetOneByURL                                                *)

HexDigits == (65 .. 90) \cup (97 .. 122) \cup (48 .. 57)

\* mutant: a letter counts from nought.
FromHex_FromZero(x) == IF x \in 65 .. 90 THEN x - 65
                       ELSE IF x \in 97 .. 122 THEN x - 97 ELSE x - 48

(* Any letter will do, up to z; anything else fails the assertion.          *)
FromHex(x) ==
  CASE x \in 65 .. 90  -> x - 55
    [] x \in 97 .. 122 -> x - 87
    [] x \in 48 .. 57  -> x - 48

DecodePlain ==
  /\ req = "decode"
  /\ i < Len(link) /\ link[i + 1] # 37
  /\ res' = Append(res, link[i + 1])
  /\ i' = i + 1
  /\ UNCHANGED <<base64Vars, link, starts, req>>

(* assert(i+2 < length), and the assertion in FromHex.                      *)
EscapeIsWhole ==
  i + 2 < Len(link) /\ link[i + 2] \in HexDigits /\ link[i + 3] \in HexDigits

DecodeEscape ==
  /\ req = "decode"
  /\ i < Len(link) /\ link[i + 1] = 37
  /\ EscapeIsWhole
  /\ res' = Append(res, (FromHex(link[i + 2]) * 16 + FromHex(link[i + 3])) % 256)
  /\ i' = i + 3
  /\ UNCHANGED <<base64Vars, link, starts, req>>

DecodeAborts ==
  /\ req = "decode"
  /\ i < Len(link) /\ link[i + 1] = 37
  /\ ~EscapeIsWhole
  /\ req' = "abort"
  /\ UNCHANGED <<base64Vars, link, starts, res, i>>

UrlDecode == DecodePlain \/ DecodeEscape \/ DecodeAborts

Lookup ==
  /\ req = "decode"
  /\ i = Len(link)
  /\ req' = IF res = url_ THEN "found" ELSE "missed"
  /\ UNCHANGED <<base64Vars, link, starts, res, i>>

Next == Encoding \/ Click \/ EscapeNext \/ Request \/ UrlDecode \/ Lookup

Spec == Init /\ [][Next]_vars

-----------------------------------------------------------------------------
(* A name without a percent, a question or a number sign and without a tab,  *)
(* that does not end in a space or a control character.                      *)
PlainName ==
  /\ \A k \in 1 .. Len(text) : text[k] \notin {9, 37, 63, 35}
  /\ text # <<>> => text[Len(text)] > 32

(* Clicking the button in the list leads back to the file if its name is     *)
(* plain: the url the row is kept under is what the request for it carries,  *)
(* once unescaped (DataManager.hpp:27).  Nobody escapes the url when it is   *)
(* made, so with another name the request may find nothing, or, with a       *)
(* percent sign, end the server at an assertion.                             *)
LinkFindsFile == PlainName => req \notin {"missed", "abort"}

(* Those are the only names whose links work: a percent, question or number *)
(* sign or a tab anywhere in a name, or a space at its end, loses the file  *)
(* to those who click, even if the percent sign looks like an escape.       *)
OnlyPlainIsFound == req = "found" => PlainName
=============================================================================
