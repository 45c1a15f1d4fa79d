\* Every name of up to four bytes over eleven that matter to the two codecs.
SPECIFICATION Spec
CONSTANTS
  Texts <- MCTexts
  Prefix <- MCPrefix
INVARIANTS
  RoundTrip
  LinkFindsFile
\* A name has one upload and one request.
CHECK_DEADLOCK FALSE
