----------------------------- MODULE CreditsScanner -----------------------------
(***************************************************************************)
(* CreditsUsedScanner of apps/api/src/credits/credit-routing.service.ts,   *)
(* which looks for metadata.creditsUsed in a JSON answer as its bytes pass,*)
(* and the JSON grammar that produces those bytes.  Every document up to a *)
(* nesting depth is generated, byte by byte: a letter stands for a class   *)
(* of characters, "other" for the bytes outside printable ASCII (those of  *)
(* a UTF-8 sequence), keys are short words over them, and numbers have a   *)
(* base of two.  Where the chunks of the stream end makes no difference,   *)
(* since the scanner keeps its state from byte to byte.                    *)
(* A buffer of the scanner is emptied here when it is not read any more.   *)
(***************************************************************************)
EXTENDS Integers, SequencesExt

CONSTANTS
    Letters,          \* printable ASCII characters, without quote and backslash
    MetadataKey,      \* METADATA_KEY, a sequence of letters
    CreditsUsedKey,   \* CREDITS_USED_KEY
    MaxScannedKeyLength,
    MaxSafe,          \* MAX_SAFE_CREDITS_USED
    Null,             \* null
    MaxDepth,         \* bound on the nesting of the documents
    MaxString,        \* bound on the length of their strings
    MaxNumber         \* bound on the digits of their numbers

ASSUME ScannerConstants ==
    /\ {MaxScannedKeyLength, MaxDepth, MaxString, MaxNumber} \subseteq Nat
    /\ MaxSafe \in Nat \ {0}
    /\ {"quote", "backslash", "other"} \cap Letters = {}
    /\ {MetadataKey, CreditsUsedKey} \subseteq Seq(Letters)
    /\ Len(MetadataKey) <= MaxScannedKeyLength /\ Len(CreditsUsedKey) <= MaxScannedKeyLength
    /\ Null \notin Nat /\ Null \notin Seq(Letters)

VARIABLES
    s,        \* the scanner: see NewScanner
    doc,      \* the document so far: see NewDocument
    expected  \* the first metadata.creditsUsed that the document has completed

scannerVars == <<s, doc, expected>>

Digits == {"0", "1"}
DigitValue(byte) == IF byte = "1" THEN 1 ELSE 0
Delimiters == {"comma", "endObject", "endArray"}
Unprintable == <<"backslash", "0">>   \* what the key buffer gets for a byte "other"

NewScanner ==
    [state |-> "outside", escaped |-> FALSE, candidate |-> <<>>, hasEscape |-> FALSE,
     pendingKey |-> Null, value |-> 0, overflow |-> FALSE, objectDepth |-> 0, arrayDepth |-> 0,
     metadataObjectDepth |-> Null, metadataArrayDepth |-> Null, found |-> Null]

-----------------------------------------------------------------------------
(* The scanner *)

(* Mutant: leaving the metadata object is not noticed. *)
UpdateContainerDepthKeeping(t, byte) ==
    CASE byte = "object" -> [t EXCEPT !.objectDepth = @ + 1]
      [] byte = "array" -> [t EXCEPT !.arrayDepth = @ + 1]
      [] byte = "endObject" -> [t EXCEPT !.objectDepth = IF @ = 0 THEN 0 ELSE @ - 1]
      [] byte = "endArray" -> [t EXCEPT !.arrayDepth = IF @ = 0 THEN 0 ELSE @ - 1]
      [] OTHER -> t

UpdateContainerDepth(t, byte) ==
    CASE byte = "object" -> [t EXCEPT !.objectDepth = @ + 1]
      [] byte = "array" -> [t EXCEPT !.arrayDepth = @ + 1]
      [] byte = "endObject" ->
           LET leaves == t.metadataObjectDepth = t.objectDepth
           IN  [t EXCEPT !.metadataObjectDepth = IF leaves THEN Null ELSE @,
                         !.metadataArrayDepth = IF leaves THEN Null ELSE @,
                         !.objectDepth = IF @ = 0 THEN 0 ELSE @ - 1]
      [] byte = "endArray" -> [t EXCEPT !.arrayDepth = IF @ = 0 THEN 0 ELSE @ - 1]
      [] OTHER -> t

ScanOutside(t, byte) ==
    IF byte = "quote"
    THEN [t EXCEPT !.state = "string", !.candidate = <<>>, !.hasEscape = FALSE]
    ELSE UpdateContainerDepth(t, byte)

(* The byte is processed again, outside. *)
Again(t, byte) == ScanOutside([t EXCEPT !.state = "outside", !.pendingKey = Null,
                                        !.value = 0, !.overflow = FALSE], byte)

ScanString(t, byte) ==
    CASE t.escaped -> [t EXCEPT !.escaped = FALSE, !.hasEscape = TRUE]
      [] ~t.escaped /\ byte = "backslash" -> [t EXCEPT !.escaped = TRUE, !.hasEscape = TRUE]
      [] ~t.escaped /\ byte = "quote" ->
           [t EXCEPT !.pendingKey = IF t.hasEscape THEN Null ELSE t.candidate,
                     !.candidate = <<>>, !.hasEscape = FALSE, !.state = "after-key"]
      [] OTHER -> IF Len(t.candidate) <= MaxScannedKeyLength
                  THEN [t EXCEPT !.candidate =
                           @ \o (IF byte = "other" THEN Unprintable ELSE <<byte>>)]
                  ELSE t

ScanAfterKey(t, byte) ==
    CASE byte = "space" -> t
      [] byte = "colon" -> [t EXCEPT !.state = "after-colon"]
      [] OTHER -> Again(t, byte)

(* Mutant: an object called metadata counts at any depth. *)
OpensMetadataAnywhere(t, byte) == t.pendingKey = MetadataKey /\ byte = "object"

OpensMetadata(t, byte) ==
    t.pendingKey = MetadataKey /\ t.objectDepth = 1 /\ t.arrayDepth = 0 /\ byte = "object"

ScanAfterColon(t, byte) ==
    CASE byte = "space" -> t
      [] byte \in {"object", "array"} ->
           LET inner == UpdateContainerDepth(t, byte)
               opens == OpensMetadata(t, byte)
           IN  [inner EXCEPT !.metadataObjectDepth = IF opens THEN inner.objectDepth ELSE @,
                             !.metadataArrayDepth = IF opens THEN inner.arrayDepth ELSE @,
                             !.pendingKey = Null, !.state = "outside"]
      [] byte \in Digits /\ t.pendingKey = CreditsUsedKey
         /\ t.metadataObjectDepth = t.objectDepth /\ t.metadataArrayDepth = t.arrayDepth ->
           [t EXCEPT !.state = "digits", !.value = DigitValue(byte), !.overflow = FALSE, !.pendingKey = Null]
      [] OTHER -> Again(t, byte)

EndNumber(t, byte) ==
    IF byte \in Delimiters
    THEN UpdateContainerDepth([t EXCEPT !.found = IF t.overflow THEN Null ELSE t.value,
                                        !.state = "outside", !.value = 0, !.overflow = FALSE],
                              byte)
    ELSE Again(t, byte)

(* Mutant: the check comes after the addition. *)
AddDigitLate(t, byte) ==
    [t EXCEPT !.overflow = @ \/ t.value > MaxSafe,
              !.value = IF t.overflow THEN @ ELSE @ * 2 + DigitValue(byte)]

AddDigit(t, byte) ==
    IF t.value > (MaxSafe - DigitValue(byte)) \div 2 THEN [t EXCEPT !.overflow = TRUE]
    ELSE IF t.overflow THEN t
    ELSE [t EXCEPT !.value = @ * 2 + DigitValue(byte)]

ScanDigits(t, byte) ==
    CASE byte \in Digits -> AddDigit(t, byte)
      [] byte = "space" -> [t EXCEPT !.state = "after-digits"]
      [] OTHER -> EndNumber(t, byte)

ScanAfterDigits(t, byte) == IF byte = "space" THEN t ELSE EndNumber(t, byte)

(* processByte(), until a value has been found. *)
ProcessByte(t, byte) ==
    CASE t.found # Null -> t
      [] t.found = Null /\ t.state = "outside" -> ScanOutside(t, byte)
      [] t.found = Null /\ t.state = "string" -> ScanString(t, byte)
      [] t.found = Null /\ t.state = "after-key" -> ScanAfterKey(t, byte)
      [] t.found = Null /\ t.state = "after-colon" -> ScanAfterColon(t, byte)
      [] t.found = Null /\ t.state = "digits" -> ScanDigits(t, byte)
      [] t.found = Null /\ t.state = "after-digits" -> ScanAfterDigits(t, byte)

-----------------------------------------------------------------------------
(* The document *)

(* open: the containers around the present place, each with the key it     *)
(* stands under; at: what the grammar expects; key: the key of the next    *)
(* value if it is one of the two looked for, and written without escapes;  *)
(* text and number: the key and the number being written.                  *)
Sought == {MetadataKey, CreditsUsedKey}

NewDocument == [open |-> <<>>, at |-> "value", key |-> Null, text |-> <<>>, plain |-> TRUE,
                number |-> <<>>, integer |-> TRUE]

ScannerInit == s = NewScanner /\ doc = NewDocument /\ expected = Null

Emit(byte, next) == s' = ProcessByte(s, byte) /\ doc' = next
Within == IF doc.open = <<>> THEN "document" ELSE Last(doc.open).kind
AtValue == doc.at = "value" \/ (doc.at = "first" /\ Within = "array")
AtKey == doc.at = "key" \/ (doc.at = "first" /\ Within = "object")

Space ==
    /\ doc.at \in {"value", "first", "key", "colon", "after", "afterNumber"}
    /\ Emit("space", doc)
    /\ UNCHANGED expected

OpenContainer(kind) ==
    /\ AtValue
    /\ Len(doc.open) < MaxDepth
    /\ Emit(kind, [NewDocument EXCEPT !.open = Append(doc.open, [kind |-> kind, key |-> doc.key]),
                                      !.at = "first"])
    /\ UNCHANGED expected

(* A string begins: a key or a value, as the place demands. *)
OpenString ==
    /\ AtValue \/ AtKey
    /\ Emit("quote", [doc EXCEPT !.at = IF AtKey THEN "inKey" ELSE "inString"])
    /\ UNCHANGED expected

Character(letter) ==
    /\ doc.at \in {"inKey", "inString"} /\ Len(doc.text) < MaxString
    /\ Emit(letter, [doc EXCEPT !.text = Append(@, letter)])
    /\ UNCHANGED expected

(* A backslash, and then any character, the quote and the backslash too. *)
Escape ==
    /\ doc.at \in {"inKey", "inString"} /\ Len(doc.text) < MaxString
    /\ Emit("backslash", [doc EXCEPT !.at = IF @ = "inKey" THEN "escapeKey" ELSE "escapeString"])
    /\ UNCHANGED expected

EscapedCharacter(byte) ==
    /\ doc.at \in {"escapeKey", "escapeString"}
    /\ Emit(byte, [doc EXCEPT !.at = IF @ = "escapeKey" THEN "inKey" ELSE "inString",
                              !.text = Append(@, byte), !.plain = FALSE])
    /\ UNCHANGED expected

CloseString ==
    /\ doc.at \in {"inKey", "inString"}
    /\ Emit("quote", IF doc.at = "inKey"
                     THEN [NewDocument EXCEPT !.open = doc.open, !.at = "colon",
                                              !.key = IF doc.plain /\ doc.text \in Sought
                                                      THEN doc.text ELSE Null]
                     ELSE [NewDocument EXCEPT !.open = doc.open, !.at = "after"])
    /\ UNCHANGED expected

Colon ==
    /\ doc.at = "colon"
    /\ Emit("colon", [doc EXCEPT !.at = "value"])
    /\ UNCHANGED expected

(* true, false and null, or the minus of a number. *)
Scalar ==
    /\ AtValue
    /\ \E at \in {"after", "minus"} :
          Emit("scalar", [doc EXCEPT !.at = at, !.integer = FALSE])
    /\ UNCHANGED expected

(* A leading zero stands alone. *)
Digit(digit) ==
    /\ \/ AtValue \/ doc.at = "minus"
       \/ doc.at = "number" /\ doc.number # <<"0">> /\ Len(doc.number) < MaxNumber
    /\ Emit(digit, [doc EXCEPT !.at = "number",
                               !.number = IF doc.integer THEN Append(@, digit) ELSE @])
    /\ UNCHANGED expected

(* The fraction or the exponent of a number, which is no integer then. *)
Fraction ==
    /\ doc.at = "number" /\ doc.integer
    /\ Emit("scalar", [doc EXCEPT !.at = "minus", !.integer = FALSE, !.number = <<>>])
    /\ UNCHANGED expected

SpaceAfterNumber ==
    /\ doc.at = "number"
    /\ Emit("space", [doc EXCEPT !.at = "afterNumber"])
    /\ UNCHANGED expected

ValueOf(number) ==
    LET value[n \in 0..Len(number)] ==
            IF n = 0 THEN 0 ELSE 2 * value[n - 1] + DigitValue(number[n])
    IN  value[Len(number)]

(* The number just written is metadata.creditsUsed of the whole document. *)
Completes ==
    /\ doc.at \in {"number", "afterNumber"} /\ doc.integer
    /\ doc.key = CreditsUsedKey
    /\ doc.open = <<[kind |-> "object", key |-> Null], [kind |-> "object", key |-> MetadataKey]>>
    /\ ValueOf(doc.number) <= MaxSafe

Expect == expected' = IF expected = Null /\ Completes THEN ValueOf(doc.number) ELSE expected

AtEnd(kind) == doc.at \in {"after", "number", "afterNumber"} /\ Within = kind

Comma ==
    /\ AtEnd("object") \/ AtEnd("array")
    /\ Emit("comma", [NewDocument EXCEPT !.open = doc.open,
                                         !.at = IF Within = "object" THEN "key" ELSE "value"])
    /\ Expect

CloseContainer(kind, byte) ==
    /\ AtEnd(kind) \/ (doc.at = "first" /\ Within = kind)
    /\ Emit(byte, [NewDocument EXCEPT !.open = Front(doc.open), !.at = "after"])
    /\ Expect

ScannerNext ==
    \/ Space \/ SpaceAfterNumber
    \/ \E kind \in {"object", "array"} : OpenContainer(kind)
    \/ OpenString \/ Escape \/ CloseString
    \/ \E letter \in Letters \cup {"other"} : Character(letter)
    \/ \E byte \in Letters \cup {"quote", "backslash"} : EscapedCharacter(byte)
    \/ Colon \/ Scalar \/ Fraction
    \/ \E digit \in Digits : Digit(digit)
    \/ Comma
    \/ CloseContainer("object", "endObject") \/ CloseContainer("array", "endArray")

ScannerSpec == ScannerInit /\ [][ScannerNext]_scannerVars

-----------------------------------------------------------------------------
(* The scanner's fields keep their types, its key buffer stays bounded     *)
(* however long a string is, and so does the value it adds up.  A buffer   *)
(* of the longest key's length is still extended, by two characters if the *)
(* byte is not printable.                                                  *)
ScannerTypeOK ==
    /\ s.state \in {"outside", "string", "after-key", "after-colon", "digits", "after-digits"}
    /\ Len(s.candidate) <= MaxScannedKeyLength + 2
    /\ s.value \in 0..MaxSafe
    /\ {s.objectDepth, s.arrayDepth} \subseteq 0..MaxDepth
    /\ s.metadataObjectDepth \in Nat \cup {Null} /\ s.metadataArrayDepth \in Nat \cup {Null}
    /\ {s.found, expected} \subseteq Nat \cup {Null}

(* After every byte of every document the scanner has reported exactly the *)
(* first completed metadata.creditsUsed: that of the top-level object, not *)
(* of one nested deeper, in an array, under a longer or an escaped key,    *)
(* within a string, negative, with a fraction, or too large.               *)
ScannerExact == s.found = expected
=============================================================================
