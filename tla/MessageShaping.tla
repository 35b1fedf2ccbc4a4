--------------------------- MODULE MessageShaping ---------------------------
(***************************************************************************)
(* The body of a message in an answer: bestBodyText and truncateUTF8 of    *)
(* internal/gmailapi/message.go.                                           *)
(*                                                                         *)
(* A text is a sequence of bytes, and of a byte only its place in UTF-8 is *)
(* kept: a character of its own, the lead of one of two to four bytes, one *)
(* that continues a character, or one that is never valid.  Gmail's data   *)
(* is taken as it is, whatever charset the part names.  (json.Marshal      *)
(* later replaces what is not valid UTF-8 by U+FFFD.)                      *)
(***************************************************************************)
EXTENDS Integers, Sequences

Byte == {"ascii", "lead2", "lead3", "lead4", "cont", "never"}

\* A payload's parts in the order in which findPartBody visits them, which is
\* a part before its children; text is what its data decodes to, if anything.
Part == [type : {"text/plain", "text/html", "other"}, text : Seq(Byte)]

Width(byte) ==
    CASE byte = "ascii" -> 1 [] byte = "lead2" -> 2 [] byte = "lead3" -> 3
      [] byte = "lead4" -> 4 [] OTHER -> 0

\* utf8.Valid: every character that begins is whole, and a byte that continues
\* one is part of one that began.
ValidUTF8(text) ==
    LET begins == {i \in DOMAIN text : text[i] # "cont"}
    IN  /\ \A i \in begins :
              /\ text[i] # "never" /\ i + Width(text[i]) <= Len(text) + 1
              /\ \A j \in i + 1 .. i + Width(text[i]) - 1 : text[j] = "cont"
        /\ \A j \in DOMAIN text \ begins : \E i \in begins : i < j /\ j < i + Width(text[i])

\* The first text there is in a part of that type.
FindPartBody(parts, type) ==
    LET filled == {i \in DOMAIN parts : parts[i].type = type /\ parts[i].text # <<>>}
    IN  IF filled = {} THEN <<>> ELSE parts[CHOOSE i \in filled : \A j \in filled : i <= j].text

BestBodyText(parts) ==
    LET plain == FindPartBody(parts, "text/plain")
    IN  IF plain # <<>> THEN plain ELSE FindPartBody(parts, "text/html")

\* A mutant: a character is cut in two.
CutAt_Blind(text, n) == SubSeq(text, 1, n)

\* The longest valid text there is within the first n bytes.
CutAt(text, n) ==
    LET valid == {k \in 0 .. n : ValidUTF8(SubSeq(text, 1, k))}
    IN  SubSeq(text, 1, CHOOSE k \in valid : \A l \in valid : l <= k)

FitsBody(text, maxBytes) == text = <<>> \/ Len(text) <= maxBytes

TruncateUTF8(text, maxBytes) ==
    IF FitsBody(text, maxBytes) THEN [text |-> text, truncated |-> FALSE]
    ELSE [text |-> CutAt(text, IF maxBytes <= 0 THEN 0 ELSE maxBytes), truncated |-> TRUE]

BodyOf(parts, maxBytes) == TruncateUTF8(BestBodyText(parts), maxBytes)

=============================================================================
