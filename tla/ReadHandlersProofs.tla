------------------------- MODULE ReadHandlersProofs -------------------------
(***************************************************************************)
(* Proofs about the handlers that name an object (ReadHandlers), for every *)
(* mailbox, policy file, list of requests and bound: whom and what a reply *)
(* is for, what a body keeps, and what the handlers answer, read and draft *)
(* while the mailbox moves.                                                *)
(***************************************************************************)
EXTENDS ReadHandlers, SearchIDsProofs

(***************************************************************************)
(* Replies.                                                                *)
(***************************************************************************)
\* What an address that is compared can be.
Compared == Addresses \cup {Malformed}

\* The elements of two sequences joined.
LEMMA JoinedRange ==
    ASSUME NEW S, NEW s \in Seq(S), NEW t \in Seq(S)
    PROVE  Range(s \o t) = Range(s) \cup Range(t)
<1>1. /\ Len(s) \in Nat /\ Len(t) \in Nat
      /\ DOMAIN s = 1 .. Len(s) /\ DOMAIN t = 1 .. Len(t)
      /\ DOMAIN (s \o t) = 1 .. Len(s) + Len(t)
      /\ \A i \in 1 .. Len(s) + Len(t) :
            (s \o t)[i] = IF i <= Len(s) THEN s[i] ELSE t[i - Len(s)]
  BY ConcatProperties
<1>2. ASSUME NEW i \in DOMAIN (s \o t) PROVE (s \o t)[i] \in Range(s) \cup Range(t)
  BY <1>1, <1>2 DEF Range
<1>3. ASSUME NEW i \in DOMAIN s PROVE s[i] \in Range(s \o t)
  <2>1. i \in DOMAIN (s \o t) /\ (s \o t)[i] = s[i]
    BY <1>1, <1>3
  <2> QED
    BY <2>1 DEF Range
<1>4. ASSUME NEW i \in DOMAIN t PROVE t[i] \in Range(s \o t)
  <2>1. Len(s) + i \in DOMAIN (s \o t) /\ (s \o t)[Len(s) + i] = t[i]
    BY <1>1, <1>4
  <2> QED
    BY <2>1 DEF Range
<1> QED
  BY <1>2, <1>3, <1>4 DEF Range

\* Two sequences without repetitions or common elements, joined.
LEMMA JoinedInjection ==
    ASSUME NEW S, NEW s \in Seq(S), NEW t \in Seq(S), IsInjective(s), IsInjective(t),
           Range(s) \cap Range(t) = {}
    PROVE  IsInjective(s \o t)
<1>1. /\ Len(s) \in Nat /\ Len(t) \in Nat
      /\ DOMAIN s = 1 .. Len(s) /\ DOMAIN t = 1 .. Len(t)
      /\ DOMAIN (s \o t) = 1 .. Len(s) + Len(t)
      /\ \A i \in 1 .. Len(s) + Len(t) :
            (s \o t)[i] = IF i <= Len(s) THEN s[i] ELSE t[i - Len(s)]
  BY ConcatProperties
<1>2. ASSUME NEW i \in DOMAIN s, NEW j \in DOMAIN t PROVE s[i] # t[j]
  BY DEF Range
<1> SUFFICES ASSUME NEW i \in 1 .. Len(s) + Len(t), NEW j \in 1 .. Len(s) + Len(t),
                    (s \o t)[i] = (s \o t)[j]
             PROVE  i = j
  BY <1>1 DEF IsInjective
<1>3. CASE i <= Len(s) /\ j <= Len(s)
  BY <1>1, <1>3 DEF IsInjective
<1>4. CASE i > Len(s) /\ j > Len(s)
  <2>1. i - Len(s) \in DOMAIN t /\ j - Len(s) \in DOMAIN t /\ t[i - Len(s)] = t[j - Len(s)]
    BY <1>1, <1>4
  <2>2. i - Len(s) = j - Len(s)
    BY <2>1 DEF IsInjective
  <2> QED
    BY <1>1, <2>2
<1>5. CASE i <= Len(s) /\ j > Len(s)
  BY <1>1, <1>2, <1>5
<1>6. CASE i > Len(s) /\ j <= Len(s)
  BY <1>1, <1>2, <1>6
<1> QED
  BY <1>1, <1>3, <1>4, <1>5, <1>6

\* `add` returns what is new, once.
LEMMA FreshAddresses ==
    ASSUME NEW values \in Seq(Value), NEW seen
    PROVE  /\ Fresh(values, seen) \in Seq(Compared) /\ IsInjective(Fresh(values, seen))
           /\ Range(Fresh(values, seen)) = Range(Lower(values)) \ (seen \cup {Owner.mailbox})
<1>1. Lower(values) \in Seq(Compared)
  BY DEF Lower, Value, Written, Compared
<1> QED
  BY <1>1, UniqueIDsExcludingIsUnique, UniqueIDsExcludingIsComplete DEF Fresh

\* A reply without recipients of its own is addressed to exactly the people it is
\* for, to each once and never to the owner, whatever the message's headers say
\* (DraftReplyRecipients).
THEOREM ReplyRecipientsAreTheAudience ==
    ASSUME NEW headers \in HeaderSet, NEW replyAll \in BOOLEAN
    PROVE  LET all == DraftReplyRecipients(headers, replyAll).to
                          \o DraftReplyRecipients(headers, replyAll).cc
           IN  /\ IsInjective(all) /\ Owner.mailbox \notin Range(all)
               /\ Range(all) = Audience(headers, replyAll)
<1> DEFINE address == ReplyAddress(headers)
           sender  == Fresh(address, {})
           others  == Fresh(headers.to, Range(sender))
           to      == IF replyAll \/ sender = <<>> THEN sender \o others ELSE sender
           copies  == Fresh(headers.cc, Range(to))
           cc      == IF replyAll THEN copies ELSE <<>>
<1>1. /\ headers.replyTo \in Seq(Value) /\ headers.from \in Seq(Value)
      /\ headers.to \in Seq(Value) /\ headers.cc \in Seq(Value)
  BY DEF HeaderSet
<1>2. address \in Seq(Value)
  BY <1>1 DEF ReplyAddress
<1>3. /\ DraftReplyRecipients(headers, replyAll).to = to
      /\ DraftReplyRecipients(headers, replyAll).cc = cc
  BY DEF DraftReplyRecipients
<1> HIDE DEF address
<1>4. /\ sender \in Seq(Compared) /\ IsInjective(sender)
      /\ Range(sender) = Range(Lower(address)) \ {Owner.mailbox}
  <2>1. {} \cup {Owner.mailbox} = {Owner.mailbox}
    OBVIOUS
  <2> QED
    BY <1>2, <2>1, FreshAddresses
<1> HIDE DEF sender
<1>5. /\ others \in Seq(Compared) /\ IsInjective(others)
      /\ Range(others) = Range(Lower(headers.to)) \ (Range(sender) \cup {Owner.mailbox})
  BY <1>1, FreshAddresses
<1>6. copies \in Seq(Compared) /\ IsInjective(copies)
      /\ Range(copies) = Range(Lower(headers.cc)) \ (Range(to) \cup {Owner.mailbox})
  <2> HIDE DEF to
  <2> QED
    BY <1>1, FreshAddresses
<1> HIDE DEF others
<1>7. /\ sender \o others \in Seq(Compared) /\ IsInjective(sender \o others)
      /\ Range(sender \o others) = Range(sender) \cup Range(others)
  BY <1>4, <1>5, ConcatProperties, JoinedRange, JoinedInjection
<1>8. /\ to \in Seq(Compared) /\ IsInjective(to) /\ Owner.mailbox \notin Range(to)
      /\ Range(to) = IF replyAll \/ Range(sender) = {}
                     THEN Range(sender) \cup (Range(Lower(headers.to)) \ {Owner.mailbox})
                     ELSE Range(sender)
  <2>1. sender = <<>> <=> Range(sender) = {}
    BY <1>4 DEF Range
  <2> QED
    BY <1>4, <1>5, <1>7, <2>1
<1> HIDE DEF to, copies
<1>9. CASE replyAll
  <2>1. IsInjective(to \o copies) /\ Range(to \o copies) = Range(to) \cup Range(copies)
    BY <1>6, <1>8, JoinedRange, JoinedInjection
  <2>2. Range(to \o copies) = Audience(headers, replyAll)
    BY <1>4, <1>6, <1>8, <1>9, <2>1 DEF Audience, address
  <2> QED
    BY <1>3, <1>6, <1>8, <1>9, <2>1, <2>2
<1>10. CASE ~replyAll
  <2>1. to \o <<>> = to
    BY <1>8, ConcatEmptySeq
  <2>2. Range(to) = Audience(headers, replyAll)
    BY <1>4, <1>8, <1>10 DEF Audience, address
  <2> QED
    BY <1>3, <1>8, <1>10, <2>1, <2>2
<1> QED
  BY <1>9, <1>10

\* A joined sequence without repetitions: neither part has any, and they share
\* nothing.
LEMMA JoinedInjectionParts ==
    ASSUME NEW S, NEW s \in Seq(S), NEW t \in Seq(S), IsInjective(s \o t)
    PROVE  IsInjective(s) /\ IsInjective(t) /\ Range(s) \cap Range(t) = {}
<1>1. /\ Len(s) \in Nat /\ Len(t) \in Nat
      /\ DOMAIN s = 1 .. Len(s) /\ DOMAIN t = 1 .. Len(t)
      /\ DOMAIN (s \o t) = 1 .. Len(s) + Len(t)
      /\ \A i \in 1 .. Len(s) + Len(t) :
            (s \o t)[i] = IF i <= Len(s) THEN s[i] ELSE t[i - Len(s)]
  BY ConcatProperties
<1>2. \A i \in 1 .. Len(s) : i \in DOMAIN (s \o t) /\ (s \o t)[i] = s[i]
  BY <1>1
<1>3. \A i \in 1 .. Len(t) : Len(s) + i \in DOMAIN (s \o t) /\ (s \o t)[Len(s) + i] = t[i]
  BY <1>1
<1>4. IsInjective(s)
  BY <1>1, <1>2 DEF IsInjective
<1>5. IsInjective(t)
  <2> SUFFICES ASSUME NEW i \in 1 .. Len(t), NEW j \in 1 .. Len(t), t[i] = t[j]
               PROVE  i = j
    BY <1>1 DEF IsInjective
  <2>1. Len(s) + i = Len(s) + j
    BY <1>3 DEF IsInjective
  <2> QED
    BY <1>1, <2>1
<1>6. ASSUME NEW i \in 1 .. Len(s), NEW j \in 1 .. Len(t), s[i] = t[j] PROVE FALSE
  <2>1. i = Len(s) + j
    BY <1>2, <1>3, <1>6 DEF IsInjective
  <2> QED
    BY <1>1, <1>6, <2>1
<1> QED
  BY <1>1, <1>4, <1>5, <1>6 DEF Range

\* What is there is written in lower case: comparing changes nothing.
LEMMA AsWrittenIsLower ==
    ASSUME NEW list \in Seq(Addresses)
    PROVE  AsWritten(list) \in Seq(Value) /\ Lower(AsWritten(list)) = list
<1>1. /\ DOMAIN list = 1 .. Len(list) /\ Len(list) \in Nat
      /\ \A i \in 1 .. Len(list) : list[i] \in Addresses
  OBVIOUS
<1>2. AsWritten(list) \in Seq(Value)
  BY <1>1 DEF AsWritten, Value, Written
<1>3. \A i \in 1 .. Len(list) :
         /\ AsWritten(list)[i] \in Written /\ AsWritten(list)[i].mailbox = list[i]
  BY <1>1 DEF AsWritten, Written
<1>4. Lower(AsWritten(list)) = [i \in 1 .. Len(list) |-> list[i]]
  BY <1>1, <1>3, AddressAssumption DEF Lower, AsWritten
<1>5. [i \in 1 .. Len(list) |-> list[i]] = list
  BY <1>1
<1> QED
  BY <1>2, <1>4, <1>5

\* A reply to a draft of the owner's that was a reply of the same kind goes to
\* the same people: answering one's own draft changes nobody (DraftReplyRecipients).
THEOREM RepliesToDraftsGoToTheSame ==
    ASSUME NEW headers \in HeaderSet, NEW replyAll \in BOOLEAN,
           NEW to \in Seq(Addresses), NEW cc \in Seq(Addresses),
           IsInjective(to \o cc), Owner.mailbox \notin Range(to \o cc),
           ~replyAll => cc = <<>>,
           headers.from = <<Owner>>, headers.replyTo = <<>>,
           headers.to = AsWritten(to), headers.cc = AsWritten(cc)
    PROVE  /\ DraftReplyRecipients(headers, replyAll).to = to
           /\ DraftReplyRecipients(headers, replyAll).cc = cc
<1>1. /\ IsInjective(to) /\ IsInjective(cc) /\ Range(to) \cap Range(cc) = {}
      /\ Owner.mailbox \notin Range(to) /\ Owner.mailbox \notin Range(cc)
  BY JoinedInjectionParts, JoinedRange
<1>2. Owner \in Written /\ <<Owner>> \in Seq(Value) /\ Owner # Malformed
  BY AddressAssumption DEF Value
<1>3. ReplyAddress(headers) = <<Owner>>
  <2>1. SubSeq(<<Owner>>, 1, 1) = <<Owner>>
    <3>1. /\ <<Owner>> \in Seq({Owner}) /\ Len(<<Owner>>) = 1
      OBVIOUS
    <3>2. /\ SubSeq(<<Owner>>, 1, 1) \in Seq({Owner}) /\ Len(SubSeq(<<Owner>>, 1, 1)) = 1
          /\ \A i \in 1 .. 1 : SubSeq(<<Owner>>, 1, 1)[i] = <<Owner>>[i]
      BY <3>1, SubSeqProperties
    <3> QED
      BY <3>1, <3>2, SeqEqual
  <2> QED
    BY <2>1 DEF ReplyAddress
<1>4. Range(Lower(<<Owner>>)) = {Owner.mailbox}
  BY <1>2 DEF Lower, Range
<1>5. Fresh(<<Owner>>, {}) = <<>>
  <2>1. /\ Fresh(<<Owner>>, {}) \in Seq(Compared)
        /\ Range(Fresh(<<Owner>>, {})) = {}
    BY <1>2, <1>4, FreshAddresses
  <2> HIDE DEF Compared
  <2>2. Len(Fresh(<<Owner>>, {})) = 0
    <3>1. CASE Len(Fresh(<<Owner>>, {})) # 0
      <4>1. 1 \in DOMAIN Fresh(<<Owner>>, {})
        BY <2>1, <3>1
      <4> QED
        BY <2>1, <4>1 DEF Range
    <3> QED
      BY <3>1
  <2> QED
    BY <2>1, <2>2
<1>6. Fresh(AsWritten(to), {}) = to /\ Fresh(AsWritten(cc), Range(to)) = cc
  <2>1. /\ Lower(AsWritten(to)) = to /\ Lower(AsWritten(cc)) = cc
    BY AsWrittenIsLower
  <2>2. Range(to) \cap ({} \cup {Owner.mailbox}) = {}
        /\ Range(cc) \cap (Range(to) \cup {Owner.mailbox}) = {}
    BY <1>1
  <2> QED
    BY <1>1, <2>1, <2>2, UniqueIDsAreLeftAlone DEF Fresh
<1>7. <<>> \o to = to /\ Range(<<>>) = {}
  BY ConcatEmptySeq DEF Range
<1> QED
  BY <1>3, <1>5, <1>6, <1>7 DEF DraftReplyRecipients

\* The threading headers of a reply put it into its conversation, whatever the
\* headers of the message it answers (DraftReplyContextFromMessage).
THEOREM ReplyContextJoins ==
    ASSUME NEW headers \in HeaderSet, NEW draft,
           draft.inReplyTo = DraftReplyContext(headers).inReplyTo,
           draft.references = DraftReplyContext(headers).references
    PROVE  /\ Joins(draft, headers)
           /\ draft.inReplyTo \in Seq(MessageIDs) /\ draft.references \in Seq(MessageIDs)
<1> DEFINE known == KnownReferences(headers)
           id    == headers.messageID
           all   == draft.references
<1>1. /\ id \in MessageIDs \cup {NoID}
      /\ known \in Seq(MessageIDs)
      /\ known = IF headers.references = <<>> THEN headers.inReplyTo ELSE headers.references
  BY DEF HeaderSet, KnownReferences
<1>2. /\ draft.inReplyTo = IF id = NoID THEN <<>> ELSE <<id>>
      /\ all = IF id \in {NoID} \cup Range(known) THEN known ELSE Append(known, id)
  BY DEF DraftReplyContext
<1> HIDE DEF known
<1>3. Range(draft.inReplyTo) = {id} \ {NoID} /\ draft.inReplyTo \in Seq(MessageIDs)
  BY <1>1, <1>2 DEF Range
<1>4. /\ Len(known) \in Nat /\ DOMAIN known = 1 .. Len(known)
      /\ SubSeq(known, 1, Len(known)) = known
  BY <1>1
<1>5. CASE id \in {NoID} \cup Range(known)
  BY <1>1, <1>2, <1>3, <1>4, <1>5 DEF Joins
<1>6. CASE id \notin {NoID} \cup Range(known)
  <2>1. /\ all \in Seq(MessageIDs) /\ Len(all) = Len(known) + 1
        /\ DOMAIN all = 1 .. Len(known) + 1 /\ all[Len(known) + 1] = id
        /\ \A i \in 1 .. Len(known) : all[i] = known[i]
    BY <1>1, <1>2, <1>4, <1>6
  <2>2. Range(all) = {id} \cup Range(known)
    <3>1. \A i \in DOMAIN all : i \in DOMAIN known \/ i = Len(known) + 1
      BY <1>4, <2>1
    <3>2. Len(known) + 1 \in DOMAIN all /\ \A i \in DOMAIN known : i \in DOMAIN all
      BY <1>4, <2>1
    <3> QED
      BY <1>4, <2>1, <3>1, <3>2 DEF Range
  <2>3. SubSeq(all, 1, Len(known)) = known
    <3>1. /\ SubSeq(all, 1, Len(known)) \in Seq(MessageIDs)
          /\ Len(SubSeq(all, 1, Len(known))) = Len(known)
          /\ \A i \in 1 .. Len(known) : SubSeq(all, 1, Len(known))[i] = all[i]
      BY <1>4, <2>1, SubSeqProperties
    <3> QED
      BY <1>1, <2>1, <3>1, SeqEqual
  <2>4. IsInjective(known) => IsInjective(all)
    <3> SUFFICES ASSUME IsInjective(known), NEW i \in DOMAIN all, NEW j \in DOMAIN all,
                        all[i] = all[j]
                 PROVE  i = j
      BY DEF IsInjective
    <3>1. \A k \in DOMAIN known : known[k] # id
      BY <1>6 DEF Range
    <3>2. CASE i \in DOMAIN known /\ j \in DOMAIN known
      BY <1>4, <2>1, <3>2 DEF IsInjective
    <3>3. CASE i = Len(known) + 1 \/ j = Len(known) + 1
      BY <1>4, <2>1, <3>1, <3>3
    <3> QED
      BY <1>4, <2>1, <3>2, <3>3
  <2>5. {id} \ {NoID} = {id}
    BY <1>6
  <2> QED
    BY <1>1, <1>3, <2>1, <2>2, <2>3, <2>4, <2>5 DEF Joins
<1> QED
  BY <1>5, <1>6

\* NewestMessage is one of the messages, and none of them is newer.
LEMMA NewestIsNewest ==
    ASSUME NEW S, NEW s \in Seq(S), s # <<>>, NEW date \in [S -> Nat]
    PROVE  /\ NewestMessage(s, date) \in Range(s)
           /\ \A m \in Range(s) : date[m] <= date[NewestMessage(s, date)]
<1>1. \E i \in DOMAIN s : /\ NewestMessage(s, date) = s[i]
                         /\ \A j \in DOMAIN s : date[s[j]] <= date[s[i]]
  BY FirstOfTheGreatest DEF NewestMessage
<1> QED
  BY <1>1 DEF Range

(***************************************************************************)
(* Bodies.                                                                 *)
(***************************************************************************)
\* The bytes before one that begins a character are whole characters.
LEMMA WholeBefore ==
    ASSUME NEW text \in Seq(Byte), ValidUTF8(text), NEW k \in Nat, k < Len(text),
           text[k + 1] # "cont"
    PROVE  ValidUTF8(SubSeq(text, 1, k))
<1> DEFINE cut == SubSeq(text, 1, k)
<1>1. /\ Len(text) \in Nat /\ DOMAIN text = 1 .. Len(text)
      /\ \A i \in 1 .. Len(text) : text[i] \in Byte
  OBVIOUS
<1>2. /\ cut \in Seq(Byte) /\ Len(cut) = k /\ DOMAIN cut = 1 .. k
      /\ \A i \in 1 .. k : cut[i] = text[i]
  BY <1>1, SubSeqProperties
<1>3. \A i \in 1 .. Len(text) : Width(text[i]) \in 0 .. 4
  BY DEF Width
<1> HIDE DEF cut
<1>4. ASSUME NEW i \in 1 .. k, text[i] # "cont"
      PROVE  /\ text[i] # "never" /\ i + Width(text[i]) <= k + 1
             /\ \A j \in i + 1 .. i + Width(text[i]) - 1 : j \in 1 .. k /\ text[j] = "cont"
  <2>1. i \in DOMAIN text
    BY <1>1
  <2>2. /\ text[i] # "never" /\ i + Width(text[i]) <= Len(text) + 1
        /\ \A j \in i + 1 .. i + Width(text[i]) - 1 : text[j] = "cont"
    BY <1>4, <2>1 DEF ValidUTF8
  <2>3. k + 1 \notin i + 1 .. i + Width(text[i]) - 1
    BY <2>2
  <2>4. i + Width(text[i]) <= k + 1
    BY <1>1, <1>3, <2>3
  <2> QED
    BY <1>1, <1>3, <2>2, <2>4
<1>5. ASSUME NEW j \in 1 .. k, text[j] = "cont"
      PROVE  \E i \in 1 .. k : text[i] # "cont" /\ i < j /\ j < i + Width(text[i])
  <2>1. j \in DOMAIN text
    BY <1>1
  <2>2. PICK i \in DOMAIN text : text[i] # "cont" /\ i < j /\ j < i + Width(text[i])
    BY <1>5, <2>1 DEF ValidUTF8
  <2> QED
    BY <1>1, <2>2
<1>6. ValidUTF8(cut)
  BY <1>2, <1>4, <1>5 DEF ValidUTF8
<1> QED
  BY <1>6 DEF cut

\* Of a valid text no more than three of the bytes that fit are cut off: a
\* character has four at most.
LEMMA LongWholePrefix ==
    ASSUME NEW text \in Seq(Byte), ValidUTF8(text), NEW n \in Nat, n < Len(text)
    PROVE  \E k \in 0 .. n : k > n - 4 /\ ValidUTF8(SubSeq(text, 1, k))
<1>1. /\ Len(text) \in Nat /\ DOMAIN text = 1 .. Len(text) /\ n + 1 \in DOMAIN text
  OBVIOUS
<1>2. CASE text[n + 1] # "cont"
  BY <1>2, WholeBefore
<1>3. CASE text[n + 1] = "cont"
  <2>1. PICK l \in DOMAIN text : text[l] # "cont" /\ l < n + 1 /\ n + 1 < l + Width(text[l])
    BY <1>1, <1>3 DEF ValidUTF8
  <2>2. Width(text[l]) \in 0 .. 4
    BY DEF Width
  <2>3. l - 1 \in Nat /\ l - 1 < Len(text) /\ text[(l - 1) + 1] # "cont"
    BY <1>1, <2>1
  <2>4. ValidUTF8(SubSeq(text, 1, l - 1))
    BY <2>3, WholeBefore
  <2> QED
    BY <1>1, <2>1, <2>2, <2>3, <2>4
<1> QED
  BY <1>2, <1>3

\* CutAt keeps the longest valid prefix there is within n bytes.
LEMMA CutIsLongest ==
    ASSUME NEW text \in Seq(Byte), NEW n \in Nat
    PROVE  \E k \in 0 .. n :
              /\ CutAt(text, n) = SubSeq(text, 1, k) /\ ValidUTF8(CutAt(text, n))
              /\ \A l \in 0 .. n : ValidUTF8(SubSeq(text, 1, l)) => l <= k
<1> DEFINE valid == {k \in 0 .. n : ValidUTF8(SubSeq(text, 1, k))}
<1>1. SubSeq(text, 1, 0) = <<>>
  BY SubSeqProperties
<1>2. 0 \in valid
  BY <1>1 DEF ValidUTF8
<1>3. valid \in SUBSET Int /\ IsFiniteSet(valid)
  <2>1. IsFiniteSet(0 .. n)
    BY FS_Interval, 0 \in Int, n \in Int
  <2>2. valid \in SUBSET (0 .. n)
    OBVIOUS
  <2>3. IsFiniteSet(valid)
    BY <2>1, <2>2, FS_Subset
  <2>4. \A k \in valid : k \in Int
    BY <2>2
  <2> QED
    BY <2>3, <2>4
<1>4. \E k \in valid : \A l \in valid : l <= k
  <2> HIDE DEF valid
  <2> QED
    BY <1>2, <1>3, LeastAndGreatest
<1>5. \E k \in valid : (\A l \in valid : l <= k) /\ CutAt(text, n) = SubSeq(text, 1, k)
  BY <1>4 DEF CutAt
<1> QED
  BY <1>5

\* findPartBody finds the first text of a type, if there is one.
LEMMA PartFound ==
    ASSUME NEW parts \in Seq(Part), NEW type
    PROVE  LET found  == FindPartBody(parts, type)
               filled == {part \in Range(parts) : part.type = type /\ part.text # <<>>}
           IN  /\ found \in Seq(Byte)
               /\ found = <<>> <=> filled = {}
               /\ found # <<>> => \E part \in filled : found = part.text
<1> DEFINE filled == {i \in DOMAIN parts : parts[i].type = type /\ parts[i].text # <<>>}
           first  == CHOOSE i \in filled : \A j \in filled : i <= j
<1>1. /\ Len(parts) \in Nat /\ DOMAIN parts = 1 .. Len(parts)
      /\ \A i \in DOMAIN parts : parts[i] \in Part
  OBVIOUS
<1>2. FindPartBody(parts, type) = IF filled = {} THEN <<>> ELSE parts[first].text
  BY DEF FindPartBody
<1>3. CASE filled = {}
  BY <1>2, <1>3 DEF Range
<1>4. CASE filled # {}
  <2>1. first \in filled
    <3>1. filled \in SUBSET (1 .. Len(parts))
      BY <1>1
    <3>2. \E i \in filled : \A j \in filled : i <= j
      <4> HIDE DEF filled
      <4> QED
        BY <1>1, <1>4, <3>1, PositionsAreFinite, LeastAndGreatest
    <3> HIDE DEF filled
    <3> QED
      BY <3>2
  <2>2. /\ parts[first] \in Range(parts) /\ parts[first] \in Part
        /\ parts[first].type = type /\ parts[first].text # <<>>
    BY <1>1, <2>1 DEF Range
  <2> HIDE DEF first
  <2> QED
    BY <1>2, <1>4, <2>2 DEF Part
<1> QED
  BY <1>3, <1>4

\* What BodyOf makes of a message's parts is a body, and an honest one, for every
\* text and every limit (bestBodyText and truncateUTF8).
THEOREM BodyOfIsHonest ==
    ASSUME NEW parts \in Seq(Part)
    PROVE  LET body == BodyOf(parts, MaxBodyBytes)
           IN  /\ body \in [text : Seq(Byte), truncated : BOOLEAN]
               /\ HonestBody(parts, body)
<1> DEFINE body  == BodyOf(parts, MaxBodyBytes)
           best  == BestBodyText(parts)
           plain == {part \in Range(parts) : part.text # <<>> /\ part.type = "text/plain"}
           html  == {part \in Range(parts) : part.text # <<>> /\ part.type = "text/html"}
           chosen == IF plain = {} THEN html ELSE plain
<1> SUFFICES /\ body \in [text : Seq(Byte), truncated : BOOLEAN]
             /\ HonestBody(parts, body)
  OBVIOUS
<1>0. MaxBodyBytes \in Nat \ {0}
  BY HandlerAssumption
<1>1. /\ best \in Seq(Byte)
      /\ best = <<>> <=> plain \cup html = {}
      /\ best # <<>> => \E part \in chosen : best = part.text
  <2>1. {part \in Range(parts) : part.type = "text/plain" /\ part.text # <<>>} = plain
        /\ {part \in Range(parts) : part.type = "text/html" /\ part.text # <<>>} = html
    OBVIOUS
  <2> HIDE DEF plain, html
  <2> DEFINE text == FindPartBody(parts, "text/plain")
             hypertext == FindPartBody(parts, "text/html")
  <2>2. /\ text \in Seq(Byte)
        /\ text = <<>> <=> plain = {}
        /\ text # <<>> => \E part \in plain : text = part.text
    BY <2>1, PartFound
  <2>3. /\ hypertext \in Seq(Byte)
        /\ hypertext = <<>> <=> html = {}
        /\ hypertext # <<>> => \E part \in html : hypertext = part.text
    BY <2>1, PartFound
  <2>4. best = IF text # <<>> THEN text ELSE hypertext
    BY DEF BestBodyText
  <2> HIDE DEF text, hypertext, best
  <2>5. CASE text # <<>>
    <3>1. best = text /\ plain # {} /\ chosen = plain
      BY <2>2, <2>4, <2>5
    <3> HIDE DEF chosen
    <3> QED
      BY <2>2, <2>5, <3>1
  <2>6. CASE text = <<>>
    <3>1. best = hypertext /\ plain = {} /\ chosen = html
      BY <2>2, <2>4, <2>6
    <3> HIDE DEF chosen
    <3> QED
      BY <2>3, <3>1
  <2> QED
    BY <2>5, <2>6
<1>2. body = IF best = <<>> \/ Len(best) <= MaxBodyBytes
             THEN [text |-> best, truncated |-> FALSE]
             ELSE [text |-> CutAt(best, MaxBodyBytes), truncated |-> TRUE]
  <2>1. body = TruncateUTF8(best, MaxBodyBytes)
    BY DEF BodyOf
  <2> HIDE DEF best, body
  <2>2. ~(MaxBodyBytes <= 0)
    BY <1>0
  <2> QED
    BY <2>1, <2>2 DEF TruncateUTF8, FitsBody
<1>3. HonestBody(parts, body) <=>
         /\ body.text = <<>> /\ ~body.truncated => plain \cup html = {}
         /\ body.text # <<>> \/ body.truncated =>
               \E whole \in chosen :
                  /\ \E n \in 0 .. Len(whole.text) : body.text = SubSeq(whole.text, 1, n)
                  /\ Len(body.text) <= MaxBodyBytes
                  /\ body.truncated <=> body.text # whole.text
                  /\ body.truncated => ValidUTF8(body.text)
                  /\ (body.truncated /\ ValidUTF8(whole.text))
                        => Len(body.text) > MaxBodyBytes - 4
  <2>1. /\ {part \in {p \in Range(parts) : p.text # <<>>} : part.type = "text/plain"} = plain
        /\ {part \in {p \in Range(parts) : p.text # <<>>} : part.type = "text/html"} = html
    OBVIOUS
  <2> HIDE DEF body, plain, html
  <2> QED
    BY <2>1 DEF HonestBody
<1> HIDE DEF body, best, plain, html, chosen
<1>4. Len(best) \in Nat
  BY <1>1
<1>5. CASE best = <<>>
  BY <1>1, <1>2, <1>3, <1>5
<1>6. CASE best # <<>> /\ Len(best) <= MaxBodyBytes
  <2>1. body = [text |-> best, truncated |-> FALSE]
    BY <1>2, <1>6
  <2>2. SubSeq(best, 1, Len(best)) = best /\ Len(best) \in 0 .. Len(best)
    BY <1>1, <1>4
  <2> QED
    BY <1>1, <1>3, <1>6, <2>1, <2>2
<1>7. CASE best # <<>> /\ ~(Len(best) <= MaxBodyBytes)
  <2>1. body = [text |-> CutAt(best, MaxBodyBytes), truncated |-> TRUE]
    BY <1>2, <1>7
  <2>2. PICK k \in 0 .. MaxBodyBytes :
           /\ CutAt(best, MaxBodyBytes) = SubSeq(best, 1, k)
           /\ ValidUTF8(CutAt(best, MaxBodyBytes))
           /\ \A l \in 0 .. MaxBodyBytes : ValidUTF8(SubSeq(best, 1, l)) => l <= k
    BY <1>0, <1>1, CutIsLongest
  <2>3. k \in 0 .. Len(best) /\ k < Len(best)
    BY <1>0, <1>4, <1>7
  <2>4. body.text \in Seq(Byte) /\ Len(body.text) = k
    BY <1>1, <2>1, <2>2, <2>3, SubSeqProperties
  <2>5. body.text # best
    BY <2>3, <2>4
  <2>6. ValidUTF8(best) => k > MaxBodyBytes - 4
    <3> SUFFICES ASSUME ValidUTF8(best) PROVE k > MaxBodyBytes - 4
      OBVIOUS
    <3>1. PICK l \in 0 .. MaxBodyBytes :
             l > MaxBodyBytes - 4 /\ ValidUTF8(SubSeq(best, 1, l))
      BY <1>0, <1>1, <1>4, <1>7, LongWholePrefix
    <3> QED
      BY <1>0, <2>2, <3>1
  <2>7. PICK whole \in chosen : best = whole.text
    BY <1>1, <1>7
  <2>8. body.truncated /\ Len(body.text) <= MaxBodyBytes /\ ValidUTF8(body.text)
    BY <1>0, <2>1, <2>2, <2>4
  <2>9. HonestBody(parts, body)
    BY <1>1, <1>3, <1>7, <2>1, <2>2, <2>3, <2>4, <2>5, <2>6, <2>7, <2>8
  <2> QED
    BY <2>1, <2>4, <2>9
<1> QED
  BY <1>5, <1>6, <1>7

(***************************************************************************)
(* The inductive invariant.                                                *)
(***************************************************************************)
Reads  == {"get_message", "get_thread", "get_attachment"}
Stages == {"resolve", "start", "labels", "target", "full", "data", "draft"}

\* The messages there ever were: none is forgotten, and none changes its thread
\* or its headers.
Known == Mail \cup Drafted

\* What the progress of a request says about what was decided before.
PhaseInv ==
    /\ pc # "idle" => req \in Requests
    /\ pc \in Stages => pol \in PolicyFiles /\ Valid(req)
    /\ (pc \in Stages \cup {"validate"} /\ req.method = "create_draft")
          => Len(drafts) < Len(DraftIDs)
    /\ pc # "respond" => response = None
    /\ pc = "respond" => response \in Response
    /\ pc \in {"idle", "validate", "resolve", "start", "labels", "target"}
          => authorized = <<>> /\ contents = <<>>
    /\ pc = "labels" => req.method = "list_labels"
    /\ pc = "resolve" => pol.visibilityLabel # NoLabel
    /\ pc \in {"resolve", "start"} => req.method # "list_labels"
    /\ pc = "target" =>
          HasTarget(req) /\ (req.method = "create_draft" => WellFormed(Recipients(req)))
    /\ pc \in {"full", "data"} => authorized # <<>> /\ req.method \in Reads
    /\ pc = "data" => req.method = "get_attachment"
    /\ pc = "draft" => /\ req.method = "create_draft" /\ WellFormed(Recipients(req))
                       /\ IsReply(req) => authorized # <<>>

\* What is read is what was found visible, in its order.
ReadInv ==
    /\ Range(authorized) \subseteq Known
    /\ Len(contents) <= Len(authorized)
    /\ \A i \in 1 .. Len(contents) : contents[i] = authorized[i]

\* What was found visible is what one of the views shows, the mailbox as it is
\* now being one of them.
ViewsInv ==
    /\ pol # None => View(pol) \in views
    /\ \A view \in views : view \subseteq Known
    /\ authorized # <<>> => /\ HasTarget(req)
                            /\ \E view \in views : AtOnce(req, view, authorized)
    /\ AnswersAreOneView

\* A draft is what the headers of the message it answers make it.
Made(draft, headers) ==
    /\ draft.derived =>
          /\ draft.anchor # None
          /\ draft.to = DraftReplyRecipients(headers, draft.replyAll).to
          /\ draft.cc = DraftReplyRecipients(headers, draft.replyAll).cc
    /\ draft.anchor # None =>
          /\ draft.inReplyTo = DraftReplyContext(headers).inReplyTo
          /\ draft.references = DraftReplyContext(headers).references

\* The messages a draft can answer when it is made.
Before(i) == Mail \cup {DraftIDs[k] : k \in 1 .. i - 1} \cup {None}

\* Each draft is made of an older message.
DraftsInv ==
    \A i \in DOMAIN drafts :
        /\ drafts[i].anchor \in Before(i)
        /\ Made(drafts[i], HeadersOf(drafts[i].anchor))

\* A request for what is there to be served.
Servable ==
    /\ req.method \in Reads /\ Valid(req)
    /\ policyFile.visibilityLabel \in mail.named \cup {NoLabel}
    /\ Shown(req, View(policyFile)) # <<>>
    /\ req.method = "get_attachment" =>
           /\ req.attachment \in DOMAIN AttachmentsOf(req.message)
           /\ LET file == AttachmentsOf(req.message)[req.attachment]
              IN  /\ file.stated <= MaxAttachmentBytes(req.configured)
                  /\ file.actual \in 1 .. MaxAttachmentBytes(req.configured)

\* While nothing changes or fails, such a request goes on with all that is
\* visible of what it names.
ServedInv ==
    (changes = 0 /\ failures = 0) =>
        /\ pc \in Stages => pol = policyFile
        /\ (pc # "idle" /\ Servable) =>
              /\ authorized # <<>> => authorized = Shown(req, View(policyFile))
              /\ pc = "respond" => response.code = "ok"

(***************************************************************************)
(* The mailbox.                                                            *)
(***************************************************************************)
\* What the assumptions say of the identifiers.
LEMMA Identifiers ==
    /\ MailOrder \in Seq(Messages) /\ DraftIDs \in Seq(Messages)
    /\ Mail \subseteq Messages /\ Len(DraftIDs) \in Nat /\ DOMAIN DraftIDs = 1 .. Len(DraftIDs)
    /\ \A i \in DOMAIN DraftIDs : /\ DraftIDs[i] \in Messages /\ DraftIDs[i] \notin Mail
                                  /\ DraftIDs[i] \in Range(DraftIDs)
                                  /\ \A j \in DOMAIN DraftIDs : DraftIDs[i] = DraftIDs[j] => i = j
    /\ None \notin Messages
    /\ MailOrder \o DraftIDs \in Seq(Messages)
<1>1. MailOrder \in Seq(Messages) /\ DraftIDs \in Seq(Messages)
  BY HandlerAssumption
<1>2. Len(DraftIDs) \in Nat /\ DOMAIN DraftIDs = 1 .. Len(DraftIDs)
  BY <1>1
<1>3. \A i \in DOMAIN DraftIDs : DraftIDs[i] \in Messages /\ DraftIDs[i] \in Range(DraftIDs)
  BY <1>1 DEF Range
<1>4. MailOrder \o DraftIDs \in Seq(Messages)
  BY <1>1, ConcatProperties
<1>5. Mail \subseteq Messages /\ Mail \cap Range(DraftIDs) = {} /\ None \notin Messages
  BY HandlerAssumption
<1>6. IsInjective(DraftIDs)
  BY HandlerAssumption
<1>7. \A i, j \in DOMAIN DraftIDs : DraftIDs[i] = DraftIDs[j] => i = j
  BY <1>6 DEF IsInjective
<1> QED
  BY <1>1, <1>2, <1>3, <1>4, <1>5, <1>7

\* Gmail shows messages there are.
LEMMA PresentIsKnown ==
    ASSUME mail \in MailStates, drafts \in Seq(Draft), Len(drafts) <= Len(DraftIDs)
    PROVE  /\ Present \subseteq Known /\ Known \subseteq Messages
           /\ \A p : View(p) \subseteq Present /\ View(p) \in SUBSET Messages
<1>1. mail.present \subseteq Mail
  BY HandlerAssumption DEF MailState
<1>2. \A i \in DOMAIN drafts : i \in DOMAIN DraftIDs
  BY Identifiers
<1>3. Drafted \subseteq Messages
  BY <1>2, Identifiers DEF Drafted
<1> QED
  BY <1>1, <1>3, Identifiers DEF Present, Known, View

\* A draft is found by its identifier.
LEMMA DraftFound ==
    ASSUME drafts \in Seq(Draft), Len(drafts) <= Len(DraftIDs), NEW i \in DOMAIN drafts
    PROVE  /\ DraftIDs[i] \in Known /\ DraftIDs[i] \notin Mail
           /\ DraftOf(DraftIDs[i]) = drafts[i] /\ drafts[i] \in Draft
           /\ ThreadOf(DraftIDs[i]) = drafts[i].thread
           /\ DraftIDs[i] \in Range(DraftIDs)
<1>1. \A j \in DOMAIN drafts : j \in DOMAIN DraftIDs
  BY Identifiers
<1>2. \A j \in DOMAIN drafts : DraftIDs[j] = DraftIDs[i] => j = i
  BY <1>1, Identifiers
<1>3. (CHOOSE j \in DOMAIN drafts : DraftIDs[j] = DraftIDs[i]) = i
  BY <1>2
<1>4. DraftOf(DraftIDs[i]) = drafts[i] /\ drafts[i] \in Draft
  <2>1. drafts[i] \in Draft
    OBVIOUS
  <2> QED
    BY <1>3, <2>1, Zenon DEF DraftOf
<1>5. DraftIDs[i] \in Drafted /\ DraftIDs[i] \notin Mail /\ DraftIDs[i] \in Range(DraftIDs)
  BY <1>1, Identifiers DEF Drafted
<1> QED
  BY <1>4, <1>5 DEF Known, ThreadOf

\* Every message has headers and a thread, or, if it is a draft, maybe none.
LEMMA KnownIsTyped ==
    ASSUME drafts \in Seq(Draft), Len(drafts) <= Len(DraftIDs), NEW m \in Known
    PROVE  HeadersOf(m) \in HeaderSet /\ ThreadOf(m) \in Threads \cup {None}
<1>1. CASE m \in Mail
  BY <1>1, HandlerAssumption DEF HeadersOf, ThreadOf
<1>2. CASE m \notin Mail
  <2>1. PICK i \in DOMAIN drafts : m = DraftIDs[i]
    BY <1>2 DEF Known, Drafted
  <2>2. /\ DraftOf(m) \in Draft /\ ThreadOf(m) = DraftOf(m).thread /\ m \in Range(DraftIDs)
    BY <2>1, DraftFound
  <2>3. /\ HeadersOf(m).from = <<Owner>> /\ <<Owner>> \in Seq(Value)
        /\ HeadersOf(m) =
              [from |-> <<Owner>>, replyTo |-> <<>>, to |-> AsWritten(DraftOf(m).to),
               cc |-> AsWritten(DraftOf(m).cc), messageID |-> DraftMessageIDs[m],
               inReplyTo |-> DraftOf(m).inReplyTo, references |-> DraftOf(m).references]
    BY <1>2, AddressAssumption DEF HeadersOf, Value
  <2>4. /\ DraftOf(m).to \in Seq(Addresses) /\ DraftOf(m).cc \in Seq(Addresses)
        /\ DraftOf(m).inReplyTo \in Seq(MessageIDs) /\ DraftOf(m).references \in Seq(MessageIDs)
        /\ DraftOf(m).thread \in Threads \cup {None}
    BY <2>2 DEF Draft
  <2>5. AsWritten(DraftOf(m).to) \in Seq(Value) /\ AsWritten(DraftOf(m).cc) \in Seq(Value)
    BY <2>4, AsWrittenIsLower
  <2>6. DraftMessageIDs[m] \in MessageIDs
    BY <2>2, HandlerAssumption
  <2>7. <<>> \in Seq(Value)
    OBVIOUS
  <2> QED
    BY <2>2, <2>3, <2>4, <2>5, <2>6, <2>7 DEF HeaderSet
<1> QED
  BY <1>1, <1>2

\* The target of a request as a view shows it: messages of the view.
LEMMA ShownIsShown ==
    ASSUME NEW r \in Request, NEW view \in SUBSET Messages
    PROVE  Shown(r, view) \in Seq(Messages) /\ Range(Shown(r, view)) \subseteq view
<1>1. CASE r.message # None
  <2>1. <<r.message>> \in Seq(Messages)
    BY <1>1 DEF Request
  <2>2. Shown(r, view) = Keep(<<r.message>>, view)
    BY <1>1 DEF Shown
  <2>3. /\ Keep(<<r.message>>, view) \in Seq(Messages)
        /\ Range(Keep(<<r.message>>, view)) = Range(<<r.message>>) \cap view
    BY <2>1, KeepProperties
  <2> QED
    BY <2>2, <2>3
<1>2. CASE r.message = None
  <2> DEFINE s == MailOrder \o DraftIDs
             T == {m \in view : ThreadOf(m) = r.thread}
  <2>1. Shown(r, view) = Keep(s, T) /\ T \subseteq view /\ s \in Seq(Messages)
    BY <1>2, Identifiers DEF Shown
  <2> HIDE DEF s, T
  <2>2. Keep(s, T) \in Seq(Messages) /\ Range(Keep(s, T)) = Range(s) \cap T
    BY <2>1, KeepProperties
  <2> QED
    BY <2>1, <2>2
<1> QED
  BY <1>1, <1>2

\* What a handler keeps of the target, asking the policy message by message, is
\* what the policy's view of the mailbox shows.
LEMMA VisibleIsShown ==
    ASSUME NEW r \in Request, NEW p, Present \subseteq Messages
    PROVE  VisibleThreadMessages(p, Target(r)) = Shown(r, View(p))
<1> DEFINE allowed == {m \in Range(Target(r)) : AllowsMessage(p, m, LabelsOf(m))}
<1>1. VisibleThreadMessages(p, Target(r)) = Keep(Target(r), allowed)
  BY DEF VisibleThreadMessages
<1>2. CASE r.message # None
  <2> DEFINE s == <<r.message>>
  <2>1. s \in Seq(Messages)
    BY <1>2 DEF Request
  <2>2. Target(r) = Keep(s, Present)
    BY <1>2 DEF Target
  <2>3. Range(Target(r)) = Range(s) \cap Present
    BY <2>1, <2>2, KeepProperties
  <2> HIDE DEF s
  <2>4. Range(s) \cap (Present \cap allowed) = Range(s) \cap View(p)
    BY <2>3 DEF View
  <2>5. Keep(Target(r), allowed) = Keep(s, Present \cap allowed)
    BY <2>1, <2>2, KeepOfKeep
  <2>6. Keep(s, Present \cap allowed) = Keep(s, View(p))
    BY <2>1, <2>4, KeepAgrees
  <2> QED
    BY <1>1, <1>2, <2>5, <2>6 DEF Shown, s
<1>3. CASE r.message = None
  <2> DEFINE s == MailOrder \o DraftIDs
             T == {m \in Present : ThreadOf(m) = r.thread}
             U == {m \in View(p) : ThreadOf(m) = r.thread}
  <2>1. s \in Seq(Messages)
    BY Identifiers
  <2>2. Target(r) = Keep(s, T)
    BY <1>3 DEF Target, ThreadMessages
  <2> HIDE DEF s
  <2>3. Range(Target(r)) = Range(s) \cap T
    BY <2>1, <2>2, KeepProperties
  <2>4. Range(s) \cap (T \cap allowed) = Range(s) \cap U
    BY <2>3 DEF View
  <2>5. Keep(Target(r), allowed) = Keep(s, T \cap allowed)
    <3> HIDE DEF T, allowed
    <3> QED
      BY <2>1, <2>2, KeepOfKeep
  <2>6. Keep(s, T \cap allowed) = Keep(s, U)
    BY <2>1, <2>4, KeepAgrees
  <2> QED
    BY <1>1, <1>3, <2>5, <2>6 DEF Shown, s
<1> QED
  BY <1>2, <1>3

\* The messages a request is about were in the view they are shown by.
LEMMA AtOnceIsShown ==
    ASSUME NEW r \in Request, NEW view \in SUBSET Messages, NEW messages,
           AtOnce(r, view, messages)
    PROVE  messages \in Seq(Messages) /\ messages # <<>> /\ Range(messages) \subseteq view
<1>1. Shown(r, view) \in Seq(Messages) /\ Range(Shown(r, view)) \subseteq view
  BY ShownIsShown
<1>2. CASE r.method = "create_draft"
  <2>1. PICK m \in Range(Shown(r, view)) : messages = <<m>>
    BY <1>2 DEF AtOnce
  <2>2. m \in view /\ m \in Messages
    BY <1>1
  <2> QED
    BY <2>1, <2>2 DEF Range
<1>3. CASE r.method # "create_draft"
  BY <1>1, <1>3 DEF AtOnce
<1> QED
  BY <1>2, <1>3

\* A draft more takes nothing away and changes no message, no thread and nothing
\* that an earlier view shows.
LEMMA NothingIsForgotten ==
    ASSUME drafts \in Seq(Draft), Len(drafts) <= Len(DraftIDs),
           drafts' \in Seq(Draft), Len(drafts') <= Len(DraftIDs),
           drafts' = drafts \/ \E d : drafts' = Append(drafts, d)
    PROVE  /\ Known \subseteq Known'
           /\ \A m \in Known : ThreadOf(m)' = ThreadOf(m) /\ HeadersOf(m)' = HeadersOf(m)
           /\ \A r, view : view \subseteq Known => Shown(r, view)' = Shown(r, view)
           /\ \A r, view, messages :
                 view \subseteq Known => AtOnce(r, view, messages)' = AtOnce(r, view, messages)
<1>1. \A i \in DOMAIN drafts : i \in DOMAIN drafts' /\ drafts'[i] = drafts[i]
  OBVIOUS
<1>2. Known \subseteq Known'
  BY <1>1 DEF Known, Drafted
<1>3. \A i \in DOMAIN drafts : (CHOOSE j \in DOMAIN drafts : DraftIDs[j] = DraftIDs[i]) = i
  <2> TAKE i \in DOMAIN drafts
  <2>1. \A j \in DOMAIN drafts : j \in DOMAIN DraftIDs
    BY Identifiers
  <2>2. \A j \in DOMAIN drafts : DraftIDs[j] = DraftIDs[i] => j = i
    BY <2>1, Identifiers
  <2> QED
    BY <2>2
<1>4. \A i \in DOMAIN drafts : (CHOOSE j \in DOMAIN drafts' : DraftIDs[j] = DraftIDs[i]) = i
  <2> TAKE i \in DOMAIN drafts
  <2>1. \A j \in DOMAIN drafts' : j \in DOMAIN DraftIDs
    BY Identifiers
  <2>2. i \in DOMAIN drafts' /\ \A j \in DOMAIN drafts' : DraftIDs[j] = DraftIDs[i] => j = i
    BY <1>1, <2>1, Identifiers
  <2> QED
    BY <2>2
<1>5. \A m \in Known \ Mail : DraftOf(m)' = DraftOf(m)
  <2> TAKE m \in Known \ Mail
  <2>1. PICK i \in DOMAIN drafts : m = DraftIDs[i]
    BY DEF Known, Drafted
  <2>2. DraftOf(DraftIDs[i])' = drafts'[i]
    BY <1>4, Zenon DEF DraftOf
  <2>3. DraftOf(DraftIDs[i]) = drafts[i]
    BY <1>3, Zenon DEF DraftOf
  <2> QED
    BY <1>1, <2>1, <2>2, <2>3
<1>6. \A m \in Known : ThreadOf(m)' = ThreadOf(m) /\ HeadersOf(m)' = HeadersOf(m)
  BY <1>5 DEF ThreadOf, HeadersOf
<1>7. ASSUME NEW r, NEW view, view \subseteq Known
      PROVE  Shown(r, view)' = Shown(r, view)
  <2>1. {m \in view : ThreadOf(m)' = r.thread} = {m \in view : ThreadOf(m) = r.thread}
    BY <1>6, <1>7
  <2> QED
    BY <2>1 DEF Shown
<1>8. ASSUME NEW r, NEW view, NEW messages, view \subseteq Known
      PROVE  AtOnce(r, view, messages)' = AtOnce(r, view, messages)
  BY <1>7, <1>8 DEF AtOnce
<1> QED
  BY <1>2, <1>6, <1>7, <1>8

(***************************************************************************)
(* The draft that is made.                                                 *)
(***************************************************************************)
\* Addresses that are compared, none of them malformed, are addresses.
LEMMA WithoutMalformed ==
    ASSUME NEW s \in Seq(Compared), Malformed \notin Range(s)
    PROVE  s \in Seq(Addresses)
<1>1. /\ Len(s) \in Nat /\ DOMAIN s = 1 .. Len(s) /\ s = [i \in 1 .. Len(s) |-> s[i]]
      /\ \A i \in DOMAIN s : s[i] \in Compared
  OBVIOUS
<1>2. \A i \in DOMAIN s : s[i] # Malformed
  BY DEF Range
<1>3. \A i \in 1 .. Len(s) : s[i] \in Addresses
  BY <1>1, <1>2 DEF Compared
<1> QED
  BY <1>1, <1>3

\* NormalizeAddressList returns addresses when none is malformed.
LEMMA NormalizedIsTyped ==
    ASSUME NEW list \in Seq(Value)
    PROVE  /\ NormalizeAddressList(list) \in Seq(Compared)
           /\ WellFormed(list) => NormalizeAddressList(list) \in Seq(Addresses)
<1>1. /\ Lower(list) \in Seq(Compared) /\ DOMAIN Lower(list) = DOMAIN list
      /\ \A i \in DOMAIN list : list[i] # Malformed => Lower(list)[i] \in Addresses
  BY DEF Lower, Value, Written, Compared
<1>2. /\ NormalizeAddressList(list) \in Seq(Compared)
      /\ Range(NormalizeAddressList(list)) \subseteq Range(Lower(list)) \ {}
  BY <1>1, UniqueIDsExcludingIsUnique DEF NormalizeAddressList
<1>3. ASSUME WellFormed(list) PROVE Malformed \notin Range(Lower(list))
  <2>1. \A i \in DOMAIN list : list[i] # Malformed
    BY <1>3 DEF WellFormed, Range
  <2>2. \A i \in DOMAIN Lower(list) : Lower(list)[i] # Malformed
    BY <1>1, <2>1, AddressAssumption
  <2> QED
    BY <2>2 DEF Range
<1> QED
  BY <1>2, <1>3, WithoutMalformed

\* What DraftReplyRecipients returns are two lists; nobody is copied unless all
\* are.
LEMMA ReplyRecipientsAreTyped ==
    ASSUME NEW headers \in HeaderSet, NEW replyAll \in BOOLEAN
    PROVE  /\ DraftReplyRecipients(headers, replyAll).to \in Seq(Compared)
           /\ DraftReplyRecipients(headers, replyAll).cc \in Seq(Compared)
           /\ ~replyAll => DraftReplyRecipients(headers, replyAll).cc = <<>>
<1>1. /\ headers.replyTo \in Seq(Value) /\ headers.from \in Seq(Value)
      /\ headers.to \in Seq(Value) /\ headers.cc \in Seq(Value)
  BY DEF HeaderSet
<1>2. ReplyAddress(headers) \in Seq(Value)
  BY <1>1 DEF ReplyAddress
<1>3. \A seen : /\ Fresh(ReplyAddress(headers), seen) \in Seq(Compared)
                /\ Fresh(headers.to, seen) \in Seq(Compared)
                /\ Fresh(headers.cc, seen) \in Seq(Compared)
  BY <1>1, <1>2, FreshAddresses
<1>4. \A s, t \in Seq(Compared) : s \o t \in Seq(Compared)
  BY ConcatProperties
<1>5. <<>> \in Seq(Compared)
  OBVIOUS
<1> HIDE DEF Compared
<1> QED
  BY <1>3, <1>4, <1>5 DEF DraftReplyRecipients

\* The draft a request asks for is one, and a function of the headers of the
\* message that was found visible.
LEMMA DraftIsMade ==
    ASSUME req \in Requests, drafts \in Seq(Draft), Len(drafts) <= Len(DraftIDs),
           mail \in MailStates,
           authorized \in Seq(Messages), Range(authorized) \subseteq Known,
           IsReply(req) => authorized # <<>>,
           WellFormed(Recipients(req)), Buildable(DraftFor(req))
    PROVE  LET draft == DraftFor(req)
           IN  /\ draft \in Draft
               /\ IsReply(req) => draft.anchor = authorized[1]
               /\ draft.anchor \in Known \cup {None}
               /\ Made(draft, HeadersOf(draft.anchor))
<1> DEFINE draft   == DraftFor(req)
           anchor  == IF IsReply(req) THEN authorized[1] ELSE None
           headers == HeadersOf(anchor)
           derived == DraftReplyRecipients(headers, req.replyAll)
           context == IF IsReply(req) THEN DraftReplyContext(headers)
                      ELSE [inReplyTo |-> <<>>, references |-> <<>>]
<1>1. /\ req.to \in Seq(Value) /\ req.cc \in Seq(Value) /\ req.bcc \in Seq(Value)
      /\ req.replyAll \in BOOLEAN
  BY HandlerAssumption DEF Request
<1>2. IsReply(req) => /\ anchor \in Known /\ anchor \in Messages /\ anchor # None
                      /\ headers \in HeaderSet /\ ThreadOf(anchor) \in Threads \cup {None}
  <2> SUFFICES ASSUME IsReply(req)
               PROVE  /\ anchor \in Known /\ anchor \in Messages /\ anchor # None
                      /\ headers \in HeaderSet /\ ThreadOf(anchor) \in Threads \cup {None}
    OBVIOUS
  <2>1. Len(authorized) \in Nat /\ Len(authorized) # 0
    BY EmptySeq
  <2>2. 1 \in DOMAIN authorized
    BY <2>1
  <2>3. anchor \in Known
    BY <2>2 DEF Range
  <2>4. Known \subseteq Messages /\ None \notin Messages
    BY PresentIsKnown, Identifiers
  <2> HIDE DEF anchor
  <2> QED
    BY <2>3, <2>4, KnownIsTyped
<1>3. draft = [anchor |-> anchor,
               thread |-> IF anchor = None THEN None ELSE ThreadOf(anchor),
               to |-> IF Derives(req) THEN derived.to ELSE NormalizeAddressList(req.to),
               cc |-> IF Derives(req) THEN derived.cc ELSE NormalizeAddressList(req.cc),
               bcc |-> NormalizeAddressList(req.bcc),
               inReplyTo |-> context.inReplyTo, references |-> context.references,
               derived |-> Derives(req), replyAll |-> req.replyAll]
  BY DEF DraftFor
<1>4. Derives(req) => IsReply(req)
  BY DEF Derives
<1>4a. ~IsReply(req) => anchor = None
  OBVIOUS
<1>4b. /\ IsReply(req) => context = DraftReplyContext(headers)
       /\ ~IsReply(req) => context.inReplyTo = <<>> /\ context.references = <<>>
  OBVIOUS
<1>4c. (IsReply(req) => anchor = authorized[1]) /\ Derives(req) \in BOOLEAN
  BY DEF Derives, IsReply
<1> HIDE DEF draft, anchor, context, headers
<1>5. /\ Derives(req) => derived.to \in Seq(Compared) /\ derived.cc \in Seq(Compared)
      /\ NormalizeAddressList(req.to) \in Seq(Compared)
      /\ NormalizeAddressList(req.cc) \in Seq(Compared)
  BY <1>1, <1>2, <1>4, ReplyRecipientsAreTyped, NormalizedIsTyped
<1>6. draft.to \in Seq(Addresses) /\ draft.cc \in Seq(Addresses)
  <2>1. draft.to \in Seq(Compared) /\ draft.cc \in Seq(Compared)
    BY <1>3, <1>5
  <2>2. Malformed \notin Range(draft.to) /\ Malformed \notin Range(draft.cc)
    BY DEF Buildable, draft
  <2> QED
    BY <2>1, <2>2, WithoutMalformed
<1>7. NormalizeAddressList(req.bcc) \in Seq(Addresses)
  <2> DEFINE toAndCc == req.to \o req.cc
  <2>1. toAndCc \in Seq(Value) /\ Recipients(req) = toAndCc \o req.bcc
    BY <1>1, ConcatProperties DEF Recipients
  <2> HIDE DEF toAndCc
  <2>2. Range(Recipients(req)) = Range(toAndCc) \cup Range(req.bcc)
    BY <1>1, <2>1, JoinedRange
  <2>3. WellFormed(req.bcc)
    BY <2>2 DEF WellFormed
  <2> QED
    BY <1>1, <2>3, NormalizedIsTyped
<1>8. draft.inReplyTo \in Seq(MessageIDs) /\ draft.references \in Seq(MessageIDs)
  <2>1. CASE IsReply(req)
    <3>1. /\ draft.inReplyTo = DraftReplyContext(headers).inReplyTo
          /\ draft.references = DraftReplyContext(headers).references
      BY <1>3, <1>4b, <2>1
    <3>2. headers \in HeaderSet
      BY <1>2, <2>1
    <3> QED
      BY <3>1, <3>2, ReplyContextJoins
  <2>2. CASE ~IsReply(req)
    <3>1. context.inReplyTo = <<>> /\ context.references = <<>>
      BY <1>4b, <2>2
    <3>2. draft.inReplyTo = context.inReplyTo /\ draft.references = context.references
      BY <1>3
    <3>3. <<>> \in Seq(MessageIDs)
      OBVIOUS
    <3> QED
      BY <3>1, <3>2, <3>3
  <2> QED
    BY <2>1, <2>2
<1>9. draft.anchor = anchor /\ anchor \in Messages \cup {None} /\ anchor \in Known \cup {None}
      /\ draft.thread \in Threads \cup {None}
  BY <1>2, <1>3, <1>4a
<1>10. draft \in Draft
  <2>1. /\ draft.bcc \in Seq(Addresses) /\ draft.derived \in BOOLEAN
        /\ draft.replyAll \in BOOLEAN /\ draft.anchor \in Messages \cup {None}
    BY <1>1, <1>3, <1>4c, <1>7, <1>9
  <2>2. draft = [anchor |-> draft.anchor, thread |-> draft.thread, to |-> draft.to,
                 cc |-> draft.cc, bcc |-> draft.bcc, inReplyTo |-> draft.inReplyTo,
                 references |-> draft.references, derived |-> draft.derived,
                 replyAll |-> draft.replyAll]
    BY <1>3
  <2> QED
    BY <1>6, <1>8, <1>9, <2>1, <2>2 DEF Draft
<1>11. headers = HeadersOf(draft.anchor)
  BY <1>9 DEF headers
<1>12. draft.derived => /\ draft.anchor # None /\ draft.to = derived.to /\ draft.cc = derived.cc
                        /\ draft.replyAll = req.replyAll
  BY <1>2, <1>3, <1>4, <1>9
<1>13. draft.anchor # None => /\ draft.inReplyTo = DraftReplyContext(headers).inReplyTo
                              /\ draft.references = DraftReplyContext(headers).references
  BY <1>3, <1>4a, <1>4b, <1>9
<1>14. Made(draft, HeadersOf(draft.anchor))
  BY <1>11, <1>12, <1>13 DEF Made
<1> QED
  BY <1>4c, <1>9, <1>10, <1>14 DEF draft

(***************************************************************************)
(* Steps.                                                                  *)
(***************************************************************************)
\* The same of the mailbox after a step.
LEMMA PresentStaysKnown ==
    ASSUME mail' \in MailStates, drafts' \in Seq(Draft), Len(drafts') <= Len(DraftIDs)
    PROVE  /\ Present' \subseteq Known' /\ Known' \subseteq Messages
           /\ \A p : View(p)' \subseteq Present' /\ View(p)' \in SUBSET Messages
<1>1. mail'.present \subseteq Mail
  BY HandlerAssumption DEF MailState
<1>2. \A i \in DOMAIN drafts' : i \in DOMAIN DraftIDs
  BY Identifiers
<1>3. Drafted' \subseteq Messages
  BY <1>2, Identifiers DEF Drafted
<1> QED
  BY <1>1, <1>3, Identifiers DEF Present, Known, View

\* An answer without bodies.
LEMMA AnsweredIsTyped ==
    ASSUME NEW code \in Codes, NEW messages \in Seq(Messages)
    PROVE  /\ Answered(code, messages) \in Response
           /\ Answered(code, messages).code = code
           /\ Answered(code, messages).messages = messages
           /\ Answered(code, messages).bodies = <<>>
BY DEF Answered, Response

\* An answer with bodies: they are honest.
LEMMA DetailedIsTyped ==
    ASSUME NEW messages \in Seq(Messages)
    PROVE  /\ Detailed(messages) \in Response
           /\ Detailed(messages).code = "ok" /\ Detailed(messages).messages = messages
           /\ \A i \in DOMAIN Detailed(messages).bodies :
                 HonestBody(PartsOf(messages[i]), Detailed(messages).bodies[i])
<1> DEFINE body(m) == BodyOf(PartsOf(m), MaxBodyBytes)
           bodies  == [i \in DOMAIN messages |-> body(messages[i])]
<1>1. Detailed(messages) = [code |-> "ok", messages |-> messages, bodies |-> bodies]
  BY DEF Detailed, Answered
<1>2. \A m : PartsOf(m) \in Seq(Part)
  <2>1. <<[type |-> "text/plain", text |-> <<"ascii">>]>> \in Seq(Part)
    BY DEF Part, Byte
  <2> QED
    BY <2>1, HandlerAssumption DEF PartsOf
<1>3. \A m : /\ body(m) \in [text : Seq(Byte), truncated : BOOLEAN]
             /\ HonestBody(PartsOf(m), body(m))
  BY <1>2, BodyOfIsHonest
<1> HIDE DEF body
<1>4. bodies \in Seq([text : Seq(Byte), truncated : BOOLEAN])
  <2>1. DOMAIN messages = 1 .. Len(messages) /\ Len(messages) \in Nat
    OBVIOUS
  <2>2. bodies \in [1 .. Len(messages) -> [text : Seq(Byte), truncated : BOOLEAN]]
    BY <1>3, <2>1
  <2> QED
    BY <2>1, <2>2
<1>5. \A i \in DOMAIN bodies : HonestBody(PartsOf(messages[i]), bodies[i])
  BY <1>3
<1> HIDE DEF bodies
<1>6. "ok" \in Codes
  BY DEF Codes
<1> QED
  BY <1>1, <1>4, <1>5, <1>6 DEF Response

\* The first part of the inductive invariant.
ProgressInv == TypeOK /\ PhaseInv /\ ReadInv

\* What a refusal leaves.
LEMMA RefusalKeepsProgress ==
    ASSUME ProgressInv, NEW code \in Codes, Refuse(code), pc # "idle",
           UNCHANGED <<gmail, policyFile, req, pol, authorized, contents, views, changes>>,
           failures' \in 0 .. MaxFailures
    PROVE  ProgressInv'
<1>1. response' \in Response /\ pc' = "respond"
  BY AnsweredIsTyped, EmptySeq DEF Refuse, RespondWith
<1>2. UNCHANGED <<Drafted, Known>>
  BY DEF Drafted, Known, gmail
<1>3. TypeOK'
  BY <1>1 DEF ProgressInv, TypeOK, gmail
<1>4. PhaseInv'
  BY <1>1 DEF ProgressInv, PhaseInv, Stages
<1>5. ReadInv'
  BY <1>2 DEF ProgressInv, ReadInv
<1> QED
  BY <1>3, <1>4, <1>5 DEF ProgressInv

\* The variables have their types, a request's progress says what it should, and
\* what is read is what was found visible.
THEOREM ProgressIsInvariant == Spec => []ProgressInv
<1>1. Init => ProgressInv
  <2> SUFFICES ASSUME Init PROVE ProgressInv
    OBVIOUS
  <2>1. MaxChanges \in Nat /\ MaxFailures \in Nat /\ Len(DraftIDs) \in Nat
    BY HandlerAssumption, Identifiers
  <2>2. TypeOK
    BY <2>1 DEF Init, TypeOK
  <2>3. PhaseInv
    BY DEF Init, PhaseInv, Stages
  <2>4. ReadInv
    BY DEF Init, ReadInv, Range
  <2> QED
    BY <2>2, <2>3, <2>4 DEF ProgressInv
<1>2. ProgressInv /\ [Next]_vars => ProgressInv'
  <2> SUFFICES ASSUME ProgressInv, [Next]_vars PROVE ProgressInv'
    OBVIOUS
  <2>0. /\ mail \in MailStates /\ drafts \in Seq(Draft) /\ Len(drafts) <= Len(DraftIDs)
        /\ authorized \in Seq(Messages) /\ contents \in Seq(Messages)
        /\ Present \subseteq Known /\ Known \subseteq Messages
        /\ Present \subseteq Messages
        /\ \A p : View(p) \subseteq Present /\ View(p) \in SUBSET Messages
        /\ changes \in 0 .. MaxChanges /\ failures \in 0 .. MaxFailures
        /\ pc # "idle" => req \in Request
    BY PresentIsKnown, HandlerAssumption DEF ProgressInv, TypeOK, PhaseInv
  <2>0a. MaxChanges \in Nat /\ MaxFailures \in Nat
    BY HandlerAssumption
  <2>0b. drafts' = drafts => Known' = Known
    BY DEF Known, Drafted
  <2>1. CASE MailboxChanges
    <3>1. changes' \in 0 .. MaxChanges /\ mail' \in MailStates /\ drafts' = drafts
      BY <2>0, <2>0a, <2>1 DEF MailboxChanges, gmail
    <3>2. View(pol)' \in SUBSET Messages
      BY <2>0, <3>1, PresentStaysKnown
    <3>3. TypeOK'
      BY <2>1, <3>1, <3>2 DEF ProgressInv, TypeOK, MailboxChanges, gmail, handler
    <3>4. PhaseInv'
      BY <2>1 DEF ProgressInv, PhaseInv, MailboxChanges, gmail, handler
    <3>5. ReadInv'
      BY <2>0b, <2>1, <3>1 DEF ProgressInv, ReadInv, MailboxChanges, gmail, handler
    <3> QED
      BY <3>3, <3>4, <3>5 DEF ProgressInv
  <2>2. CASE PolicyFileChanges
    <3>1. changes' \in 0 .. MaxChanges /\ drafts' = drafts
      BY <2>0, <2>0a, <2>2 DEF PolicyFileChanges, gmail
    <3>2. TypeOK'
      BY <2>2, <3>1 DEF ProgressInv, TypeOK, PolicyFileChanges, gmail, handler
    <3>3. PhaseInv'
      BY <2>2 DEF ProgressInv, PhaseInv, PolicyFileChanges, gmail, handler
    <3>4. ReadInv'
      BY <2>0b, <2>2, <3>1 DEF ProgressInv, ReadInv, PolicyFileChanges, gmail, handler
    <3> QED
      BY <3>2, <3>3, <3>4 DEF ProgressInv
  <2>3. CASE Ask
    <3>1. TypeOK'
      BY <2>3 DEF ProgressInv, TypeOK, Ask, gmail
    <3>2. PhaseInv'
      BY <2>3 DEF ProgressInv, PhaseInv, Stages, Ask, gmail
    <3>3. ReadInv'
      BY <2>0b, <2>3 DEF ProgressInv, ReadInv, Ask, gmail
    <3> QED
      BY <3>1, <3>2, <3>3 DEF ProgressInv
  <2>4. CASE InvalidRequest
    <3>1. "invalid_params" \in Codes
      BY DEF Codes
    <3> QED
      BY <2>0, <2>4, <3>1, RefusalKeepsProgress DEF InvalidRequest
  <2>5. CASE LoadPolicy
    <3>1. TypeOK'
      BY <2>0, <2>5 DEF ProgressInv, TypeOK, LoadPolicy, gmail
    <3>2. PhaseInv'
      BY <2>5 DEF ProgressInv, PhaseInv, TypeOK, Stages, LoadPolicy, gmail
    <3>3. ReadInv'
      BY <2>0b, <2>5 DEF ProgressInv, ReadInv, LoadPolicy, gmail
    <3> QED
      BY <3>1, <3>2, <3>3 DEF ProgressInv
  <2>6. CASE OpenFails
    <3>1. "internal_error" \in Codes /\ failures' \in 0 .. MaxFailures
      BY <2>0, <2>0a, <2>6 DEF Codes, OpenFails
    <3> QED
      BY <2>6, <3>1, RefusalKeepsProgress DEF OpenFails
  <2>7. CASE ResolveVisibilityLabel
    <3>1. CASE pol.visibilityLabel \in mail.named
      <4>1. TypeOK'
        BY <2>7, <3>1 DEF ProgressInv, TypeOK, ResolveVisibilityLabel, gmail
      <4>2. PhaseInv'
        BY <2>7, <3>1 DEF ProgressInv, PhaseInv, Stages, ResolveVisibilityLabel, gmail
      <4>3. ReadInv'
        BY <2>0b, <2>7 DEF ProgressInv, ReadInv, ResolveVisibilityLabel, gmail
      <4> QED
        BY <4>1, <4>2, <4>3 DEF ProgressInv
    <3>2. CASE pol.visibilityLabel \notin mail.named
      <4>1. "internal_error" \in Codes
        BY DEF Codes
      <4> QED
        BY <2>0, <2>7, <3>2, <4>1, RefusalKeepsProgress DEF ResolveVisibilityLabel
    <3> QED
      BY <3>1, <3>2
  <2>8. CASE ListLabels
    <3>1. response' \in Response /\ pc' = "respond"
      <4>1. "ok" \in Codes /\ <<>> \in Seq(Messages)
        BY DEF Codes
      <4> QED
        BY <2>8, <4>1, AnsweredIsTyped DEF ListLabels, RespondWith
    <3>2. TypeOK'
      BY <2>8, <3>1 DEF ProgressInv, TypeOK, ListLabels, gmail
    <3>3. PhaseInv'
      BY <2>8, <3>1 DEF ProgressInv, PhaseInv, Stages, ListLabels, gmail
    <3>4. ReadInv'
      BY <2>0b, <2>8 DEF ProgressInv, ReadInv, ListLabels, gmail
    <3> QED
      BY <3>2, <3>3, <3>4 DEF ProgressInv
  <2>9. CASE Start
    <3>1. CASE RecipientsRefused(req)
      <4>1. "invalid_params" \in Codes
        BY DEF Codes
      <4> QED
        BY <2>0, <2>9, <3>1, <4>1, RefusalKeepsProgress DEF Start
    <3>2. CASE ~RecipientsRefused(req)
      <4>1. TypeOK'
        BY <2>9, <3>2 DEF ProgressInv, TypeOK, Start, gmail
      <4>2. req.method # "list_labels"
        BY <2>9 DEF ProgressInv, PhaseInv, Start
      <4>3. PhaseInv'
        BY <2>9, <3>2, <4>2
           DEF ProgressInv, PhaseInv, Stages, Start, gmail, RecipientsRefused, HasTarget, IsReply
      <4>4. ReadInv'
        BY <2>0b, <2>9 DEF ProgressInv, ReadInv, Start, gmail
      <4> QED
        BY <4>1, <4>3, <4>4 DEF ProgressInv
    <3> QED
      BY <3>1, <3>2
  <2>10. CASE ReadTarget
    <3> DEFINE visible == VisibleThreadMessages(pol, Target(req))
               anchor  == NewestMessage(visible, Date)
               derived == DraftReplyRecipients(HeadersOf(anchor), req.replyAll)
    <3>1. visible \in Seq(Messages) /\ Range(visible) \subseteq Known
      <4>1. pc # "idle" /\ req \in Request
        BY <2>0, <2>10 DEF ReadTarget
      <4>2. visible = Shown(req, View(pol))
        BY <2>0, <4>1, VisibleIsShown
      <4> HIDE DEF visible
      <4> QED
        BY <2>0, <4>1, <4>2, ShownIsShown
    <3>2. visible # <<>> => anchor \in Range(visible)
      <4> HIDE DEF visible
      <4> QED
        BY <3>1, HandlerAssumption, NewestIsNewest
    <3>3. /\ pc = "target" /\ drafts' = drafts /\ mail' = mail /\ Known' = Known
          /\ UNCHANGED <<policyFile, req, pol, contents, views, changes, failures>>
          /\ IF visible = <<>> THEN Refuse("policy_denied") /\ UNCHANGED authorized
             ELSE IF req.method = "get_thread" /\ ~req.bodies
             THEN RespondWith(Answered("ok", visible)) /\ authorized' = visible
             ELSE IF req.method # "create_draft"
             THEN authorized' = visible /\ pc' = "full" /\ UNCHANGED response
             ELSE IF Derives(req) /\ derived.to \o derived.cc = <<>>
             THEN Refuse("invalid_params") /\ UNCHANGED authorized
             ELSE authorized' = <<anchor>> /\ pc' = "draft" /\ UNCHANGED response
      BY <2>0b, <2>10 DEF ReadTarget, gmail
    <3> HIDE DEF visible, anchor, derived
    <3>4. CASE \/ visible = <<>>
               \/ /\ ~(req.method = "get_thread" /\ ~req.bodies) /\ req.method = "create_draft"
                  /\ Derives(req) /\ derived.to \o derived.cc = <<>>
      <4>1. {"policy_denied", "invalid_params"} \subseteq Codes
        BY DEF Codes
      <4>2. \E code \in Codes : Refuse(code)
        BY <3>3, <3>4, <4>1
      <4>3. UNCHANGED authorized
        BY <3>3, <3>4
      <4> QED
        BY <2>0, <3>3, <4>2, <4>3, RefusalKeepsProgress DEF gmail
    <3>5. CASE visible # <<>> /\ req.method = "get_thread" /\ ~req.bodies
      <4>1. authorized' = visible /\ response' \in Response /\ pc' = "respond"
        <5>1. "ok" \in Codes
          BY DEF Codes
        <5> QED
          BY <3>1, <3>3, <3>5, <5>1, AnsweredIsTyped DEF RespondWith
      <4>2. TypeOK'
        BY <3>1, <3>3, <4>1 DEF ProgressInv, TypeOK
      <4>3. PhaseInv'
        BY <3>3, <4>1 DEF ProgressInv, PhaseInv, Stages
      <4>4. ReadInv'
        BY <3>1, <3>3, <4>1 DEF ProgressInv, ReadInv, PhaseInv
      <4> QED
        BY <4>2, <4>3, <4>4 DEF ProgressInv
    <3>6. CASE /\ visible # <<>> /\ ~(req.method = "get_thread" /\ ~req.bodies)
               /\ req.method # "create_draft"
      <4>1. authorized' = visible /\ response' = response /\ pc' = "full"
        BY <3>3, <3>6
      <4>2. TypeOK'
        BY <3>1, <3>3, <4>1 DEF ProgressInv, TypeOK
      <4>3. req.method \in Reads
        BY <2>0, <3>3, <3>6 DEF ProgressInv, PhaseInv, HasTarget, Request, Methods, Reads
      <4>4. PhaseInv'
        BY <3>3, <3>6, <4>1, <4>3 DEF ProgressInv, PhaseInv, Stages
      <4>5. ReadInv'
        BY <3>1, <3>3, <4>1 DEF ProgressInv, ReadInv, PhaseInv
      <4> QED
        BY <4>2, <4>4, <4>5 DEF ProgressInv
    <3>7. CASE /\ visible # <<>> /\ req.method = "create_draft"
               /\ ~(Derives(req) /\ derived.to \o derived.cc = <<>>)
      <4>1. authorized' = <<anchor>> /\ response' = response /\ pc' = "draft"
        BY <3>3, <3>7
      <4>2. anchor \in Messages /\ anchor \in Known
        BY <3>1, <3>2, <3>7, <2>0
      <4>3. TypeOK'
        BY <3>3, <4>1, <4>2 DEF ProgressInv, TypeOK
      <4>4. WellFormed(Recipients(req))
        BY <3>3, <3>7 DEF ProgressInv, PhaseInv
      <4>5. PhaseInv'
        BY <3>3, <3>7, <4>1, <4>4 DEF ProgressInv, PhaseInv, Stages
      <4>6. ReadInv'
        <5>1. Range(<<anchor>>) = {anchor}
          BY DEF Range
        <5> QED
          BY <3>3, <4>1, <4>2, <5>1 DEF ProgressInv, ReadInv, PhaseInv
      <4> QED
        BY <4>3, <4>5, <4>6 DEF ProgressInv
    <3> QED
      BY <3>4, <3>5, <3>6, <3>7
  <2>11. CASE ReadFull
    <3>1. Len(contents) \in Nat /\ Len(authorized) \in Nat /\ pc = "full"
          /\ Len(contents) < Len(authorized)
      BY <2>0, <2>11 DEF ReadFull, FullDue
    <3>2. Due = authorized[Len(contents) + 1] /\ Due \in Messages
      BY <2>0, <3>1 DEF Due
    <3>3. /\ contents' = Append(contents, Due) /\ contents' \in Seq(Messages)
          /\ Len(contents') = Len(contents) + 1 /\ contents'[Len(contents) + 1] = Due
          /\ \A i \in 1 .. Len(contents) : contents'[i] = contents[i]
      BY <2>0, <2>11, <3>1, <3>2 DEF ReadFull
    <3>4. TypeOK'
      BY <2>11, <3>3 DEF ProgressInv, TypeOK, ReadFull, gmail
    <3>5. PhaseInv'
      BY <2>11, <3>1 DEF ProgressInv, PhaseInv, ReadFull, gmail
    <3>6. ReadInv'
      <4>1. \A i \in 1 .. Len(contents') : contents'[i] = authorized[i]
        BY <3>1, <3>2, <3>3 DEF ProgressInv, ReadInv
      <4> QED
        BY <2>0b, <2>11, <3>1, <3>3, <4>1 DEF ProgressInv, ReadInv, ReadFull, gmail
    <3> QED
      BY <3>4, <3>5, <3>6 DEF ProgressInv
  <2>12. CASE EndFull
    <3>1. /\ pc = "full" /\ drafts' = drafts /\ mail' = mail /\ Known' = Known
          /\ UNCHANGED <<policyFile, req, pol, authorized, contents, views, changes, failures>>
      BY <2>0b, <2>12 DEF EndFull, gmail
    <3>2. \/ \E code \in Codes : Refuse(code)
          \/ response' \in Response /\ pc' = "respond"
          \/ response' = response /\ pc' = "data" /\ req.method = "get_attachment"
      <4>1. {"ok", "not_found", "too_large"} \subseteq Codes
        BY DEF Codes
      <4>2. CASE req.method # "get_attachment"
        <5>1. /\ Detailed(contents) \in Response /\ Answered("ok", contents) \in Response
          BY <2>0, <4>1, DetailedIsTyped, AnsweredIsTyped
        <5> QED
          BY <2>12, <4>2, <5>1 DEF EndFull, RespondWith
      <4>3. CASE req.method = "get_attachment"
        <5> DEFINE there == AttachmentsOf(contents[1])
        <5>1. \/ Refuse("not_found") \/ Refuse("too_large")
              \/ AnswerAttachment(there[req.attachment])
              \/ response' = response /\ pc' = "data"
          BY <2>12, <4>3 DEF EndFull
        <5>2. AnswerAttachment(there[req.attachment]) =>
                 RespondWith(Answered("ok", authorized)) \/ Refuse("too_large")
          BY DEF AnswerAttachment
        <5>3. RespondWith(Answered("ok", authorized)) => response' \in Response /\ pc' = "respond"
          BY <2>0, <4>1, AnsweredIsTyped DEF RespondWith
        <5> QED
          BY <4>1, <4>3, <5>1, <5>2, <5>3
      <4> QED
        BY <4>2, <4>3
    <3>3. CASE \E code \in Codes : Refuse(code)
      BY <2>0, <3>1, <3>3, RefusalKeepsProgress DEF gmail
    <3>4. CASE response' \in Response /\ pc' = "respond"
      <4>1. TypeOK'
        BY <3>1, <3>4 DEF ProgressInv, TypeOK
      <4>2. PhaseInv'
        BY <3>1, <3>4 DEF ProgressInv, PhaseInv, Stages
      <4>3. ReadInv'
        BY <3>1 DEF ProgressInv, ReadInv
      <4> QED
        BY <4>1, <4>2, <4>3 DEF ProgressInv
    <3>5. CASE response' = response /\ pc' = "data" /\ req.method = "get_attachment"
      <4>1. TypeOK'
        BY <3>1, <3>5 DEF ProgressInv, TypeOK
      <4>2. PhaseInv'
        BY <3>1, <3>5 DEF ProgressInv, PhaseInv, Stages
      <4>3. ReadInv'
        BY <3>1 DEF ProgressInv, ReadInv
      <4> QED
        BY <4>1, <4>2, <4>3 DEF ProgressInv
    <3> QED
      BY <3>2, <3>3, <3>4, <3>5
  <2>13. CASE ReadAttachment
    <3>1. /\ pc = "data" /\ drafts' = drafts /\ mail' = mail /\ Known' = Known
          /\ UNCHANGED <<policyFile, req, pol, authorized, contents, views, changes, failures>>
      BY <2>0b, <2>13 DEF ReadAttachment, gmail
    <3>2. {"ok", "gmail_api_error", "too_large"} \subseteq Codes
      BY DEF Codes
    <3>3. \/ Refuse("gmail_api_error") \/ Refuse("too_large")
          \/ RespondWith(Answered("ok", authorized))
      BY <2>13 DEF ReadAttachment, AnswerAttachment
    <3>4. CASE \E code \in Codes : Refuse(code)
      BY <2>0, <3>1, <3>4, RefusalKeepsProgress DEF gmail
    <3>5. CASE RespondWith(Answered("ok", authorized))
      <4>1. response' \in Response /\ pc' = "respond"
        BY <2>0, <3>2, <3>5, AnsweredIsTyped DEF RespondWith
      <4>2. TypeOK'
        BY <3>1, <4>1 DEF ProgressInv, TypeOK
      <4>3. PhaseInv'
        BY <3>1, <4>1 DEF ProgressInv, PhaseInv, Stages
      <4>4. ReadInv'
        BY <3>1 DEF ProgressInv, ReadInv
      <4> QED
        BY <4>2, <4>3, <4>4 DEF ProgressInv
    <3> QED
      BY <3>2, <3>3, <3>4, <3>5
  <2>14. ASSUME DraftDue, NewDraft(DraftFor(req)),
                response' \in Response, pc' = "respond",
                UNCHANGED <<mail, policyFile, req, pol, authorized, contents, changes>>,
                failures' \in 0 .. MaxFailures, views' = views \cup {View(pol)'}
         PROVE  ProgressInv'
    <3>1. /\ pc = "draft" /\ Buildable(DraftFor(req)) /\ req \in Requests
          /\ WellFormed(Recipients(req)) /\ Len(drafts) < Len(DraftIDs)
          /\ IsReply(req) => authorized # <<>>
      BY <2>14 DEF DraftDue, ProgressInv, PhaseInv, Stages
    <3>2. DraftFor(req) \in Draft
      BY <2>0, <3>1, DraftIsMade DEF ProgressInv, ReadInv
    <3>3. /\ drafts' = Append(drafts, DraftFor(req)) /\ drafts' \in Seq(Draft)
          /\ Len(drafts') <= Len(DraftIDs)
      BY <2>0, <2>14, <3>1, <3>2, Identifiers DEF NewDraft
    <3>4. View(pol)' \in SUBSET Messages
      BY <2>0, <2>14, <3>3, PresentStaysKnown
    <3>5. Known \subseteq Known'
      BY <2>0, <3>3, NothingIsForgotten
    <3>6. TypeOK'
      BY <2>14, <3>3, <3>4 DEF ProgressInv, TypeOK
    <3>7. PhaseInv'
      BY <2>14, <3>1 DEF ProgressInv, PhaseInv, Stages
    <3>8. ReadInv'
      BY <2>14, <3>5 DEF ProgressInv, ReadInv
    <3> QED
      BY <3>6, <3>7, <3>8 DEF ProgressInv
  <2>15. CASE CreateDraft
    <3>1. response' \in Response /\ pc' = "respond"
      <4>1. "ok" \in Codes
        BY DEF Codes
      <4> QED
        BY <2>0, <2>15, <4>1, AnsweredIsTyped DEF CreateDraft, RespondWith
    <3> QED
      BY <2>0, <2>14, <2>15, <3>1 DEF CreateDraft
  <2>16. CASE CannotBuild
    <3>1. "gmail_api_error" \in Codes
      BY DEF Codes
    <3> QED
      BY <2>0, <2>16, <3>1, RefusalKeepsProgress DEF CannotBuild
  <2>17. CASE NotFound
    <3>1. "not_found" \in Codes /\ pc # "idle"
      BY <2>17 DEF Codes, NotFound, FullDue, DraftDue
    <3> QED
      BY <2>0, <2>17, <3>1, RefusalKeepsProgress DEF NotFound
  <2>18. CASE GmailFails
    <3>1. /\ failures' \in 0 .. MaxFailures /\ pc # "idle"
          /\ \E code \in Codes : Refuse(code)
      <4>1. {"rate_limited", "gmail_api_error"} \subseteq Codes
        BY DEF Codes
      <4>2. failures' \in 0 .. MaxFailures
        BY <2>0, <2>0a, <2>18 DEF GmailFails
      <4>3. pc # "idle"
        BY <2>18 DEF GmailFails, CallDue, FullDue, DraftDue
      <4> QED
        BY <2>18, <4>1, <4>2, <4>3 DEF GmailFails
    <3>2. CASE drafts' = drafts
      BY <2>18, <3>1, <3>2, RefusalKeepsProgress DEF GmailFails, gmail
    <3>3. CASE drafts' # drafts
      <4>1. DraftDue /\ NewDraft(DraftFor(req)) /\ views' = views \cup {View(pol)'}
        BY <2>18, <3>3 DEF GmailFails
      <4>2. response' \in Response /\ pc' = "respond"
        BY <3>1, AnsweredIsTyped, EmptySeq DEF Refuse, RespondWith
      <4> QED
        BY <2>14, <2>18, <3>1, <4>1, <4>2 DEF GmailFails
    <3> QED
      BY <3>2, <3>3
  <2>19. CASE Answer
    <3>1. TypeOK'
      BY <2>19 DEF ProgressInv, TypeOK, Answer, gmail
    <3>2. PhaseInv'
      BY <2>19 DEF ProgressInv, PhaseInv, Stages, Answer, gmail
    <3>3. ReadInv'
      BY <2>0b, <2>19 DEF ProgressInv, ReadInv, Answer, gmail, Range
    <3> QED
      BY <3>1, <3>2, <3>3 DEF ProgressInv
  <2>20. CASE UNCHANGED vars
    <3>1. TypeOK'
      BY <2>20 DEF ProgressInv, TypeOK, vars, gmail, handler
    <3>2. PhaseInv'
      BY <2>20 DEF ProgressInv, PhaseInv, vars, gmail, handler
    <3>3. ReadInv'
      BY <2>0b, <2>20 DEF ProgressInv, ReadInv, vars, gmail, handler
    <3> QED
      BY <3>1, <3>2, <3>3 DEF ProgressInv
  <2> QED
    BY <2>1, <2>2, <2>3, <2>4, <2>5, <2>6, <2>7, <2>8, <2>9, <2>10, <2>11, <2>12,
       <2>13, <2>15, <2>16, <2>17, <2>18, <2>19, <2>20 DEF Next
<1> QED
  BY <1>1, <1>2, PTL DEF Spec

(***************************************************************************)
(* One view.                                                               *)
(***************************************************************************)
\* What AnswersAreOneView asks of an answer.
Justified(answer) ==
    HasTarget(req) =>
        /\ answer.code = "ok" => \E view \in views : AtOnce(req, view, answer.messages)
        /\ answer.code = "policy_denied" => \E view \in views : Shown(req, view) = <<>>

\* No step takes a draft away.
LEMMA DraftsGrow ==
    ASSUME [Next]_vars
    PROVE  drafts' = drafts \/ \E d : drafts' = Append(drafts, d)
<1>1. CASE MailboxChanges BY <1>1 DEF MailboxChanges
<1>2. CASE PolicyFileChanges BY <1>2 DEF PolicyFileChanges, gmail
<1>3. CASE Ask BY <1>3 DEF Ask, gmail
<1>4. CASE InvalidRequest BY <1>4 DEF InvalidRequest, gmail
<1>5. CASE LoadPolicy BY <1>5 DEF LoadPolicy, gmail
<1>6. CASE OpenFails BY <1>6 DEF OpenFails, gmail
<1>7. CASE ResolveVisibilityLabel BY <1>7 DEF ResolveVisibilityLabel, gmail
<1>8. CASE ListLabels BY <1>8 DEF ListLabels, gmail
<1>9. CASE Start BY <1>9 DEF Start, gmail
<1>10. CASE ReadTarget BY <1>10 DEF ReadTarget, gmail
<1>11. CASE ReadFull BY <1>11 DEF ReadFull, gmail
<1>12. CASE EndFull BY <1>12 DEF EndFull, gmail
<1>13. CASE ReadAttachment BY <1>13 DEF ReadAttachment, gmail
<1>14. CASE CreateDraft BY <1>14 DEF CreateDraft, NewDraft
<1>15. CASE CannotBuild BY <1>15 DEF CannotBuild, gmail
<1>16. CASE NotFound BY <1>16 DEF NotFound, gmail
<1>17. CASE GmailFails BY <1>17 DEF GmailFails, NewDraft
<1>18. CASE Answer BY <1>18 DEF Answer, gmail
<1>19. CASE UNCHANGED vars BY <1>19 DEF vars, gmail
<1> QED
  BY <1>1, <1>2, <1>3, <1>4, <1>5, <1>6, <1>7, <1>8, <1>9, <1>10, <1>11, <1>12,
     <1>13, <1>14, <1>15, <1>16, <1>17, <1>18, <1>19 DEF Next

\* Views are only added while a request goes on, so that what was decided by one
\* of them stays decided, and an answer that is justified is one view.
LEMMA ViewsAreKept ==
    ASSUME ProgressInv, ProgressInv', ViewsInv, [Next]_vars,
           UNCHANGED <<pol, req, authorized>>,
           views \subseteq views', views' \subseteq views \cup {View(pol)'},
           pol' # None => View(pol)' \in views',
           response' # None => Justified(response')
    PROVE  ViewsInv'
<1>1. /\ Known \subseteq Known'
      /\ \A r, view : view \subseteq Known => Shown(r, view)' = Shown(r, view)
      /\ \A r, view, messages :
            view \subseteq Known => AtOnce(r, view, messages)' = AtOnce(r, view, messages)
  BY DraftsGrow, NothingIsForgotten DEF ProgressInv, TypeOK
<1>2. View(pol)' \subseteq Known'
  BY PresentStaysKnown DEF ProgressInv, TypeOK
<1>3. \A view \in views : view \subseteq Known
  BY DEF ViewsInv
<1>4. \A view \in views' : view \subseteq Known'
  BY <1>1, <1>2, <1>3
<1>5. (authorized # <<>> => HasTarget(req) /\ \E view \in views : AtOnce(req, view, authorized))'
  <2> SUFFICES ASSUME authorized # <<>>
               PROVE  HasTarget(req) /\ \E view \in views' : AtOnce(req, view, authorized)'
    OBVIOUS
  <2>1. HasTarget(req) /\ \E view \in views : AtOnce(req, view, authorized)
    BY DEF ViewsInv
  <2>2. PICK view \in views : AtOnce(req, view, authorized)
    BY <2>1
  <2>3. AtOnce(req, view, authorized)' /\ view \in views'
    BY <1>1, <1>3, <2>2
  <2> QED
    BY <2>1, <2>3
<1>6. AnswersAreOneView'
  <2> SUFFICES ASSUME response' # None, HasTarget(req)
               PROVE  /\ response'.code = "ok" =>
                            \E view \in views' : AtOnce(req, view, response.messages)'
                      /\ response'.code = "policy_denied" =>
                            \E view \in views' : Shown(req, view)' = <<>>
    BY DEF AnswersAreOneView
  <2>1. /\ response'.code = "ok" => \E view \in views : AtOnce(req, view, response'.messages)
        /\ response'.code = "policy_denied" => \E view \in views : Shown(req, view) = <<>>
    BY DEF Justified
  <2>2. ASSUME response'.code = "ok"
        PROVE  \E view \in views' : AtOnce(req, view, response.messages)'
    <3>1. PICK view \in views : AtOnce(req, view, response'.messages)
      BY <2>1, <2>2
    <3>2. AtOnce(req, view, response.messages)' /\ view \in views'
      BY <1>1, <1>3, <3>1
    <3> QED
      BY <3>2
  <2>3. ASSUME response'.code = "policy_denied"
        PROVE  \E view \in views' : Shown(req, view)' = <<>>
    <3>1. PICK view \in views : Shown(req, view) = <<>>
      BY <2>1, <2>3
    <3>2. Shown(req, view)' = <<>> /\ view \in views'
      BY <1>1, <1>3, <3>1
    <3> QED
      BY <3>2
  <2> QED
    BY <2>2, <2>3
<1> QED
  BY <1>4, <1>5, <1>6 DEF ViewsInv

\* A policy shows the same of a mailbox that stands still.
LEMMA SameView ==
    ASSUME mail' = mail, drafts' = drafts, pol' = pol
    PROVE  View(pol)' = View(pol)
BY DEF View, Present, Drafted, LabelsOf

\* A step that looks at the mailbox, at most, and does not change what was found
\* visible.
LEMMA LookingKeepsViews ==
    ASSUME ProgressInv, ProgressInv', ViewsInv, [Next]_vars,
           UNCHANGED <<mail, drafts, pol, req, authorized, views>>,
           response' # None => Justified(response')
    PROVE  ViewsInv'
<1>1. pol' # None => View(pol)' \in views'
  BY SameView DEF ViewsInv
<1> QED
  BY <1>1, ViewsAreKept

\* A refusal for another reason than the policy.
LEMMA RefusalKeepsViews ==
    ASSUME ProgressInv, ProgressInv', ViewsInv, [Next]_vars,
           UNCHANGED <<mail, drafts, pol, req, authorized, views>>,
           NEW code \in Codes \ {"ok", "policy_denied"}, Refuse(code)
    PROVE  ViewsInv'
<1>1. response'.code = code
  BY AnsweredIsTyped, EmptySeq DEF Refuse, RespondWith
<1> QED
  BY <1>1, LookingKeepsViews DEF Justified

\* What is visible of a target is what the policy's view of the mailbox shows, and
\* the view is one of the request's.
LEMMA VisibleIsAView ==
    ASSUME ProgressInv, ViewsInv, pc = "target"
    PROVE  /\ VisibleThreadMessages(pol, Target(req)) = Shown(req, View(pol))
           /\ View(pol) \in views /\ View(pol) \in SUBSET Messages
           /\ Shown(req, View(pol)) \in Seq(Messages)
           /\ req \in Request
<1>1. req \in Request /\ pol \in Policy /\ pol # None
  BY HandlerAssumption DEF ProgressInv, PhaseInv, Stages
<1>2. Present \subseteq Messages /\ View(pol) \in SUBSET Messages
  BY PresentIsKnown DEF ProgressInv, TypeOK
<1>3. View(pol) \in views
  BY <1>1 DEF ViewsInv
<1> QED
  BY <1>1, <1>2, <1>3, VisibleIsShown, ShownIsShown

\* Every step of a request decides by one of its views, and keeps to it.
LEMMA ViewsStep ==
    ASSUME ProgressInv, ProgressInv', ViewsInv, [Next]_vars
    PROVE  ViewsInv'
<1>0. response # None => Justified(response)
  BY DEF ViewsInv, AnswersAreOneView, Justified
<1>1. CASE MailboxChanges
  <2>1. pol' # None => View(pol)' \in views'
    BY <1>1 DEF MailboxChanges, handler
  <2>2. views \subseteq views' /\ views' \subseteq views \cup {View(pol)'}
    BY <1>1 DEF MailboxChanges
  <2>3. UNCHANGED <<pol, req, authorized, response>>
    BY <1>1 DEF MailboxChanges, handler
  <2> QED
    BY <1>0, <2>1, <2>2, <2>3, ViewsAreKept
<1>2. CASE PolicyFileChanges
  <2>1. UNCHANGED <<mail, drafts, pol, req, authorized, views, response>>
    BY <1>2 DEF PolicyFileChanges, handler, gmail
  <2> QED
    BY <1>0, <2>1, LookingKeepsViews
<1>3. CASE Ask
  <2>1. /\ authorized = <<>> /\ authorized' = <<>> /\ response' = None
        /\ UNCHANGED <<mail, drafts, pol, views>>
    BY <1>3 DEF Ask, gmail, ProgressInv, PhaseInv
  <2>2. View(pol)' = View(pol) /\ Known' = Known
    BY <2>1, SameView DEF Known, Drafted
  <2> QED
    BY <2>1, <2>2 DEF ViewsInv, AnswersAreOneView
<1>4. CASE InvalidRequest
  <2>1. "invalid_params" \in Codes \ {"ok", "policy_denied"}
    BY DEF Codes
  <2> QED
    BY <1>4, <2>1, RefusalKeepsViews DEF InvalidRequest, gmail
<1>5. CASE LoadPolicy
  <2>1. /\ authorized' = <<>> /\ response' = None /\ views' = {View(policyFile)}
        /\ pol' = policyFile /\ UNCHANGED <<mail, drafts>>
    BY <1>5 DEF LoadPolicy, gmail, ProgressInv, PhaseInv
  <2>2. View(pol)' = View(policyFile)
    BY <2>1 DEF View, Present, Drafted, LabelsOf
  <2>3. View(pol)' \subseteq Known'
    BY PresentStaysKnown DEF ProgressInv, TypeOK
  <2>4. \A view \in views' : view \subseteq Known'
    BY <2>1, <2>2, <2>3
  <2> QED
    BY <2>1, <2>2, <2>4 DEF ViewsInv, AnswersAreOneView
<1>6. CASE OpenFails
  <2>1. "internal_error" \in Codes \ {"ok", "policy_denied"}
    BY DEF Codes
  <2> QED
    BY <1>6, <2>1, RefusalKeepsViews DEF OpenFails, gmail
<1>7. CASE ResolveVisibilityLabel
  <2>1. "internal_error" \in Codes \ {"ok", "policy_denied"}
    BY DEF Codes
  <2>2. UNCHANGED <<mail, drafts, pol, req, authorized, views>>
    BY <1>7 DEF ResolveVisibilityLabel, gmail
  <2>3. response' = response \/ Refuse("internal_error")
    BY <1>7 DEF ResolveVisibilityLabel
  <2> QED
    BY <1>0, <2>1, <2>2, <2>3, LookingKeepsViews, RefusalKeepsViews
<1>8. CASE ListLabels
  <2>1. UNCHANGED <<mail, drafts, pol, req, authorized, views>>
    BY <1>8 DEF ListLabels, gmail
  <2>2. ~HasTarget(req)
    BY <1>8 DEF ListLabels, ProgressInv, PhaseInv, HasTarget
  <2> QED
    BY <2>1, <2>2, LookingKeepsViews DEF Justified
<1>9. CASE Start
  <2>1. "invalid_params" \in Codes \ {"ok", "policy_denied"}
    BY DEF Codes
  <2>2. UNCHANGED <<mail, drafts, pol, req, authorized, views>>
    BY <1>9 DEF Start, gmail
  <2>3. response' = response \/ Refuse("invalid_params")
    BY <1>9 DEF Start
  <2> QED
    BY <1>0, <2>1, <2>2, <2>3, LookingKeepsViews, RefusalKeepsViews
<1>10. CASE ReadTarget
  <2> DEFINE visible == VisibleThreadMessages(pol, Target(req))
             anchor  == NewestMessage(visible, Date)
             derived == DraftReplyRecipients(HeadersOf(anchor), req.replyAll)
  <2>1. /\ pc = "target"
        /\ UNCHANGED <<mail, drafts, req, pol, views>>
        /\ IF visible = <<>> THEN Refuse("policy_denied") /\ UNCHANGED authorized
           ELSE IF req.method = "get_thread" /\ ~req.bodies
           THEN RespondWith(Answered("ok", visible)) /\ authorized' = visible
           ELSE IF req.method # "create_draft"
           THEN authorized' = visible /\ pc' = "full" /\ UNCHANGED response
           ELSE IF Derives(req) /\ derived.to \o derived.cc = <<>>
           THEN Refuse("invalid_params") /\ UNCHANGED authorized
           ELSE authorized' = <<anchor>> /\ pc' = "draft" /\ UNCHANGED response
    BY <1>10 DEF ReadTarget, gmail
  <2>2. /\ visible = Shown(req, View(pol)) /\ View(pol) \in views
        /\ View(pol) \in SUBSET Messages /\ visible \in Seq(Messages)
    BY <2>1, VisibleIsAView
  <2>3. visible # <<>> => /\ anchor \in Range(visible)
                          /\ \A n \in Range(visible) : Date[n] <= Date[anchor]
    <3> HIDE DEF visible
    <3> QED
      BY <2>2, HandlerAssumption, NewestIsNewest
  <2>4. HasTarget(req) /\ response = None /\ authorized = <<>>
    BY <2>1 DEF ProgressInv, PhaseInv
  <2>5. /\ View(pol)' = View(pol) /\ Known' = Known
        /\ \A r, view : view \subseteq Known => Shown(r, view)' = Shown(r, view)
        /\ \A r, view, messages :
              view \subseteq Known => AtOnce(r, view, messages)' = AtOnce(r, view, messages)
    BY <2>1, SameView, NothingIsForgotten DEF ProgressInv, TypeOK, Known, Drafted
  <2>6. \A view \in views : view \subseteq Known
    BY DEF ViewsInv
  <2> HIDE DEF visible, anchor, derived
  <2>7. CASE visible = <<>>
    <3>1. response'.code = "policy_denied" /\ authorized' = authorized
      <4>1. "policy_denied" \in Codes
        BY DEF Codes
      <4>2. Refuse("policy_denied") /\ authorized' = authorized
        BY <2>1, <2>7
      <4>3. response' = Answered("policy_denied", <<>>)
        BY <4>2 DEF Refuse, RespondWith
      <4>4. Answered("policy_denied", <<>>).code = "policy_denied"
        BY DEF Answered
      <4> QED
        BY <4>2, <4>3, <4>4
    <3>2. Justified(response')
      BY <2>2, <2>7, <3>1 DEF Justified
    <3> QED
      BY <2>1, <3>1, <3>2, LookingKeepsViews
  <2>8. CASE Refuse("invalid_params") /\ UNCHANGED authorized
    <3>1. "invalid_params" \in Codes \ {"ok", "policy_denied"}
      BY DEF Codes
    <3> QED
      BY <2>1, <2>8, <3>1, RefusalKeepsViews
  <2>9. ASSUME AtOnce(req, View(pol), authorized'), authorized' # <<>>,
               \/ response' = response
               \/ response'.code = "ok" /\ response'.messages = authorized'
        PROVE  ViewsInv'
    <3>1. AtOnce(req, View(pol), authorized)'
      <4>1. View(pol) \subseteq Known
        BY <2>2, <2>6
      <4>2. AtOnce(req', View(pol), authorized')
        BY <2>1, <2>9
      <4>3. (AtOnce(req, View(pol), authorized))' <=> AtOnce(req', View(pol), authorized')
        BY <2>1, <2>5, <4>1
      <4> QED
        BY <4>2, <4>3
    <3>2. HasTarget(req') /\ \E view \in views' : AtOnce(req, view, authorized)'
      BY <2>1, <2>2, <2>4, <2>5, <3>1
    <3>3. pol' # None => View(pol)' \in views'
      BY <2>1, <2>2, <2>5
    <3>4. \A view \in views' : view \subseteq Known'
      BY <2>1, <2>5, <2>6
    <3>5. AnswersAreOneView'
      <4>1. CASE response' = response
        BY <2>4, <4>1 DEF AnswersAreOneView
      <4>2. CASE response'.code = "ok" /\ response'.messages = authorized'
        <5>1. AtOnce(req, View(pol), response.messages)'
          BY <3>1, <4>2
        <5> QED
          BY <2>1, <2>2, <2>5, <4>2, <5>1 DEF AnswersAreOneView
      <4> QED
        BY <2>9, <4>1, <4>2
    <3> QED
      BY <3>2, <3>3, <3>4, <3>5 DEF ViewsInv
  <2>10. CASE visible # <<>> /\ req.method # "create_draft"
    <3>1. authorized' = visible /\ AtOnce(req, View(pol), visible)
      BY <2>1, <2>2, <2>10 DEF AtOnce
    <3>2. \/ response' = response
          \/ response'.code = "ok" /\ response'.messages = authorized'
      <4>1. response' = response \/ response' = Answered("ok", visible)
        BY <2>1, <2>10 DEF RespondWith
      <4>2. "ok" \in Codes
        BY DEF Codes
      <4> QED
        BY <2>2, <3>1, <4>1, <4>2, AnsweredIsTyped
    <3> QED
      BY <2>9, <2>10, <3>1, <3>2
  <2>11. CASE /\ visible # <<>> /\ req.method = "create_draft"
              /\ ~(Refuse("invalid_params") /\ UNCHANGED authorized)
    <3>1. authorized' = <<anchor>> /\ response' = response
      BY <2>1, <2>11
    <3>2. AtOnce(req, View(pol), <<anchor>>)
      BY <2>2, <2>3, <2>11 DEF AtOnce
    <3> QED
      BY <2>9, <3>1, <3>2
  <2> QED
    BY <2>7, <2>8, <2>10, <2>11
<1>11. CASE ReadFull
  <2>1. UNCHANGED <<mail, drafts, pol, req, authorized, views, response>>
    BY <1>11 DEF ReadFull, gmail
  <2> QED
    BY <1>0, <2>1, LookingKeepsViews
<1>12. ASSUME UNCHANGED <<mail, drafts, pol, req, authorized, views>>, authorized # <<>>,
              response'.code = "ok", response'.messages = authorized
       PROVE  ViewsInv'
  <2>1. Justified(response')
    BY <1>12 DEF ViewsInv, Justified
  <2> QED
    BY <1>12, <2>1, LookingKeepsViews
<1>13. "ok" \in Codes /\ {"not_found", "too_large", "gmail_api_error"} \subseteq Codes \ {"ok", "policy_denied"}
  BY DEF Codes
<1>14. CASE EndFull
  <2>1. /\ UNCHANGED <<mail, drafts, pol, req, authorized, views>>
        /\ authorized \in Seq(Messages) /\ contents \in Seq(Messages)
        /\ authorized # <<>> /\ ~(Len(contents) < Len(authorized))
    BY <1>14 DEF EndFull, FullDue, gmail, ProgressInv, PhaseInv, TypeOK
  <2>2. contents = authorized
    <3>1. Len(contents) = Len(authorized)
      BY <2>1 DEF ProgressInv, ReadInv
    <3> QED
      BY <2>1, <3>1, SeqEqual DEF ProgressInv, ReadInv
  <2>3. CASE req.method # "get_attachment"
    <3>1. response' = Detailed(contents) \/ response' = Answered("ok", contents)
      BY <1>14, <2>3 DEF EndFull, RespondWith
    <3>2. response'.code = "ok" /\ response'.messages = authorized
      BY <1>13, <2>1, <2>2, <3>1, AnsweredIsTyped, DetailedIsTyped
    <3> QED
      BY <1>12, <2>1, <3>2
  <2>4. CASE req.method = "get_attachment"
    <3> DEFINE there == AttachmentsOf(contents[1])
    <3>1. \/ Refuse("not_found") \/ Refuse("too_large")
          \/ AnswerAttachment(there[req.attachment])
          \/ response' = response
      BY <1>14, <2>4 DEF EndFull
    <3>2. AnswerAttachment(there[req.attachment]) =>
             response' = Answered("ok", authorized) \/ Refuse("too_large")
      BY DEF AnswerAttachment, RespondWith
    <3>3. CASE response' = response
      BY <1>0, <2>1, <3>3, LookingKeepsViews
    <3>4. CASE response' = Answered("ok", authorized)
      BY <1>12, <1>13, <2>1, <3>4, AnsweredIsTyped
    <3>5. CASE Refuse("not_found") \/ Refuse("too_large")
      BY <1>13, <2>1, <3>5, RefusalKeepsViews
    <3> QED
      BY <3>1, <3>2, <3>3, <3>4, <3>5
  <2> QED
    BY <2>3, <2>4
<1>15. CASE ReadAttachment
  <2>1. /\ UNCHANGED <<mail, drafts, pol, req, authorized, views>>
        /\ authorized \in Seq(Messages) /\ authorized # <<>>
    BY <1>15 DEF ReadAttachment, gmail, ProgressInv, PhaseInv, TypeOK
  <2>2. \/ Refuse("gmail_api_error") \/ Refuse("too_large")
        \/ response' = Answered("ok", authorized)
    BY <1>15 DEF ReadAttachment, AnswerAttachment, RespondWith
  <2>3. CASE response' = Answered("ok", authorized)
    BY <1>12, <1>13, <2>1, <2>3, AnsweredIsTyped
  <2>4. CASE Refuse("gmail_api_error") \/ Refuse("too_large")
    BY <1>13, <2>1, <2>4, RefusalKeepsViews
  <2> QED
    BY <2>2, <2>3, <2>4
<1>16. CASE CreateDraft
  <2>1. /\ UNCHANGED <<pol, req, authorized>> /\ views' = views \cup {View(pol)'}
        /\ response' = Answered("ok", authorized) /\ pc = "draft"
        /\ authorized \in Seq(Messages)
    BY <1>16 DEF CreateDraft, DraftDue, RespondWith, ProgressInv, TypeOK
  <2>2. response'.code = "ok" /\ response'.messages = authorized
    BY <1>13, <2>1, AnsweredIsTyped
  <2>3. HasTarget(req) => authorized # <<>>
    BY <2>1 DEF ProgressInv, PhaseInv, HasTarget
  <2>4. Justified(response')
    BY <2>2, <2>3 DEF ViewsInv, Justified
  <2> QED
    BY <2>1, <2>4, ViewsAreKept
<1>17. CASE CannotBuild
  BY <1>13, <1>17, RefusalKeepsViews DEF CannotBuild, gmail
<1>18. CASE NotFound
  BY <1>13, <1>18, RefusalKeepsViews DEF NotFound, gmail
<1>19. CASE GmailFails
  <2>1. PICK code \in {"rate_limited", "gmail_api_error"} : Refuse(code)
    BY <1>19 DEF GmailFails
  <2>2. code \in Codes \ {"ok", "policy_denied"}
    BY DEF Codes
  <2>3. CASE drafts' = drafts
    BY <1>19, <2>1, <2>2, <2>3, RefusalKeepsViews DEF GmailFails
  <2>4. CASE drafts' # drafts
    <3>1. UNCHANGED <<pol, req, authorized>> /\ views' = views \cup {View(pol)'}
      BY <1>19, <2>4 DEF GmailFails
    <3>2. response'.code = code
      BY <2>1, <2>2, AnsweredIsTyped, EmptySeq DEF Refuse, RespondWith
    <3>3. Justified(response')
      BY <2>2, <3>2 DEF Justified
    <3> QED
      BY <3>1, <3>3, ViewsAreKept
  <2> QED
    BY <2>3, <2>4
<1>20. CASE Answer
  BY <1>20 DEF Answer, ViewsInv, AnswersAreOneView
<1>21. CASE UNCHANGED vars
  <2>1. UNCHANGED <<mail, drafts, pol, req, authorized, views, response>>
    BY <1>21 DEF vars, handler, gmail
  <2> QED
    BY <1>0, <2>1, LookingKeepsViews
<1> QED
  BY <1>1, <1>2, <1>3, <1>4, <1>5, <1>6, <1>7, <1>8, <1>9, <1>10, <1>11, <1>14,
     <1>15, <1>16, <1>17, <1>18, <1>19, <1>20, <1>21 DEF Next

\* The two parts together.
LEMMA ViewsAreInvariant == Spec => [](ProgressInv /\ ViewsInv)
<1>1. Init => ViewsInv
  BY DEF Init, ViewsInv, AnswersAreOneView
<1>2. ProgressInv /\ ProgressInv' /\ ViewsInv /\ [Next]_vars => ViewsInv'
  BY ViewsStep
<1> QED
  BY <1>1, <1>2, ProgressIsInvariant, PTL DEF Spec

\* What a request answers is what one look at the mailbox shows, at some moment
\* after its policy was loaded, however the mailbox moves between its reads
\* (AnswersAreOneView).
THEOREM AnswersAreOneViewHolds == Spec => []AnswersAreOneView
<1>1. ViewsInv => AnswersAreOneView
  BY DEF ViewsInv
<1> QED
  BY <1>1, ViewsAreInvariant, PTL

\* Contents are read only of messages that the request's policy showed at some
\* moment since it was loaded (OnlyVisibleContentsAreRead).
THEOREM OnlyVisibleContentsAreReadHolds == Spec => []OnlyVisibleContentsAreRead
<1>1. ProgressInv /\ ViewsInv => OnlyVisibleContentsAreRead
  <2> SUFFICES ASSUME ProgressInv, ViewsInv, NEW i \in DOMAIN contents
               PROVE  contents[i] \in UNION views
    BY DEF OnlyVisibleContentsAreRead, Range
  <2>1. /\ authorized \in Seq(Messages) /\ contents \in Seq(Messages)
        /\ Len(contents) <= Len(authorized) /\ contents[i] = authorized[i]
        /\ i \in 1 .. Len(contents)
    BY DEF ProgressInv, TypeOK, ReadInv
  <2>2. i \in DOMAIN authorized /\ authorized # <<>>
    BY <2>1
  <2>3. pc # "idle"
    BY <2>2 DEF ProgressInv, PhaseInv
  <2>4. req \in Request
    BY <2>3, HandlerAssumption DEF ProgressInv, PhaseInv
  <2>5. PICK view \in views : AtOnce(req, view, authorized)
    BY <2>2 DEF ViewsInv
  <2>6. view \in SUBSET Messages
    BY DEF ProgressInv, TypeOK
  <2>7. Range(authorized) \subseteq view
    BY <2>4, <2>5, <2>6, AtOnceIsShown
  <2> QED
    BY <2>1, <2>2, <2>7 DEF Range
<1> QED
  BY <1>1, ViewsAreInvariant, PTL

\* A reply is drafted only to mail that was visible to the request, the newest of
\* a thread's, also when the caller is told that it failed (DraftsAnswerVisibleMail).
THEOREM DraftsAnswerVisibleMailHolds == Spec => DraftsAnswerVisibleMail
<1> DEFINE Answers ==
      LET draft == drafts'[Len(drafts')]
      IN  IsReply(req) => \E view \in views : AtOnce(req, view, <<draft.anchor>>)
<1>1. ProgressInv /\ ViewsInv /\ Next /\ drafts' # drafts => Answers
  <2> SUFFICES ASSUME ProgressInv, ViewsInv, Next, drafts' # drafts, IsReply(req)
               PROVE  \E view \in views : AtOnce(req, view, <<drafts'[Len(drafts')].anchor>>)
    OBVIOUS
  <2>1. pc = "draft" /\ drafts' = Append(drafts, DraftFor(req)) /\ drafts \in Seq(Draft)
    <3>1. CreateDraft \/ GmailFails
      BY DEF Next, MailboxChanges, PolicyFileChanges, Ask, InvalidRequest, LoadPolicy,
             OpenFails, ResolveVisibilityLabel, ListLabels, Start, ReadTarget, ReadFull,
             EndFull, ReadAttachment, CannotBuild, NotFound, Answer, gmail
    <3> QED
      BY <3>1 DEF CreateDraft, GmailFails, DraftDue, NewDraft, ProgressInv, TypeOK
  <2>2. DraftFor(req).anchor = authorized[1]
    BY DEF DraftFor
  <2>3. drafts'[Len(drafts')] = DraftFor(req)
    <3> HIDE DEF DraftFor
    <3> QED
      BY <2>1
  <2>4. authorized # <<>> /\ req.method = "create_draft"
    BY <2>1 DEF ProgressInv, PhaseInv
  <2>5. PICK view \in views : AtOnce(req, view, authorized)
    BY <2>4 DEF ViewsInv
  <2>6. authorized = <<authorized[1]>>
    BY <2>4, <2>5 DEF AtOnce
  <2> QED
    BY <2>2, <2>3, <2>5, <2>6
<1>2. ProgressInv /\ ViewsInv /\ [Next]_vars => [drafts' # drafts => Answers]_vars
  BY <1>1
<1> QED
  BY <1>2, ViewsAreInvariant, PTL DEF Spec, DraftsAnswerVisibleMail

(***************************************************************************)
(* Bodies.                                                                 *)
(***************************************************************************)
\* The answers there are: only the reads that are asked for bodies have any.
LEMMA ResponsesAreMade ==
    ASSUME [Next]_vars
    PROVE  \/ response' = response \/ response' = None
           \/ \E code, messages : response' = Answered(code, messages)
           \/ response' = Detailed(contents)
<1> USE DEF Refuse, RespondWith
<1>1. CASE MailboxChanges BY <1>1 DEF MailboxChanges, handler
<1>2. CASE PolicyFileChanges BY <1>2 DEF PolicyFileChanges, handler
<1>3. CASE Ask BY <1>3 DEF Ask
<1>4. CASE InvalidRequest BY <1>4 DEF InvalidRequest
<1>5. CASE LoadPolicy BY <1>5 DEF LoadPolicy
<1>6. CASE OpenFails BY <1>6 DEF OpenFails
<1>7. CASE ResolveVisibilityLabel BY <1>7 DEF ResolveVisibilityLabel
<1>8. CASE ListLabels BY <1>8 DEF ListLabels
<1>9. CASE Start BY <1>9 DEF Start
<1>10. CASE ReadTarget BY <1>10 DEF ReadTarget
<1>11. CASE ReadFull BY <1>11 DEF ReadFull
<1>12. CASE EndFull BY <1>12 DEF EndFull, AnswerAttachment
<1>13. CASE ReadAttachment BY <1>13 DEF ReadAttachment, AnswerAttachment
<1>14. CASE CreateDraft BY <1>14 DEF CreateDraft
<1>15. CASE CannotBuild BY <1>15 DEF CannotBuild
<1>16. CASE NotFound BY <1>16 DEF NotFound
<1>17. CASE GmailFails BY <1>17 DEF GmailFails
<1>18. CASE Answer BY <1>18 DEF Answer
<1>19. CASE UNCHANGED vars BY <1>19 DEF vars, handler
<1> QED
  BY <1>1, <1>2, <1>3, <1>4, <1>5, <1>6, <1>7, <1>8, <1>9, <1>10, <1>11, <1>12,
     <1>13, <1>14, <1>15, <1>16, <1>17, <1>18, <1>19 DEF Next

\* The bodies in an answer are what was sent, cut at max_body_bytes and nowhere
\* else (BodiesAreHonest).
THEOREM BodiesAreHonestHolds == Spec => []BodiesAreHonest
<1>1. Init => BodiesAreHonest
  BY DEF Init, BodiesAreHonest
<1>2. ProgressInv /\ BodiesAreHonest /\ [Next]_vars => BodiesAreHonest'
  <2> SUFFICES ASSUME ProgressInv, BodiesAreHonest, [Next]_vars, response' # None,
                      NEW i \in DOMAIN response'.bodies
               PROVE  HonestBody(PartsOf(response'.messages[i]), response'.bodies[i])
    BY DEF BodiesAreHonest
  <2>1. CASE response' = response
    BY <2>1 DEF BodiesAreHonest
  <2>2. CASE \E code, messages : response' = Answered(code, messages)
    BY <2>2 DEF Answered
  <2>3. CASE response' = Detailed(contents)
    BY <2>3, DetailedIsTyped DEF ProgressInv, TypeOK
  <2> QED
    BY <2>1, <2>2, <2>3, ResponsesAreMade
<1> QED
  BY <1>1, <1>2, ProgressIsInvariant, PTL DEF Spec

\* The variables have their types.
THEOREM HandlersTypeCorrect == Spec => []TypeOK
<1>1. ProgressInv => TypeOK
  BY DEF ProgressInv
<1> QED
  BY <1>1, ProgressIsInvariant, PTL

(***************************************************************************)
(* Drafts.                                                                 *)
(***************************************************************************)
\* A draft more is what the request asked for.
LEMMA DraftIsAppended ==
    ASSUME [Next]_vars
    PROVE  drafts' = drafts \/ (DraftDue /\ drafts' = Append(drafts, DraftFor(req)))
<1>1. CASE CreateDraft \/ GmailFails
  BY <1>1 DEF CreateDraft, GmailFails, NewDraft
<1>2. CASE ~(CreateDraft \/ GmailFails)
  BY <1>2 DEF Next, MailboxChanges, PolicyFileChanges, Ask, InvalidRequest, LoadPolicy,
         OpenFails, ResolveVisibilityLabel, ListLabels, Start, ReadTarget, ReadFull,
         EndFull, ReadAttachment, CannotBuild, NotFound, Answer, gmail, vars
<1> QED
  BY <1>1, <1>2

\* Each draft stays what the headers of the message it answers made it.
LEMMA DraftsStep ==
    ASSUME ProgressInv, ProgressInv', DraftsInv, [Next]_vars
    PROVE  DraftsInv'
<1>1. /\ drafts \in Seq(Draft) /\ drafts' \in Seq(Draft) /\ mail \in MailStates
      /\ Len(drafts) <= Len(DraftIDs) /\ Len(drafts') <= Len(DraftIDs)
      /\ Len(drafts) \in Nat /\ DOMAIN drafts = 1 .. Len(drafts)
      /\ authorized \in Seq(Messages) /\ Range(authorized) \subseteq Known
  BY DEF ProgressInv, TypeOK, ReadInv
<1>2. /\ \A m \in Known : HeadersOf(m)' = HeadersOf(m)
      /\ \A i \in DOMAIN drafts : i \in DOMAIN drafts' /\ drafts'[i] = drafts[i]
  BY <1>1, DraftsGrow, NothingIsForgotten
<1>3. \A i \in DOMAIN drafts' : Before(i)' = Before(i)
  BY DEF Before
<1>4. ASSUME NEW i \in DOMAIN drafts', NEW draft,
             draft = drafts'[i], draft.anchor \in Known \cup {None},
             draft.anchor \in Before(i), Made(draft, HeadersOf(draft.anchor))
      PROVE  /\ drafts'[i].anchor \in Before(i)
             /\ Made(drafts'[i], HeadersOf(drafts[i].anchor)')
  <2>1. CASE draft.anchor \in Known
    <3>1. HeadersOf(draft.anchor)' = HeadersOf(draft.anchor)
      BY <1>2, <2>1
    <3> QED
      BY <1>4, <3>1
  <2>2. CASE draft.anchor = None
    <3>1. ~draft.derived
      BY <1>4, <2>2 DEF Made
    <3> QED
      BY <1>4, <2>2, <3>1 DEF Made
  <2> QED
    BY <1>4, <2>1, <2>2
<1>5. ASSUME NEW i \in DOMAIN drafts
      PROVE  /\ drafts'[i].anchor \in Before(i)
             /\ Made(drafts'[i], HeadersOf(drafts[i].anchor)')
  <2>1. Before(i) \subseteq Known \cup {None}
    BY <1>1 DEF Before, Known, Drafted
  <2>2. drafts[i].anchor \in Before(i) /\ Made(drafts[i], HeadersOf(drafts[i].anchor))
    BY DEF DraftsInv
  <2> QED
    BY <1>2, <1>4, <2>1, <2>2
<1>6. CASE drafts' = drafts
  <2>1. DOMAIN drafts' = DOMAIN drafts
    BY <1>6
  <2> QED
    BY <1>3, <1>5, <2>1 DEF DraftsInv
<1>7. CASE DraftDue /\ drafts' = Append(drafts, DraftFor(req))
  <2>1. /\ pc = "draft" /\ Buildable(DraftFor(req)) /\ req \in Requests
        /\ WellFormed(Recipients(req))
        /\ IsReply(req) => authorized # <<>>
    BY <1>7 DEF DraftDue, ProgressInv, PhaseInv, Stages
  <2>2. PICK draft : /\ draft = DraftFor(req) /\ draft.anchor \in Known \cup {None}
                     /\ Made(draft, HeadersOf(draft.anchor))
    BY <1>1, <2>1, DraftIsMade
  <2>3. DOMAIN drafts' = DOMAIN drafts \cup {Len(drafts) + 1}
        /\ drafts'[Len(drafts) + 1] = draft
    BY <1>1, <1>7, <2>2
  <2>4. Known \cup {None} = Before(Len(drafts) + 1)
    BY <1>1 DEF Before, Known, Drafted
  <2>5. ASSUME NEW i \in DOMAIN drafts', i = Len(drafts) + 1
        PROVE  /\ drafts'[i].anchor \in Before(i)
               /\ Made(drafts'[i], HeadersOf(drafts[i].anchor)')
    BY <1>4, <2>2, <2>3, <2>4, <2>5
  <2>6. ASSUME NEW i \in DOMAIN drafts'
        PROVE  /\ drafts'[i].anchor \in Before(i)
               /\ Made(drafts'[i], HeadersOf(drafts[i].anchor)')
    BY <1>5, <2>3, <2>5
  <2> QED
    BY <1>3, <2>6 DEF DraftsInv
<1> QED
  BY <1>6, <1>7, DraftIsAppended

\* Drafts are made of older messages, in every state.
LEMMA DraftsAreInvariant == Spec => [](ProgressInv /\ DraftsInv)
<1>1. Init => DraftsInv
  BY DEF Init, DraftsInv
<1>2. ProgressInv /\ ProgressInv' /\ DraftsInv /\ [Next]_vars => DraftsInv'
  BY DraftsStep
<1> QED
  BY <1>1, <1>2, ProgressIsInvariant, PTL DEF Spec

\* The headers of what a draft answers.
LEMMA AnchorIsKnown ==
    ASSUME ProgressInv, DraftsInv, NEW i \in DOMAIN drafts, drafts[i].anchor # None
    PROVE  HeadersOf(drafts[i].anchor) \in HeaderSet
<1>1. drafts \in Seq(Draft) /\ Len(drafts) <= Len(DraftIDs)
  BY DEF ProgressInv, TypeOK
<1>2. Before(i) \subseteq Known \cup {None}
  BY <1>1 DEF Before, Known, Drafted
<1>3. drafts[i].anchor \in Known
  BY <1>2 DEF DraftsInv
<1> QED
  BY <1>1, <1>3, KnownIsTyped

\* A reply without recipients of its own goes to everybody it is meant for, once,
\* and never to the owner; and to the same people when it answers a draft of such
\* a reply (RepliesReachTheirAudience).
THEOREM RepliesReachTheirAudienceHolds == Spec => []RepliesReachTheirAudience
<1>1. ASSUME ProgressInv, DraftsInv, NEW i \in DOMAIN drafts, drafts[i].derived
      PROVE  /\ drafts[i].anchor # None /\ HeadersOf(drafts[i].anchor) \in HeaderSet
             /\ drafts[i].replyAll \in BOOLEAN
             /\ drafts[i].to \in Seq(Addresses) /\ drafts[i].cc \in Seq(Addresses)
             /\ Reaches(drafts[i], HeadersOf(drafts[i].anchor))
             /\ ~drafts[i].replyAll => drafts[i].cc = <<>>
             /\ Made(drafts[i], HeadersOf(drafts[i].anchor))
  <2>1. /\ drafts[i] \in Draft /\ Made(drafts[i], HeadersOf(drafts[i].anchor))
    BY <1>1 DEF ProgressInv, TypeOK, DraftsInv
  <2>2. /\ drafts[i].anchor # None /\ drafts[i].replyAll \in BOOLEAN
        /\ drafts[i].to \in Seq(Addresses) /\ drafts[i].cc \in Seq(Addresses)
    BY <1>1, <2>1 DEF Draft, Made
  <2>3. HeadersOf(drafts[i].anchor) \in HeaderSet
    BY <1>1, <2>2, AnchorIsKnown
  <2> DEFINE recipients == DraftReplyRecipients(HeadersOf(drafts[i].anchor), drafts[i].replyAll)
  <2>4. drafts[i].to = recipients.to /\ drafts[i].cc = recipients.cc
    BY <1>1, <2>1 DEF Made
  <2>5. /\ IsInjective(recipients.to \o recipients.cc)
        /\ Owner.mailbox \notin Range(recipients.to \o recipients.cc)
        /\ Range(recipients.to \o recipients.cc)
              = Audience(HeadersOf(drafts[i].anchor), drafts[i].replyAll)
        /\ ~drafts[i].replyAll => recipients.cc = <<>>
    BY <2>2, <2>3, ReplyRecipientsAreTheAudience, ReplyRecipientsAreTyped
  <2> HIDE DEF recipients
  <2>6. Reaches(drafts[i], HeadersOf(drafts[i].anchor))
    BY <2>4, <2>5 DEF Reaches
  <2> QED
    BY <2>1, <2>2, <2>3, <2>4, <2>5, <2>6
<1>2. ASSUME ProgressInv, DraftsInv, NEW i \in DOMAIN drafts, NEW j \in DOMAIN drafts,
             drafts[i].derived, drafts[j].derived, drafts[i].anchor = DraftIDs[j],
             drafts[i].replyAll = drafts[j].replyAll
      PROVE  drafts[i].to = drafts[j].to /\ drafts[i].cc = drafts[j].cc
  <2> DEFINE headers == HeadersOf(DraftIDs[j])
  <2>1. /\ DraftIDs[j] \notin Mail /\ DraftOf(DraftIDs[j]) = drafts[j]
    BY <1>2, DraftFound DEF ProgressInv, TypeOK
  <2>2. /\ headers.from = <<Owner>> /\ headers.replyTo = <<>>
        /\ headers.to = AsWritten(drafts[j].to) /\ headers.cc = AsWritten(drafts[j].cc)
    BY <2>1 DEF HeadersOf
  <2>3. /\ headers \in HeaderSet /\ drafts[i].replyAll \in BOOLEAN
        /\ Made(drafts[i], headers)
    BY <1>1, <1>2
  <2>4. /\ drafts[j].to \in Seq(Addresses) /\ drafts[j].cc \in Seq(Addresses)
        /\ IsInjective(drafts[j].to \o drafts[j].cc)
        /\ Owner.mailbox \notin Range(drafts[j].to \o drafts[j].cc)
        /\ ~drafts[i].replyAll => drafts[j].cc = <<>>
    BY <1>1, <1>2 DEF Reaches
  <2> HIDE DEF headers
  <2>5. /\ DraftReplyRecipients(headers, drafts[i].replyAll).to = drafts[j].to
        /\ DraftReplyRecipients(headers, drafts[i].replyAll).cc = drafts[j].cc
    BY <2>2, <2>3, <2>4, RepliesToDraftsGoToTheSame
  <2> QED
    BY <1>2, <2>3, <2>5 DEF Made
<1>3. ProgressInv /\ DraftsInv => RepliesReachTheirAudience
  BY <1>1, <1>2 DEF RepliesReachTheirAudience
<1> QED
  BY <1>3, DraftsAreInvariant, PTL

\* A reply names the message it answers and refers to it and to all that refers
\* to, in order, however long the chain (RepliesJoinTheConversation).
THEOREM RepliesJoinTheConversationHolds == Spec => []RepliesJoinTheConversation
<1>1. ASSUME ProgressInv, DraftsInv, NEW i \in DOMAIN drafts, drafts[i].anchor # None
      PROVE  Joins(drafts[i], HeadersOf(drafts[i].anchor))
  <2>1. Made(drafts[i], HeadersOf(drafts[i].anchor))
    BY <1>1 DEF DraftsInv
  <2>2. HeadersOf(drafts[i].anchor) \in HeaderSet
    BY <1>1, AnchorIsKnown
  <2> QED
    BY <1>1, <2>1, <2>2, ReplyContextJoins DEF Made
<1>2. ProgressInv /\ DraftsInv => RepliesJoinTheConversation
  BY <1>1 DEF RepliesJoinTheConversation
<1> QED
  BY <1>2, DraftsAreInvariant, PTL

(***************************************************************************)
(* What is served.                                                         *)
(***************************************************************************)
\* An attachment that is not larger than what system.info says fits the client's
\* frame, whatever maximum is configured.
LEMMA AnnouncedSizesFit ==
    ASSUME NEW file \in Attachment, req.configured \in Int,
           file.actual <= MaxAttachmentBytes(req.configured)
    PROVE  Fits(file)
<1> DEFINE size == file.actual
           safe == TransportSafeAttachmentBytes
<1>1. size \in Nat /\ safe \in Nat /\ ResponseMaxBytes \in Nat /\ EnvelopeBytes \in Nat
  BY HandlerAssumption DEF Attachment
<1>2. size <= safe
  BY <1>1 DEF MaxAttachmentBytes
<1>3. (size + 2) \div 3 <= (safe + 2) \div 3
  BY <1>1, <1>2
<1>4. ResponseBytes(size) <= ResponseBytes(safe)
  BY <1>1, <1>3 DEF ResponseBytes
<1>5. ResponseBytes(size) \in Int /\ ResponseBytes(safe) \in Int
  BY <1>1 DEF ResponseBytes
<1>6. ResponseBytes(size) <= ResponseMaxBytes
  BY <1>1, <1>4, <1>5, TransportAssumption
<1> QED
  BY <1>6 DEF Fits

\* The attachment of a request that is to be served.
LEMMA ServableAttachment ==
    ASSUME ProgressInv, req \in Requests, Servable, req.method = "get_attachment"
    PROVE  LET file == AttachmentsOf(req.message)[req.attachment]
           IN  /\ Shown(req, View(policyFile)) = <<req.message>>
               /\ req.message \in View(policyFile)
               /\ req.attachment \in DOMAIN AttachmentsOf(req.message)
               /\ file.stated <= MaxAttachmentBytes(req.configured)
               /\ file.actual # 0 /\ Fits(file)
<1> DEFINE there == AttachmentsOf(req.message)
           file  == there[req.attachment]
<1>1. /\ req.message # None /\ req.message \in Messages \cup {None}
      /\ req.configured \in Int
  BY HandlerAssumption DEF Servable, Valid, Request
<1>2. /\ Shown(req, View(policyFile)) = Keep(<<req.message>>, View(policyFile))
      /\ Shown(req, View(policyFile)) # <<>>
  BY <1>1 DEF Shown, Servable
<1>3. /\ Shown(req, View(policyFile)) = <<req.message>>
      /\ req.message \in View(policyFile)
  BY <1>1, <1>2, KeepOfOne
<1>4. /\ req.attachment \in DOMAIN there
      /\ file.stated <= MaxAttachmentBytes(req.configured)
      /\ file.actual \in 1 .. MaxAttachmentBytes(req.configured)
  BY DEF Servable
<1>5. file \in Attachment
  <2>1. req.message \in Mail /\ there = MailAttachments[req.message]
    BY <1>4 DEF AttachmentsOf
  <2>2. Range(MailAttachments[req.message]) \subseteq Attachment
    BY <2>1, HandlerAssumption
  <2> QED
    BY <1>4, <2>1, <2>2 DEF Range
<1> HIDE DEF file, there
<1>6. MaxAttachmentBytes(req.configured) \in Int
  BY <1>1, HandlerAssumption DEF MaxAttachmentBytes
<1>7. file.actual # 0 /\ Fits(file)
  BY <1>1, <1>4, <1>5, <1>6, AnnouncedSizesFit
<1> QED
  BY <1>3, <1>4, <1>7 DEF file, there

\* What is to be served stays so while nothing moves.
LEMMA ServableStands ==
    ASSUME UNCHANGED <<mail, drafts, policyFile, req>>
    PROVE  /\ Servable' <=> Servable
           /\ Shown(req, View(policyFile))' = Shown(req, View(policyFile))
<1>1. View(policyFile)' = View(policyFile)
  BY DEF View, Present, Drafted, LabelsOf
<1>2. Shown(req, View(policyFile))' = Shown(req, View(policyFile))
  BY <1>1 DEF Shown, ThreadOf, DraftOf
<1>3. AttachmentsOf(req.message)' = AttachmentsOf(req.message)
  BY DEF AttachmentsOf
<1> QED
  BY <1>2, <1>3 DEF Servable

\* A step that moves nothing and keeps to what is shown.
LEMMA StandingStillServes ==
    ASSUME UNCHANGED <<mail, drafts, policyFile, req>>,
           pc' \in Stages => pol' = policyFile,
           pc' # "idle" /\ Servable =>
               /\ authorized' # <<>> => authorized' = Shown(req, View(policyFile))
               /\ pc' = "respond" => response'.code = "ok"
    PROVE  ServedInv'
BY ServableStands DEF ServedInv

\* Every step of a request for what is to be served goes on to serve it.
LEMMA ServedStep ==
    ASSUME ProgressInv, ProgressInv', ViewsInv, ServedInv, [Next]_vars
    PROVE  ServedInv'
<1> SUFFICES ASSUME changes' = 0, failures' = 0
             PROVE  ServedInv'
  BY DEF ServedInv
<1>0. changes \in Nat /\ failures \in Nat
  BY HandlerAssumption DEF ProgressInv, TypeOK
<1>1. changes = 0 /\ failures = 0
  BY <1>0 DEF Next, MailboxChanges, PolicyFileChanges, Ask, InvalidRequest, LoadPolicy,
     OpenFails, ResolveVisibilityLabel, ListLabels, Start, ReadTarget, ReadFull, EndFull,
     ReadAttachment, CreateDraft, CannotBuild, NotFound, GmailFails, Answer, vars
<1>2. /\ pc \in Stages => pol = policyFile
      /\ pc # "idle" /\ Servable =>
            /\ authorized # <<>> => authorized = Shown(req, View(policyFile))
            /\ pc = "respond" => response.code = "ok"
  BY <1>1 DEF ServedInv
<1>3. ~(MailboxChanges \/ PolicyFileChanges \/ OpenFails \/ GmailFails)
  BY <1>0 DEF MailboxChanges, PolicyFileChanges, OpenFails, GmailFails
<1>4. pc # "idle" => req \in Requests
  BY DEF ProgressInv, PhaseInv
<1>5. Servable => req.method \in Reads /\ Valid(req)
  BY DEF Servable
<1>6. /\ "idle" \notin Stages /\ "validate" \notin Stages /\ "respond" \notin Stages
      /\ {"resolve", "start", "labels", "target", "full", "data", "draft"} \subseteq Stages
      /\ "create_draft" \notin Reads /\ "list_labels" \notin Reads
  BY DEF Stages, Reads
<1>7. CASE Ask
  BY <1>6, <1>7 DEF Ask, ServedInv, ProgressInv, PhaseInv
<1>8. CASE InvalidRequest
  <2>1. /\ UNCHANGED <<mail, drafts, policyFile, req>> /\ ~Servable /\ pc' = "respond"
    BY <1>5, <1>8 DEF InvalidRequest, gmail, Refuse, RespondWith
  <2> QED
    BY <1>6, <2>1, StandingStillServes
<1>9. CASE LoadPolicy
  <2>1. /\ UNCHANGED <<mail, drafts, policyFile, req>> /\ pol' = policyFile
        /\ authorized' = <<>> /\ pc' # "respond"
    BY <1>9 DEF LoadPolicy, gmail, ProgressInv, PhaseInv
  <2> QED
    BY <2>1, StandingStillServes
<1>10. CASE ResolveVisibilityLabel
  <2>1. /\ UNCHANGED <<mail, drafts, policyFile, req>>
        /\ pol' = pol /\ pol = policyFile /\ authorized' = <<>>
        /\ pol.visibilityLabel # NoLabel
    BY <1>2, <1>6, <1>10 DEF ResolveVisibilityLabel, gmail, ProgressInv, PhaseInv
  <2>2. Servable => pol.visibilityLabel \in mail.named
    BY <2>1 DEF Servable
  <2>3. Servable => pc' # "respond"
    BY <1>10, <2>2 DEF ResolveVisibilityLabel
  <2> QED
    BY <2>1, <2>3, StandingStillServes
<1>11. CASE ListLabels
  <2>1. /\ UNCHANGED <<mail, drafts, policyFile, req>> /\ ~Servable /\ pc' = "respond"
    BY <1>5, <1>6, <1>11 DEF ListLabels, gmail, RespondWith, ProgressInv, PhaseInv
  <2> QED
    BY <1>6, <2>1, StandingStillServes
<1>12. CASE Start
  <2>1. /\ UNCHANGED <<mail, drafts, policyFile, req>>
        /\ pol' = pol /\ pol = policyFile /\ authorized' = <<>>
    BY <1>2, <1>6, <1>12 DEF Start, gmail, ProgressInv, PhaseInv
  <2>2. Servable => ~RecipientsRefused(req)
    BY <1>5, <1>6 DEF RecipientsRefused
  <2>3. Servable => pc' # "respond"
    BY <1>12, <2>2 DEF Start
  <2> QED
    BY <2>1, <2>3, StandingStillServes
<1>13. CASE ReadTarget
  <2> DEFINE visible == VisibleThreadMessages(pol, Target(req))
             anchor  == NewestMessage(visible, Date)
             derived == DraftReplyRecipients(HeadersOf(anchor), req.replyAll)
  <2>1. /\ pc = "target" /\ UNCHANGED <<mail, drafts, policyFile, req, pol>>
        /\ IF visible = <<>> THEN Refuse("policy_denied") /\ UNCHANGED authorized
           ELSE IF req.method = "get_thread" /\ ~req.bodies
           THEN RespondWith(Answered("ok", visible)) /\ authorized' = visible
           ELSE IF req.method # "create_draft"
           THEN authorized' = visible /\ pc' = "full" /\ UNCHANGED response
           ELSE IF Derives(req) /\ derived.to \o derived.cc = <<>>
           THEN Refuse("invalid_params") /\ UNCHANGED authorized
           ELSE authorized' = <<anchor>> /\ pc' = "draft" /\ UNCHANGED response
    BY <1>13 DEF ReadTarget, gmail
  <2>2. pol = policyFile /\ visible = Shown(req, View(policyFile))
    BY <1>2, <1>6, <2>1, VisibleIsAView
  <2> HIDE DEF visible, anchor, derived
  <2>3. ASSUME Servable
        PROVE  /\ authorized' = Shown(req, View(policyFile))
               /\ pc' = "respond" => response'.code = "ok"
    <3>1. visible # <<>> /\ req.method # "create_draft"
      BY <1>5, <1>6, <2>2, <2>3 DEF Servable
    <3>2. Answered("ok", visible).code = "ok"
      BY DEF Answered
    <3> QED
      BY <2>1, <2>2, <3>1, <3>2 DEF RespondWith
  <2> QED
    BY <2>1, <2>2, <2>3, StandingStillServes
<1>14. CASE ReadFull
  <2>1. /\ UNCHANGED <<mail, drafts, policyFile, req, pc, pol, authorized, response>>
    BY <1>14 DEF ReadFull, gmail
  <2> QED
    BY <1>2, <2>1, StandingStillServes
<1>15. CASE EndFull
  <2>1. /\ pc = "full" /\ UNCHANGED <<mail, drafts, policyFile, req, pol, authorized>>
        /\ req \in Requests /\ authorized # <<>> /\ pol = policyFile
        /\ authorized \in Seq(Messages) /\ contents \in Seq(Messages)
        /\ ~(Len(contents) < Len(authorized))
    BY <1>2, <1>4, <1>6, <1>15 DEF EndFull, FullDue, gmail, ProgressInv, PhaseInv, TypeOK
  <2>2. contents = authorized
    <3>1. Len(contents) = Len(authorized)
      BY <2>1 DEF ProgressInv, ReadInv
    <3> QED
      BY <2>1, <3>1, SeqEqual DEF ProgressInv, ReadInv
  <2>3. /\ Answered("ok", contents).code = "ok" /\ Answered("ok", authorized).code = "ok"
        /\ Detailed(contents).code = "ok"
    BY <2>1, DetailedIsTyped DEF Answered
  <2>4. ASSUME Servable, req.method # "get_attachment" PROVE response'.code = "ok"
    BY <1>15, <2>3, <2>4 DEF EndFull, RespondWith
  <2>5. ASSUME Servable, req.method = "get_attachment", pc' = "respond"
        PROVE  response'.code = "ok"
    <3> DEFINE there == AttachmentsOf(contents[1])
               file  == there[req.attachment]
    <3>1. contents[1] = req.message
      <4>1. authorized = <<req.message>>
        BY <1>2, <2>1, <2>5, ServableAttachment
      <4> QED
        BY <2>2, <4>1
    <3>2. /\ req.attachment \in DOMAIN there
          /\ ~(file.stated > MaxAttachmentBytes(req.configured))
          /\ Fits(file)
      <4>1. /\ req.attachment \in DOMAIN there
            /\ file.stated <= MaxAttachmentBytes(req.configured) /\ Fits(file)
        BY <2>1, <2>5, <3>1, ServableAttachment
      <4>2. file.stated \in Int /\ MaxAttachmentBytes(req.configured) \in Int
        <5>1. req.configured \in Int
          BY <2>1, HandlerAssumption DEF Request
        <5>2. contents[1] \in Mail /\ there = MailAttachments[contents[1]]
          BY <4>1 DEF AttachmentsOf
        <5>3. Range(MailAttachments[contents[1]]) \subseteq Attachment
          BY <5>2, HandlerAssumption
        <5>4. file \in Attachment
          BY <4>1, <5>2, <5>3 DEF Range
        <5> QED
          BY <5>1, <5>4, HandlerAssumption DEF Attachment, MaxAttachmentBytes
      <4> HIDE DEF there, file
      <4> QED
        BY <4>1, <4>2
    <3>3. IF file.inline THEN AnswerAttachment(file) ELSE pc' = "data" /\ UNCHANGED response
      BY <1>15, <2>5, <3>2 DEF EndFull
    <3> HIDE DEF file
    <3> QED
      BY <2>3, <2>5, <3>2, <3>3 DEF AnswerAttachment, RespondWith
  <2> QED
    BY <1>2, <2>1, <2>4, <2>5, StandingStillServes
<1>16. CASE ReadAttachment
  <2> DEFINE file == AttachmentsOf(req.message)[req.attachment]
  <2>1. /\ pc = "data" /\ UNCHANGED <<mail, drafts, policyFile, req, pol, authorized>>
        /\ pc' = "respond" /\ req \in Requests /\ req.method = "get_attachment"
        /\ IF file.actual = 0 THEN Refuse("gmail_api_error") ELSE AnswerAttachment(file)
    BY <1>4, <1>16 DEF ReadAttachment, AnswerAttachment, Refuse, RespondWith, gmail,
       ProgressInv, PhaseInv
  <2>2. Servable => file.actual # 0 /\ Fits(file)
    BY <2>1, ServableAttachment
  <2> HIDE DEF file
  <2>3. Answered("ok", authorized).code = "ok"
    BY DEF Answered
  <2>4. Servable => response'.code = "ok"
    BY <2>1, <2>2, <2>3 DEF AnswerAttachment, RespondWith
  <2> QED
    BY <1>2, <1>6, <2>1, <2>4, StandingStillServes
<1>17. CASE CreateDraft
  <2>1. /\ pc' = "respond" /\ policyFile' = policyFile /\ req' = req
        /\ req.method = "create_draft"
    BY <1>17 DEF CreateDraft, DraftDue, RespondWith, ProgressInv, PhaseInv
  <2>2. ~Servable'
    BY <1>6, <2>1 DEF Servable
  <2> QED
    BY <1>6, <2>1, <2>2 DEF ServedInv
<1>18. CASE CannotBuild
  <2>1. /\ pc' = "respond" /\ UNCHANGED <<mail, drafts, policyFile, req>>
        /\ req.method = "create_draft"
    BY <1>18 DEF CannotBuild, Refuse, RespondWith, gmail, ProgressInv, PhaseInv
  <2> QED
    BY <1>5, <1>6, <2>1, StandingStillServes
<1>19. CASE NotFound
  <2>1. /\ pc' = "respond" /\ UNCHANGED <<mail, drafts, policyFile, req>>
        /\ req \in Requests /\ req \in Request
        /\ pc \in {"target", "full", "data", "draft"} /\ pol = policyFile
    BY <1>2, <1>4, <1>6, <1>19, HandlerAssumption
       DEF NotFound, FullDue, DraftDue, Refuse, RespondWith, gmail
  <2>2. ASSUME Servable PROVE FALSE
    <3>1. /\ View(policyFile) \subseteq Present /\ View(policyFile) \in SUBSET Messages
          /\ Present \subseteq Messages
      BY PresentIsKnown DEF ProgressInv, TypeOK
    <3>2. CASE pc = "target" /\ Target(req) = <<>>
      <4>1. VisibleThreadMessages(pol, Target(req)) # <<>>
        BY <2>1, <2>2, <3>1, VisibleIsShown DEF Servable
      <4>2. VisibleThreadMessages(pol, <<>>) = <<>>
        <5>1. <<>> \in Seq(Messages) /\ Range(<<>>) = {}
          BY DEF Range
        <5>2. ASSUME NEW T PROVE Keep(<<>>, T) = <<>>
          <6>1. Range(<<>>) \cap T = {}
            BY <5>1
          <6>2. Keep(<<>>, T) = <<>> <=> Range(<<>>) \cap T = {}
            BY <5>1, KeepProperties, Zenon
          <6> QED
            BY <6>1, <6>2
        <5> QED
          BY <5>2 DEF VisibleThreadMessages
      <4> QED
        BY <3>2, <4>1, <4>2
    <3>3. CASE FullDue /\ Due \notin Present
      <4>1. /\ authorized \in Seq(Messages) /\ contents \in Seq(Messages)
            /\ Len(contents) < Len(authorized) /\ pc = "full"
        BY <3>3 DEF FullDue, ProgressInv, TypeOK
      <4>2. Due \in Range(authorized) /\ authorized # <<>>
        BY <4>1 DEF Due, Range
      <4>3. authorized = Shown(req, View(policyFile))
        BY <1>2, <2>2, <4>1, <4>2
      <4>4. Range(authorized) \subseteq View(policyFile)
        BY <2>1, <3>1, <4>3, ShownIsShown
      <4> QED
        BY <3>1, <3>3, <4>2, <4>4
    <3>4. CASE pc = "data" /\ req.message \notin Present
      BY <2>1, <2>2, <3>1, <3>4, ServableAttachment DEF ProgressInv, PhaseInv
    <3>5. CASE DraftDue
      BY <2>2, <3>5 DEF DraftDue, Servable, Reads, ProgressInv, PhaseInv
    <3> QED
      BY <1>19, <3>2, <3>3, <3>4, <3>5 DEF NotFound
  <2> QED
    BY <1>6, <2>1, <2>2, StandingStillServes
<1>20. CASE Answer
  BY <1>6, <1>20 DEF Answer, ServedInv
<1>21. CASE UNCHANGED vars
  <2>1. UNCHANGED <<mail, drafts, policyFile, req, pc, pol, authorized, response>>
    BY <1>21 DEF vars, gmail, handler
  <2> QED
    BY <1>2, <2>1, StandingStillServes
<1> QED
  BY <1>3, <1>7, <1>8, <1>9, <1>10, <1>11, <1>12, <1>13, <1>14, <1>15, <1>16, <1>17,
     <1>18, <1>19, <1>20, <1>21 DEF Next

\* While the mailbox stands still and nothing fails, every visible message, thread
\* and attachment is served, attachments up to the size that system.info announces
\* (VisibleMailIsServed).
THEOREM VisibleMailIsServedHolds == Spec => []VisibleMailIsServed
<1>1. Init => ServedInv
  BY DEF Init, ServedInv, Stages
<1>2. ProgressInv /\ ProgressInv' /\ ViewsInv /\ ServedInv /\ [Next]_vars => ServedInv'
  BY ServedStep
<1>3. ProgressInv /\ ServedInv => VisibleMailIsServed
  <2> SUFFICES ASSUME ProgressInv, ServedInv, changes = 0, failures = 0, response # None,
                      Servable
               PROVE  response.code = "ok"
    BY DEF VisibleMailIsServed, Servable, Reads
  <2>1. pc = "respond"
    BY DEF ProgressInv, PhaseInv
  <2> QED
    BY <2>1 DEF ServedInv
<1> QED
  BY <1>1, <1>2, <1>3, ViewsAreInvariant, PTL DEF Spec

=============================================================================
