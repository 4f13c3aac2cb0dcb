------------------------- MODULE GamingProtProofs -------------------------
(***************************************************************************)
(* Proofs about GamingProt for every set of requests and every number of    *)
(* them: the server waits only for what is on its way or announced and      *)
(* owed, and answers the requests in order, each by what it says, until a   *)
(* read comes back short.                                                   *)
(*                                                                          *)
(* The argument is about where the reader is in the stream: at the first    *)
(* byte of the request that is answered next, or seven bytes behind it.     *)
(***************************************************************************)
EXTENDS GamingProt, Lists

Byte == 0..255

\* The stream as a list of messages, and where the message after k of them begins.
BytesOf  == [r \in Requests |-> Bytes(r)]
Messages == Image(BytesOf, sent)
Whole    == FlattenSeq(Messages)
Off(k)   == Len(Upto(Messages, k))

\* The bytes p are the first of request r, and not all of them.
Begins(p, r) ==
    Len(p) < Len(Bytes(r)) /\ \A i \in 1..Len(p) : p[i] = Bytes(r)[i]

\* What the header of a request says.
HeaderOf(r) == [type |-> r.type, context |-> r.context, length |-> Len(r.payload)]

-----------------------------------------------------------------------------
(* Messages in the stream.                                                  *)

LEMMA RequestType ==
    ASSUME NEW r \in Requests
    PROVE  /\ r.type \in Byte /\ r.context \in Byte /\ r.payload \in Seq(Byte)
           /\ Len(r.payload) \in Byte /\ Len(r.payload) \in Nat
           /\ HeaderOf(r) \in [type : Byte, context : Byte, length : Byte]
  <1>1. /\ r \in [type : Byte, context : Byte, payload : Seq(Byte)]
        /\ Len(r.payload) <= 255
    BY RequestsAssumption DEF Byte
  <1>2. r.type \in Byte /\ r.context \in Byte /\ r.payload \in Seq(Byte)
    BY <1>1
  <1>3. Len(r.payload) \in Byte /\ Len(r.payload) \in Nat
    <2>1. Len(r.payload) \in Nat
      BY <1>2, LenProperties
    <2>2. Len(r.payload) <= 255
      BY <1>1
    <2>3. \A n \in Nat : n <= 255 => n \in Byte
      BY DEF Byte
    <2> QED
      BY <2>1, <2>2, <2>3, Zenon
  <1> QED
    BY <1>2, <1>3 DEF HeaderOf

\* A message is a header of seven bytes and the payload.
LEMMA BytesLaidOut ==
    ASSUME NEW r \in Requests
    PROVE  /\ Bytes(r) \in Seq(Byte)
           /\ Len(Bytes(r)) = REQ_HEADER_SIZE + Len(r.payload)
           /\ Bytes(r)[5] = r.type /\ Bytes(r)[6] = r.context /\ Bytes(r)[7] = Len(r.payload)
           /\ \A i \in 1..Len(r.payload) : Bytes(r)[REQ_HEADER_SIZE + i] = r.payload[i]
  <1> DEFINE h == <<0, 0, 0, 0, r.type, r.context, Len(r.payload)>>
             p == r.payload
  <1>1. /\ r.type \in Byte /\ r.context \in Byte /\ p \in Seq(Byte)
        /\ Len(p) \in Byte /\ Len(p) \in Nat
    BY RequestType, Zenon
  <1>2. /\ h \in Seq(Byte) /\ Len(h) = 7
        /\ h[5] = r.type /\ h[6] = r.context /\ h[7] = Len(r.payload)
    <2>1. PICK t \in Byte, c \in Byte, n \in Byte :
            r.type = t /\ r.context = c /\ Len(r.payload) = n
      BY <1>1
    <2>2. 0 \in Byte
      BY DEF Byte
    <2>3. <<0, 0, 0, 0, t, c, n>> \in Seq(Byte)
      BY <2>2
    <2> QED
      BY <2>1, <2>3
  <1>3. Bytes(r) = h \o p
    BY DEF Bytes
  <1>4. Len(p) \in Nat
    BY <1>1
  <1> HIDE DEF h
  <1>5. /\ h \o p \in Seq(Byte) /\ Len(h \o p) = Len(h) + Len(p)
        /\ \A i \in 1..(Len(h) + Len(p)) : (h \o p)[i] = IF i <= Len(h) THEN h[i] ELSE p[i - Len(h)]
    BY <1>1, <1>2, ConcatProperties
  <1>6. \A i \in 1..(7 + Len(p)) : Bytes(r)[i] = IF i <= 7 THEN h[i] ELSE p[i - 7]
    BY <1>2, <1>3, <1>5
  <1>7. Bytes(r)[5] = h[5] /\ Bytes(r)[6] = h[6] /\ Bytes(r)[7] = h[7]
    BY <1>4, <1>6
  <1>8. \A i \in 1..Len(p) : Bytes(r)[7 + i] = p[i]
    BY <1>4, <1>6
  <1> QED
    BY <1>2, <1>3, <1>5, <1>7, <1>8 DEF REQ_HEADER_SIZE

LEMMA MessagesType ==
    ASSUME NEW s \in Seq(Requests)
    PROVE  /\ Image(BytesOf, s) \in Seq(Seq(Byte)) /\ Len(Image(BytesOf, s)) = Len(s)
           /\ \A i \in 1..Len(s) : Image(BytesOf, s)[i] = Bytes(s[i])
  <1>1. \A r \in Requests : BytesOf[r] = Bytes(r) /\ BytesOf[r] \in Seq(Byte)
    BY BytesLaidOut DEF BytesOf
  <1>2. Image(BytesOf, s) \in Seq(Seq(Byte))
    BY <1>1, ImageType, Zenon
  <1>3. Len(Image(BytesOf, s)) = Len(s) /\ \A i \in 1..Len(s) : Image(BytesOf, s)[i] = BytesOf[s[i]]
    BY ImageLen
  <1>4. \A i \in 1..Len(s) : s[i] \in Requests
    BY ElementOfSeq
  <1> QED
    BY <1>1, <1>2, <1>3, <1>4

\* A beginning of a request, element by element.
LEMMA PrefixOfBytes ==
    ASSUME NEW p \in Seq(Byte), NEW r \in Requests, IsPrefix(p, Bytes(r))
    PROVE  /\ Len(p) \in Nat /\ Len(p) <= Len(Bytes(r))
           /\ \A i \in 1..Len(p) : p[i] = Bytes(r)[i]
  <1> DEFINE m == Bytes(r)
             n == Len(p)
  <1>1. m \in Seq(Byte) /\ n \in Nat /\ Len(m) \in Nat
    BY BytesLaidOut, LenProperties
  <1> HIDE DEF m
  <1>2. n <= Len(m) /\ SubSeq(p, 1, n) = SubSeq(m, 1, n)
    BY DEF IsPrefix, m
  <1>3. SubSeq(p, 1, n) = p
    BY SubSeqFull
  <1>4. \A i \in 1..n : m[i] \in Byte
    BY <1>1, <1>2, ElementOfSeq
  <1>5. \A i \in 1..n : SubSeq(m, 1, n)[i] = m[i]
    <2>1. \A i \in 1..(n - 1 + 1) : SubSeq(m, 1, n)[i] = m[1 + i - 1]
      BY <1>1, <1>4, SubSeqProperties
    <2>2. n - 1 + 1 = n /\ \A i \in 1..n : 1 + i - 1 = i
      BY <1>1
    <2> QED
      BY <2>1, <2>2
  <1> QED
    BY <1>1, <1>2, <1>3, <1>5 DEF m

\* What is not finished is the beginning of some request.
LEMMA PartBegins ==
    ASSUME TypeOK, part # <<>>
    PROVE  \E r \in Requests : Begins(part, r)
  <1>1. part \in Seq(Byte)
    BY DEF TypeOK, Byte
  <1>2. PICK r \in Requests : IsStrictPrefix(part, Bytes(r))
    BY DEF TypeOK
  <1>3. /\ Len(part) \in Nat /\ Len(part) <= Len(Bytes(r)) /\ part # Bytes(r)
        /\ \A i \in 1..Len(part) : part[i] = Bytes(r)[i]
    BY <1>1, <1>2, PrefixOfBytes DEF IsStrictPrefix
  <1>4. Bytes(r) \in Seq(Byte) /\ Len(Bytes(r)) \in Nat
    BY BytesLaidOut, LenProperties
  <1>5. Len(part) # Len(Bytes(r))
    BY <1>1, <1>3, <1>4, SeqEqual
  <1> QED
    BY <1>3, <1>4, <1>5 DEF Begins

\* A header in it announces a payload, of which some is missing.
LEMMA PartIsOwed ==
    ASSUME TypeOK, Len(part) >= REQ_HEADER_SIZE
    PROVE  /\ Header(part) \in [type : Byte, context : Byte, length : Byte]
           /\ Header(part).length # 0
           /\ Len(part) < REQ_HEADER_SIZE + Header(part).length
  <1>1. part \in Seq(Byte) /\ Len(part) \in Nat
    BY LenProperties DEF TypeOK, Byte
  <1>2. part # <<>>
    BY <1>1, EmptySeq DEF REQ_HEADER_SIZE
  <1>3. PICK r \in Requests : Begins(part, r)
    BY <1>2, PartBegins
  <1>4. Len(Bytes(r)) = 7 + Len(r.payload) /\ Bytes(r)[7] = Len(r.payload)
    BY BytesLaidOut DEF REQ_HEADER_SIZE
  <1>5. Len(part) < 7 + Len(r.payload) /\ part[7] = Len(r.payload)
    BY <1>1, <1>3, <1>4 DEF Begins, REQ_HEADER_SIZE
  <1>6. PICK n \in Nat : n = Len(r.payload)
    BY RequestType, Zenon
  <1>7. n # 0 /\ Len(part) < 7 + n
    BY <1>1, <1>5, <1>6 DEF REQ_HEADER_SIZE
  <1>8. part[5] \in Byte /\ part[6] \in Byte /\ part[7] \in Byte
    BY <1>1, ElementOfSeq DEF REQ_HEADER_SIZE
  <1> QED
    BY <1>5, <1>6, <1>7, <1>8 DEF Header, REQ_HEADER_SIZE

\* The bytes of a list of requests.
Flat(s) == FlattenSeq([i \in DOMAIN s |-> Bytes(s[i])])

\* The stream is all messages, one after the other, and what is not finished.
LEMMA StreamOf ==
    ASSUME NEW s \in Seq(Requests), NEW p \in Seq(Byte),
           NEW w, w = FlattenSeq(Image(BytesOf, s)),
           NEW x, x = Flat(s) \o p
    PROVE  /\ w \in Seq(Byte) /\ Len(w) \in Nat
           /\ x \in Seq(Byte) /\ Len(x) \in Nat
           /\ Len(x) = Len(w) + Len(p) /\ Len(p) \in Nat
           /\ \A i \in 1..Len(w) : x[i] = w[i]
           /\ x = w \o p
  <1>1. \A i \in DOMAIN s : s[i] \in Requests
    BY LenProperties, ElementOfSeq
  <1>2. [i \in DOMAIN s |-> Bytes(s[i])] = Image(BytesOf, s)
    BY <1>1 DEF Image, BytesOf
  <1>3. x = w \o p
    BY <1>2 DEF Flat
  <1>4. w \in Seq(Byte)
    BY MessagesType, FlattenType
  <1>5. Len(w) \in Nat /\ Len(p) \in Nat
    BY <1>4, LenProperties
  <1>6. /\ w \o p \in Seq(Byte) /\ Len(w \o p) = Len(w) + Len(p)
        /\ \A i \in 1..(Len(w) + Len(p)) : (w \o p)[i] = IF i <= Len(w) THEN w[i] ELSE p[i - Len(w)]
    BY <1>4, ConcatProperties
  <1>7. \A i \in 1..Len(w) : (w \o p)[i] = w[i]
    BY <1>5, <1>6
  <1>9. Len(w) + Len(p) \in Nat
    BY <1>5
  <1> QED
    BY <1>3, <1>4, <1>5, <1>6, <1>7, <1>9

LEMMA StreamIs ==
    ASSUME sent \in Seq(Requests), part \in Seq(Byte)
    PROVE  /\ Whole \in Seq(Byte) /\ Len(Whole) \in Nat
           /\ Stream \in Seq(Byte) /\ Len(Stream) \in Nat
           /\ Len(Stream) = Len(Whole) + Len(part) /\ Len(part) \in Nat
           /\ \A i \in 1..Len(Whole) : Stream[i] = Whole[i]
           /\ \A i \in 1..Len(part) : Stream[Len(Whole) + i] = part[i]
  <1>1. Whole = FlattenSeq(Image(BytesOf, sent))
    BY DEF Whole, Messages
  <1>2. Stream = Flat(sent) \o part
    BY DEF Stream, Flat
  <1> DEFINE w == Whole
             x == Stream
  <1> HIDE DEF w, x
  <1>3. /\ w \in Seq(Byte) /\ Len(w) \in Nat /\ Len(part) \in Nat
        /\ x \in Seq(Byte) /\ Len(x) \in Nat /\ Len(x) = Len(w) + Len(part)
        /\ x = w \o part
    <2>1. w = FlattenSeq(Image(BytesOf, sent)) /\ x = Flat(sent) \o part
      BY <1>1, <1>2 DEF w, x
    <2> QED
      BY <2>1, StreamOf, Zenon
  <1>4. \A j \in 1..(Len(w) + Len(part)) :
            (w \o part)[j] = IF j <= Len(w) THEN w[j] ELSE part[j - Len(w)]
    BY <1>3, ConcatProperties
  <1>5. \A i \in 1..Len(w) : x[i] = w[i]
    <2> SUFFICES ASSUME NEW i \in 1..Len(w) PROVE (w \o part)[i] = w[i]
      BY <1>3
    <2>1. i \in 1..(Len(w) + Len(part)) /\ i <= Len(w)
      BY <1>3
    <2> QED
      BY <1>4, <2>1
  <1>6. \A i \in 1..Len(part) : x[Len(w) + i] = part[i]
    <2> SUFFICES ASSUME NEW i \in 1..Len(part) PROVE (w \o part)[Len(w) + i] = part[i]
      BY <1>3
    <2>1. /\ Len(w) + i \in 1..(Len(w) + Len(part)) /\ ~(Len(w) + i <= Len(w))
          /\ Len(w) + i - Len(w) = i
      BY <1>3
    <2> QED
      BY <1>4, <2>1
  <1> QED
    BY <1>3, <1>5, <1>6, Zenon DEF w, x

LEMMA StreamIsNext ==
    ASSUME sent' \in Seq(Requests), part' \in Seq(Byte)
    PROVE  Len(Stream') = Len(Whole') + Len(part') /\ Len(Stream') \in Nat
  <1>1. Whole' = FlattenSeq(Image(BytesOf, sent'))
    BY DEF Whole, Messages, Image, BytesOf, Bytes
  <1>2. Stream' = Flat(sent') \o part'
    BY DEF Stream, Flat
  <1> QED
    BY <1>1, <1>2, StreamOf

LEMMA StreamHas ==
    ASSUME TypeOK
    PROVE  /\ sent \in Seq(Requests) /\ part \in Seq(Byte)
           /\ Len(sent) \in Nat /\ Len(part) \in Nat /\ Len(answers) \in Nat
           /\ Stream \in Seq(Byte) /\ Len(Stream) \in Nat
           /\ taken \in Nat /\ arrived \in Nat /\ taken <= arrived /\ arrived <= Len(Stream)
  <1>1. sent \in Seq(Requests) /\ part \in Seq(Byte) /\ answers \in Seq(Answers)
    BY DEF TypeOK, Byte
  <1>2. Stream \in Seq(Byte) /\ Len(Stream) \in Nat
    BY <1>1, StreamIs
  <1>3. Len(sent) \in Nat /\ Len(part) \in Nat /\ Len(answers) \in Nat
    BY <1>1, LenProperties
  <1>4. taken \in Nat /\ arrived \in Nat /\ taken <= arrived /\ arrived <= Len(Stream)
    BY <1>2 DEF TypeOK
  <1> QED
    BY <1>1, <1>2, <1>3, <1>4

\* Where the message that is next begins and ends, and what is in it.
LEMMA MessageAt ==
    ASSUME sent \in Seq(Requests), part \in Seq(Byte),
           NEW k \in 0..(Len(sent) - 1), NEW r, r = sent[k + 1]
    PROVE  /\ r \in Requests /\ Off(k) \in Nat
           /\ Off(k + 1) = Off(k) + REQ_HEADER_SIZE + Len(r.payload)
           /\ Off(k + 1) <= Len(Stream)
           /\ Stream[Off(k) + 5] = r.type /\ Stream[Off(k) + 6] = r.context
           /\ Stream[Off(k) + 7] = Len(r.payload)
           /\ \A i \in 1..Len(r.payload) : Stream[Off(k) + REQ_HEADER_SIZE + i] = r.payload[i]
  <1> DEFINE m == Bytes(r)
             n == Len(r.payload)
  <1>1. k \in Nat /\ k + 1 \in 1..Len(sent)
    BY LenProperties
  <1>2. r \in Requests
    BY <1>1, ElementOfSeq
  <1>3. Messages \in Seq(Seq(Byte)) /\ Len(Messages) = Len(sent) /\ Messages[k + 1] = m
    BY <1>1, MessagesType DEF Messages
  <1>4. /\ Len(m) = 7 + n /\ n \in Nat
        /\ m[5] = r.type /\ m[6] = r.context /\ m[7] = n
        /\ \A i \in 1..n : m[7 + i] = r.payload[i]
    <2>1. n \in Nat
      BY <1>2, RequestType, Zenon
    <2> QED
      BY <1>2, <2>1, BytesLaidOut DEF REQ_HEADER_SIZE
  <1> HIDE DEF m, n
  <1>5. /\ Off(k + 1) = Off(k) + Len(m)
        /\ Off(k) + Len(m) <= Len(FlattenSeq(Messages))
        /\ \A i \in 1..Len(m) : FlattenSeq(Messages)[Off(k) + i] = m[i]
    <2>1. k \in 0..(Len(Messages) - 1)
      BY <1>3
    <2> HIDE DEF Messages
    <2> QED
      BY <1>3, <2>1, UptoAt DEF Off
  <1>6. Off(k) \in Nat
    <2>1. k \in 0..Len(Messages)
      BY <1>1, <1>3
    <2> HIDE DEF Messages
    <2>2. Upto(Messages, k) \in Seq(Byte)
      BY <1>3, <2>1, UptoType
    <2> QED
      BY <2>2, LenProperties DEF Off
  <1>7. \A i \in 1..(7 + n) : Stream[Off(k) + i] = m[i]
    <2> TAKE i \in 1..(7 + n)
    <2>1. Whole[Off(k) + i] = m[i]
      BY <1>4, <1>5 DEF Whole
    <2>2. Off(k) + i \in 1..Len(Whole)
      <3>1. Off(k) + (7 + n) <= Len(Whole)
        BY <1>4, <1>5 DEF Whole
      <3>2. Len(Whole) \in Nat
        BY StreamIs
      <3>3. PICK o \in Nat, w \in Nat, d \in Nat : o = Off(k) /\ w = Len(Whole) /\ d = n
        BY <1>4, <1>6, <3>2, Zenon
      <3>4. o + (7 + d) <= w /\ i \in 1..(7 + d)
        BY <1>4, <3>1, <3>3
      <3>5. o + i \in 1..w
        BY <3>3, <3>4
      <3> QED
        BY <3>3, <3>5
    <2> QED
      BY <2>1, <2>2, StreamIs
  <1>8. /\ Stream[Off(k) + 5] = m[5] /\ Stream[Off(k) + 6] = m[6] /\ Stream[Off(k) + 7] = m[7]
    BY <1>4, <1>7
  <1>9. ASSUME NEW i \in 1..n PROVE Stream[Off(k) + 7 + i] = r.payload[i]
    <2>1. 7 + i \in 1..(7 + n) /\ Off(k) + (7 + i) = Off(k) + 7 + i
      BY <1>4, <1>6
    <2>2. Stream[Off(k) + (7 + i)] = m[7 + i]
      BY <1>7, <2>1
    <2> QED
      BY <1>4, <2>1, <2>2
  <1>10. Off(k + 1) = Off(k) + 7 + n /\ Off(k + 1) <= Len(Stream)
    <2>1. Off(k + 1) = Off(k) + 7 + n
      BY <1>4, <1>5, <1>6
    <2>2. Off(k) + (7 + n) <= Len(Whole)
      BY <1>4, <1>5 DEF Whole
    <2> QED
      BY <1>4, <1>6, <2>1, <2>2, StreamIs
  <1> QED
    BY <1>2, <1>4, <1>6, <1>8, <1>9, <1>10 DEF REQ_HEADER_SIZE, n

\* The first message begins at the beginning, and behind the last is what is
\* not finished.
LEMMA OffEnds ==
    ASSUME sent \in Seq(Requests)
    PROVE  Off(0) = 0 /\ Off(Len(sent)) = Len(Whole)
  <1>1. Messages \in Seq(Seq(Byte)) /\ Len(Messages) = Len(sent)
    BY MessagesType DEF Messages
  <1>2. Upto(Messages, 0) = <<>> /\ Upto(Messages, Len(Messages)) = FlattenSeq(Messages)
    BY <1>1, UptoEnds
  <1> QED
    BY <1>1, <1>2, EmptySeq DEF Off, Whole

\* What is sent is added behind the rest.
LEMMA SendsBehind ==
    ASSUME sent \in Seq(Requests), NEW r \in Requests, sent' = Append(sent, r)
    PROVE  /\ Len(Whole)' = Len(Whole) + Len(Bytes(r))
           /\ \A k \in 0..Len(sent) : Off(k)' = Off(k)
  <1>1. Messages \in Seq(Seq(Byte)) /\ Len(Messages) = Len(sent)
    BY MessagesType DEF Messages
  <1>2. Bytes(r) \in Seq(Byte)
    BY BytesLaidOut
  <1>3. Messages' = Append(Messages, Bytes(r))
    <2>1. BytesOf[r] = Bytes(r) /\ BytesOf' = BytesOf
      BY DEF BytesOf, Bytes
    <2>2. Image(BytesOf, Append(sent, r)) = Append(Image(BytesOf, sent), BytesOf[r])
      BY ImageAppend
    <2> QED
      BY <2>1, <2>2 DEF Messages
  <1>4. Whole' = Whole \o Bytes(r)
    <2> HIDE DEF Messages
    <2>1. FlattenSeq(Append(Messages, Bytes(r))) = FlattenSeq(Messages) \o Bytes(r)
      BY <1>1, <1>2, FlattenAppend
    <2> QED
      BY <1>3, <2>1 DEF Whole
  <1>5. Len(Whole)' = Len(Whole) + Len(Bytes(r))
    <2>1. Whole \in Seq(Byte)
      BY <1>1, FlattenType DEF Whole
    <2> HIDE DEF Whole
    <2>2. Len(Whole \o Bytes(r)) = Len(Whole) + Len(Bytes(r))
      BY <1>2, <2>1
    <2> QED
      BY <1>4, <2>2
  <1>6. ASSUME NEW k \in 0..Len(sent) PROVE Off(k)' = Off(k)
    <2> HIDE DEF Messages
    <2>1. k \in 0..Len(Messages)
      BY <1>1
    <2>2. Upto(Append(Messages, Bytes(r)), k) = Upto(Messages, k)
      BY <1>1, <1>2, <2>1, UptoStable
    <2> QED
      BY <1>3, <2>2 DEF Off, Upto
  <1> QED
    BY <1>5, <1>6

-----------------------------------------------------------------------------
(* The inductive invariant.                                                 *)

\* Until a read came back short, and while the client is served: the reader is
\* at the beginning of the request it answers next, or behind its header.  That
\* request may be the one that the client is in the middle of.
InSync ==
    ~short /\ stage # "over" =>
        /\ Len(answers) <= Len(sent)
        /\ next = "header" => taken = Off(Len(answers))
        /\ next = "payload" =>
              /\ taken = Off(Len(answers)) + REQ_HEADER_SIZE
              /\ Len(answers) < Len(sent) => req = HeaderOf(sent[Len(answers) + 1])
              /\ Len(answers) = Len(sent) => req = Header(part)

\* It waits for payloads only of clients that it serves.
HeldInPlay == next = "payload" => stage \in {"choosing", "playing"} /\ req.length # 0

IInv == TypeOK /\ InSync /\ HeldInPlay

LEMMA InvInit == Init => IInv
  <1> SUFFICES ASSUME Init PROVE IInv
    OBVIOUS
  <1>1. sent \in Seq(Requests) /\ Len(sent) = 0 /\ answers \in Seq(Answers) /\ Len(answers) = 0
    BY DEF Init
  <1>2. Off(0) = 0 /\ Len(Stream) \in Nat /\ part \in Seq(Byte) /\ part = <<>>
    <2>1. part \in Seq(Byte) /\ part = <<>>
      BY EmptySeq DEF Init
    <2> QED
      BY <1>1, <2>1, OffEnds, StreamIs
  <1>3. TypeOK
    <2>1. Len(sent) <= MaxSent
      BY <1>1, BoundsAssumption
    <2>2. arrived \in 0..Len(Stream) /\ taken \in 0..arrived
      BY <1>2 DEF Init
    <2>3. req \in [type : 0..255, context : 0..255, length : 0..255]
      BY DEF Init, NoRequest
    <2>4. part \in Seq(0..255)
      BY <1>2 DEF Byte
    <2> QED
      BY <1>1, <1>2, <2>1, <2>2, <2>3, <2>4 DEF Init, TypeOK
  <1> QED
    BY <1>1, <1>2, <1>3 DEF Init, IInv, InSync, HeldInPlay

\* What a read of n bytes returns.
LEMMA ReadIs ==
    ASSUME TypeOK, NEW n \in Nat, taken + n <= Len(Stream)
    PROVE  /\ Read(n) \in Seq(Byte) /\ Len(Read(n)) = n
           /\ \A i \in 1..n : Read(n)[i] = Stream[taken + i]
  <1>1. Stream \in Seq(Byte) /\ Len(Stream) \in Nat
    BY StreamHas
  <1>2. taken \in Nat /\ arrived \in Nat
    BY StreamHas
  <1> DEFINE a == taken + 1
             b == taken + n
             x == Stream
  <1>3. a \in Int /\ b \in Int /\ b - a + 1 = n /\ (a <= b <=> n # 0)
    BY <1>2
  <1>4. \A i \in a..b : x[i] \in Byte
    <2>1. \A i \in a..b : i \in 1..Len(Stream)
      BY <1>1, <1>2
    <2> QED
      BY <1>1, <2>1, ElementOfSeq
  <1>5. \A i \in 1..n : a + i - 1 = taken + i
    BY <1>2
  <1>6. Read(n) = SubSeq(x, a, b)
    BY DEF Read
  <1> HIDE DEF a, b, x
  <1>7. /\ SubSeq(x, a, b) \in Seq(Byte)
        /\ Len(SubSeq(x, a, b)) = IF a <= b THEN b - a + 1 ELSE 0
        /\ \A i \in 1..(b - a + 1) : SubSeq(x, a, b)[i] = x[a + i - 1]
    BY <1>3, <1>4, SubSeqProperties
  <1>8. Len(Read(n)) = n
    BY <1>3, <1>6, <1>7
  <1>9. \A i \in 1..n : Read(n)[i] = Stream[taken + i]
    BY <1>3, <1>5, <1>6, <1>7 DEF x
  <1> QED
    BY <1>6, <1>7, <1>8, <1>9

LEMMA HeaderIs ==
    ASSUME TypeOK, Buffered >= REQ_HEADER_SIZE
    PROVE  /\ taken + REQ_HEADER_SIZE <= arrived
           /\ Header(Read(REQ_HEADER_SIZE)) \in [type : Byte, context : Byte, length : Byte]
           /\ Header(Read(REQ_HEADER_SIZE)) =
                 [type |-> Stream[taken + 5], context |-> Stream[taken + 6],
                  length |-> Stream[taken + 7]]
  <1>1. Stream \in Seq(Byte) /\ Len(Stream) \in Nat
    BY StreamHas
  <1>2. taken \in Nat /\ arrived \in Nat /\ taken + 7 <= arrived /\ arrived <= Len(Stream)
    BY StreamHas DEF Buffered, REQ_HEADER_SIZE
  <1>3. \A i \in 1..7 : Read(7)[i] = Stream[taken + i]
    BY <1>2, ReadIs
  <1>4. \A i \in 1..7 : Stream[taken + i] \in Byte
    <2>1. \A i \in 1..7 : taken + i \in 1..Len(Stream)
      BY <1>1, <1>2
    <2> QED
      BY <1>1, <2>1, ElementOfSeq
  <1> HIDE DEF Read
  <1>5. /\ Read(7)[5] = Stream[taken + 5] /\ Read(7)[6] = Stream[taken + 6]
        /\ Read(7)[7] = Stream[taken + 7]
    BY <1>3
  <1>6. Stream[taken + 5] \in Byte /\ Stream[taken + 6] \in Byte /\ Stream[taken + 7] \in Byte
    BY <1>4
  <1> QED
    BY <1>2, <1>5, <1>6 DEF Header, REQ_HEADER_SIZE

\* A header's worth of bytes behind all requests that are complete: the client
\* is in the middle of the next, and so far behind its header.
LEMMA PartInSync ==
    ASSUME TypeOK, taken + REQ_HEADER_SIZE <= Len(Stream), taken = Off(Len(sent))
    PROVE  /\ Len(part) >= REQ_HEADER_SIZE
           /\ taken = Len(Stream) - Len(part)
           /\ Header(part) = [type |-> Stream[taken + 5], context |-> Stream[taken + 6],
                              length |-> Stream[taken + 7]]
  <1>1. /\ taken = Len(Whole) /\ taken \in Nat /\ Len(part) \in Nat
        /\ Len(Stream) = taken + Len(part)
        /\ \A i \in 1..Len(part) : Stream[taken + i] = part[i]
    BY StreamHas, StreamIs, OffEnds
  <1>2. Len(part) >= 7 /\ taken = Len(Stream) - Len(part)
    BY <1>1 DEF REQ_HEADER_SIZE
  <1>3. Stream[taken + 5] = part[5] /\ Stream[taken + 6] = part[6] /\ Stream[taken + 7] = part[7]
    BY <1>1, <1>2
  <1> QED
    BY <1>2, <1>3 DEF Header, REQ_HEADER_SIZE

LEMMA PartReached ==
    ASSUME TypeOK, taken = Off(Len(sent)) + REQ_HEADER_SIZE
    PROVE  Len(part) >= REQ_HEADER_SIZE /\ taken = Len(Stream) - Len(part) + REQ_HEADER_SIZE
  <1>1. /\ Len(Stream) = Len(Whole) + Len(part) /\ Len(part) \in Nat /\ Len(Whole) \in Nat
        /\ Off(Len(sent)) = Len(Whole)
        /\ taken \in Nat /\ taken <= Len(Stream)
    BY StreamHas, StreamIs, OffEnds
  <1> QED
    BY <1>1 DEF REQ_HEADER_SIZE

\* A whole header is that of the request that is answered next.
LEMMA HeaderInSync ==
    ASSUME IInv, ~short, stage # "over", next = "header", Buffered >= REQ_HEADER_SIZE
    PROVE  /\ taken = Off(Len(answers))
           /\ \/ /\ Len(answers) \in 0..(Len(sent) - 1)
                 /\ Header(Read(REQ_HEADER_SIZE)) = HeaderOf(sent[Len(answers) + 1])
              \/ /\ Len(answers) = Len(sent) /\ Len(part) >= REQ_HEADER_SIZE
                 /\ Header(Read(REQ_HEADER_SIZE)) = Header(part)
  <1> DEFINE k == Len(answers)
  <1>1. /\ k \in Nat /\ Len(sent) \in Nat /\ sent \in Seq(Requests) /\ part \in Seq(Byte)
        /\ Len(Stream) \in Nat /\ taken \in Nat /\ arrived \in Nat /\ arrived <= Len(Stream)
    BY StreamHas DEF IInv
  <1>2. k <= Len(sent) /\ taken = Off(k)
    BY DEF IInv, InSync
  <1>3. taken + REQ_HEADER_SIZE <= Len(Stream)
    BY <1>1, HeaderIs DEF IInv, REQ_HEADER_SIZE
  <1>4. Header(Read(REQ_HEADER_SIZE)) =
          [type |-> Stream[taken + 5], context |-> Stream[taken + 6], length |-> Stream[taken + 7]]
    BY HeaderIs DEF IInv
  <1>5. CASE k = Len(sent)
    BY <1>2, <1>3, <1>4, <1>5, PartInSync DEF IInv
  <1>6. CASE k # Len(sent)
    <2>1. k \in 0..(Len(sent) - 1)
      BY <1>1, <1>2, <1>6
    <2> DEFINE r == sent[k + 1]
    <2> HIDE DEF k, r
    <2>2. /\ Stream[Off(k) + 5] = r.type /\ Stream[Off(k) + 6] = r.context
          /\ Stream[Off(k) + 7] = Len(r.payload)
      BY <1>1, <2>1, MessageAt DEF r
    <2>3. Header(Read(REQ_HEADER_SIZE)) = HeaderOf(r)
      BY <1>2, <1>4, <2>2 DEF HeaderOf
    <2> QED
      BY <1>2, <2>1, <2>3 DEF k, r
  <1> QED
    BY <1>5, <1>6

\* One that announces no payload is that of a complete request.
LEMMA BareInSync ==
    ASSUME IInv, ~short, stage # "over", next = "header", Buffered >= REQ_HEADER_SIZE,
           Header(Read(REQ_HEADER_SIZE)).length = 0
    PROVE  /\ taken = Off(Len(answers)) /\ Len(answers) \in 0..(Len(sent) - 1)
           /\ Header(Read(REQ_HEADER_SIZE)) = HeaderOf(sent[Len(answers) + 1])
  <1>1. ~(Len(part) >= REQ_HEADER_SIZE /\ Header(Read(REQ_HEADER_SIZE)) = Header(part))
    BY PartIsOwed DEF IInv
  <1> QED
    BY <1>1, HeaderInSync

\* While it waits in a request that is not finished, it waits for what is missing.
LEMMA OwedInSync ==
    ASSUME IInv, ~short, next = "payload", Len(answers) = Len(sent)
    PROVE  /\ taken = Len(Stream) - Len(part) + REQ_HEADER_SIZE
           /\ req = Header(part)
           /\ taken + req.length > Len(Stream)
  <1>1. req = Header(part) /\ taken = Off(Len(sent)) + REQ_HEADER_SIZE
    BY DEF IInv, InSync, HeldInPlay
  <1>2. /\ Len(Stream) = Len(Whole) + Len(part) /\ Len(part) \in Nat /\ Len(Whole) \in Nat
        /\ Off(Len(sent)) = Len(Whole)
        /\ taken \in Nat /\ taken <= Len(Stream)
    BY StreamHas, StreamIs, OffEnds DEF IInv
  <1>3. Len(part) >= 7 /\ taken = Len(Stream) - Len(part) + 7
    BY <1>1, <1>2 DEF REQ_HEADER_SIZE
  <1>4. Header(part) \in [type : Byte, context : Byte, length : Byte]
        /\ Len(part) < 7 + Header(part).length
    BY <1>3, PartIsOwed DEF IInv, REQ_HEADER_SIZE
  <1>5. Header(part).length \in Nat
    <2>1. Header(part).length \in Byte
      BY <1>4
    <2>2. Byte \subseteq Nat
      BY DEF Byte
    <2> QED
      BY <2>1, <2>2, Zenon
  <1>6. taken + Header(part).length > Len(Stream)
    BY <1>2, <1>3, <1>4, <1>5
  <1> QED
    BY <1>1, <1>3, <1>6 DEF REQ_HEADER_SIZE

\* While it waits for the payload of a complete request, that payload is what
\* comes next in the stream.
LEMMA PayloadInSync ==
    ASSUME IInv, ~short, next = "payload", Len(answers) # Len(sent),
           NEW r, r = sent[Len(answers) + 1]
    PROVE  /\ Len(answers) \in 0..(Len(sent) - 1) /\ r \in Requests
           /\ req = HeaderOf(r) /\ req.length = Len(r.payload) /\ req.length \in Nat \ {0}
           /\ taken + req.length = Off(Len(answers) + 1)
           /\ taken + req.length <= Len(Stream)
           /\ Read(req.length) = r.payload
  <1> DEFINE k == Len(answers)
             n == Len(r.payload)
  <1>1. /\ k \in Nat /\ Len(sent) \in Nat /\ sent \in Seq(Requests) /\ part \in Seq(Byte)
        /\ TypeOK /\ req \in [type : Byte, context : Byte, length : Byte]
    BY StreamHas DEF IInv, TypeOK, Byte
  <1>2. k < Len(sent) /\ req = HeaderOf(r) /\ taken = Off(k) + REQ_HEADER_SIZE /\ req.length # 0
    <2>1. k <= Len(sent) /\ taken = Off(k) + REQ_HEADER_SIZE /\ req.length # 0
      BY DEF IInv, InSync, HeldInPlay
    <2>2. k < Len(sent)
      BY <1>1, <2>1
    <2> QED
      BY <2>1, <2>2 DEF IInv, InSync, HeldInPlay
  <1>3. k \in 0..(Len(sent) - 1)
    BY <1>1, <1>2
  <1>4. req.length = n /\ req.length \in Nat \ {0}
    <2>1. req.length = n
      BY <1>2 DEF HeaderOf
    <2>2. req.length \in Byte
      BY <1>1
    <2>3. Byte \subseteq Nat
      BY DEF Byte
    <2> QED
      BY <1>2, <2>1, <2>2, <2>3
  <1>5. /\ r \in Requests /\ Off(k) \in Nat
        /\ Off(k + 1) = Off(k) + REQ_HEADER_SIZE + n /\ Off(k + 1) <= Len(Stream)
        /\ \A i \in 1..n : Stream[Off(k) + REQ_HEADER_SIZE + i] = r.payload[i]
    <2> HIDE DEF k
    <2> QED
      BY <1>1, <1>3, MessageAt DEF k
  <1>6. taken + n = Off(k + 1) /\ taken + n <= Len(Stream) /\ n \in Nat
    BY <1>2, <1>4, <1>5 DEF REQ_HEADER_SIZE
  <1>7. Read(n) \in Seq(Byte) /\ Len(Read(n)) = n /\ \A i \in 1..n : Read(n)[i] = Stream[taken + i]
    BY <1>1, <1>6, ReadIs
  <1>8. r.payload \in Seq(Byte)
    BY <1>5, RequestType
  <1>9. Read(n) = r.payload
    <2>1. \A i \in 1..n : Read(n)[i] = r.payload[i]
      BY <1>2, <1>5, <1>7
    <2> HIDE DEF Read
    <2> QED
      BY <1>7, <1>8, <2>1, SeqEqual
  <1> QED
    BY <1>2, <1>3, <1>4, <1>5, <1>6, <1>9

\* What is read whole belongs to a complete request.
LEMMA WholeIsComplete ==
    ASSUME IInv, ~short, next = "payload", Buffered >= req.length
    PROVE  Len(answers) # Len(sent)
  <1> SUFFICES ASSUME Len(answers) = Len(sent) PROVE FALSE
    OBVIOUS
  <1>1. taken + req.length > Len(Stream)
    BY OwedInSync
  <1>2. req.length \in Nat
    <2>1. req.length \in 0..255
      BY DEF IInv, TypeOK
    <2>2. 0..255 \subseteq Nat
      OBVIOUS
    <2> QED
      BY <2>1, <2>2, Zenon
  <1> QED
    BY <1>1, <1>2, StreamHas DEF IInv, Buffered

-----------------------------------------------------------------------------
(* Every step keeps it.                                                     *)

\* Where a conclusion leaves the reader.
LEMMA Concluded ==
    ASSUME TypeOK, NEW outcome \in Answers, Conclude(outcome)
    PROVE  /\ answers' \in Seq(Answers) /\ Len(answers') = Len(answers) + 1
           /\ Len(answers) \in Nat
           /\ stage' \in {"choosing", "waiting", "playing", "over"} /\ next' = "header"
           /\ req' \in [type : 0..255, context : 0..255, length : 0..255]
  <1>1. answers \in Seq(Answers) /\ answers' = Append(answers, outcome)
    BY DEF Conclude, TypeOK
  <1>2. answers' \in Seq(Answers) /\ Len(answers') = Len(answers) + 1 /\ Len(answers) \in Nat
    BY <1>1, AppendProperties, LenProperties
  <1>3. stage' \in {"choosing", "waiting", "playing", "over"}
    BY DEF Conclude, StagesAfter, TypeOK
  <1> QED
    BY <1>2, <1>3 DEF Conclude, NoRequest

LEMMA OutcomesType ==
    ASSUME NEW r, NEW payload
    PROVE  Outcomes(r, payload) \subseteq Answers
  BY DEF Outcomes, ChoiceOutcomes, MoveOutcomes, Answers

\* Reading leaves the stream alone.
LEMMA SameStream ==
    ASSUME UNCHANGED <<sent, part>>
    PROVE  Stream' = Stream /\ Messages' = Messages /\ \A k : Off(k)' = Off(k)
  <1>1. Stream' = Stream
    BY DEF Stream
  <1>2. Messages' = Messages
    BY DEF Messages, Image, BytesOf
  <1> QED
    BY <1>1, <1>2 DEF Off, Upto

\* What the client adds behind the stream leaves the reader where it is, in the
\* request it is in.
LEMMA GrowsKeeps ==
    ASSUME IInv, UNCHANGED <<closed, arrived, readerVars>>,
           sent' \in Seq(Requests), Len(sent') <= MaxSent, Len(sent) <= Len(sent'),
           part' \in Seq(0..255),
           part' # <<>> => \E r \in Requests : IsStrictPrefix(part', Bytes(r)),
           Len(Stream') \in Nat, Len(Stream) <= Len(Stream'),
           \A k \in 0..Len(sent) : Off(k)' = Off(k),
           \A i \in 1..Len(sent) : sent'[i] = sent[i],
           Len(part) >= REQ_HEADER_SIZE =>
              IF Len(sent') = Len(sent) THEN Header(part') = Header(part)
              ELSE HeaderOf(sent'[Len(sent) + 1]) = Header(part)
    PROVE  IInv'
  <1>1. /\ taken' = taken /\ stage' = stage /\ next' = next /\ req' = req
        /\ answers' = answers /\ short' = short /\ closed' = closed /\ arrived' = arrived
    BY DEF readerVars
  <1>2. /\ Len(sent) \in Nat /\ Len(sent') \in Nat /\ Len(answers) \in Nat
        /\ Len(Stream) \in Nat /\ arrived \in Nat /\ arrived <= Len(Stream)
    BY StreamHas, LenProperties DEF IInv
  <1>3. TypeOK'
    <2>1. arrived' \in 0..Len(Stream')
      BY <1>1, <1>2
    <2> QED
      BY <1>1, <2>1 DEF IInv, TypeOK
  <1>4. InSync'
    <2> SUFFICES ASSUME ~short, stage # "over" PROVE InSync'
      BY <1>1 DEF InSync
    <2>1. PICK k \in 0..Len(sent) : k = Len(answers)
      BY <1>2 DEF IInv, InSync
    <2>2. Off(Len(answers))' = Off(k)
      <3>1. Off(Len(answers))' = Off(k)'
        BY <1>1, <2>1 DEF Off, Upto
      <3>2. Off(k)' = Off(k)
        BY <2>1
      <3> QED
        BY <3>1, <3>2
    <2>3. Len(answers)' <= Len(sent)'
      BY <1>1, <1>2, <2>1
    <2>4. next' = "header" => taken' = Off(Len(answers))'
      BY <1>1, <2>1, <2>2 DEF IInv, InSync
    <2>5. ASSUME next' = "payload"
          PROVE  /\ taken' = Off(Len(answers))' + REQ_HEADER_SIZE
                 /\ Len(answers)' < Len(sent)' => req' = HeaderOf(sent'[Len(answers)' + 1])
                 /\ Len(answers)' = Len(sent)' => req' = Header(part')
      <3>1. taken = Off(k) + REQ_HEADER_SIZE
        BY <1>1, <2>1, <2>5 DEF IInv, InSync
      <3>2. CASE k < Len(sent)
        <4>1. req = HeaderOf(sent[k + 1])
          BY <1>1, <2>1, <2>5, <3>2 DEF IInv, InSync
        <4>2. k + 1 \in 1..Len(sent) /\ ~(k = Len(sent'))
          BY <1>2, <3>2
        <4>3. sent'[k + 1] = sent[k + 1]
          BY <4>2
        <4> QED
          BY <1>1, <2>1, <2>2, <3>1, <4>1, <4>2, <4>3
      <3>3. CASE k = Len(sent)
        <4>1. req = Header(part) /\ taken = Off(Len(sent)) + REQ_HEADER_SIZE
          BY <1>1, <2>1, <2>5, <3>1, <3>3 DEF IInv, InSync
        <4>2. Len(part) >= REQ_HEADER_SIZE
          BY <4>1, PartReached DEF IInv
        <4> QED
          BY <1>1, <1>2, <2>1, <2>2, <3>1, <3>3, <4>1, <4>2
      <3> QED
        BY <1>2, <2>1, <3>2, <3>3
    <2> QED
      BY <2>3, <2>4, <2>5 DEF InSync, HeaderOf
  <1>5. HeldInPlay'
    BY <1>1 DEF IInv, HeldInPlay
  <1> QED
    BY <1>3, <1>4, <1>5 DEF IInv

\* A request that was begun is completed, or one is sent at once.
LEMMA SendKeeps ==
    ASSUME IInv, NEW r \in Requests, Send(r)
    PROVE  IInv'
  <1>1. /\ sent \in Seq(Requests) /\ part \in Seq(Byte) /\ IsPrefix(part, Bytes(r))
        /\ sent' = Append(sent, r) /\ part' = <<>> /\ UNCHANGED <<closed, arrived, readerVars>>
        /\ Len(sent) < MaxSent
    BY StreamHas DEF Send, Sending, IInv
  <1>2. /\ sent' \in Seq(Requests) /\ Len(sent') = Len(sent) + 1 /\ Len(sent) \in Nat
        /\ sent'[Len(sent) + 1] = r
        /\ \A i \in 1..Len(sent) : sent'[i] = sent[i]
    BY <1>1, AppendProperties, LenProperties
  <1>3. Len(Whole') = Len(Whole) + Len(Bytes(r)) /\ \A k \in 0..Len(sent) : Off(k)' = Off(k)
    BY <1>1, SendsBehind
  <1>4. /\ Len(part) \in Nat /\ Len(part) <= Len(Bytes(r))
        /\ \A i \in 1..Len(part) : part[i] = Bytes(r)[i]
    BY <1>1, PrefixOfBytes
  <1>5. Len(Stream') \in Nat /\ Len(Stream) <= Len(Stream')
    <2>1. /\ Len(Stream) = Len(Whole) + Len(part) /\ Len(Whole) \in Nat
      BY <1>1, StreamIs
    <2>2. part' \in Seq(Byte) /\ Len(part') = 0
      BY <1>1, EmptySeq
    <2>3. Len(Stream') = Len(Whole') + Len(part') /\ Len(Stream') \in Nat
      BY <1>2, <2>2, StreamIsNext
    <2>4. Len(Bytes(r)) \in Nat
      BY BytesLaidOut, LenProperties
    <2> QED
      BY <1>3, <1>4, <2>1, <2>2, <2>3, <2>4
  <1>6. ASSUME Len(part) >= REQ_HEADER_SIZE
        PROVE  HeaderOf(sent'[Len(sent) + 1]) = Header(part)
    <2>1. part[5] = Bytes(r)[5] /\ part[6] = Bytes(r)[6] /\ part[7] = Bytes(r)[7]
      BY <1>4, <1>6 DEF REQ_HEADER_SIZE
    <2> QED
      BY <1>2, <2>1, BytesLaidOut DEF HeaderOf, Header
  <1>7. part' \in Seq(0..255)
    BY <1>1, EmptySeq
  <1>8. Len(sent') <= MaxSent /\ Len(sent) <= Len(sent') /\ Len(sent') # Len(sent)
    BY <1>1, <1>2, BoundsAssumption
  <1> QED
    BY <1>1, <1>2, <1>3, <1>5, <1>6, <1>7, <1>8, GrowsKeeps

\* A request is begun, or gone on with.
LEMMA SendPartKeeps ==
    ASSUME IInv, NEW r \in Requests, SendPart(r)
    PROVE  IInv'
  <1>1. /\ sent \in Seq(Requests) /\ part \in Seq(Byte) /\ IsPrefix(part, Bytes(r))
        /\ UNCHANGED <<sent, closed, arrived, readerVars>>
    BY StreamHas DEF SendPart, Sending, IInv
  <1> DEFINE m == Bytes(r)
             q == part'
  <1>2. PICK n \in Nat \ {0} : Len(part) < n /\ n < Len(m) /\ q = SubSeq(m, 1, n)
    BY PausesAssumption DEF SendPart
  <1>3. /\ Len(part) \in Nat /\ Len(part) <= Len(m)
        /\ \A i \in 1..Len(part) : part[i] = m[i]
    BY <1>1, PrefixOfBytes
  <1>4. m \in Seq(Byte) /\ Len(m) \in Nat
    BY BytesLaidOut, LenProperties
  <1>5. q \in Seq(Byte) /\ Len(q) = n /\ \A i \in 1..n : q[i] = m[i]
    <2> HIDE DEF m, q
    <2>1. \A i \in 1..n : m[i] \in Byte
      BY <1>2, <1>4, ElementOfSeq
    <2>2. /\ SubSeq(m, 1, n) \in Seq(Byte)
          /\ Len(SubSeq(m, 1, n)) = IF 1 <= n THEN n - 1 + 1 ELSE 0
          /\ \A i \in 1..(n - 1 + 1) : SubSeq(m, 1, n)[i] = m[1 + i - 1]
      BY <2>1, SubSeqProperties
    <2>3. 1 <= n /\ n - 1 + 1 = n /\ \A i \in 1..n : 1 + i - 1 = i
      OBVIOUS
    <2> QED
      BY <1>2, <2>2, <2>3
  <1>6. IsStrictPrefix(q, m)
    <2> HIDE DEF m, q
    <2>1. SubSeq(q, 1, Len(q)) = q
      BY <1>5, SubSeqFull
    <2>2. Len(q) <= Len(m) /\ q # m
      BY <1>2, <1>4, <1>5
    <2> QED
      BY <1>2, <1>5, <2>1, <2>2 DEF IsPrefix, IsStrictPrefix
  <1>7. Len(Stream') \in Nat /\ Len(Stream) <= Len(Stream')
    <2>1. /\ Len(Stream) = Len(Whole) + Len(part) /\ Len(Whole) \in Nat
      BY <1>1, StreamIs
    <2>2. Len(Stream') = Len(Whole') + Len(part') /\ Len(Stream') \in Nat
      BY <1>1, <1>5, StreamIsNext
    <2>3. Whole' = Whole
      BY <1>1 DEF Whole, Messages, Image, BytesOf
    <2> QED
      BY <1>2, <1>3, <1>5, <2>1, <2>2, <2>3
  <1>8. ASSUME Len(part) >= REQ_HEADER_SIZE
        PROVE  Header(part') = Header(part)
    <2>1. part[5] = q[5] /\ part[6] = q[6] /\ part[7] = q[7]
      <3> HIDE DEF m, q
      <3> QED
        BY <1>2, <1>3, <1>5, <1>8 DEF REQ_HEADER_SIZE
    <2> QED
      BY <2>1 DEF Header
  <1>9. \A k : Off(k)' = Off(k)
    BY <1>1 DEF Off, Upto, Messages, Image, BytesOf
  <1>10. Len(sent) <= MaxSent /\ Len(sent) \in Nat
    BY LenProperties DEF IInv, TypeOK
  <1>11. part' \in Seq(0..255)
    BY <1>5 DEF Byte
  <1> HIDE DEF m
  <1>12. part' # <<>> => \E x \in Requests : IsStrictPrefix(part', Bytes(x))
    BY <1>6 DEF m
  <1> QED
    BY <1>1, <1>7, <1>8, <1>9, <1>10, <1>11, <1>12, GrowsKeeps

\* An answer after a read that was not short.
LEMMA AnswerKeeps ==
    ASSUME IInv, UNCHANGED <<clientVars, arrived, short>>,
           NEW outcome \in Answers, Conclude(outcome),
           taken' \in 0..arrived,
           ~short /\ stage' # "over" => Len(answers) < Len(sent) /\ taken' = Off(Len(answers) + 1)
    PROVE  IInv'
  <1>1. /\ Len(answers') = Len(answers) + 1 /\ Len(answers) \in Nat /\ next' = "header"
        /\ answers' \in Seq(Answers)
        /\ stage' \in {"choosing", "waiting", "playing", "over"}
        /\ req' \in [type : 0..255, context : 0..255, length : 0..255]
    BY Concluded DEF IInv
  <1>2. Stream' = Stream /\ \A k : Off(k)' = Off(k)
    BY SameStream DEF clientVars
  <1>3. TypeOK'
    BY <1>1, <1>2 DEF IInv, TypeOK, clientVars
  <1>4. InSync'
    <2>1. Off(Len(answers))' = Off(Len(answers) + 1)
      <3>1. PICK n : n = Len(answers')
        OBVIOUS
      <3>2. Off(Len(answers))' = Off(n)'
        BY <3>1 DEF Off, Upto
      <3>3. Off(n)' = Off(n) /\ n = Len(answers) + 1
        BY <1>1, <1>2, <3>1
      <3> QED
        BY <3>2, <3>3
    <2>2. Len(sent) \in Nat
      BY LenProperties DEF IInv, TypeOK
    <2>3. ASSUME ~short', stage' # "over"
          PROVE  Len(answers') <= Len(sent') /\ taken' = Off(Len(answers) + 1)
      BY <1>1, <2>2, <2>3 DEF clientVars
    <2> QED
      BY <1>1, <2>1, <2>3 DEF InSync
  <1>5. HeldInPlay'
    BY <1>1 DEF HeldInPlay
  <1> QED
    BY <1>3, <1>4, <1>5 DEF IInv

LEMMA ShortReadKeeps ==
    ASSUME IInv, ReadShortHeader \/ ReadShortPayload
    PROVE  IInv'
  <1>1. /\ Conclude("insufficient") /\ "insufficient" \in Answers /\ taken' = arrived /\ short' = TRUE
        /\ UNCHANGED <<clientVars, arrived>>
    BY DEF ReadShortHeader, ReadShortPayload, Answers
  <1>2. /\ next' = "header" /\ answers' \in Seq(Answers)
        /\ stage' \in {"choosing", "waiting", "playing", "over"}
        /\ req' \in [type : 0..255, context : 0..255, length : 0..255]
    BY <1>1, Concluded DEF IInv
  <1>3. Stream' = Stream /\ Len(Stream) \in Nat
    BY <1>1, SameStream, StreamHas DEF clientVars, IInv
  <1>4. TypeOK'
    BY <1>1, <1>2, <1>3 DEF IInv, TypeOK, clientVars
  <1> QED
    BY <1>1, <1>2, <1>4 DEF IInv, InSync, HeldInPlay

LEMMA HeaderKeeps ==
    ASSUME IInv, ReadHeader
    PROVE  IInv'
  <1> DEFINE h == Header(Read(REQ_HEADER_SIZE))
  <1>1. /\ Buffered >= REQ_HEADER_SIZE /\ next = "header" /\ stage \in {"choosing", "playing"}
        /\ taken' = taken + REQ_HEADER_SIZE /\ req' = h /\ h.length # 0 /\ next' = "payload"
        /\ UNCHANGED <<clientVars, arrived, short, stage, answers>>
    BY DEF ReadHeader, ReadsHeader, Reading
  <1>2. /\ taken + REQ_HEADER_SIZE <= arrived
        /\ h \in [type : Byte, context : Byte, length : Byte]
    BY <1>1, HeaderIs DEF IInv
  <1>3. Stream' = Stream /\ \A k : Off(k)' = Off(k)
    BY <1>1, SameStream DEF clientVars
  <1>4. TypeOK'
    <2>1. taken \in Nat /\ arrived \in Nat /\ Len(Stream) \in Nat
      BY StreamHas DEF IInv
    <2>2. taken' \in 0..arrived'
      BY <1>1, <1>2, <2>1 DEF REQ_HEADER_SIZE
    <2> HIDE DEF h
    <2> QED
      BY <1>1, <1>2, <1>3, <2>2 DEF IInv, TypeOK, clientVars, Byte
  <1>5. InSync'
    <2> SUFFICES ASSUME ~short PROVE InSync'
      BY <1>1 DEF InSync
    <2>1. taken = Off(Len(answers)) /\ Len(answers) <= Len(sent)
      BY <1>1, HeaderInSync DEF IInv, InSync
    <2>2. Len(sent) \in Nat
      BY StreamHas DEF IInv
    <2>3. Off(Len(answers))' = Off(Len(answers))
      BY <1>1, <1>3 DEF Off
    <2>4. /\ Len(answers) < Len(sent) => h = HeaderOf(sent[Len(answers) + 1])
          /\ Len(answers) = Len(sent) => h = Header(part)
      <3>1. \/ Len(answers) \in 0..(Len(sent) - 1) /\ h = HeaderOf(sent[Len(answers) + 1])
            \/ Len(answers) = Len(sent) /\ h = Header(part)
        BY <1>1, HeaderInSync
      <3> HIDE DEF h
      <3> QED
        BY <2>2, <3>1
    <2> HIDE DEF h
    <2> QED
      BY <1>1, <2>1, <2>3, <2>4 DEF InSync, clientVars, HeaderOf, Header
  <1>6. HeldInPlay'
    BY <1>1 DEF HeldInPlay
  <1> QED
    BY <1>4, <1>5, <1>6 DEF IInv

LEMMA BareRequestKeeps ==
    ASSUME IInv, ReadBareRequest
    PROVE  IInv'
  <1> DEFINE h == Header(Read(REQ_HEADER_SIZE))
             k == Len(answers)
  <1>1. /\ Buffered >= REQ_HEADER_SIZE /\ next = "header" /\ stage \in {"choosing", "playing"}
        /\ taken' = taken + REQ_HEADER_SIZE /\ h.length = 0
        /\ UNCHANGED <<clientVars, arrived, short>>
    BY DEF ReadBareRequest, ReadsHeader, Reading
  <1>2. PICK outcome \in Answers : Conclude(outcome)
    BY OutcomesType DEF ReadBareRequest
  <1>3. taken' \in 0..arrived
    <2>1. taken \in Nat /\ arrived \in Nat /\ Len(Stream) \in Nat
      BY StreamHas DEF IInv
    <2>2. taken + REQ_HEADER_SIZE <= arrived
      BY <1>1, HeaderIs DEF IInv
    <2> QED
      BY <1>1, <2>1, <2>2 DEF REQ_HEADER_SIZE
  <1>4. ASSUME ~short PROVE k < Len(sent) /\ taken' = Off(k + 1)
    <2> DEFINE r == sent[k + 1]
    <2>1. k \in 0..(Len(sent) - 1) /\ taken = Off(k) /\ h = HeaderOf(r)
      BY <1>1, <1>4, BareInSync
    <2>2. Len(sent) \in Nat /\ sent \in Seq(Requests) /\ part \in Seq(Byte)
      BY StreamHas DEF IInv
    <2>3. Len(r.payload) = 0
      BY <1>1, <2>1 DEF HeaderOf
    <2>4. Off(k + 1) = Off(k) + REQ_HEADER_SIZE + Len(r.payload) /\ Off(k) \in Nat
      <3> HIDE DEF k
      <3> QED
        BY <2>1, <2>2, MessageAt
    <2>5. Off(k + 1) = Off(k) + REQ_HEADER_SIZE
      BY <2>3, <2>4 DEF REQ_HEADER_SIZE
    <2> QED
      BY <1>1, <2>1, <2>2, <2>5
  <1> QED
    BY <1>1, <1>2, <1>3, <1>4, AnswerKeeps

LEMMA PayloadKeeps ==
    ASSUME IInv, ReadPayload
    PROVE  IInv'
  <1>1. /\ next = "payload" /\ stage \in {"choosing", "playing"}
        /\ Buffered >= req.length /\ taken' = taken + req.length
        /\ UNCHANGED <<clientVars, arrived, short>>
    BY DEF ReadPayload, Reading
  <1>2. PICK outcome \in Answers : Conclude(outcome)
    BY OutcomesType DEF ReadPayload
  <1>3. taken' \in 0..arrived
    <2>1. req.length \in 0..255
      BY DEF IInv, TypeOK
    <2>2. taken \in Nat /\ arrived \in Nat
      BY StreamHas DEF IInv
    <2> QED
      BY <1>1, <2>1, <2>2 DEF Buffered
  <1>4. ASSUME ~short PROVE Len(answers) < Len(sent) /\ taken' = Off(Len(answers) + 1)
    <2>1. Len(answers) \in 0..(Len(sent) - 1) /\ taken + req.length = Off(Len(answers) + 1)
      BY <1>1, <1>4, WholeIsComplete, PayloadInSync
    <2>2. Len(sent) \in Nat
      BY StreamHas DEF IInv
    <2> QED
      BY <1>1, <2>1, <2>2
  <1> QED
    BY <1>1, <1>2, <1>3, <1>4, AnswerKeeps

LEMMA EndOfFileKeeps ==
    ASSUME IInv, ReadEndOfFile
    PROVE  IInv'
  <1>1. /\ Conclude("disconnected") /\ "disconnected" \in Answers
        /\ UNCHANGED <<clientVars, arrived, taken, short>>
    BY DEF ReadEndOfFile, Answers
  <1>2. stage' = "over"
    BY <1>1 DEF Conclude, StagesAfter
  <1>3. taken' \in 0..arrived
    BY <1>1 DEF IInv, TypeOK
  <1> QED
    BY <1>1, <1>2, <1>3, AnswerKeeps

\* Steps of the others.
LEMMA OthersKeep ==
    ASSUME IInv, Close \/ Deliver \/ StartGame \/ EndGame \/ UNCHANGED vars
    PROVE  IInv'
  <1>1. UNCHANGED <<sent, part, taken, next, req, answers, short>>
    BY DEF Close, Deliver, StartGame, EndGame, vars, clientVars, readerVars
  <1>2. Stream' = Stream /\ (\A k : Off(k)' = Off(k)) /\ Off(Len(answers))' = Off(Len(answers))
    BY <1>1, SameStream DEF Off
  <1>3. Len(Stream) \in Nat
    BY StreamHas DEF IInv
  <1>4. arrived' \in 0..Len(Stream) /\ arrived' >= arrived /\ taken \in 0..arrived'
    BY <1>3 DEF Close, Deliver, StartGame, EndGame, vars, clientVars, readerVars, IInv, TypeOK
  <1>5. closed' \in BOOLEAN /\ stage' \in {"choosing", "waiting", "playing", "over"}
    BY DEF Close, Deliver, StartGame, EndGame, vars, clientVars, readerVars, IInv, TypeOK
  <1>6. TypeOK'
    BY <1>1, <1>2, <1>4, <1>5 DEF IInv, TypeOK
  <1>7. /\ stage' # "over" => stage # "over"
        /\ next = "payload" => stage' = stage
    BY DEF Close, Deliver, StartGame, EndGame, Reading, vars, clientVars, readerVars,
           IInv, HeldInPlay
  <1>8. InSync'
    BY <1>1, <1>2, <1>7 DEF IInv, InSync, HeaderOf, Header
  <1>9. HeldInPlay'
    BY <1>1, <1>7 DEF IInv, HeldInPlay
  <1> QED
    BY <1>6, <1>8, <1>9 DEF IInv

LEMMA InvStep == IInv /\ [Next]_vars => IInv'
  BY SendKeeps, SendPartKeeps, ShortReadKeeps, HeaderKeeps, BareRequestKeeps, PayloadKeeps, EndOfFileKeeps,
     OthersKeep DEF Next, Reader

THEOREM Invariance == Spec => []IInv
  BY InvInit, InvStep, PTL DEF Spec

\* The reader never runs past what has arrived, nor what has arrived past what
\* was sent, and a Request always holds three bytes.
THEOREM TypeCorrect == Spec => []TypeOK
  <1>1. IInv => TypeOK
    BY DEF IInv
  <1> QED
    BY Invariance, <1>1, PTL

\* Until a read comes back short, the thread that serves all games is held only
\* for bytes on their way, or by a client that stopped in the middle of a request,
\* for what that client announced: never for a byte that was miscounted.
THEOREM HeldOnlyForItsRest == Spec => []HeldForItsRest
  <1>1. ASSUME IInv, next = "payload", ~short
        PROVE  \/ taken + req.length <= Len(Stream)
               \/ /\ Len(answers) = Len(sent)
                  /\ taken = Len(Stream) - Len(part) + REQ_HEADER_SIZE
                  /\ req = Header(part)
    <2>1. CASE Len(answers) = Len(sent)
      BY <1>1, <2>1, OwedInSync
    <2>2. CASE Len(answers) # Len(sent)
      BY <1>1, <2>2, PayloadInSync
    <2> QED
      BY <2>1, <2>2
  <1>2. IInv => HeldForItsRest
    BY <1>1 DEF HeldForItsRest
  <1> QED
    BY Invariance, <1>2, PTL
-----------------------------------------------------------------------------
(* The refinement.                                                          *)

\* The bit masks: what passes validate_field.
LEMMA Masks ==
    ASSUME NEW n \in Byte
    PROVE  /\ IsValid(n, {1}) <=> n <= 1
           /\ IsValid(n, {4, 3}) <=> n <= 7
  <1> DEFINE b(m) == (n \div m) % 2 = 1
  <1>1. /\ Has(1, 1) /\ ~Has(1, 2) /\ ~Has(1, 4) /\ ~Has(1, 8)
        /\ ~Has(1, 16) /\ ~Has(1, 32) /\ ~Has(1, 64) /\ ~Has(1, 128)
    BY DEF Has
  <1>2. /\ Has(3, 1) /\ Has(3, 2) /\ ~Has(3, 4) /\ Has(4, 4) /\ ~Has(3, 8) /\ ~Has(4, 8)
        /\ ~Has(3, 16) /\ ~Has(3, 32) /\ ~Has(3, 64) /\ ~Has(3, 128)
        /\ ~Has(4, 16) /\ ~Has(4, 32) /\ ~Has(4, 64) /\ ~Has(4, 128)
    BY DEF Has
  <1>3. n <= 1 <=> /\ ~Has(n, 2) /\ ~Has(n, 4) /\ ~Has(n, 8) /\ ~Has(n, 16)
                   /\ ~Has(n, 32) /\ ~Has(n, 64) /\ ~Has(n, 128)
    BY DEF Has, Byte
  <1>4. n <= 7 <=> ~Has(n, 8) /\ ~Has(n, 16) /\ ~Has(n, 32) /\ ~Has(n, 64) /\ ~Has(n, 128)
    BY DEF Has, Byte
  <1> HIDE DEF Has
  <1>5. IsValid(n, {1}) <=> n <= 1
    BY <1>1, <1>3 DEF IsValid, Bits
  <1>6. IsValid(n, {4, 3}) <=> n <= 7
    BY <1>2, <1>4 DEF IsValid, Bits
  <1> QED
    BY <1>5, <1>6

\* A choice of a game is judged as promised.
LEMMA ChoiceJudged ==
    ASSUME NEW r \in Requests
    PROVE  ChoiceOutcomes(HeaderOf(r), r.payload) \subseteq Promise!AnswersToChoice(r)
  <1> DEFINE h == HeaderOf(r)
  <1>1. /\ r.type \in Byte /\ r.context \in Byte /\ Len(r.payload) \in Byte
        /\ h.type = r.type /\ h.context = r.context /\ h.length = Len(r.payload)
    BY RequestType DEF HeaderOf
  <1>2. /\ IsValid(r.type, {REQ_CONFIRMATION}) <=> r.type <= 1
        /\ IsValid(r.context, {CONF_RULESET}) <=> r.context <= 1
    BY <1>1, Masks DEF REQ_CONFIRMATION, CONF_RULESET
  <1>3. IsOnOffer(r.payload[2]) = IF r.payload[2] \in {1, 2} THEN {TRUE} ELSE {TRUE, FALSE}
    BY DEF IsOnOffer, games_available
  <1>4. GPROT_PAYLOAD_GAME_INDEX + 1 = 2
    BY DEF GPROT_PAYLOAD_GAME_INDEX
  <1> HIDE DEF h
  <1>5. CASE r.type <= 1 /\ r.context <= 1 /\ Len(r.payload) = 2
    <2>1. ChoiceOutcomes(h, r.payload) =
              {IF found THEN "chosen" ELSE "refused" : found \in IsOnOffer(r.payload[2])}
      BY <1>1, <1>2, <1>4, <1>5 DEF ChoiceOutcomes, GAME_CHOICE
    <2>2. ~(r.type > 1 \/ r.context > 1 \/ Len(r.payload) # 2)
      BY <1>1, <1>5 DEF Byte
    <2>3. Promise!AnswersToChoice(r) =
              IF r.payload[2] \in {1, 2} THEN {"chosen"} ELSE {"refused", "chosen"}
      BY <2>2 DEF Promise!AnswersToChoice, Promise!GamesOnOffer
    <2> QED
      BY <1>3, <2>1, <2>3 DEF h
  <1>6. CASE ~(r.type <= 1 /\ r.context <= 1 /\ Len(r.payload) = 2)
    <2>1. ChoiceOutcomes(h, r.payload) = {"refused"}
      BY <1>1, <1>2, <1>6 DEF ChoiceOutcomes, GAME_CHOICE
    <2>2. /\ r.type <= 1 \/ r.type > 1
          /\ r.context <= 1 \/ r.context > 1
      <3>1. \A n \in Byte : n <= 1 \/ n > 1
        BY DEF Byte
      <3> QED
        BY <1>1, <3>1, Zenon
    <2>3. r.type > 1 \/ r.context > 1 \/ Len(r.payload) # 2
      BY <1>6, <2>2, Zenon
    <2> QED
      BY <2>1, <2>3 DEF Promise!AnswersToChoice, h
  <1> QED
    BY <1>5, <1>6

\* And so is what comes in a game.
LEMMA MoveJudged ==
    ASSUME NEW r \in Requests
    PROVE  MoveOutcomes(HeaderOf(r), r.payload) \subseteq Promise!AnswersToMove(r)
  <1> DEFINE h == HeaderOf(r)
  <1>1. r.type \in Byte /\ r.context \in Byte /\ h.type = r.type /\ h.context = r.context
    BY RequestType DEF HeaderOf
  <1>2. /\ IsValid(r.type, {REQ_ACTION, REQ_META}) <=> r.type <= 7
        /\ IsValid(r.context, {ACT_MAKE_MOVE, META_QUIT}) <=> r.context <= 1
    BY <1>1, Masks DEF REQ_ACTION, REQ_META, ACT_MAKE_MOVE, META_QUIT
  <1>3. /\ IsRightUid(h) = IF r.context = 1 THEN {TRUE} ELSE {TRUE, FALSE}
        /\ IsQuit(h) <=> r.type = 3 /\ r.context = 1
    BY <1>1 DEF IsRightUid, IsQuit, META_QUIT, REQ_META
  <1> HIDE DEF h
  <1>4. CASE r.type <= 7 /\ r.context <= 1
    <2>1. MoveOutcomes(h, r.payload) =
              {IF ~right THEN "refused"
               ELSE IF IsQuit(h) THEN "quit"
               ELSE IF r.payload = <<>> THEN "crash"
               ELSE "move" : right \in IsRightUid(h)}
      BY <1>1, <1>2, <1>4 DEF MoveOutcomes
    <2>2. ~(r.type > 7 \/ r.context > 1)
      BY <1>1, <1>4 DEF Byte
    <2> QED
      BY <1>3, <2>1, <2>2 DEF Promise!AnswersToMove, h
  <1>5. CASE ~(r.type <= 7 /\ r.context <= 1)
    <2>1. MoveOutcomes(h, r.payload) = {"refused"}
      BY <1>1, <1>2, <1>5 DEF MoveOutcomes
    <2>2. r.type > 7 \/ r.context > 1
      BY <1>1, <1>5 DEF Byte
    <2> QED
      BY <2>1, <2>2 DEF Promise!AnswersToMove, h
  <1> QED
    BY <1>4, <1>5

\* A conclusion is an answer given.
LEMMA Given ==
    ASSUME UNCHANGED clientVars, NEW outcome \in Answers, Conclude(outcome)
    PROVE  Promise!Give(outcome)
  <1>1. /\ answers' = Append(answers, outcome) /\ stage' \in StagesAfter(outcome)
        /\ UNCHANGED <<sent, closed>>
    BY DEF Conclude, clientVars
  <1>2. (IF stage' = "waiting" THEN "playing" ELSE stage') \in Promise!Following(outcome)
    BY <1>1 DEF StagesAfter, Answers, Promise!Following
  <1> QED
    BY <1>1, <1>2 DEF Promise!Give

\* The request in turn is answered by what it says.
LEMMA AnswersInTurn ==
    ASSUME UNCHANGED <<clientVars, short>>, ~short, stage \in {"choosing", "playing"},
           Len(answers) < Len(sent), sent[Len(answers) + 1] \in Requests,
           NEW r, r = sent[Len(answers) + 1],
           NEW outcome \in Outcomes(HeaderOf(r), r.payload), Conclude(outcome)
    PROVE  Promise!Answer
  <1>1. outcome \in Answers
    BY OutcomesType
  <1>2. Promise!Give(outcome)
    BY <1>1, Given
  <1>3. outcome \in Promise!AnswersTo(r)
    <2>1. CASE stage = "choosing"
      <3>1. outcome \in ChoiceOutcomes(HeaderOf(r), r.payload)
        BY <2>1 DEF Outcomes
      <3> QED
        BY <2>1, <3>1, ChoiceJudged DEF Promise!AnswersTo
    <2>2. CASE stage = "playing"
      <3>1. outcome \in MoveOutcomes(HeaderOf(r), r.payload)
        BY <2>2 DEF Outcomes
      <3> QED
        BY <2>2, <3>1, MoveJudged DEF Promise!AnswersTo
    <2> QED
      BY <2>1, <2>2
  <1> QED
    BY <1>2, <1>3 DEF Promise!Answer

\* After a short read any answer is a stray one.
LEMMA Rambles ==
    ASSUME UNCHANGED <<clientVars, short>>, short, stage # "over",
           NEW outcome \in Answers, Conclude(outcome)
    PROVE  Promise!Ramble
  <1>1. Promise!Give(outcome)
    BY Given
  <1>2. outcome \in Promise!Answers
    BY DEF Answers, Promise!Answers
  <1> QED
    BY <1>1, <1>2 DEF Promise!Ramble

LEMMA ShortReadRefines ==
    ASSUME IInv, ReadShortHeader \/ ReadShortPayload
    PROVE  Promise!StreamNext
  <1>1. /\ Conclude("insufficient") /\ "insufficient" \in Answers /\ short' = TRUE
        /\ UNCHANGED clientVars /\ stage \in {"choosing", "playing"}
    BY DEF ReadShortHeader, ReadShortPayload, Answers, Reading
  <1>2. Promise!Give("insufficient")
    BY <1>1, Given
  <1>3. CASE short
    BY <1>1, <1>3, Rambles DEF Promise!StreamNext
  <1>4. CASE ~short
    BY <1>1, <1>2, <1>4 DEF Promise!Break, Promise!StreamNext
  <1> QED
    BY <1>3, <1>4

LEMMA BareRequestRefines ==
    ASSUME IInv, ReadBareRequest
    PROVE  Promise!StreamNext
  <1> DEFINE h == Header(Read(REQ_HEADER_SIZE))
             r == sent[Len(answers) + 1]
  <1>1. /\ next = "header" /\ stage \in {"choosing", "playing"} /\ Buffered >= REQ_HEADER_SIZE
        /\ h.length = 0 /\ UNCHANGED <<clientVars, short>>
    BY DEF ReadBareRequest, ReadsHeader, Reading
  <1>2. PICK outcome \in Outcomes(h, <<>>) : Conclude(outcome)
    BY DEF ReadBareRequest
  <1>3. outcome \in Answers
    BY OutcomesType
  <1>4. CASE short
    BY <1>1, <1>2, <1>3, <1>4, Rambles DEF Promise!StreamNext
  <1>5. CASE ~short
    <2>1. Len(answers) \in 0..(Len(sent) - 1) /\ h = HeaderOf(r)
      BY <1>1, <1>5, BareInSync
    <2>2. Len(sent) \in Nat /\ sent \in Seq(Requests)
      BY LenProperties DEF IInv, TypeOK
    <2>3. Len(answers) < Len(sent) /\ r \in Requests
      BY <2>1, <2>2, ElementOfSeq
    <2>4. Len(r.payload) = 0
      BY <1>1, <2>1 DEF HeaderOf
    <2>5. r.payload = <<>>
      BY <2>3, <2>4, RequestType, EmptySeq
    <2> HIDE DEF h, r
    <2>6. outcome \in Outcomes(HeaderOf(r), r.payload)
      BY <1>2, <2>1, <2>5
    <2>7. Promise!Answer
      BY <1>1, <1>2, <1>5, <2>3, <2>6, AnswersInTurn DEF r
    <2> QED
      BY <2>7 DEF Promise!StreamNext
  <1> QED
    BY <1>4, <1>5

LEMMA PayloadRefines ==
    ASSUME IInv, ReadPayload
    PROVE  Promise!StreamNext
  <1> DEFINE r == sent[Len(answers) + 1]
  <1>1. /\ next = "payload" /\ stage \in {"choosing", "playing"} /\ UNCHANGED <<clientVars, short>>
        /\ Buffered >= req.length
    BY DEF ReadPayload, Reading
  <1>2. PICK outcome \in Outcomes(req, Read(req.length)) : Conclude(outcome)
    BY DEF ReadPayload
  <1>3. outcome \in Answers
    BY OutcomesType
  <1>4. CASE short
    BY <1>1, <1>2, <1>3, <1>4, Rambles DEF Promise!StreamNext
  <1>5. CASE ~short
    <2>1. /\ Len(answers) \in 0..(Len(sent) - 1) /\ r \in Requests
          /\ req = HeaderOf(r) /\ Read(req.length) = r.payload
      BY <1>1, <1>5, WholeIsComplete, PayloadInSync
    <2>2. Len(sent) \in Nat
      BY LenProperties DEF IInv, TypeOK
    <2>3. Len(answers) < Len(sent)
      BY <2>1, <2>2
    <2> HIDE DEF r
    <2>4. outcome \in Outcomes(HeaderOf(r), r.payload)
      BY <1>2, <2>1
    <2>5. Promise!Answer
      BY <1>1, <1>2, <1>5, <2>1, <2>3, <2>4, AnswersInTurn DEF r
    <2> QED
      BY <2>5 DEF Promise!StreamNext
  <1> QED
    BY <1>4, <1>5

\* Nothing is left of the stream once the last request is answered.
LEMMA EndOfFileRefines ==
    ASSUME IInv, ReadEndOfFile
    PROVE  Promise!StreamNext
  <1>1. /\ Conclude("disconnected") /\ "disconnected" \in Answers
        /\ UNCHANGED <<clientVars, short>> /\ stage \in {"choosing", "playing"}
        /\ next \in {"header", "payload"} /\ closed /\ taken = Len(Stream)
    BY DEF ReadEndOfFile, Answers, Reading
  <1>2. CASE short
    BY <1>1, <1>2, Rambles DEF Promise!StreamNext
  <1>3. CASE ~short
    <2>1. /\ Len(Stream) \in Nat /\ Len(sent) \in Nat /\ Len(answers) \in Nat
          /\ sent \in Seq(Requests) /\ part \in Seq(Byte)
      BY StreamHas DEF IInv
    <2>2. ASSUME next = "payload", Len(answers) # Len(sent) PROVE FALSE
      <3>1. req.length \in Nat \ {0} /\ taken + req.length <= Len(Stream)
        BY <1>3, <2>2, PayloadInSync
      <3> QED
        BY <1>1, <2>1, <3>1
    <2>3. ASSUME next = "header" PROVE Len(answers) <= Len(sent) /\ taken = Off(Len(answers))
      BY <1>1, <1>3, <2>3 DEF IInv, InSync
    <2>4. Len(answers) = Len(sent)
      <3> SUFFICES ASSUME Len(answers) # Len(sent) PROVE FALSE
        OBVIOUS
      <3>0. next = "header" /\ Len(answers) <= Len(sent) /\ taken = Off(Len(answers))
        BY <1>1, <2>2, <2>3
      <3> DEFINE k == Len(answers)
                 r == sent[k + 1]
      <3>1. k \in 0..(Len(sent) - 1)
        BY <2>1, <3>0
      <3> HIDE DEF k, r
      <3>2. /\ r \in Requests /\ Off(k) \in Nat
            /\ Off(k + 1) = Off(k) + REQ_HEADER_SIZE + Len(r.payload) /\ Off(k + 1) <= Len(Stream)
        BY <2>1, <3>1, MessageAt DEF r
      <3>3. PICK n \in Nat : n = Len(r.payload)
        BY <3>2, RequestType, Zenon
      <3>4. Off(k) = Len(Stream)
        BY <1>1, <3>0 DEF k
      <3>5. Len(Stream) + 7 + n <= Len(Stream)
        BY <3>2, <3>3, <3>4 DEF REQ_HEADER_SIZE
      <3>6. \A m, d \in Nat : ~(m + 7 + d <= m)
        OBVIOUS
      <3> QED
        BY <2>1, <3>3, <3>5, <3>6, Zenon
    <2>5. Promise!Give("disconnected")
      BY <1>1, Given
    <2> QED
      BY <1>1, <1>3, <2>4, <2>5 DEF Promise!Notice, Promise!StreamNext
  <1> QED
    BY <1>2, <1>3

\* Each step is one of the promise, or none.
LEMMA Refines == IInv /\ [Next]_vars => [Promise!StreamNext]_Promise!streamVars
  <1> SUFFICES ASSUME IInv, [Next]_vars
               PROVE  [Promise!StreamNext]_Promise!streamVars
    OBVIOUS
  <1>1. ASSUME NEW r \in Requests, Send(r)
        PROVE  Promise!StreamNext
    <2>1. Promise!Send(r)
      BY <1>1 DEF Send, Sending, Promise!Send, readerVars
    <2> QED
      BY <2>1 DEF Promise!StreamNext
  <1>2. CASE Close
    BY <1>2 DEF Close, Promise!StreamNext, Promise!Close, readerVars
  <1>3. CASE Deliver \/ ReadHeader \/ (\E r \in Requests : SendPart(r)) \/ StartGame \/ UNCHANGED vars
    <2>1. /\ UNCHANGED <<sent, answers, closed, short>>
          /\ UNCHANGED (IF stage = "waiting" THEN "playing" ELSE stage)
      BY <1>3 DEF Deliver, ReadHeader, ReadsHeader, SendPart, StartGame, vars, clientVars, readerVars
    <2> QED
      BY <2>1 DEF Promise!streamVars
  <1>4. CASE EndGame
    BY <1>4 DEF EndGame, Promise!StreamNext, Promise!End, clientVars
  <1> QED
    BY <1>1, <1>2, <1>3, <1>4, ShortReadRefines, BareRequestRefines, PayloadRefines,
       EndOfFileRefines DEF Next, Reader

\* The requests of a connection are answered in the order in which they were
\* sent, each once and by what it says, up to the first short read, and its
\* end is noticed after the last of them: however the bytes arrive.
THEOREM RequestStreamImplemented == Spec => ImplementsRequestStream
  <1>1. Init => Promise!StreamInit
    BY DEF Init, Promise!StreamInit
  <1> QED
    BY <1>1, Invariance, Refines, PTL DEF Spec, ImplementsRequestStream, Promise!StreamSpec
=============================================================================
