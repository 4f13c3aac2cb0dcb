------------------------------ MODULE GamingProt ------------------------------
(***************************************************************************)
(* The requests of one client as the server reads them off the socket       *)
(* (gaming_prot/gaming_prot.c, and what handshaking.c and game_server.c do  *)
(* with the outcome).  TCP keeps the bytes in order and promises nothing    *)
(* about how many of them one read returns; the server reads a header, then *)
(* a payload, each with one read, and judges what it got.                   *)
(*                                                                          *)
(* Bytes travel in a stream: sent, part and closed are the client's,        *)
(* arrived says how much of the stream is in the server's socket buffer,    *)
(* taken how much the server has read.  A client may stop anywhere in a     *)
(* request, for a while or for good.  Failing writes of responses are in    *)
(* GameServer.                                                              *)
(***************************************************************************)
EXTENDS Integers, SequencesExt

CONSTANTS Requests,  \* what clients send: records [type, context, payload]
          Openings,  \* the requests a connection may begin with
          Pauses,    \* bound: bytes of a request after which a client may pause
          MaxSent,   \* bound: requests of one connection
          MaxAnswers \* bound: answers, for after a read that came back short

\* Type, context and the length of the payload are one byte each.
ASSUME RequestsAssumption ==
    \A r \in Requests :
        /\ r \in [type : 0..255, context : 0..255, payload : Seq(0..255)]
        /\ Len(r.payload) <= 255

ASSUME OpeningsAssumption == Openings \subseteq Requests

ASSUME PausesAssumption == Pauses \subseteq Nat \ {0}

\* Room for every request and for the end of the stream.
ASSUME BoundsAssumption ==
    MaxSent \in Nat \ {0} /\ MaxAnswers \in Nat /\ MaxAnswers > MaxSent

VARIABLES sent,     \* the requests the client sent
          part,     \* what it sent of a request that it has not finished
          closed,   \* the client has closed its end
          arrived,  \* bytes of the stream that reached the server
          taken,    \* bytes of the stream that were read
          stage,    \* choosing (handshake), waiting for an opponent, playing, over
          next,     \* what is read next: header or payload
          req,      \* the Request as far as it was read
          answers,  \* what came of each request, in the order it did
          short     \* a read returned less than it asked for

clientVars == <<sent, part, closed>>
readerVars == <<taken, stage, next, req, answers, short>>
vars == <<clientVars, arrived, readerVars>>

REQ_HEADER_SIZE  == 7
REQ_CONFIRMATION == 1
REQ_META         == 3
REQ_ACTION       == 4
CONF_RULESET     == 1
META_QUIT        == 1
ACT_MAKE_MOVE    == 1
GAME_CHOICE      == 2
GPROT_PAYLOAD_GAME_INDEX == 1
games_available  == {1, 2}

\* The message as a client lays it out: uid, type, context, payload length and
\* payload.  The uid is only compared with a field nobody set, so 0 will do.
Bytes(r) == <<0, 0, 0, 0, r.type, r.context, Len(r.payload)>> \o r.payload

Stream     == FlattenSeq([i \in DOMAIN sent |-> Bytes(sent[i])]) \o part
Buffered   == arrived - taken
Read(n)    == SubSeq(Stream, taken + 1, taken + n)

\* Mutant: the length is taken from the byte before it.
Header_LengthFromContext(buff) ==
    [type |-> buff[5], context |-> buff[6], length |-> buff[6]]

\* ReqIndexes; arrays begin with 0 there.
Header(buff) == [type |-> buff[5], context |-> buff[6], length |-> buff[7]]

\* A Request is a local variable of the caller, not initialized.
NoRequest == [type |-> 0, context |-> 0, length |-> 0]

Answers == {"chosen", "refused", "move", "quit", "crash", "disconnected", "insufficient"}

TypeOK ==
    /\ sent \in Seq(Requests) /\ Len(sent) <= MaxSent
    /\ part \in Seq(0..255)
    /\ part # <<>> => \E r \in Requests : IsStrictPrefix(part, Bytes(r))
    /\ closed \in BOOLEAN /\ short \in BOOLEAN
    /\ arrived \in 0..Len(Stream)
    /\ taken \in 0..arrived
    /\ stage \in {"choosing", "waiting", "playing", "over"}
    /\ next \in {"header", "payload"}
    /\ req \in [type : 0..255, context : 0..255, length : 0..255]
    /\ answers \in Seq(Answers)

Init ==
    /\ sent = <<>> /\ part = <<>> /\ closed = FALSE
    /\ arrived = 0 /\ taken = 0
    /\ stage = "choosing" /\ next = "header"
    /\ req = NoRequest
    /\ answers = <<>> /\ short = FALSE

-----------------------------------------------------------------------------
(* The client and the network.                                              *)

\* The client goes on with a request, or begins one.
Sending(r) ==
    /\ ~closed
    /\ Len(sent) < MaxSent
    /\ sent = <<>> => r \in Openings
    /\ IsPrefix(part, Bytes(r))

\* All that was left of it is sent: the apps send every request whole.
Send(r) ==
    /\ Sending(r)
    /\ sent' = Append(sent, r)
    /\ part' = <<>>
    /\ UNCHANGED <<closed, arrived, readerVars>>

\* Some more of it is sent.  The rest may never come.
SendPart(r) ==
    /\ Sending(r)
    /\ \E n \in Pauses : /\ Len(part) < n /\ n < Len(Bytes(r))
                        /\ part' = SubSeq(Bytes(r), 1, n)
    /\ UNCHANGED <<sent, closed, arrived, readerVars>>

Close ==
    /\ ~closed
    /\ closed' = TRUE
    /\ UNCHANGED <<sent, part, arrived, readerVars>>

\* A segment arrives, of any length.
Deliver ==
    /\ arrived' \in (arrived + 1)..Len(Stream)
    /\ UNCHANGED <<clientVars, readerVars>>

-----------------------------------------------------------------------------
(* What is made of a request.                                               *)

\* validate_field: types and contexts are numbered, and tested as bit masks.
\* The mask is the or of what is expected.
Bits == {1, 2, 4, 8, 16, 32, 64, 128}
Has(byte, bit) == (byte \div bit) % 2 = 1
IsValid(field, expected) ==
    \A bit \in Bits : Has(field, bit) => \E e \in expected : Has(e, bit)

\* games_available has no terminating 0, which the loop over it relies on:
\* it stops at a byte behind the array, and may find the game before that.
IsOnOffer(game) == IF game \in games_available THEN {TRUE} ELSE {TRUE, FALSE}

\* read_game_choice.
ChoiceOutcomes(r, payload) ==
    IF /\ IsValid(r.type, {REQ_CONFIRMATION})
       /\ IsValid(r.context, {CONF_RULESET})
       /\ r.length = GAME_CHOICE
    THEN {IF found THEN "chosen" ELSE "refused" :
             found \in IsOnOffer(payload[GPROT_PAYLOAD_GAME_INDEX + 1])}
    ELSE {"refused"}

\* Mutant: the uid is compared before the context is looked at.
IsRightUid_Always(r) == {TRUE, FALSE}

\* read_move compares the uid with one it reads from a Request that was not
\* filled in, unless the context is META_QUIT, which is ACT_MAKE_MOVE as well.
IsRightUid(r) == IF r.context = META_QUIT THEN {TRUE} ELSE {TRUE, FALSE}

\* asses_quit.
IsQuit(r) == r.type = REQ_META /\ r.context = META_QUIT

\* read_move, asses_quit, and the move serve_clients takes from the payload,
\* which is NULL when the request has none.
MoveOutcomes(r, payload) ==
    IF /\ IsValid(r.type, {REQ_ACTION, REQ_META})
       /\ IsValid(r.context, {ACT_MAKE_MOVE, META_QUIT})
    THEN {IF ~right THEN "refused"
          ELSE IF IsQuit(r) THEN "quit"
          ELSE IF payload = <<>> THEN "crash"
          ELSE "move" : right \in IsRightUid(r)}
    ELSE {"refused"}

Outcomes(r, payload) ==
    IF stage = "choosing" THEN ChoiceOutcomes(r, payload) ELSE MoveOutcomes(r, payload)

\* A move may end the game (play_game returns DESTROY).
StagesAfter(outcome) ==
    CASE outcome = "chosen"                            -> {"waiting"}
      [] outcome = "move"                              -> {"playing", "over"}
      [] outcome \in {"quit", "crash", "disconnected"} -> {"over"}
      [] OTHER                                         -> {stage}

Conclude(outcome) ==
    /\ answers' = Append(answers, outcome)
    /\ stage' \in StagesAfter(outcome)
    /\ next' = "header"
    /\ req' = NoRequest

-----------------------------------------------------------------------------
(* The thread that reads: the handshaker, and the main thread in a game.    *)

Reading(what) ==
    /\ stage \in {"choosing", "playing"}
    /\ next = what
    /\ Len(answers) < MaxAnswers

\* Mutant: a header's worth of bytes is counted as read.
ReadShortHeader_TakesAll ==
    /\ Reading("header")
    /\ Buffered \in 1..(REQ_HEADER_SIZE - 1)
    /\ taken' = taken + REQ_HEADER_SIZE
    /\ short' = TRUE
    /\ Conclude("insufficient")
    /\ UNCHANGED <<clientVars, arrived>>

\* read_header gets a part of the header: the client is told so, the part is gone.
ReadShortHeader ==
    /\ Reading("header")
    /\ Buffered \in 1..(REQ_HEADER_SIZE - 1)
    /\ taken' = arrived
    /\ short' = TRUE
    /\ Conclude("insufficient")
    /\ UNCHANGED <<clientVars, arrived>>

\* A whole header comes in.
ReadsHeader ==
    /\ Reading("header")
    /\ Buffered >= REQ_HEADER_SIZE
    /\ taken' = taken + REQ_HEADER_SIZE
    /\ UNCHANGED <<clientVars, arrived, short>>

\* It announces a payload: the next read blocks until there is some of it.
ReadHeader ==
    /\ ReadsHeader
    /\ req' = Header(Read(REQ_HEADER_SIZE))
    /\ req'.length # 0
    /\ next' = "payload"
    /\ UNCHANGED <<stage, answers>>

\* Mutant: a payload of no bytes is read, and found to be the end of file.
ReadBareRequest_ReadsOn ==
    /\ ReadsHeader
    /\ Header(Read(REQ_HEADER_SIZE)).length = 0
    /\ Conclude("disconnected")

\* It does not: the request is complete.
ReadBareRequest ==
    /\ ReadsHeader
    /\ \E r \in {Header(Read(REQ_HEADER_SIZE))} :
          /\ r.length = 0
          /\ \E outcome \in Outcomes(r, <<>>) : Conclude(outcome)

\* Mutant: the request is not judged.
ReadPayload_Unanswered ==
    /\ Reading("payload")
    /\ Buffered >= req.length
    /\ taken' = taken + req.length
    /\ next' = "header"
    /\ UNCHANGED <<clientVars, arrived, req, short, stage, answers>>

ReadPayload ==
    /\ Reading("payload")
    /\ Buffered >= req.length
    /\ taken' = taken + req.length
    /\ \E outcome \in Outcomes(req, Read(req.length)) : Conclude(outcome)
    /\ UNCHANGED <<clientVars, arrived, short>>

ReadShortPayload ==
    /\ Reading("payload")
    /\ Buffered \in 1..(req.length - 1)
    /\ taken' = arrived
    /\ short' = TRUE
    /\ Conclude("insufficient")
    /\ UNCHANGED <<clientVars, arrived>>

\* read returns 0, for the header or for the payload.
ReadEndOfFile ==
    /\ \E what \in {"header", "payload"} : Reading(what)
    /\ closed /\ taken = Len(Stream)
    /\ Conclude("disconnected")
    /\ UNCHANGED <<clientVars, arrived, taken, short>>

Reader ==
    \/ ReadShortHeader \/ ReadHeader \/ ReadBareRequest
    \/ ReadPayload \/ ReadShortPayload \/ ReadEndOfFile

\* The plexer has an opponent for the client.
StartGame ==
    /\ stage = "waiting"
    /\ stage' = "playing"
    /\ UNCHANGED <<clientVars, arrived, taken, next, req, answers, short>>

\* The opponent moves last, quits or leaves.  The one thread that would serve
\* it does not while it is held on a payload.
EndGame ==
    /\ Reading("header")
    /\ stage = "playing"
    /\ stage' = "over"
    /\ UNCHANGED <<clientVars, arrived, taken, next, req, answers, short>>

Next ==
    \/ \E r \in Requests : Send(r) \/ SendPart(r)
    \/ Close
    \/ Deliver
    \/ Reader
    \/ StartGame
    \/ EndGame

\* The network delivers, the loops of the threads go on, and the client gets
\* an opponent.
Spec ==
    /\ Init /\ [][Next]_vars
    /\ WF_vars(Deliver) /\ WF_vars(Reader) /\ WF_vars(StartGame)

-----------------------------------------------------------------------------
(* Properties.                                                              *)

\* The thread that serves all games waits for a payload (gaming_prot.c:83)
\* either for bytes that are on their way, or in the very request that its
\* client is in the middle of, for what that client announced and still owes.
\* Nothing in the code ends the second wait.  This holds until a read came back
\* short: from then on it may take payload for a header and wait for what
\* nobody announced.
HeldForItsRest ==
    next = "payload" /\ ~short =>
        \/ taken + req.length <= Len(Stream)
        \/ /\ Len(answers) = Len(sent)
           /\ taken = Len(Stream) - Len(part) + REQ_HEADER_SIZE
           /\ req = Header(part)

\* Up to the first short read the requests are answered in their order, each
\* by what it says, whatever number of bytes the reads return together.
Promise == INSTANCE RequestStream
    WITH stage  <- IF stage = "waiting" THEN "playing" ELSE stage,
         broken <- short
ImplementsRequestStream == Promise!StreamSpec

\* As long as no read came back short, the server keeps up: again and again
\* every request sent so far has its answer and, when the client has closed,
\* the end of the stream is noticed, unless the game is over first.  A client
\* that stops in the middle of a request and does not close has every request
\* it sent answered: of the wait for the rest (HeldForItsRest) this says nothing.
ServerKeepsUp ==
    []<>(stage = "over" \/ short \/ (Len(answers) = Len(sent) /\ ~closed))

=============================================================================
