---------------------------- MODULE RequestStream ----------------------------
(***************************************************************************)
(* What the gaming protocol promises a client: its requests are answered in *)
(* the order in which they were sent, each once, each by what it says; and  *)
(* the end of the stream is noticed after the last of them.  The promise    *)
(* ends with the first request the server reads only in part.               *)
(***************************************************************************)
EXTENDS Naturals, Sequences

CONSTANT Requests   \* records [type, context, payload], payload a sequence of bytes

VARIABLES sent,      \* the requests the client sent
          answers,   \* what the server made of them
          closed,    \* the client has closed its end
          stage,     \* choosing a game, playing, over
          broken     \* some request was read only in part

streamVars == <<sent, answers, closed, stage, broken>>

Answers == {"chosen", "refused", "move", "quit", "crash", "disconnected", "insufficient"}

StreamInit ==
    /\ sent = <<>> /\ answers = <<>>
    /\ closed = FALSE /\ stage = "choosing" /\ broken = FALSE

\* The games on offer; a choice is a rule set and a game.
GamesOnOffer == {1, 2}

\* A choice is confirmed with type and context 1; 0 passes for 1.  A game that
\* is not on offer may pass as well: the list of games has no end.
AnswersToChoice(r) ==
    IF r.type > 1 \/ r.context > 1 \/ Len(r.payload) # 2 THEN {"refused"}
    ELSE IF r.payload[2] \in GamesOnOffer THEN {"chosen"}
    ELSE {"refused", "chosen"}

\* In a game type and context are a move (4, 1) or a quit (3, 1); of the other
\* types up to 7, and of context 0, all that can be said is that they are
\* taken for moves or refused.
AnswersToMove(r) ==
    LET taken == IF r.payload = <<>> THEN "crash" ELSE "move" IN
    IF r.type > 7 \/ r.context > 1 THEN {"refused"}
    ELSE IF r.type = 3 /\ r.context = 1 THEN {"quit"}
    ELSE IF r.context = 1 THEN {taken}
    ELSE {taken, "refused"}

AnswersTo(r) == IF stage = "choosing" THEN AnswersToChoice(r) ELSE AnswersToMove(r)

\* A move may be the last of the game.
Following(answer) ==
    IF answer = "chosen" THEN {"playing"}
    ELSE IF answer \in {"quit", "crash", "disconnected"} THEN {"over"}
    ELSE IF answer = "move" THEN {"playing", "over"}
    ELSE {stage}

Send(r) ==
    /\ ~closed
    /\ sent' = Append(sent, r)
    /\ UNCHANGED <<answers, closed, stage, broken>>

Close ==
    /\ ~closed
    /\ closed' = TRUE
    /\ UNCHANGED <<sent, answers, stage, broken>>

Give(answer) ==
    /\ answers' = Append(answers, answer)
    /\ stage' \in Following(answer)
    /\ UNCHANGED <<sent, closed>>

\* The next request in turn is answered.
Answer ==
    /\ ~broken /\ stage # "over"
    /\ Len(answers) < Len(sent)
    /\ \E answer \in AnswersTo(sent[Len(answers) + 1]) : Give(answer)
    /\ UNCHANGED broken

\* A client that closed is known to be gone once all it sent is answered.
Notice ==
    /\ ~broken /\ stage # "over"
    /\ closed /\ Len(answers) = Len(sent)
    /\ Give("disconnected")
    /\ UNCHANGED broken

\* The opponent ends the game.
End ==
    /\ stage = "playing"
    /\ stage' = "over"
    /\ UNCHANGED <<sent, answers, closed, broken>>

Break ==
    /\ ~broken /\ stage # "over"
    /\ Give("insufficient")
    /\ broken' = TRUE

\* Whatever is answered after that.
Ramble ==
    /\ broken /\ stage # "over"
    /\ \E answer \in Answers : Give(answer)
    /\ UNCHANGED broken

StreamNext ==
    \/ \E r \in Requests : Send(r)
    \/ Close
    \/ Answer \/ Notice \/ End \/ Break \/ Ramble

StreamSpec == StreamInit /\ [][StreamNext]_streamVars

=============================================================================
