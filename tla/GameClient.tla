------------------------------ MODULE GameClient ------------------------------
(***************************************************************************)
(* One player's app: TTTutils.java, TttActivity.java, RpsActivity.java and  *)
(* the pages in strings.xml.  The page runs its script on one thread, which *)
(* waits while a tap is in makeMove on the bridge thread; what makeMove     *)
(* posts is run by the page later.  Threads started for the purpose read    *)
(* the opponent's moves.  All of them read the one socket, a fixed number   *)
(* of bytes at a time.                                                      *)
(*                                                                          *)
(* The server and the opponent are the environment.  Which moves win is in  *)
(* Ttt and Rps: here a game of tic-tac-toe may end once there can be a      *)
(* line.  One write of the server's arrives as a whole, alone or together   *)
(* with the writes after it.                                                *)
(***************************************************************************)
EXTENDS Naturals, SequencesExt, FiniteSetsExt

CONSTANTS Cells,       \* the ids of the squares, or of the choices
          LineLength,  \* marks in a line
          Results,     \* how games end, of 1..3: WIN, LOSS, TIE
          Threads,     \* bound: threads that read the opponent's moves
          MaxPosted    \* bound: what may be posted to the page when the player taps

ASSUME CellsAssumption   == Cells \subseteq 0..8
ASSUME ResultsAssumption == Results \subseteq 1..3

VARIABLES
    \* the server's game
    game,      \* TTT or RPS
    begins,    \* whether this client makes the first move
    marks,     \* the moves made: <<player, cell>>
    over,      \* the game was removed and the connection closed
    ending,    \* what the last update said of the ending: none, a result, left
    \* the connection
    inbox,     \* what the server wrote and nobody read, one sequence per write
    request,   \* the move that was sent last and not taken by the server
    \* the app
    GAME_STATE,
    start,     \* the way to RUNNING: connecting, posted, thread, done
    tap,       \* the cell whose move waits for its response on the bridge
    opp,       \* the threads: idle, reading, or judging what they read
    response,  \* what readOpponentMove returned to each
    posted,    \* what was posted to the page and not run
    page,      \* the page: turn, disabled, cells, status
    ghost,     \* a thread of the game before this one still reads
    dead,      \* a thread died of an exception, and the app with it
    spoilt     \* what went wrong so far: twice, cut, late, ghost

serverVars == <<game, begins, marks, over, ending>>
linkVars   == <<inbox, request>>
appVars    == <<GAME_STATE, start, tap, opp, response, posted, page, ghost, dead>>
vars == <<serverVars, linkVars, appVars, spoilt>>

Players == {"me", "opp"}
NONE    == 99        \* no cell; not a byte of any message either

NOT_STARTED == 0
RUNNING     == 4
OPP_LEFT    == 5

\* Messages (gaming_prot.h).
Start(sym)      == IF game = "TTT" THEN <<20, 1, 1, sym>> ELSE <<20, 1, 0>>
Success         == <<10, 4, 0>>
Refusal         == <<50, 0, 0>>
MoveMade(c)     == <<20, 2, 1, c>>
EndOfGame(r, c) == <<20, 3, 2, r, c>>
OppDisconnected == <<20, 4, 0>>

\* handleGameEndChoice.
EndText(state) ==
    CASE state = 1 -> "won" [] state = 2 -> "lost" [] state = 3 -> "tied"
      [] state = OPP_LEFT -> "opponent left"
      [] OTHER -> "game end state"

Statuses == {"loading", "turn", "wait", "error sending", "error receiving", "game end state"}
AllStatuses == Statuses \cup {"won", "lost", "tied", "opponent left"}

ERROR == 256   \* -1: no cell

\* What is posted to the page.
Posts ==
    {<<"initialize", turn>> : turn \in BOOLEAN} \cup {<<"started">>}
    \cup {<<"status", s>> : s \in Statuses}
    \cup {<<"board", "me", c, "wait">> : c \in Cells}
    \cup {<<"board", "opp", c, s>> : c \in 0..ERROR, s \in AllStatuses}

TypeOK ==
    /\ game \in {"TTT", "RPS"} /\ begins \in BOOLEAN
    /\ marks \subseteq Players \X Cells
    /\ over \in BOOLEAN
    /\ ending \in {NOT_STARTED, OPP_LEFT} \cup Results
    /\ inbox \in Seq(Seq(0..255))
    /\ request \in Cells \cup {NONE} /\ tap \in Cells \cup {NONE}
    /\ GAME_STATE \in 0..255
    /\ start \in {"connecting", "posted", "thread", "done"}
    /\ opp \in [Threads -> {"idle", "reading", "judging"}]
    /\ response \in [Threads -> 0..ERROR]
    /\ posted \in Seq(Posts)
    /\ page \in [turn : BOOLEAN, disabled : BOOLEAN, status : AllStatuses,
                 cells : [Cells -> Players \cup {" "}]]
    /\ ghost \in BOOLEAN /\ dead \in BOOLEAN
    /\ spoilt \subseteq {"twice", "cut", "late", "ghost"}

\* The server has just made the game, and the app is in connectToGame.
Init ==
    /\ game \in {"TTT", "RPS"}
    /\ begins \in IF game = "TTT" THEN BOOLEAN ELSE {TRUE}
    /\ marks = {} /\ over = FALSE /\ ending = NOT_STARTED
    /\ inbox = <<Start(IF begins THEN 1 ELSE 2)>> /\ request = NONE
    /\ GAME_STATE = NOT_STARTED /\ start = "connecting"
    /\ tap = NONE
    /\ opp = [t \in Threads |-> "idle"]
    /\ response = [t \in Threads |-> 0]
    /\ posted = <<>>
    /\ page = [turn |-> FALSE, disabled |-> FALSE, status |-> "loading",
               cells |-> [c \in Cells |-> " "]]
    /\ ghost \in BOOLEAN
    /\ dead = FALSE
    /\ spoilt = {}

-----------------------------------------------------------------------------
(* The server and the opponent.                                             *)

Even(n) == n % 2 = 0

\* In turn on a free square; one choice each, whoever is first.
Valid(p, c) ==
    IF game = "TTT"
    THEN /\ Even(Cardinality(marks)) <=> (begins <=> p = "me")
         /\ \A q \in Players : <<q, c>> \notin marks
    ELSE \A d \in Cells : <<p, d>> \notin marks

MayEnd(m) ==
    IF game = "TTT" THEN Cardinality(m) >= 2 * LineLength - 1 ELSE Cardinality(m) = 2

MustEnd(m) ==
    IF game = "TTT" THEN Cardinality(m) = Cardinality(Cells) ELSE Cardinality(m) = 2

\* The move that comes with the ending: the last one, or what the opponent chose.
Disclosed(m, c) == IF game = "TTT" THEN c ELSE CHOOSE d \in Cells : <<"opp", d>> \in m

\* A move of p; before is what this client is sent first in any case.
Play(p, c, before) ==
    LET m == marks \cup {<<p, c>>} IN
    /\ Valid(p, c)
    /\ marks' = m
    /\ \/ /\ ~MustEnd(m)
          /\ inbox' = inbox \o before \o
                (IF p = "opp" /\ game = "TTT" THEN <<MoveMade(c)>> ELSE <<>>)
          /\ UNCHANGED <<over, ending>>
       \/ /\ MayEnd(m)
          /\ over' = TRUE
          /\ ending' \in Results
          /\ inbox' = inbox \o before \o <<EndOfGame(ending', Disclosed(m, c))>>
    /\ UNCHANGED <<game, begins>>

OpponentMoves(c) ==
    /\ ~over
    /\ Play("opp", c, <<>>)
    /\ UNCHANGED <<request, appVars, spoilt>>

OpponentLeaves ==
    /\ ~over
    /\ over' = TRUE
    /\ ending' = OPP_LEFT
    /\ inbox' = Append(inbox, OppDisconnected)
    /\ UNCHANGED <<game, begins, marks, request, appVars, spoilt>>

ServerTakes ==
    /\ ~over /\ request # NONE
    /\ request' = NONE
    /\ \/ Play("me", request, <<Success>>)
       \/ /\ ~Valid("me", request)
          /\ inbox' = Append(inbox, Refusal)
          /\ UNCHANGED serverVars
    /\ UNCHANGED <<appVars, spoilt>>

-----------------------------------------------------------------------------
(* Reading.                                                                 *)

\* What is there when k writes have arrived.
Arrived(k) == FlattenSeq(SubSeq(inbox, 1, k))

\* readFromServer(n): what there is, up to n bytes, in an array of zeros.
Buffer(n, k) ==
    LET b == Arrived(k) IN [i \in 1..n |-> IF i <= Len(b) THEN b[i] ELSE 0]

\* The writes arrive together that the read returns together, at most.
Takes(n, k) ==
    LET b == Arrived(k) IN
    /\ k = 1 \/ Len(Arrived(k - 1)) < n
    /\ inbox' = (IF Len(b) > n THEN <<SubSeq(b, n + 1, Len(b))>> ELSE <<>>)
                    \o SubSeq(inbox, k + 1, Len(inbox))

\* A message was torn.
Cut(n, k) == IF Len(Arrived(k)) > n THEN {"cut"} ELSE {}

AtEnd == over /\ inbox = <<>>

\* The server answers with a reset what it is sent on a closed connection:
\* read throws IOException, where else it returns -1.
Reset == over /\ request # NONE

Post(item) == posted' = Append(posted, item)

-----------------------------------------------------------------------------
(* The start of a game.                                                     *)

\* createGame: connectToGame reads the start update, initializeGame posts.
CreateGame ==
    /\ start = "connecting" /\ inbox # <<>>
    /\ Takes(IF game = "TTT" THEN 4 ELSE 3, 1)
    /\ start' = "posted"
    /\ LET turn == game = "RPS" \/ Buffer(4, 1)[4] = 1 IN Post(<<"initialize", turn>>)
    /\ UNCHANGED <<serverVars, request, GAME_STATE, tap, opp, response, page, ghost, dead, spoilt>>

\* Of GAME_STATE, or of the server's ending.
IsEnding(state) == state \in {OPP_LEFT} \cup Results

\* The thread that the second callback starts.  When the opponent begins it
\* goes on to read the first move; otherwise it may be late, and overwrite an
\* ending that another thread has read and not yet looked at.
SetRunning ==
    /\ start = "thread"
    /\ GAME_STATE' = RUNNING
    /\ start' = "done"
    /\ IF begins THEN UNCHANGED opp
       ELSE \E t \in Threads : opp[t] = "idle" /\ opp' = [opp EXCEPT ![t] = "reading"]
    /\ spoilt' = spoilt \cup
          (IF IsEnding(GAME_STATE) /\ \E t \in Threads : opp[t] = "judging"
           THEN {"late"} ELSE {})
    /\ UNCHANGED <<serverVars, linkVars, tap, response, posted, page, ghost, dead>>

-----------------------------------------------------------------------------
(* The player's move.                                                       *)

\* The page is told a move was not sent.
Fails == Post(<<"status", "error sending">>)

\* pressed and handleMyMove up to the write.  The cells stay open until the
\* page has run what the last tap posted.
Press(c) ==
    /\ tap = NONE
    /\ page.turn /\ ~page.disabled
    /\ game = "TTT" => page.cells[c] = " "
    /\ Len(posted) < MaxPosted /\ \E t \in Threads : opp[t] = "idle"
    /\ tap' = c
    /\ request' = c
    /\ spoilt' = spoilt \cup
          (IF \E i \in DOMAIN posted : posted[i][1] = "board" THEN {"twice"} ELSE {})
    /\ UNCHANGED <<serverVars, inbox, GAME_STATE, start, opp, response, posted, page, ghost, dead>>

\* The connection was reset by the last request: the write throws.
PressFails ==
    /\ tap # NONE /\ Reset
    /\ tap' = NONE
    /\ Fails
    /\ UNCHANGED <<serverVars, linkVars, GAME_STATE, start, opp, response, page, ghost, dead, spoilt>>

\* Mutant: an update counts as success.
IsSuccess_BelowErrors(b) == b[1] < 30

\* readMoveResponse: anything below 20 is success.
IsSuccess(b) == b[1] < 20

\* handleMyMove: the move is posted to the page, and a thread started.
ReadResponse(k) ==
    /\ tap # NONE
    /\ Takes(3, k)
    /\ tap' = NONE
    /\ IF IsSuccess(Buffer(3, k))
       THEN /\ Post(<<"board", "me", tap, "wait">>)
            /\ \E t \in Threads : opp[t] = "idle" /\ opp' = [opp EXCEPT ![t] = "reading"]
       ELSE Fails /\ UNCHANGED opp
    /\ spoilt' = spoilt \cup Cut(3, k)
    /\ UNCHANGED <<serverVars, request, GAME_STATE, start, response, page, ghost, dead>>

\* End of file: an exception that makeMove does not catch goes to the script.
ReadNoResponse ==
    /\ tap # NONE /\ AtEnd
    /\ tap' = NONE
    /\ UNCHANGED <<serverVars, linkVars, GAME_STATE, start, opp, response, posted, page, ghost, dead, spoilt>>

-----------------------------------------------------------------------------
(* The opponent's move.                                                     *)

\* readOpponentMove: what it returns, and what it makes of GAME_STATE.
OpponentMove(b) ==
    IF b[1] >= 30 THEN ERROR
    ELSE IF b[2] = 2 /\ b[3] = 1 THEN b[4]
    ELSE IF b[2] = 3 /\ b[3] = 2 THEN b[5]
    ELSE ERROR

\* Mutant: leaving is expected to come with a payload.
StateAfter_WantsPayload(b) ==
    IF b[1] < 30 /\ b[2] = 3 /\ b[3] = 2 THEN b[4]
    ELSE IF b[1] < 30 /\ b[2] = 4 /\ b[3] = 1 THEN OPP_LEFT
    ELSE GAME_STATE

StateAfter(b) ==
    IF b[1] < 30 /\ b[2] = 3 /\ b[3] = 2 THEN b[4]
    ELSE IF b[1] < 30 /\ b[2] = 4 /\ b[3] = 0 THEN OPP_LEFT
    ELSE GAME_STATE

ReadOpponent(t, k) ==
    /\ opp[t] = "reading"
    /\ Takes(5, k)
    /\ opp' = [opp EXCEPT ![t] = "judging"]
    /\ response' = [response EXCEPT ![t] = OpponentMove(Buffer(5, k))]
    /\ GAME_STATE' = StateAfter(Buffer(5, k))
    /\ spoilt' = spoilt \cup Cut(5, k)
    /\ UNCHANGED <<serverVars, request, start, tap, posted, page, ghost, dead>>

\* IOException.
ReadOpponentFails(t) ==
    /\ opp[t] = "reading" /\ AtEnd /\ Reset
    /\ opp' = [opp EXCEPT ![t] = "judging"]
    /\ response' = [response EXCEPT ![t] = ERROR]
    /\ UNCHANGED <<serverVars, linkVars, GAME_STATE, start, tap, posted, page, ghost, dead, spoilt>>

\* End of file: the exception ends the app.
ReadOpponentDies(t) ==
    /\ opp[t] = "reading" /\ AtEnd
    /\ dead' = TRUE
    /\ UNCHANGED <<serverVars, linkVars, GAME_STATE, start, tap, opp, response, posted, page, ghost, spoilt>>

\* handleOpponentMove, from its look at GAME_STATE.
HandleOpponentMove(t) ==
    /\ opp[t] = "judging"
    /\ LET cell   == response[t]
           status == IF GAME_STATE # RUNNING THEN EndText(GAME_STATE)
                     ELSE IF cell = ERROR THEN "error receiving"
                     ELSE "turn"
       IN  Post(<<"board", "opp", cell, status>>)
    /\ opp' = [opp EXCEPT ![t] = "idle"]
    /\ response' = [response EXCEPT ![t] = 0]
    /\ UNCHANGED <<serverVars, linkVars, GAME_STATE, start, tap, page, ghost, dead, spoilt>>

\* "play again" leaves the socket of the last game open: its thread sets the
\* same GAME_STATE when the opponent of that game moves last or leaves.
GhostReads ==
    /\ ghost
    /\ ghost' = FALSE
    /\ GAME_STATE' \in {OPP_LEFT} \cup Results
    /\ spoilt' = spoilt \cup {"ghost"}
    /\ UNCHANGED <<serverVars, linkVars, start, tap, opp, response, posted, page, dead>>

-----------------------------------------------------------------------------
(* The page runs what was posted, unless it waits for makeMove.             *)

Runs(op) ==
    /\ tap = NONE
    /\ posted # <<>> /\ Head(posted)[1] = op

\* initializeGame; its callback posts the first status.
InitializePage ==
    /\ Runs("initialize")
    /\ page' = [page EXCEPT !.turn = Head(posted)[2]]
    /\ posted' = Append(Tail(posted), <<"started">>)
    /\ UNCHANGED <<serverVars, linkVars, GAME_STATE, start, tap, opp, response, ghost, dead, spoilt>>

\* The first status; its callback starts the thread that sets RUNNING.
PageStarted ==
    /\ Runs("started")
    /\ page' = [page EXCEPT !.status = IF page.turn THEN "turn" ELSE "wait"]
    /\ start' = "thread"
    /\ posted' = Tail(posted)
    /\ UNCHANGED <<serverVars, linkVars, GAME_STATE, tap, opp, response, ghost, dead, spoilt>>

\* updateBoard leaves a marked square alone, and anything that is none.  In
\* rock, paper, scissors nothing is marked, and the buttons stay disabled.
Board(who, c) ==
    IF c \notin Cells THEN page
    ELSE IF game = "RPS" THEN [page EXCEPT !.turn = ~@, !.disabled = @ \/ page.turn]
    ELSE IF page.cells[c] # " " THEN page
    ELSE [page EXCEPT !.turn = ~@, !.disabled = page.turn, !.cells[c] = who]

UpdateBoard ==
    /\ Runs("board")
    /\ LET item == Head(posted)
       IN  page' = [Board(item[2], item[3]) EXCEPT !.status = item[4]]
    /\ posted' = Tail(posted)
    /\ UNCHANGED <<serverVars, linkVars, GAME_STATE, start, tap, opp, response, ghost, dead, spoilt>>

\* Mutant: the page shows the name of the call.
UpdateStatus_ShowsName ==
    /\ Runs("status")
    /\ page' = [page EXCEPT !.status = Head(posted)[1]]
    /\ posted' = Tail(posted)
    /\ UNCHANGED <<serverVars, linkVars, GAME_STATE, start, tap, opp, response, ghost, dead, spoilt>>

UpdateStatus ==
    /\ Runs("status")
    /\ page' = [page EXCEPT !.status = Head(posted)[2]]
    /\ posted' = Tail(posted)
    /\ UNCHANGED <<serverVars, linkVars, GAME_STATE, start, tap, opp, response, ghost, dead, spoilt>>

-----------------------------------------------------------------------------
Bridge == PressFails \/ ReadNoResponse \/ \E k \in 1..Len(inbox) : ReadResponse(k)

OppThread(t) ==
    \/ \E k \in 1..Len(inbox) : ReadOpponent(t, k)
    \/ ReadOpponentFails(t) \/ ReadOpponentDies(t)
    \/ HandleOpponentMove(t)

Page == InitializePage \/ PageStarted \/ UpdateBoard \/ UpdateStatus

App ==
    /\ ~dead
    /\ \/ CreateGame \/ SetRunning
       \/ \E c \in Cells : Press(c)
       \/ Bridge
       \/ \E t \in Threads : OppThread(t)
       \/ GhostReads
       \/ Page

Next ==
    \/ \E c \in Cells : OpponentMoves(c)
    \/ OpponentLeaves
    \/ ServerTakes
    \/ App

Spec == Init /\ [][Next]_vars

\* Every thread of the app runs, and the server serves; players do as they
\* like.
FairSpec ==
    /\ Spec
    /\ WF_vars(ServerTakes)
    /\ WF_vars(~dead /\ CreateGame) /\ WF_vars(~dead /\ SetRunning)
    /\ WF_vars(~dead /\ Bridge) /\ WF_vars(~dead /\ Page)
    /\ \A t \in Threads : WF_vars(~dead /\ OppThread(t))

-----------------------------------------------------------------------------
(* Properties.                                                              *)

\* What the player sees, the server said.
ShownIsTrue ==
    /\ game = "TTT" => \A c \in Cells : page.cells[c] = " " \/ <<page.cells[c], c>> \in marks
    /\ page.status \notin Statuses => page.status = EndText(ending)

\* What the player may tap, the server takes.
RequestsAreValid == request # NONE /\ ~over => Valid("me", request)

\* The page follows the server's game: it shows what happened, takes only taps
\* that are moves, and no exception ends the app; until the player taps twice
\* in a row, a read tears two updates apart (TTTutils.java:237), or the thread
\* of the last game interferes.
PageInStep == spoilt \cap {"twice", "cut", "ghost"} = {} =>
    ShownIsTrue /\ RequestsAreValid /\ ~dead

\* The opponent's leaving is the next message, and a thread is there to read it.
LeavingIsNext ==
    /\ inbox # <<>> /\ Head(inbox) = OppDisconnected
    /\ \E t \in Threads : opp[t] = "reading"

\* The result of a game is shown in the end, and so is the opponent's leaving
\* if it finds a thread reading: the read of a response to a move takes it for
\* a failure (TTTutils.java:227).  The exceptions are those of PageInStep, and
\* an ending that is overwritten with RUNNING (TttActivity.java:203).
EndingIsShown ==
    ending \in Results \/ LeavingIsNext ~> spoilt # {} \/ page.status = EndText(ending)

=============================================================================
