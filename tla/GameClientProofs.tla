-------------------------- MODULE GameClientProofs --------------------------
(***************************************************************************)
(* Proofs about GameClient for every board, every choice of results and any *)
(* number of threads: the types, and that the page stays in step with the   *)
(* server's game (PageInStep).                                              *)
(*                                                                          *)
(* The page and the server's game are in step in nine phases: Connecting,   *)
(* Created, Opening, OnTurn, Tapped, Waiting, Judging, Judged and Done.     *)
(* Each says which threads are at work, what is posted, and how the marks   *)
(* the server holds follow from the marks the player sees and the messages  *)
(* that are unread: HoldsTurn if this player is to move, Awaits if it       *)
(* moved, Heard if a thread has read the answer and the page has not.       *)
(***************************************************************************)
EXTENDS GameClient, Lists, FiniteSetTheorems

-----------------------------------------------------------------------------
(* Types: each part of TypeOK, by the actions that change it.               *)

\* What a byte of a message is.
Bytes == 0..255

\* Rock, paper, scissors has no first player: this client is told to begin.
NoFirstPlayer == game = "RPS" => begins

\* The types, and what goes with them.
BInv == TypeOK /\ NoFirstPlayer

-----------------------------------------------------------------------------

\* The messages are bytes.
LEMMA Messages ==
    ASSUME NEW c \in 0..8, NEW r \in 0..8
    PROVE  /\ Success \in Seq(Bytes) /\ Refusal \in Seq(Bytes)
           /\ OppDisconnected \in Seq(Bytes)
           /\ MoveMade(c) \in Seq(Bytes) /\ EndOfGame(r, c) \in Seq(Bytes)
           /\ Start(1) \in Seq(Bytes) /\ Start(2) \in Seq(Bytes)
  <1>1. \A a, b \in Bytes : <<a, b, c>> \in Seq(Bytes) /\ <<a, b, 0>> \in Seq(Bytes)
    BY DEF Bytes
  <1>2. \A a, b \in Bytes : <<20, a, b, c>> \in Seq(Bytes)
    BY DEF Bytes
  <1>3. <<20, 3, 2, r, c>> \in Seq(Bytes)
    BY DEF Bytes
  <1>4. <<20, 1, 1, 1>> \in Seq(Bytes) /\ <<20, 1, 1, 2>> \in Seq(Bytes)
    BY DEF Bytes
  <1>5. {10, 4, 50, 0, 20, 2, 1} \subseteq Bytes
    BY DEF Bytes
  <1> HIDE DEF Bytes
  <1> QED
    BY <1>1, <1>2, <1>3, <1>4, <1>5 DEF Success, Refusal, OppDisconnected, MoveMade, EndOfGame, Start

\* What handleGameEndChoice returns can be shown, and names an ending only if given one.
LEMMA EndTexts ==
    ASSUME NEW state
    PROVE  /\ EndText(state) \in AllStatuses
           /\ state \notin {OPP_LEFT} \cup 1..3 => EndText(state) \in Statuses
  BY DEF EndText, AllStatuses, Statuses, OPP_LEFT

\* What is disclosed with the ending is a choice that was made.
LEMMA DisclosedIsMade ==
    ASSUME TypeOK, NEW p \in Players, NEW c \in Cells, Valid(p, c),
           NEW m, m = marks \cup {<<p, c>>}, MayEnd(m)
    PROVE  /\ Disclosed(m, c) \in Cells
           /\ game = "TTT" => Disclosed(m, c) = c
  <1>1. CASE game = "TTT"
    BY <1>1 DEF Disclosed
  <1>2. CASE game # "TTT"
    <2>1. \E d \in Cells : <<"opp", d>> \in m
      <3> SUFFICES ASSUME \A d \in Cells : <<"opp", d>> \notin m PROVE FALSE
        OBVIOUS
      <3>1. p = "me"
        BY DEF Players
      <3>2. marks = {}
        <4> SUFFICES ASSUME NEW x \in marks PROVE FALSE
          OBVIOUS
        <4>0. marks \subseteq Players \X Cells
          BY DEF TypeOK
        <4>1. PICK q \in Players, d \in Cells : x = <<q, d>>
          BY <4>0
        <4>2. <<"me", d>> \notin marks
          BY <1>2, <3>1 DEF Valid
        <4>3. <<"opp", d>> \notin marks
          OBVIOUS
        <4> QED
          BY <4>1, <4>2, <4>3 DEF Players
      <3>3. m = {<<p, c>>}
        BY <3>2
      <3>4. Cardinality(m) = 1
        BY <3>3, FS_Singleton
      <3> QED
        BY <1>2, <3>4 DEF MayEnd
    <2> DEFINE d == CHOOSE d \in Cells : <<"opp", d>> \in m
    <2>2. d \in Cells
      BY <2>1
    <2> QED
      BY <1>2, <2>2 DEF Disclosed
  <1> QED
    BY <1>1, <1>2

\* A move leaves what the server holds and writes well typed.
LEMMA PlayTypes ==
    ASSUME TypeOK, NEW p \in Players, NEW c \in Cells,
           NEW before \in Seq(Seq(Bytes)), Play(p, c, before)
    PROVE  /\ marks' \subseteq Players \X Cells /\ over' \in BOOLEAN
           /\ ending' \in {NOT_STARTED, OPP_LEFT} \cup Results
           /\ inbox' \in Seq(Seq(Bytes))
           /\ UNCHANGED <<game, begins>>
  <1> DEFINE m == marks \cup {<<p, c>>}
  <1>1. inbox \in Seq(Seq(Bytes)) /\ marks \subseteq Players \X Cells /\ over \in BOOLEAN
        /\ ending \in {NOT_STARTED, OPP_LEFT} \cup Results
    BY DEF TypeOK, Bytes
  <1>2. marks' = m /\ Valid(p, c) /\ UNCHANGED <<game, begins>>
    BY DEF Play
  <1>3. marks' \subseteq Players \X Cells
    BY <1>1, <1>2
  <1>4. c \in 0..8 /\ (\A r \in Results : r \in 0..8)
    BY CellsAssumption, ResultsAssumption
  <1>5. inbox \o before \in Seq(Seq(Bytes))
    BY <1>1, ConcatProperties
  <1>6. CASE /\ ~MustEnd(m)
             /\ inbox' = inbox \o before \o
                   (IF p = "opp" /\ game = "TTT" THEN <<MoveMade(c)>> ELSE <<>>)
             /\ UNCHANGED <<over, ending>>
    <2> DEFINE s == IF p = "opp" /\ game = "TTT" THEN <<MoveMade(c)>> ELSE <<>>
    <2>1. MoveMade(c) \in Seq(Bytes)
      BY <1>4, Messages
    <2>2. s \in Seq(Seq(Bytes))
      <3> HIDE DEF Bytes
      <3> QED BY <2>1, EmptySeq
    <2>3. inbox' \in Seq(Seq(Bytes))
      <3> HIDE DEF s
      <3> QED BY <1>5, <2>2, <1>6, ConcatProperties DEF s
    <2> QED
      BY <1>1, <1>2, <1>3, <1>6, <2>3
  <1>7. CASE /\ MayEnd(m)
             /\ over' = TRUE /\ ending' \in Results
             /\ inbox' = inbox \o before \o <<EndOfGame(ending', Disclosed(m, c))>>
    <2>1. Disclosed(m, c) \in 0..8
      BY <1>2, <1>7, DisclosedIsMade, CellsAssumption
    <2>2. PICK r \in 0..8 : r = ending'
      BY <1>4, <1>7
    <2>3. EndOfGame(r, Disclosed(m, c)) \in Seq(Bytes)
      BY <2>1, <2>2, Messages
    <2>4. <<EndOfGame(ending', Disclosed(m, c))>> \in Seq(Seq(Bytes))
      BY <2>2, <2>3
    <2>5. inbox' \in Seq(Seq(Bytes))
      BY <1>5, <1>7, <2>4, ConcatProperties
    <2> QED
      BY <1>2, <1>3, <1>7, <2>5
  <1> QED
    BY <1>6, <1>7 DEF Play

\* What is read.
LEMMA Reading ==
    ASSUME inbox \in Seq(Seq(Bytes)), NEW k \in 1..Len(inbox), NEW n \in 1..5
    PROVE  /\ Arrived(k) \in Seq(Bytes)
           /\ Buffer(n, k) \in [1..n -> Bytes]
           /\ Takes(n, k) => inbox' \in Seq(Seq(Bytes))
  <1>1. Arrived(k) \in Seq(Bytes)
    BY UptoType DEF Arrived, Upto
  <1>2. PICK b \in Seq(Bytes) : b = Arrived(k)
    BY <1>1
  <1>3. Len(b) \in Nat /\ (\A i \in 1..Len(b) : b[i] \in Bytes)
    BY LenProperties, ElementOfSeq
  <1>4. Buffer(n, k) \in [1..n -> Bytes]
    <2>1. Buffer(n, k) = [i \in 1..n |-> IF i <= Len(b) THEN b[i] ELSE 0]
      BY <1>2 DEF Buffer
    <2>2. \A i \in 1..n : (IF i <= Len(b) THEN b[i] ELSE 0) \in Bytes
      BY <1>3 DEF Bytes
    <2> QED
      BY <2>1, <2>2
  <1>5. ASSUME Takes(n, k) PROVE inbox' \in Seq(Seq(Bytes))
    <2> DEFINE u == IF Len(b) > n THEN <<SubSeq(b, n + 1, Len(b))>> ELSE <<>>
               w == SubSeq(inbox, k + 1, Len(inbox))
    <2>1. inbox' = u \o w
      BY <1>2, <1>5 DEF Takes
    <2>2. w \in Seq(Seq(Bytes))
      BY SubSeqProperties, LenProperties
    <2>3. SubSeq(b, n + 1, Len(b)) \in Seq(Bytes)
      BY <1>3, SubSeqProperties
    <2>4. u \in Seq(Seq(Bytes))
      <3> HIDE DEF Bytes
      <3> QED BY <2>3, EmptySeq
    <2> HIDE DEF u, w
    <2> QED
      BY <2>1, <2>2, <2>4, ConcatProperties
  <1> QED
    BY <1>1, <1>4, <1>5

\* What runs on the page is put behind or taken from the front.
LEMMA PostTypes ==
    ASSUME posted \in Seq(Posts), NEW item \in Posts, Post(item)
    PROVE  posted' \in Seq(Posts)
  BY AppendProperties DEF Post

\* What is run was posted.
LEMMA RunTypes ==
    ASSUME posted \in Seq(Posts), posted # <<>>
    PROVE  Head(posted) \in Posts /\ Tail(posted) \in Seq(Posts)
  BY HeadTailProperties

\* What the actions post can be posted.
LEMMA Postables ==
    /\ \A turn \in BOOLEAN : <<"initialize", turn>> \in Posts
    /\ <<"started">> \in Posts
    /\ <<"status", "error sending">> \in Posts
    /\ \A c \in Cells : <<"board", "me", c, "wait">> \in Posts
    /\ \A c \in 0..ERROR, s \in AllStatuses : <<"board", "opp", c, s>> \in Posts
  <1>1. ASSUME NEW turn \in BOOLEAN PROVE <<"initialize", turn>> \in Posts
    BY DEF Posts
  <1>2. <<"started">> \in Posts
    BY DEF Posts
  <1>3. <<"status", "error sending">> \in Posts
    BY DEF Posts, Statuses
  <1>4. ASSUME NEW c \in Cells PROVE <<"board", "me", c, "wait">> \in Posts
    <2> DEFINE mine  == {<<"board", "me", d, "wait">> : d \in Cells}
               first == {<<"initialize", turn>> : turn \in BOOLEAN} \cup {<<"started">>} \cup {<<"status", s>> : s \in Statuses}
               last  == {<<"board", "opp", d, s>> : d \in 0..ERROR, s \in AllStatuses}
    <2>1. <<"board", "me", c, "wait">> \in mine
      OBVIOUS
    <2>2. Posts = first \cup mine \cup last
      BY DEF Posts
    <2> HIDE DEF first, mine, last
    <2> QED
      BY <2>1, <2>2
  <1>5. ASSUME NEW c \in 0..ERROR, NEW s \in AllStatuses PROVE <<"board", "opp", c, s>> \in Posts
    BY DEF Posts
  <1> QED
    BY <1>1, <1>2, <1>3, <1>4, <1>5

\* Items of the queue by their kind.
LEMMA Kinds ==
    ASSUME NEW x \in Posts
    PROVE  /\ x[1] \in {"initialize", "started", "status", "board"}
           /\ x[1] = "initialize" => x[2] \in BOOLEAN
           /\ x[1] = "status" => x[2] \in Statuses
           /\ x[1] = "board" => /\ x[2] \in Players /\ x[3] \in 0..ERROR /\ x[4] \in AllStatuses
                                /\ x[2] = "me" => x[3] \in Cells /\ x[4] = "wait"
  <1>1. CASE \E turn \in BOOLEAN : x = <<"initialize", turn>>
    BY <1>1
  <1>2. CASE x = <<"started">>
    BY <1>2
  <1>3. CASE \E s \in Statuses : x = <<"status", s>>
    BY <1>3
  <1>4. CASE \E c \in Cells : x = <<"board", "me", c, "wait">>
    <2>1. PICK c \in Cells : x = <<"board", "me", c, "wait">>
      BY <1>4
    <2>2. c \in 0..ERROR
      BY CellsAssumption DEF ERROR
    <2> QED
      BY <2>1, <2>2 DEF Players, AllStatuses, Statuses
  <1>5. CASE \E c \in 0..ERROR, s \in AllStatuses : x = <<"board", "opp", c, s>>
    BY <1>5 DEF Players
  <1> QED
    BY <1>1, <1>2, <1>3, <1>4, <1>5 DEF Posts

\* The parts of BInv, by the variables they are about.
ServerTypes ==
    /\ game \in {"TTT", "RPS"} /\ begins \in BOOLEAN
    /\ marks \subseteq Players \X Cells
    /\ over \in BOOLEAN
    /\ ending \in {NOT_STARTED, OPP_LEFT} \cup Results
    /\ game = "RPS" => begins
LinkTypes == inbox \in Seq(Seq(Bytes)) /\ request \in Cells \cup {NONE}
ThreadTypes ==
    /\ GAME_STATE \in 0..255
    /\ start \in {"connecting", "posted", "thread", "done"}
    /\ tap \in Cells \cup {NONE}
    /\ opp \in [Threads -> {"idle", "reading", "judging"}]
    /\ response \in [Threads -> 0..ERROR]
    /\ ghost \in BOOLEAN /\ dead \in BOOLEAN
    /\ spoilt \subseteq {"twice", "cut", "late", "ghost"}
Pages == [turn : BOOLEAN, disabled : BOOLEAN, status : AllStatuses,
          cells : [Cells -> Players \cup {" "}]]
PageTypes == posted \in Seq(Posts) /\ page \in Pages

\* What is read leaves the app with bytes.
LEMMA ReadTypes ==
    ASSUME TypeOK, NEW b \in [1..5 -> Bytes]
    PROVE  OpponentMove(b) \in 0..ERROR /\ StateAfter(b) \in 0..255
  <1>1. \A i \in 1..5 : b[i] \in 0..255
    BY DEF Bytes
  <1>2. 0..255 \subseteq 0..ERROR /\ ERROR \in 0..ERROR /\ OPP_LEFT \in 0..255
    BY DEF ERROR, OPP_LEFT
  <1>3. GAME_STATE \in 0..255
    BY DEF TypeOK
  <1>4. b[4] \in 0..255 /\ b[5] \in 0..255
    BY <1>1
  <1>5. OpponentMove(b) \in 0..ERROR
    BY <1>2, <1>4, ZenonT(30) DEF OpponentMove
  <1>6. StateAfter(b) \in 0..255
    BY <1>2, <1>3, <1>4, ZenonT(30) DEF StateAfter
  <1> QED
    BY <1>5, <1>6

\* updateBoard leaves a page.
LEMMA BoardTypes ==
    ASSUME PageTypes, NEW who \in Players, NEW c, NEW s \in AllStatuses
    PROVE  [Board(who, c) EXCEPT !.status = s] \in Pages
  BY DEF Board, PageTypes, Pages

\* The invariant by its parts, so that an action is asked for those it changes.
LEMMA TypeParts ==
    /\ BInv <=> ServerTypes /\ LinkTypes /\ ThreadTypes /\ PageTypes
    /\ BInv' <=> ServerTypes' /\ LinkTypes' /\ ThreadTypes' /\ PageTypes'
  BY DEF BInv, NoFirstPlayer, TypeOK, ServerTypes, LinkTypes, ThreadTypes, PageTypes, Pages, Bytes

\* The parts that a step leaves alone.
LEMMA SameTypes ==
    /\ ServerTypes /\ UNCHANGED serverVars => ServerTypes'
    /\ LinkTypes /\ UNCHANGED linkVars => LinkTypes'
    /\ LinkTypes /\ UNCHANGED request /\ inbox' \in Seq(Seq(Bytes)) => LinkTypes'
    /\ ThreadTypes /\ UNCHANGED <<GAME_STATE, start, tap, opp, response, ghost, dead, spoilt>> => ThreadTypes'
    /\ PageTypes /\ UNCHANGED <<posted, page>> => PageTypes'
    /\ PageTypes /\ UNCHANGED page /\ posted' \in Seq(Posts) => PageTypes'
  <1>1. ServerTypes /\ UNCHANGED serverVars => ServerTypes'
    BY DEF ServerTypes, serverVars
  <1>2. LinkTypes /\ UNCHANGED linkVars => LinkTypes'
    BY DEF LinkTypes, linkVars
  <1>3. LinkTypes /\ UNCHANGED request /\ inbox' \in Seq(Seq(Bytes)) => LinkTypes'
    BY DEF LinkTypes
  <1>4. ThreadTypes /\ UNCHANGED <<GAME_STATE, start, tap, opp, response, ghost, dead, spoilt>> => ThreadTypes'
    BY DEF ThreadTypes
  <1>5. PageTypes /\ UNCHANGED page /\ posted' \in Seq(Posts) => PageTypes'
    BY DEF PageTypes
  <1>6. PageTypes /\ UNCHANGED <<posted, page>> => PageTypes'
    BY DEF PageTypes
  <1> QED
    BY <1>1, <1>2, <1>3, <1>4, <1>5, <1>6

\* Every step keeps the types.
LEMMA TypeStep ==
    ASSUME BInv, [Next]_vars
    PROVE  BInv'
  <1>0. /\ ServerTypes /\ LinkTypes /\ ThreadTypes /\ PageTypes /\ TypeOK
        /\ inbox \in Seq(Seq(Bytes)) /\ posted \in Seq(Posts)
        /\ <<>> \in Seq(Seq(Bytes))
    BY TypeParts, EmptySeq DEF LinkTypes, PageTypes, BInv
  <1> SUFFICES ServerTypes' /\ LinkTypes' /\ ThreadTypes' /\ PageTypes'
    BY TypeParts
  <1> DEFINE Goal == ServerTypes' /\ LinkTypes' /\ ThreadTypes' /\ PageTypes'
  <1>1. ASSUME NEW c \in Cells, OpponentMoves(c) PROVE Goal
    <2>1. "opp" \in Players
      BY DEF Players
    <2>2. Play("opp", c, <<>>)
      BY <1>1 DEF OpponentMoves
    <2>3. /\ marks' \subseteq Players \X Cells /\ over' \in BOOLEAN
          /\ ending' \in {NOT_STARTED, OPP_LEFT} \cup Results
          /\ inbox' \in Seq(Seq(Bytes))
          /\ UNCHANGED <<game, begins>>
      BY <1>0, <2>1, <2>2, PlayTypes
    <2>4. ServerTypes'
      BY <1>0, <2>3 DEF ServerTypes
    <2> QED
      BY <1>0, <1>1, <2>3, <2>4, SameTypes DEF OpponentMoves, appVars
  <1>2. CASE OpponentLeaves
    <2>1. OppDisconnected \in Seq(Bytes)
      BY Messages
    <2>2. inbox' \in Seq(Seq(Bytes))
      BY <1>0, <1>2, <2>1, AppendProperties DEF OpponentLeaves
    <2>3. ServerTypes'
      BY <1>0, <1>2 DEF OpponentLeaves, ServerTypes
    <2> QED
      BY <1>0, <1>2, <2>2, <2>3, SameTypes DEF OpponentLeaves, appVars
  <1>3. CASE ServerTakes
    <2>1. Success \in Seq(Bytes) /\ Refusal \in Seq(Bytes)
      BY Messages
    <2>2. request \in Cells /\ request' = NONE
      BY <1>0, <1>3 DEF ServerTakes, LinkTypes
    <2>3. ThreadTypes' /\ PageTypes'
      BY <1>0, <1>3, SameTypes DEF ServerTakes, appVars
    <2>4. CASE Play("me", request, <<Success>>)
      <3>1. <<Success>> \in Seq(Seq(Bytes)) /\ "me" \in Players
        BY <2>1 DEF Players
      <3>2. /\ marks' \subseteq Players \X Cells /\ over' \in BOOLEAN
            /\ ending' \in {NOT_STARTED, OPP_LEFT} \cup Results
            /\ inbox' \in Seq(Seq(Bytes))
            /\ UNCHANGED <<game, begins>>
        BY <1>0, <2>2, <2>4, <3>1, PlayTypes
      <3>3. ServerTypes'
        BY <1>0, <3>2 DEF ServerTypes
      <3>4. LinkTypes'
        BY <2>2, <3>2 DEF LinkTypes
      <3> QED
        BY <2>3, <3>3, <3>4
    <2>5. CASE inbox' = Append(inbox, Refusal) /\ UNCHANGED serverVars
      <3>1. inbox' \in Seq(Seq(Bytes))
        BY <1>0, <2>1, <2>5, AppendProperties
      <3>2. LinkTypes'
        BY <2>2, <3>1 DEF LinkTypes
      <3> QED
        BY <1>0, <2>3, <2>5, <3>2, SameTypes
    <2> QED
      BY <1>3, <2>4, <2>5 DEF ServerTakes
  <1>4. CASE CreateGame
    <2>1. Takes(4, 1) \/ Takes(3, 1)
      BY <1>4 DEF CreateGame
    <2>2. inbox' \in Seq(Seq(Bytes))
      <3>1. 1 \in 1..Len(inbox)
        BY <1>0, <1>4, EmptySeq, LenProperties DEF CreateGame
      <3> QED
        BY <1>0, <2>1, <3>1, Reading
    <2>3. posted' \in Seq(Posts)
      <3> DEFINE turn == game = "RPS" \/ Buffer(4, 1)[4] = 1
      <3>1. turn \in BOOLEAN
        OBVIOUS
      <3>2. Post(<<"initialize", turn>>)
        BY <1>4 DEF CreateGame
      <3> HIDE DEF turn
      <3>3. <<"initialize", turn>> \in Posts
        BY <3>1, Postables
      <3> QED
        BY <1>0, <3>2, <3>3, PostTypes
    <2>4. ThreadTypes'
      BY <1>0, <1>4 DEF CreateGame, ThreadTypes
    <2> QED
      BY <1>0, <1>4, <2>2, <2>3, <2>4, SameTypes DEF CreateGame
  <1>5. CASE SetRunning
    <2>1. ThreadTypes'
      <3>1. RUNNING \in 0..255
        BY DEF RUNNING
      <3>2. opp' \in [Threads -> {"idle", "reading", "judging"}]
        BY <1>0, <1>5 DEF SetRunning, ThreadTypes
      <3>3. spoilt' \subseteq {"twice", "cut", "late", "ghost"}
        BY <1>0, <1>5 DEF SetRunning, ThreadTypes
      <3> QED
        BY <1>0, <1>5, <3>1, <3>2, <3>3 DEF SetRunning, ThreadTypes
    <2> QED
      BY <1>0, <1>5, <2>1, SameTypes DEF SetRunning
  <1>6. ASSUME NEW c \in Cells, Press(c) PROVE Goal
    <2>1. ThreadTypes'
      BY <1>0, <1>6 DEF Press, ThreadTypes
    <2>2. LinkTypes'
      BY <1>0, <1>6 DEF Press, LinkTypes
    <2> QED
      BY <1>0, <1>6, <2>1, <2>2, SameTypes DEF Press
  <1>7. ASSUME Fails PROVE posted' \in Seq(Posts)
    <2>1. <<"status", "error sending">> \in Posts
      BY DEF Posts, Statuses
    <2> QED
      BY <1>0, <1>7, <2>1, PostTypes DEF Fails
  <1>8. CASE Bridge
    <2>1. CASE PressFails
      <3>1. posted' \in Seq(Posts)
        BY <1>7, <2>1 DEF PressFails
      <3>2. ThreadTypes'
        BY <1>0, <2>1 DEF PressFails, ThreadTypes
      <3> QED
        BY <1>0, <2>1, <3>1, <3>2, SameTypes DEF PressFails
    <2>2. CASE ReadNoResponse
      <3>1. ThreadTypes'
        BY <1>0, <2>2 DEF ReadNoResponse, ThreadTypes
      <3> QED
        BY <1>0, <2>2, <3>1, SameTypes DEF ReadNoResponse
    <2>3. ASSUME NEW k \in 1..Len(inbox), ReadResponse(k) PROVE Goal
      <3>1. inbox' \in Seq(Seq(Bytes))
        BY <1>0, <2>3, Reading DEF ReadResponse
      <3>2. tap \in Cells
        BY <1>0, <2>3 DEF ReadResponse, ThreadTypes
      <3>3. posted' \in Seq(Posts)
        <4>0. PICK c \in Cells : c = tap
          BY <3>2
        <4>1. <<"board", "me", c, "wait">> \in Posts
          BY Postables
        <4> QED
          BY <1>0, <1>7, <2>3, <4>0, <4>1, PostTypes DEF ReadResponse
      <3>4. ThreadTypes'
        BY <1>0, <2>3 DEF ReadResponse, ThreadTypes, Cut
      <3> QED
        BY <1>0, <2>3, <3>1, <3>3, <3>4, SameTypes DEF ReadResponse
    <2> QED
      BY <1>8, <2>1, <2>2, <2>3 DEF Bridge
  <1>9. ASSUME NEW t \in Threads, OppThread(t) PROVE Goal
    <2>1. ASSUME NEW k \in 1..Len(inbox), ReadOpponent(t, k) PROVE Goal
      <3>1. inbox' \in Seq(Seq(Bytes)) /\ Buffer(5, k) \in [1..5 -> Bytes]
        BY <1>0, <2>1, Reading DEF ReadOpponent
      <3>2. OpponentMove(Buffer(5, k)) \in 0..ERROR /\ StateAfter(Buffer(5, k)) \in 0..255
        BY <1>0, <3>1, ReadTypes
      <3>3. ThreadTypes'
        BY <1>0, <2>1, <3>2 DEF ReadOpponent, ThreadTypes, Cut
      <3> QED
        BY <1>0, <2>1, <3>1, <3>3, SameTypes DEF ReadOpponent
    <2>2. CASE ReadOpponentFails(t)
      <3>1. ThreadTypes'
        BY <1>0, <2>2 DEF ReadOpponentFails, ThreadTypes, ERROR
      <3> QED
        BY <1>0, <2>2, <3>1, SameTypes DEF ReadOpponentFails
    <2>3. CASE ReadOpponentDies(t)
      <3>1. ThreadTypes'
        BY <1>0, <2>3 DEF ReadOpponentDies, ThreadTypes
      <3> QED
        BY <1>0, <2>3, <3>1, SameTypes DEF ReadOpponentDies
    <2>4. CASE HandleOpponentMove(t)
      <3>1. PICK cell \in 0..ERROR : cell = response[t]
        BY <1>0 DEF ThreadTypes
      <3>2. EndText(GAME_STATE) \in AllStatuses /\ "error receiving" \in AllStatuses /\ "turn" \in AllStatuses
        BY EndTexts DEF AllStatuses, Statuses
      <3>3. PICK s \in AllStatuses : Post(<<"board", "opp", cell, s>>)
        BY <2>4, <3>1, <3>2 DEF HandleOpponentMove
      <3>4. <<"board", "opp", cell, s>> \in Posts
        BY DEF Posts
      <3>5. posted' \in Seq(Posts)
        BY <1>0, <3>3, <3>4, PostTypes
      <3>6. ThreadTypes'
        <4>1. 0 \in 0..ERROR
          BY DEF ERROR
        <4> QED
          BY <1>0, <2>4, <4>1 DEF HandleOpponentMove, ThreadTypes
      <3> QED
        BY <1>0, <2>4, <3>5, <3>6, SameTypes DEF HandleOpponentMove
    <2> QED
      BY <1>9, <2>1, <2>2, <2>3, <2>4 DEF OppThread
  <1>10. CASE GhostReads
    <2>1. ThreadTypes'
      <3>1. {OPP_LEFT} \cup Results \subseteq 0..255
        BY ResultsAssumption DEF OPP_LEFT
      <3>2. spoilt' \subseteq {"twice", "cut", "late", "ghost"} /\ ghost' \in BOOLEAN
        BY <1>0, <1>10 DEF GhostReads, ThreadTypes
      <3> QED
        <4>1. GAME_STATE' \in {OPP_LEFT} \cup Results
          BY <1>10 DEF GhostReads
        <4>2. GAME_STATE' \in 0..255
          BY <3>1, <4>1
        <4> QED
          BY <1>0, <1>10, <3>2, <4>2 DEF GhostReads, ThreadTypes
    <2> QED
      BY <1>0, <1>10, <2>1, SameTypes DEF GhostReads
  <1>11. CASE Page
    <2>0. posted # <<>>
      BY <1>11 DEF Page, Runs, InitializePage, PageStarted, UpdateBoard, UpdateStatus
    <2>1. Head(posted) \in Posts /\ Tail(posted) \in Seq(Posts) /\ page \in Pages
      BY <1>0, <2>0, RunTypes DEF PageTypes
    <2>2. CASE InitializePage
      <3>1. Head(posted)[2] \in BOOLEAN
        BY <2>1, <2>2, Kinds DEF InitializePage, Runs
      <3>2. <<"started">> \in Posts
        BY DEF Posts
      <3>3. posted' \in Seq(Posts)
        BY <2>1, <2>2, <3>2, AppendProperties DEF InitializePage
      <3>4. page' \in Pages
        BY <2>1, <2>2, <3>1 DEF InitializePage, Pages
      <3>5. PageTypes'
        BY <3>3, <3>4 DEF PageTypes
      <3> QED
        BY <1>0, <2>2, <3>5, SameTypes DEF InitializePage
    <2>3. CASE PageStarted
      <3>1. page' \in Pages
        BY <2>1, <2>3 DEF PageStarted, Pages, AllStatuses, Statuses
      <3>2. PageTypes'
        BY <2>1, <2>3, <3>1 DEF PageStarted, PageTypes
      <3>3. ThreadTypes'
        BY <1>0, <2>3 DEF PageStarted, ThreadTypes
      <3> QED
        BY <1>0, <2>3, <3>2, <3>3, SameTypes DEF PageStarted
    <2>4. CASE UpdateBoard
      <3>1. Head(posted)[2] \in Players /\ Head(posted)[4] \in AllStatuses
        BY <2>1, <2>4, Kinds DEF UpdateBoard, Runs
      <3>2. page' \in Pages
        BY <1>0, <2>4, <3>1, BoardTypes DEF UpdateBoard
      <3>3. PageTypes'
        BY <2>1, <2>4, <3>2 DEF UpdateBoard, PageTypes
      <3> QED
        BY <1>0, <2>4, <3>3, SameTypes DEF UpdateBoard
    <2>5. CASE UpdateStatus
      <3>1. Head(posted)[2] \in AllStatuses
        BY <2>1, <2>5, Kinds DEF UpdateStatus, Runs, AllStatuses
      <3>2. page' \in Pages
        BY <2>1, <2>5, <3>1 DEF UpdateStatus, Pages
      <3>3. PageTypes'
        BY <2>1, <2>5, <3>2 DEF UpdateStatus, PageTypes
      <3> QED
        BY <1>0, <2>5, <3>3, SameTypes DEF UpdateStatus
    <2> QED
      BY <1>11, <2>2, <2>3, <2>4, <2>5 DEF Page
  <1>12. CASE UNCHANGED vars
    BY <1>0, <1>12, SameTypes DEF vars, appVars
  <1> QED
    BY <1>1, <1>2, <1>3, <1>4, <1>5, <1>6, <1>8, <1>9, <1>10, <1>11, <1>12 DEF Next, App

\* So does the start.
LEMMA TypeInit == Init => BInv
  <1> SUFFICES ASSUME Init PROVE BInv
    OBVIOUS
  <1>1. inbox \in Seq(Seq(Bytes))
    <2>1. Start(1) \in Seq(Bytes) /\ Start(2) \in Seq(Bytes)
      BY Messages
    <2>2. PICK m \in Seq(Bytes) : inbox = <<m>>
      BY <2>1 DEF Init
    <2> QED
      BY <2>2
  <1>2. LinkTypes
    BY <1>1 DEF Init, LinkTypes
  <1>3. ServerTypes
    BY DEF Init, ServerTypes
  <1>4. ThreadTypes
    <2>1. 0 \in 0..ERROR
      BY DEF ERROR
    <2>2. GAME_STATE \in 0..255
      <3>1. GAME_STATE = 0
        BY DEF Init, NOT_STARTED
      <3> QED
        BY <3>1
    <2> QED
      BY <2>1, <2>2 DEF Init, ThreadTypes
  <1>5. posted \in Seq(Posts)
    BY EmptySeq DEF Init
  <1>6. page \in Pages
    BY DEF Init, Pages, AllStatuses, Statuses
  <1> QED
    BY <1>2, <1>3, <1>4, <1>5, <1>6, TypeParts DEF PageTypes

-----------------------------------------------------------------------------
(* What this client sees of the game, and what of it is unread.             *)

\* None of the three exceptions of PageInStep happened.
Unspoilt == spoilt \cap {"twice", "cut", "ghost"} = {}

\* No thread of the opponent is at work; no thread but t is.
Idle    == \A t \in Threads : opp[t] = "idle"
Only(t) == \A u \in Threads : u # t => opp[u] = "idle"

\* The boards of a player that are posted, and whether there is none; whether a tap is
\* taken.
Boards(who) == {x \in Members(posted) : x[1] = "board" /\ x[2] = who}
NoBoards    == \A x \in Members(posted) : x[1] # "board"
CanTap      == page.turn /\ ~page.disabled

\* The marks the page shows, and will show when it ran its own board update.
Shown == {m \in Players \X Cells : page.cells[m[2]] = m[1]}
Seen  == Shown \cup {<<"me", x[3]>> : x \in Boards("me")}

\* Nobody marked c.
Free(S, c) == \A p \in Players : <<p, c>> \notin S

\* The server waits for this player's move.
Mine == Even(Cardinality(marks)) <=> begins

\* This client, of which q is unread, has the turn and sees S.
HoldsTurn(q, S) ==
    \/ /\ ~over /\ q = <<>>
       /\ game = "TTT" => marks = S /\ Mine
       /\ game = "RPS" => \A d \in Cells : <<"me", d>> \notin marks
    \/ /\ over
       /\ q = <<>> \/ (q = <<OppDisconnected>> /\ ending = OPP_LEFT)
       /\ game = "TTT" => S \subseteq marks

\* This client, of which q is unread, moved and sees S.
Awaits(q, S) ==
    \/ /\ ~over /\ q = <<>>
       /\ game = "TTT" => marks = S /\ ~Mine
    \/ /\ game = "TTT"
       /\ \E d \in Cells :
             /\ Free(S, d) /\ marks = S \cup {<<"opp", d>>}
             /\ \/ q = <<MoveMade(d)>> /\ ~over /\ Mine
                \/ q = <<MoveMade(d), OppDisconnected>> /\ over /\ ending = OPP_LEFT
    \/ /\ over
       /\ game = "TTT" => S \subseteq marks
       /\ \E d \in Cells :
             /\ q = <<EndOfGame(ending, d)>> /\ ending \in Results
             /\ game = "TTT" => <<"opp", d>> \in marks \/ <<"me", d>> \in S
    \/ /\ over
       /\ game = "TTT" => S \subseteq marks
       /\ q = <<OppDisconnected>> /\ ending = OPP_LEFT

\* It was told c next.
Heard(c, q, S) ==
    \/ /\ game = "TTT" /\ c \in Cells /\ Free(S, c)
       /\ HoldsTurn(q, S \cup {<<"opp", c>>})
    \/ /\ over /\ q = <<>>
       /\ game = "TTT" =>
             /\ S \subseteq marks
             /\ c \in Cells => <<"opp", c>> \in marks \/ <<"me", c>> \in S

-----------------------------------------------------------------------------

\* Turns alternate.
LEMMA EvenNext == \A n \in Nat : Even(n + 1) <=> ~Even(n)
  BY DEF Even

\* One mark more is one move more.
LEMMA OneMore ==
    ASSUME TypeOK, NEW x \in Players \X Cells, x \notin marks, marks' = marks \cup {x},
           UNCHANGED begins
    PROVE  Mine' <=> ~Mine
  <1>1. marks \subseteq Players \X Cells /\ begins \in BOOLEAN
    BY DEF TypeOK
  <1>2. IsFiniteSet(0..8)
    <2>1. 0 \in Int /\ 8 \in Int
      OBVIOUS
    <2> QED
      BY <2>1, FS_Interval
  <1>3. IsFiniteSet(Cells)
    BY <1>2, FS_Subset, CellsAssumption
  <1>4. IsFiniteSet({"me"}) /\ IsFiniteSet({"me"} \cup {"opp"})
    BY FS_Singleton, FS_AddElement
  <1>5. IsFiniteSet(Players)
    BY <1>4 DEF Players
  <1>6. IsFiniteSet(Players \X Cells)
    BY <1>3, <1>5, FS_Product
  <1>7. IsFiniteSet(marks)
    BY <1>1, <1>6, FS_Subset
  <1>8. Cardinality(marks) \in Nat /\ Cardinality(marks \cup {x}) = Cardinality(marks) + 1
    BY <1>7, FS_AddElement, FS_CardinalityType
  <1> QED
    BY <1>1, <1>8, EvenNext DEF Mine

\* Two writes after each other.
LEMMA TwoOnes ==
    ASSUME NEW a, NEW b
    PROVE  <<a>> \o <<b>> = <<a, b>>
  <1> DEFINE S == {a, b}
  <1>1. <<a>> \in Seq(S) /\ <<b>> \in Seq(S) /\ <<a, b>> \in Seq(S)
    OBVIOUS
  <1>2. PICK u \in Seq(S) : u = <<a>> \o <<b>>
    BY <1>1, ConcatProperties
  <1>3. Len(u) = 2 /\ u[1] = a /\ u[2] = b
    BY <1>1, <1>2, ConcatProperties
  <1>4. PICK v \in Seq(S) : v = <<a, b>>
    BY <1>1
  <1>5. Len(v) = 2 /\ v[1] = a /\ v[2] = b
    BY <1>4
  <1>6. \A i \in 1..2 : i = 1 \/ i = 2
    OBVIOUS
  <1>7. \A i \in 1..Len(u) : u[i] = v[i]
    BY <1>3, <1>5, <1>6
  <1> HIDE DEF S
  <1> QED
    BY <1>2, <1>3, <1>4, <1>5, <1>7, SeqEqual

\* What the connection holds when one write is appended.
LEMMA Appending ==
    ASSUME NEW q \in Seq(Seq(Bytes)), NEW s \in Seq(Bytes), NEW r \in Seq(Bytes)
    PROVE  /\ q \o <<>> = q /\ <<>> \o q = q
           /\ <<>> \o <<s>> = <<s>> /\ <<s>> \o <<r>> = <<s, r>>
           /\ <<s>> \in Seq(Seq(Bytes)) /\ <<>> \in Seq(Seq(Bytes))
  <1> HIDE DEF Bytes
  <1>1. <<s>> \in Seq(Seq(Bytes)) /\ <<>> \in Seq(Seq(Bytes))
    BY EmptySeq
  <1>2. q \o <<>> = q /\ <<>> \o q = q
    BY ConcatEmptySeq
  <1>3. <<>> \o <<s>> = <<s>>
    BY <1>1, ConcatEmptySeq
  <1>4. <<s>> \o <<r>> = <<s, r>>
    BY TwoOnes
  <1> QED
    BY <1>1, <1>2, <1>3, <1>4

\* What is written when the opponent moves.
LEMMA OpponentMovesLink ==
    ASSUME BInv, NEW c \in Cells, OpponentMoves(c)
    PROVE  \E new \in Seq(Seq(Bytes)) :
              /\ inbox' = inbox \o new
              /\ \A q \in Seq(Seq(Bytes)), S \in SUBSET (Players \X Cells) :
                    /\ HoldsTurn(q, S) => HoldsTurn(q \o new, S)'
                    /\ Awaits(q, S) => Awaits(q \o new, S)'
  <1> DEFINE x == <<"opp", c>>
             m == marks \cup {x}
  <1>1. /\ TypeOK /\ game \in {"TTT", "RPS"} /\ begins \in BOOLEAN
        /\ inbox \in Seq(Seq(Bytes)) /\ marks \subseteq Players \X Cells
    BY DEF BInv, TypeOK, Bytes
  <1>2. /\ ~over /\ Valid("opp", c) /\ marks' = m /\ UNCHANGED <<game, begins>>
        /\ x \in Players \X Cells /\ "opp" \in Players
    BY DEF OpponentMoves, Play, Players
  <1>3. x \notin marks
    BY <1>1, <1>2 DEF Valid
  <1>4. Mine' <=> ~Mine
    BY <1>1, <1>2, <1>3, OneMore
  <1>5. game = "TTT" => ~Mine /\ Free(marks, c)
    BY <1>2 DEF Valid, Mine, Free
  <1>6. CASE /\ ~MustEnd(m) /\ UNCHANGED <<over, ending>>
             /\ inbox' = inbox \o <<>> \o (IF game = "TTT" THEN <<MoveMade(c)>> ELSE <<>>)
    <2>1. CASE game = "TTT"
      <3>1. MoveMade(c) \in Seq(Bytes)
        BY Messages, CellsAssumption
      <3>2. inbox' = inbox \o <<MoveMade(c)>> /\ <<MoveMade(c)>> \in Seq(Seq(Bytes))
        BY <1>1, <1>6, <2>1, <3>1, Appending
      <3>3. ASSUME NEW q \in Seq(Seq(Bytes)), NEW S \in SUBSET (Players \X Cells), HoldsTurn(q, S)
            PROVE  FALSE
        BY <1>2, <1>5, <2>1, <3>3 DEF HoldsTurn
      <3>4. ASSUME NEW q \in Seq(Seq(Bytes)), NEW S \in SUBSET (Players \X Cells), Awaits(q, S)
            PROVE  Awaits(q \o <<MoveMade(c)>>, S)'
        <4>1. q = <<>> /\ marks = S
          BY <1>2, <1>5, <2>1, <3>4 DEF Awaits
        <4>2. q \o <<MoveMade(c)>> = <<MoveMade(c)>>
          BY <3>1, <4>1, Appending
        <4>3. Free(S, c) /\ marks' = S \cup {<<"opp", c>>} /\ ~over' /\ Mine' /\ game' = "TTT"
          BY <1>2, <1>4, <1>5, <1>6, <2>1, <4>1
        <4> QED
          BY <4>2, <4>3 DEF Awaits
      <3> QED
        BY <3>2, <3>3, <3>4
    <2>2. CASE game = "RPS"
      <3>1. inbox' = inbox \o <<>>
        BY <1>1, <1>6, <2>2, Appending, EmptySeq
      <3>2. ASSUME NEW q \in Seq(Seq(Bytes)), NEW S \in SUBSET (Players \X Cells), HoldsTurn(q, S)
            PROVE  HoldsTurn(q \o <<>>, S)'
        <4>1. q = <<>> /\ \A d \in Cells : <<"me", d>> \notin marks
          BY <1>2, <2>2, <3>2 DEF HoldsTurn
        <4>2. \A d \in Cells : <<"me", d>> \notin marks'
          BY <1>2, <4>1
        <4>3. q \o <<>> = <<>>
          BY <4>1, ConcatEmptySeq
        <4> QED
          BY <1>2, <1>6, <2>2, <4>2, <4>3 DEF HoldsTurn
      <3>3. ASSUME NEW q \in Seq(Seq(Bytes)), NEW S \in SUBSET (Players \X Cells), Awaits(q, S)
            PROVE  Awaits(q \o <<>>, S)'
        <4>1. q = <<>>
          BY <1>2, <2>2, <3>3 DEF Awaits
        <4>2. q \o <<>> = <<>>
          BY <4>1, ConcatEmptySeq
        <4> QED
          BY <1>2, <1>6, <2>2, <4>2 DEF Awaits
      <3> QED
        BY <3>1, <3>2, <3>3, EmptySeq
    <2> QED
      BY <1>1, <2>1, <2>2
  <1>7. CASE /\ MayEnd(m) /\ over' = TRUE /\ ending' \in Results
             /\ inbox' = inbox \o <<>> \o <<EndOfGame(ending', Disclosed(m, c))>>
    <2>1. PICK d \in Cells : d = Disclosed(m, c) /\ (game = "TTT" => d = c)
      BY <1>1, <1>2, <1>7, DisclosedIsMade
    <2>2. PICK r \in Results : r = ending'
      BY <1>7
    <2>3. PICK e \in Seq(Bytes) : e = EndOfGame(r, d)
      <3>1. r \in 0..8 /\ d \in 0..8
        BY CellsAssumption, ResultsAssumption
      <3>2. EndOfGame(r, d) \in Seq(Bytes)
        BY <3>1, Messages
      <3> QED
        BY <3>2
    <2>4. inbox' = inbox \o <<e>> /\ <<e>> \in Seq(Seq(Bytes))
      BY <1>1, <1>7, <2>1, <2>2, <2>3, Appending
    <2>5. ASSUME NEW q \in Seq(Seq(Bytes)), NEW S \in SUBSET (Players \X Cells), HoldsTurn(q, S)
          PROVE  FALSE
      <3>1. CASE game = "TTT"
        BY <1>2, <1>5, <2>5, <3>1 DEF HoldsTurn
      <3>2. CASE game = "RPS"
        <4>1. \A d1 \in Cells : <<"me", d1>> \notin marks /\ <<"opp", d1>> \notin marks
          BY <1>2, <2>5, <3>2 DEF HoldsTurn, Valid
        <4>2. marks = {}
          <5> SUFFICES ASSUME NEW y \in marks PROVE FALSE
            OBVIOUS
          <5>1. PICK p \in Players, d1 \in Cells : y = <<p, d1>>
            BY <1>1
          <5> QED
            BY <4>1, <5>1 DEF Players
        <4>3. Cardinality(m) = 1
          BY <4>2, FS_Singleton
        <4> QED
          BY <1>7, <3>2, <4>3 DEF MayEnd
      <3> QED
        BY <1>1, <3>1, <3>2
    <2>6. ASSUME NEW q \in Seq(Seq(Bytes)), NEW S \in SUBSET (Players \X Cells), Awaits(q, S)
          PROVE  Awaits(q \o <<e>>, S)'
      <3>1. q = <<>> /\ (game = "TTT" => marks = S)
        BY <1>2, <1>5, <2>6 DEF Awaits
      <3>2. q \o <<e>> = <<EndOfGame(ending', d)>>
        BY <2>2, <2>3, <3>1, Appending
      <3>3. over' /\ ending' \in Results
            /\ (game' = "TTT" => S \subseteq marks' /\ <<"opp", d>> \in marks')
        BY <1>2, <1>7, <2>1, <3>1
      <3>4. PICK e1 : e1 = ending'
        OBVIOUS
      <3> QED
        BY <3>2, <3>3 DEF Awaits, EndOfGame
    <2> QED
      BY <2>4, <2>5, <2>6
  <1> QED
    BY <1>6, <1>7 DEF OpponentMoves, Play

\* What is written when the opponent leaves.
LEMMA OpponentLeavesLink ==
    ASSUME BInv, OpponentLeaves
    PROVE  \E new \in Seq(Seq(Bytes)) :
              /\ inbox' = inbox \o new
              /\ \A q \in Seq(Seq(Bytes)), S \in SUBSET (Players \X Cells) :
                    /\ HoldsTurn(q, S) => HoldsTurn(q \o new, S)'
                    /\ Awaits(q, S) => Awaits(q \o new, S)'
  <1> DEFINE e == OppDisconnected
  <1>1. inbox \in Seq(Seq(Bytes)) /\ marks \subseteq Players \X Cells
    BY DEF BInv, TypeOK, Bytes
  <1>2. e \in Seq(Bytes)
    BY Messages
  <1>3. ~over /\ over' = TRUE /\ ending' = OPP_LEFT /\ UNCHANGED <<game, begins, marks>>
    BY DEF OpponentLeaves
  <1>4. inbox' = inbox \o <<e>> /\ <<e>> \in Seq(Seq(Bytes))
    BY <1>1, <1>2, AppendIsConcat, Appending DEF OpponentLeaves
  <1>5. ASSUME NEW q \in Seq(Seq(Bytes)), NEW S \in SUBSET (Players \X Cells), HoldsTurn(q, S)
        PROVE  HoldsTurn(q \o <<e>>, S)'
    <2>1. q = <<>> /\ (game = "TTT" => S \subseteq marks)
      BY <1>3, <1>5 DEF HoldsTurn
    <2>2. q \o <<e>> = <<e>>
      BY <1>2, <2>1, Appending
    <2> QED
      BY <1>3, <2>1, <2>2 DEF HoldsTurn
  <1>6. ASSUME NEW q \in Seq(Seq(Bytes)), NEW S \in SUBSET (Players \X Cells), Awaits(q, S)
        PROVE  Awaits(q \o <<e>>, S)'
    <2>1. CASE q = <<>> /\ (game = "TTT" => marks = S)
      <3>1. q \o <<e>> = <<e>>
        BY <1>2, <2>1, Appending
      <3> QED
        BY <1>3, <2>1, <3>1 DEF Awaits
    <2>2. CASE /\ game = "TTT"
               /\ \E d \in Cells : /\ Free(S, d) /\ marks = S \cup {<<"opp", d>>}
                                   /\ q = <<MoveMade(d)>>
      <3>1. PICK d \in Cells : Free(S, d) /\ marks = S \cup {<<"opp", d>>} /\ q = <<MoveMade(d)>>
        BY <2>2
      <3>2. MoveMade(d) \in Seq(Bytes)
        BY Messages, CellsAssumption
      <3>3. q \o <<e>> = <<MoveMade(d), e>>
        BY <1>2, <3>1, <3>2, Appending
      <3> QED
        BY <1>3, <2>2, <3>1, <3>3 DEF Awaits, MoveMade
    <2> QED
      BY <1>3, <1>6, <2>1, <2>2 DEF Awaits
  <1> HIDE DEF e
  <1> QED
    BY <1>4, <1>5, <1>6

\* What is written when the server takes this player's move.
LEMMA ServerTakesLink ==
    ASSUME BInv, ServerTakes, NEW S \in SUBSET (Players \X Cells),
           HoldsTurn(inbox, S), game = "TTT" => Free(S, request)
    PROVE  /\ inbox' # <<>> /\ Head(inbox') = Success
           /\ \E q \in Seq(Seq(Bytes)), c \in Cells :
                 /\ c = request /\ q = Tail(inbox')
                 /\ Awaits(q, S \cup {<<"me", c>>})'
  <1>1. /\ TypeOK /\ game \in {"TTT", "RPS"} /\ begins \in BOOLEAN
        /\ inbox \in Seq(Seq(Bytes)) /\ marks \subseteq Players \X Cells
    BY DEF BInv, TypeOK, Bytes
  <1>2. PICK c \in Cells : c = request
    BY DEF ServerTakes, BInv, TypeOK
  <1> DEFINE x == <<"me", c>>
             m == marks \cup {x}
             T == S \cup {x}
  <1>3. ~over /\ inbox = <<>>
    BY DEF ServerTakes, HoldsTurn
  <1>4. game = "TTT" => marks = S /\ Mine /\ Free(S, c)
    BY <1>2, <1>3 DEF HoldsTurn
  <1>5. game = "RPS" => \A d \in Cells : <<"me", d>> \notin marks
    BY <1>3 DEF HoldsTurn
  <1>6. Valid("me", c)
    BY <1>1, <1>4, <1>5 DEF Valid, Mine, Free
  <1>7. Play("me", c, <<Success>>)
    BY <1>2, <1>6 DEF ServerTakes
  <1>8. /\ marks' = m /\ UNCHANGED <<game, begins>>
        /\ x \in Players \X Cells /\ "me" \in Players /\ x \notin marks
    BY <1>1, <1>4, <1>5, <1>7 DEF Play, Players, Free
  <1>9. Mine' <=> ~Mine
    BY <1>1, <1>8, OneMore
  <1>10. Success \in Seq(Bytes)
    BY Messages
  <1>11. \A q \in Seq(Seq(Bytes)) :
            <<Success>> \o q # <<>> /\ Head(<<Success>> \o q) = Success /\ Tail(<<Success>> \o q) = q
    BY <1>10, HeadOfConcat
  <1>12. CASE /\ UNCHANGED <<over, ending>> /\ inbox' = inbox \o <<Success>> \o <<>>
    <2>1. inbox' = <<Success>> \o <<>>
      BY <1>3, <1>10, <1>12, Appending
    <2>2. <<>> \in Seq(Seq(Bytes))
      BY EmptySeq
    <2>3. Awaits(<<>>, T)'
      BY <1>3, <1>4, <1>8, <1>9, <1>12 DEF Awaits
    <2> QED
      BY <1>2, <1>11, <2>1, <2>2, <2>3
  <1>13. CASE /\ MayEnd(m) /\ over' = TRUE /\ ending' \in Results
              /\ inbox' = inbox \o <<Success>> \o <<EndOfGame(ending', Disclosed(m, c))>>
    <2>1. PICK d \in Cells : d = Disclosed(m, c) /\ (game = "TTT" => d = c)
      BY <1>1, <1>6, <1>8, <1>13, DisclosedIsMade
    <2>2. PICK r \in Results : r = ending'
      BY <1>13
    <2>3. PICK e \in Seq(Bytes) : e = EndOfGame(r, d)
      <3>1. r \in 0..8 /\ d \in 0..8
        BY CellsAssumption, ResultsAssumption
      <3>2. EndOfGame(r, d) \in Seq(Bytes)
        BY <3>1, Messages
      <3> QED
        BY <3>2
    <2>4. inbox' = <<Success>> \o <<e>>
      BY <1>3, <1>10, <1>13, <2>1, <2>2, <2>3, Appending
    <2>5. PICK q \in Seq(Seq(Bytes)) : q = <<e>>
      BY <2>3, Appending, EmptySeq
    <2>6. game' = "TTT" => T \subseteq marks' /\ <<"me", d>> \in T
      BY <1>4, <1>8, <2>1
    <2>7. Awaits(q, T)'
      <3>1. q = <<EndOfGame(ending', d)>>
        BY <2>2, <2>3, <2>5
      <3> QED
        BY <1>13, <2>6, <3>1 DEF Awaits, EndOfGame
    <2> QED
      BY <1>2, <1>11, <2>4, <2>5, <2>7
  <1> QED
    BY <1>7, <1>12, <1>13 DEF Play

\* What is seen has been made.
LEMMA SeenIsMade ==
    ASSUME NEW q, NEW S, game = "TTT"
    PROVE  /\ HoldsTurn(q, S) => S \subseteq marks
           /\ Awaits(q, S) => S \subseteq marks
           /\ \A c : Heard(c, q, S) => S \subseteq marks
  BY DEF HoldsTurn, Awaits, Heard

-----------------------------------------------------------------------------
(* The queue of the page, and what a read takes.                            *)

\* Who is told first waits in front; a board of each player at most.
Queue ==
    /\ \A i \in DOMAIN posted :
          posted[i][1] \in {"initialize", "started"} => i = 1 /\ start = "posted"
    /\ \A i, j \in DOMAIN posted :
          i < j /\ posted[i][1] = "board" /\ posted[j][1] = "board" =>
              posted[i][2] = "me" /\ posted[j][2] = "opp"

\* The queue with one item more.
LEMMA Posted ==
    ASSUME posted \in Seq(Posts), NEW item \in Posts, Post(item)
    PROVE  /\ Members(posted') = Members(posted) \cup {item}
           /\ DOMAIN posted' = 1..(Len(posted) + 1) /\ DOMAIN posted = 1..Len(posted)
           /\ Len(posted) \in Nat
           /\ posted'[Len(posted) + 1] = item
           /\ \A i \in 1..Len(posted) : posted'[i] = posted[i]
  <1>1. PICK n \in Nat : n = Len(posted)
    BY LenProperties
  <1>2. /\ DOMAIN posted' = 1..(n + 1) /\ DOMAIN posted = 1..n
        /\ posted'[n + 1] = item
        /\ \A i \in 1..n : posted'[i] = posted[i]
    BY <1>1, AppendProperties, LenProperties DEF Post
  <1>3. Members(posted') = Members(posted) \cup {item}
    <2>1. 1..(n + 1) = 1..n \cup {n + 1}
      BY <1>1
    <2>2. n + 1 \notin 1..n
      BY <1>1
    <2> QED
      BY <1>2, <2>1, <2>2 DEF Members
  <1> QED
    BY <1>1, <1>2, <1>3

\* The queue with its first item run.
LEMMA Ran ==
    ASSUME posted \in Seq(Posts), posted # <<>>, posted' = Tail(posted)
    PROVE  /\ Members(posted) = Members(posted') \cup {Head(posted)}
           /\ Len(posted) \in Nat \ {0} /\ DOMAIN posted = 1..Len(posted)
           /\ DOMAIN posted' = 1..(Len(posted) - 1)
           /\ posted[1] = Head(posted)
           /\ \A i \in 1..(Len(posted) - 1) : posted'[i] = posted[i + 1]
  <1>1. PICK n \in Nat : n = Len(posted)
    BY LenProperties
  <1>2. n # 0
    BY <1>1, EmptySeq
  <1>3. /\ DOMAIN posted' = 1..(n - 1) /\ DOMAIN posted = 1..n
        /\ posted[1] = Head(posted)
        /\ \A i \in 1..(n - 1) : posted'[i] = posted[i + 1]
    BY <1>1, <1>2, HeadTailProperties, LenProperties
  <1>4. Members(posted) \subseteq Members(posted') \cup {Head(posted)}
    <2> SUFFICES ASSUME NEW i \in 1..n PROVE posted[i] \in Members(posted') \cup {Head(posted)}
      BY <1>3 DEF Members
    <2>1. CASE i = 1
      BY <2>1, <1>3
    <2>2. CASE i # 1
      <3>1. i - 1 \in 1..(n - 1) /\ (i - 1) + 1 = i
        BY <2>2
      <3>2. posted'[i - 1] = posted[i]
        BY <1>3, <3>1
      <3> QED
        BY <1>3, <3>1, <3>2 DEF Members
    <2> QED
      BY <2>1, <2>2
  <1>5. Members(posted') \cup {Head(posted)} \subseteq Members(posted)
    <2>1. 1 \in 1..n
      BY <1>2
    <2>2. ASSUME NEW i \in 1..(n - 1) PROVE posted'[i] \in Members(posted)
      <3>1. i + 1 \in 1..n
        OBVIOUS
      <3> QED
        BY <1>3, <3>1 DEF Members
    <2> QED
      BY <1>3, <2>1, <2>2 DEF Members
  <1> QED
    BY <1>1, <1>2, <1>3, <1>4, <1>5

\* Posting keeps the order: no board of the player behind another, none of the opponent
\* behind one of its own.
LEMMA PostKeepsQueue ==
    ASSUME posted \in Seq(Posts), NEW item \in Posts, Post(item), Queue, start' = start,
           item[1] \notin {"initialize", "started"},
           item[1] = "board" => NoBoards \/ (item[2] = "opp" /\ Boards("opp") = {})
    PROVE  Queue'
  <1>1. PICK n \in Nat : n = Len(posted)
    BY LenProperties
  <1>2. /\ DOMAIN posted' = 1..(n + 1) /\ DOMAIN posted = 1..n
        /\ posted'[n + 1] = item
        /\ \A i \in 1..n : posted'[i] = posted[i]
    BY <1>1, Posted
  <1>3. \A i \in 1..n : posted[i] \in Members(posted) /\ posted[i] \in Posts
    BY <1>1, <1>2, ElementOfSeq DEF Members
  <1>4. \A i \in 1..(n + 1) : i \in 1..n \/ i = n + 1
    OBVIOUS
  <1>5. \A i, j \in 1..(n + 1) : i < j => i \in 1..n
    OBVIOUS
  <1>6. ASSUME NEW i \in 1..(n + 1), posted'[i][1] \in {"initialize", "started"}
        PROVE  i = 1 /\ start' = "posted"
    BY <1>2, <1>4, <1>6 DEF Queue
  <1>7. ASSUME NEW i \in 1..(n + 1), NEW j \in 1..(n + 1), i < j,
               posted'[i][1] = "board", posted'[j][1] = "board"
        PROVE  posted'[i][2] = "me" /\ posted'[j][2] = "opp"
    <2>1. i \in 1..n
      BY <1>5, <1>7
    <2>2. CASE j \in 1..n
      BY <1>2, <1>7, <2>1, <2>2 DEF Queue
    <2>3. CASE j = n + 1
      <3>1. posted[i] \in Members(posted) /\ posted[i] \in Posts /\ posted[i][1] = "board"
        BY <1>2, <1>3, <1>7, <2>1
      <3>2. item[1] = "board" /\ posted'[j] = item
        BY <1>2, <1>7, <2>3
      <3>3. item[2] = "opp" /\ posted[i][2] # "opp"
        BY <3>1, <3>2 DEF NoBoards, Boards
      <3>4. posted[i][2] = "me"
        BY <3>1, <3>3, Kinds DEF Players
      <3> QED
        BY <1>2, <2>1, <3>2, <3>3, <3>4
    <2> QED
      BY <1>4, <2>2, <2>3
  <1> QED
    BY <1>2, <1>6, <1>7 DEF Queue

\* Running keeps it, and nothing behind the first item belongs to the start.
LEMMA RunKeepsQueue ==
    ASSUME posted \in Seq(Posts), posted # <<>>, posted' = Tail(posted), Queue
    PROVE  /\ Queue'
           /\ \A x \in Members(posted') :
                 /\ x \in Members(posted) /\ x[1] \notin {"initialize", "started"}
                 /\ x[1] = "board" /\ Head(posted)[1] = "board" =>
                        Head(posted)[2] = "me" /\ x[2] = "opp"
           /\ \A x \in Members(posted) : x = Head(posted) \/ x \in Members(posted')
  <1>1. PICK n \in Nat \ {0} : n = Len(posted)
    BY Ran
  <1>2. /\ DOMAIN posted = 1..n /\ DOMAIN posted' = 1..(n - 1)
        /\ posted[1] = Head(posted)
        /\ \A i \in 1..(n - 1) : posted'[i] = posted[i + 1]
        /\ Members(posted) = Members(posted') \cup {Head(posted)}
    BY <1>1, Ran
  <1>3. \A i \in 1..(n - 1) : i + 1 \in 1..n /\ i + 1 # 1 /\ 1 < i + 1 /\ 1 \in 1..n
    OBVIOUS
  <1>4. \A i, j \in 1..(n - 1) : i < j => i + 1 < j + 1
    OBVIOUS
  <1>5. ASSUME NEW i \in 1..(n - 1) PROVE posted'[i][1] \notin {"initialize", "started"}
    BY <1>2, <1>3 DEF Queue
  <1>6. ASSUME NEW i \in 1..(n - 1), NEW j \in 1..(n - 1), i < j,
               posted'[i][1] = "board", posted'[j][1] = "board"
        PROVE  posted'[i][2] = "me" /\ posted'[j][2] = "opp"
    BY <1>2, <1>3, <1>4, <1>6 DEF Queue
  <1>7. ASSUME NEW i \in 1..(n - 1), posted'[i][1] = "board", Head(posted)[1] = "board"
        PROVE  Head(posted)[2] = "me" /\ posted'[i][2] = "opp"
    BY <1>2, <1>3, <1>7 DEF Queue
  <1>8. \A x \in Members(posted') : \E i \in 1..(n - 1) : x = posted'[i]
    BY <1>2 DEF Members
  <1>9. Queue'
    BY <1>2, <1>5, <1>6 DEF Queue
  <1> QED
    BY <1>2, <1>5, <1>7, <1>8, <1>9

-----------------------------------------------------------------------------

\* A mark is a player and a cell.
LEMMA AMark == \A x \in Players \X Cells : \E p \in Players, d \in Cells : x = <<p, d>>
  OBVIOUS

\* A free cell that is marked is one mark more.
LEMMA ShownMark ==
    ASSUME page \in Pages, NEW c \in Cells, NEW who \in Players, page.cells[c] = " ",
           page'.cells = [page.cells EXCEPT ![c] = who]
    PROVE  Shown' = Shown \cup {<<who, c>>}
  <1>1. page.cells \in [Cells -> Players \cup {" "}]
    BY DEF Pages
  <1>2. " " \notin Players
    BY DEF Players
  <1>3. ASSUME NEW p \in Players, NEW d \in Cells
        PROVE  page'.cells[d] = p <=> page.cells[d] = p \/ (p = who /\ d = c)
    <2>1. CASE d = c
      BY <1>1, <1>2, <2>1
    <2>2. CASE d # c
      BY <1>1, <2>2
    <2> QED
      BY <2>1, <2>2
  <1>4. ASSUME NEW p \in Players, NEW d \in Cells
        PROVE  <<p, d>> \in Shown' <=> <<p, d>> \in Shown \cup {<<who, c>>}
    BY <1>3, <1>4 DEF Shown
  <1>5. \A x \in Shown' : x \in Players \X Cells
    BY DEF Shown
  <1>6. \A x \in Shown : x \in Players \X Cells
    BY DEF Shown
  <1>7. <<who, c>> \in Players \X Cells
    OBVIOUS
  <1>8. ASSUME NEW x \in Players \X Cells PROVE x \in Shown' <=> x \in Shown \cup {<<who, c>>}
    <2>1. PICK p \in Players, d \in Cells : x = <<p, d>>
      BY AMark, Zenon
    <2>2. <<p, d>> \in Shown' <=> <<p, d>> \in Shown \cup {<<who, c>>}
      BY <1>4
    <2> QED
      BY <2>1, <2>2, Zenon
  <1> QED
    BY <1>5, <1>6, <1>7, <1>8

\* A cell is blank when it bears no mark.
LEMMA ShownFree ==
    ASSUME page \in Pages, NEW c \in Cells
    PROVE  page.cells[c] = " " <=> Free(Shown, c)
  <1>1. page.cells[c] \in Players \cup {" "} /\ " " \notin Players
    BY DEF Pages, Players
  <1>2. \A p \in Players : <<p, c>> \in Shown <=> page.cells[c] = p
    BY DEF Shown
  <1> QED
    BY <1>1, <1>2 DEF Free

-----------------------------------------------------------------------------

\* No read of several writes is shorter than the first of them.
LEMMA ArrivedGrows ==
    ASSUME inbox \in Seq(Seq(Bytes)), inbox # <<>>
    PROVE  /\ Arrived(1) = Head(inbox)
           /\ \A k \in 1..Len(inbox) : Len(Arrived(k)) >= Len(Head(inbox))
  <1>1. Head(inbox) = inbox[1] /\ Len(inbox) \in Nat /\ Len(inbox) # 0 /\ inbox[1] \in Seq(Bytes)
    BY HeadTailProperties, LenProperties, EmptySeq, ElementOfSeq
  <1>2. Upto(inbox, 1) = inbox[1]
    <2>1. 0 \in 0..(Len(inbox) - 1) /\ 0 + 1 = 1
      BY <1>1
    <2>2. Upto(inbox, 0 + 1) = Upto(inbox, 0) \o inbox[0 + 1]
      BY <2>1, UptoNext
    <2>3. Upto(inbox, 0) = <<>>
      BY UptoEnds
    <2> QED
      BY <1>1, <2>1, <2>2, <2>3, ConcatEmptySeq
  <1> DEFINE S == {j \in Nat : j + 1 <= Len(inbox) => Len(Upto(inbox, j + 1)) >= Len(inbox[1])}
  <1>3. Len(inbox[1]) \in Nat
    BY <1>1, LenProperties
  <1>4. 0 \in S
    BY <1>2, <1>3
  <1>5. ASSUME NEW n \in Nat, n \in S PROVE n + 1 \in S
    <2> SUFFICES ASSUME (n + 1) + 1 <= Len(inbox)
                 PROVE  Len(Upto(inbox, (n + 1) + 1)) >= Len(inbox[1])
      OBVIOUS
    <2>1. n + 1 \in 0..(Len(inbox) - 1) /\ (n + 1) + 1 \in 1..Len(inbox) /\ n + 1 <= Len(inbox)
      BY <1>1
    <2>2. Len(Upto(inbox, (n + 1) + 1)) = Len(Upto(inbox, n + 1)) + Len(inbox[(n + 1) + 1])
      BY <2>1, UptoAt
    <2>3. inbox[(n + 1) + 1] \in Seq(Bytes)
      BY <2>1, ElementOfSeq
    <2>4. Len(inbox[(n + 1) + 1]) \in Nat
      BY <2>3, LenProperties
    <2>5. Upto(inbox, n + 1) \in Seq(Bytes)
      <3>1. n + 1 \in 0..Len(inbox)
        BY <2>1, <1>1
      <3> QED
        BY <3>1, UptoType
    <2>6. Len(Upto(inbox, n + 1)) \in Nat
      BY <2>5, LenProperties
    <2>7. Len(Upto(inbox, n + 1)) >= Len(inbox[1])
      BY <1>5, <2>1
    <2>8. \A a, b, c \in Nat : a >= c => a + b >= c
      OBVIOUS
    <2> QED
      BY <1>3, <2>2, <2>4, <2>6, <2>7, <2>8
  <1> HIDE DEF S
  <1>6. Nat \subseteq S
    BY <1>4, <1>5, Induction
  <1>7. ASSUME NEW k \in 1..Len(inbox) PROVE Len(Upto(inbox, k)) >= Len(inbox[1])
    <2>1. k - 1 \in Nat /\ (k - 1) + 1 = k
      OBVIOUS
    <2>2. k - 1 \in S
      BY <1>6, <2>1
    <2>3. (k - 1) + 1 <= Len(inbox) => Len(Upto(inbox, (k - 1) + 1)) >= Len(inbox[1])
      BY <2>2 DEF S
    <2> QED
      BY <2>1, <2>3
  <1> QED
    BY <1>1, <1>2, <1>7 DEF Arrived, Upto

\* A read of one whole write.
LEMMA ReadsOne ==
    ASSUME inbox \in Seq(Seq(Bytes)), inbox # <<>>, NEW n \in 1..5, Takes(n, 1),
           NEW m \in Seq(Bytes), m = Head(inbox), Len(m) <= n
    PROVE  /\ inbox' = Tail(inbox) /\ Cut(n, 1) = {}
           /\ Buffer(n, 1) = [i \in 1..n |-> IF i <= Len(m) THEN m[i] ELSE 0]
  <1>1. Arrived(1) = m
    BY ArrivedGrows
  <1>2. Len(m) \in Nat
    BY LenProperties
  <1>3. ~(Len(m) > n)
    BY <1>2
  <1>4. inbox' = <<>> \o SubSeq(inbox, 2, Len(inbox))
    <2>1. inbox' = <<>> \o SubSeq(inbox, 1 + 1, Len(inbox))
      BY <1>1, <1>3 DEF Takes
    <2> QED
      BY <2>1
  <1>5. Tail(inbox) = SubSeq(inbox, 2, Len(inbox)) /\ Tail(inbox) \in Seq(Seq(Bytes))
    BY HeadTailProperties, TailIsSubSeq
  <1>6. inbox' = Tail(inbox)
    BY <1>4, <1>5, ConcatEmptySeq
  <1> QED
    BY <1>1, <1>3, <1>6 DEF Cut, Buffer

\* A read that the first write fills takes no other.
LEMMA ReadsFirst ==
    ASSUME inbox \in Seq(Seq(Bytes)), inbox # <<>>, NEW n \in 1..5,
           NEW k \in 1..Len(inbox), Takes(n, k), Len(Head(inbox)) = n
    PROVE  k = 1
  <1> SUFFICES ASSUME k # 1 PROVE FALSE
    OBVIOUS
  <1>1. k - 1 \in 1..Len(inbox)
    OBVIOUS
  <1>2. Len(Arrived(k - 1)) >= n
    BY <1>1, ArrivedGrows
  <1>3. Len(Arrived(k - 1)) \in Nat
    BY <1>1, Reading, LenProperties
  <1>4. Len(Arrived(k - 1)) < n
    BY DEF Takes
  <1> QED
    BY <1>2, <1>3, <1>4

-----------------------------------------------------------------------------
(* The phases of a game.                                                    *)

\* The page's own board update is on its way, or done.
MyBoard ==
    IF Boards("me") # {}
    THEN CanTap /\ (game = "TTT" => \A x \in Boards("me") : page.cells[x[3]] = " ")
    ELSE IF game = "TTT" THEN ~page.turn ELSE page.disabled

\* Nothing happened at the app; of what the server wrote after the start, q is unread.
Fresh(q) ==
    /\ tap = NONE /\ Idle /\ request = NONE /\ ~page.turn /\ ~page.disabled
    /\ Shown = {}
    /\ IF begins THEN HoldsTurn(q, {}) ELSE Awaits(q, {})

\* The start update is unread, or understood and posted.
Connecting ==
    /\ start = "connecting" /\ posted = <<>>
    /\ inbox # <<>> /\ Head(inbox) = Start(IF begins THEN 1 ELSE 2)
    /\ Fresh(Tail(inbox))
Created == start = "posted" /\ posted = <<<<"initialize", begins>>>> /\ Fresh(inbox)

\* The app read the start update and the page was initialized.
Started == /\ start # "connecting"
           /\ \A x \in Members(posted) : x[1] # "initialize"
Running == Started /\ (begins \/ start = "done")

\* The opponent begins, and no thread reads yet.
Opening ==
    /\ Started /\ ~begins /\ start \in {"posted", "thread"}
    /\ tap = NONE /\ Idle /\ NoBoards /\ request = NONE /\ ~page.turn /\ ~page.disabled
    /\ Awaits(inbox, Shown)

\* The page takes a tap.
OnTurn ==
    /\ Running /\ tap = NONE /\ Idle /\ NoBoards /\ CanTap
    /\ over \/ request = NONE
    /\ HoldsTurn(inbox, Shown)

\* The move is sent: the server has it, or has answered.
Tapped ==
    /\ Running /\ tap # NONE /\ Idle /\ NoBoards /\ CanTap
    /\ game = "TTT" => page.cells[tap] = " "
    /\ \/ request = tap /\ HoldsTurn(inbox, Shown)
       \/ /\ request = NONE /\ inbox # <<>> /\ Head(inbox) = Success
          /\ Awaits(Tail(inbox), Shown \cup {<<"me", tap>>})

\* A thread waits for the opponent.
Waiting ==
    /\ Running /\ tap = NONE /\ request = NONE
    /\ \E t \in Threads : opp[t] = "reading" /\ Only(t)
    /\ Boards("opp") = {} /\ MyBoard
    /\ Awaits(inbox, Seen)

\* It has read what came, and will look at GAME_STATE.
Judging ==
    /\ Running /\ tap = NONE /\ request = NONE
    /\ \E t \in Threads : opp[t] = "judging" /\ Only(t) /\ Heard(response[t], inbox, Seen)
    /\ Boards("opp") = {} /\ MyBoard

\* The opponent's move is posted.
Judged ==
    /\ Running /\ tap = NONE /\ request = NONE /\ Idle
    /\ \E x \in Boards("opp") : Boards("opp") = {x} /\ Heard(x[3], inbox, Seen)
    /\ MyBoard

\* The page shows the ending, and takes no more taps.
Done ==
    /\ Running /\ tap = NONE /\ Idle /\ NoBoards /\ over
    /\ IF game = "TTT" THEN ~page.turn /\ Shown \subseteq marks ELSE page.disabled

\* The phases together.
InStep ==
    \/ Connecting \/ Created \/ Opening \/ OnTurn \/ Tapped
    \/ Waiting \/ Judging \/ Judged \/ Done

\* A status names an ending only when it is that of the game; so do GAME_STATE and what
\* is posted.
Truthful(s) == s \in Statuses \/ (over /\ s = EndText(ending))
Told ==
    /\ GAME_STATE \in {NOT_STARTED, RUNNING} \/ (over /\ GAME_STATE = ending)
    /\ Truthful(page.status)
    /\ \A x \in Members(posted) :
          /\ x[1] = "board" => Truthful(x[4])
          /\ x[1] = "status" => Truthful(x[2])

\* What holds until one of the exceptions happens.
Sound == InStep /\ Told /\ Queue /\ ~dead

-----------------------------------------------------------------------------

\* The types of what the phases are about.
LEMMA SeenTypes ==
    ASSUME BInv
    PROVE  /\ Shown \in SUBSET (Players \X Cells) /\ Seen \in SUBSET (Players \X Cells)
           /\ inbox \in Seq(Seq(Bytes)) /\ posted \in Seq(Posts) /\ page \in Pages
           /\ game \in {"TTT", "RPS"} /\ begins \in BOOLEAN
           /\ (game = "RPS" => begins)
  <1>1. Shown \in SUBSET (Players \X Cells)
    BY DEF Shown
  <1>2. posted \in Seq(Posts)
    BY DEF BInv, TypeOK
  <1>3. \A x \in Members(posted) : x \in Posts
    BY <1>2, ElementOfSeq, LenProperties DEF Members
  <1>4. \A x \in Boards("me") : x[3] \in Cells
    BY <1>3, Kinds DEF Boards
  <1>5. \A x \in Boards("me") : <<"me", x[3]>> \in Players \X Cells
    BY <1>4 DEF Players
  <1>6. Seen \in SUBSET (Players \X Cells)
    BY <1>1, <1>5 DEF Seen
  <1>7. page \in Pages /\ inbox \in Seq(Seq(Bytes))
    BY TypeParts DEF PageTypes, LinkTypes
  <1> QED
    BY <1>1, <1>2, <1>6, <1>7 DEF BInv, TypeOK, NoFirstPlayer

\* The predicates on what is unread, of what is unread now and next.
LEMMA LinkNow ==
    ASSUME NEW q, NEW S
    PROVE  /\ inbox = q /\ Shown = S =>
                 (HoldsTurn(inbox, Shown) <=> HoldsTurn(q, S)) /\ (Awaits(inbox, Shown) <=> Awaits(q, S))
           /\ inbox = q /\ Seen = S =>
                 /\ Awaits(inbox, Seen) <=> Awaits(q, S)
                 /\ \A c : Heard(c, inbox, Seen) <=> Heard(c, q, S)
  BY DEF HoldsTurn, Awaits, Heard

\* The same, of the next step.
LEMMA LinkNext ==
    ASSUME NEW q, NEW S
    PROVE  /\ inbox' = q /\ Shown' = S =>
                 (HoldsTurn(inbox, Shown)' <=> HoldsTurn(q, S)') /\ (Awaits(inbox, Shown)' <=> Awaits(q, S)')
           /\ inbox' = q /\ Seen' = S =>
                 /\ Awaits(inbox, Seen)' <=> Awaits(q, S)'
                 /\ \A c : Heard(c, inbox, Seen)' <=> Heard(c, q, S)'
  BY DEF HoldsTurn, Awaits, Heard

\* They depend on the game of the server alone.
LEMMA LinkSame ==
    ASSUME UNCHANGED serverVars
    PROVE  \A q, S : /\ HoldsTurn(q, S)' <=> HoldsTurn(q, S)
                     /\ Awaits(q, S)' <=> Awaits(q, S)
                     /\ \A c : Heard(c, q, S)' <=> Heard(c, q, S)
  BY DEF HoldsTurn, Awaits, Heard, serverVars, Mine, MoveMade, EndOfGame, OppDisconnected

\* The first write stays first when others are appended.
LEMMA HeadTailConcat ==
    ASSUME NEW q \in Seq(Seq(Bytes)), q # <<>>, NEW r \in Seq(Seq(Bytes))
    PROVE  q \o r # <<>> /\ Head(q \o r) = Head(q) /\ Tail(q \o r) = Tail(q) \o r
  <1>1. PICK e \in Seq(Bytes), t \in Seq(Seq(Bytes)) : e = Head(q) /\ t = Tail(q) /\ q = <<e>> \o t
    BY HeadAndTail
  <1>2. q \o r = <<e>> \o (t \o r) /\ t \o r \in Seq(Seq(Bytes))
    BY <1>1, ConcatAssociative, ConcatProperties
  <1> QED
    BY <1>1, <1>2, HeadOfConcat, SMTT(30)

\* What the phases say of the app is its own.
LEMMA AppSame ==
    ASSUME UNCHANGED appVars
    PROVE  /\ Shown' = Shown /\ Seen' = Seen /\ Boards("opp")' = Boards("opp")
           /\ Idle' <=> Idle
           /\ NoBoards' <=> NoBoards
           /\ CanTap' <=> CanTap
           /\ game' = game => (MyBoard' <=> MyBoard)
           /\ \A t \in Threads : Only(t)' <=> Only(t)
  <1>1. posted' = posted /\ page' = page /\ opp' = opp
    BY DEF appVars
  <1>2. Shown' = Shown
    BY <1>1 DEF Shown
  <1>3. Boards("opp")' = Boards("opp") /\ Boards("me")' = Boards("me")
    BY <1>1 DEF Boards, Members
  <1>4. Seen' = Seen
    BY <1>2, <1>3 DEF Seen
  <1>5. (NoBoards' <=> NoBoards) /\ (CanTap' <=> CanTap)
    BY <1>1 DEF NoBoards, CanTap, Members
  <1>6. Idle' <=> Idle
    BY <1>1 DEF Idle
  <1>8. \A t \in Threads : Only(t)' <=> Only(t)
    BY <1>1 DEF Only
  <1>7. ASSUME game' = game PROVE MyBoard' <=> MyBoard
    BY <1>1, <1>3, <1>5, <1>7 DEF MyBoard, CanTap
  <1> QED
    BY <1>2, <1>3, <1>4, <1>5, <1>6, <1>7, <1>8

-----------------------------------------------------------------------------
(* The server's and the opponent's steps.                                   *)

\* The opponent moves or leaves: the app is where it was.
LEMMA OpponentStep ==
    ASSUME BInv, BInv', InStep, ~over, UNCHANGED <<game, begins, request, appVars>>,
           NEW new \in Seq(Seq(Bytes)), inbox' = inbox \o new,
           \A q \in Seq(Seq(Bytes)), S \in SUBSET (Players \X Cells) :
              /\ HoldsTurn(q, S) => HoldsTurn(q \o new, S)'
              /\ Awaits(q, S) => Awaits(q \o new, S)'
    PROVE  InStep'
  <1>1. /\ Shown \in SUBSET (Players \X Cells) /\ Seen \in SUBSET (Players \X Cells)
        /\ inbox \in Seq(Seq(Bytes)) /\ page \in Pages
        /\ game \in {"TTT", "RPS"}
    BY SeenTypes
  <1>2. /\ Shown' = Shown /\ Seen' = Seen /\ Boards("opp")' = Boards("opp")
        /\ Idle' <=> Idle
        /\ NoBoards' <=> NoBoards
        /\ CanTap' <=> CanTap
        /\ MyBoard' <=> MyBoard
        /\ \A t \in Threads : Only(t)' <=> Only(t)
    BY AppSame
  <1>3. /\ UNCHANGED <<game, begins, request, GAME_STATE, start, tap, opp, response, posted, page>>
        /\ Started' <=> Started
        /\ Running' <=> Running
    BY DEF appVars, Started, Running, Members
  <1>4. PICK q \in Seq(Seq(Bytes)) : q = inbox
    BY <1>1
  <1>5. PICK S \in SUBSET (Players \X Cells) : S = Shown
    BY <1>1
  <1>6. PICK T \in SUBSET (Players \X Cells) : T = Seen
    BY <1>1
  <1>7. q \o new = inbox' /\ S = Shown' /\ T = Seen'
    BY <1>2, <1>4, <1>5, <1>6
  <1>8. HoldsTurn(inbox, Shown) => HoldsTurn(inbox, Shown)'
    <2>1. HoldsTurn(q, S) => HoldsTurn(q \o new, S)'
      OBVIOUS
    <2> QED
      BY <1>4, <1>5, <1>7, <2>1, LinkNow, LinkNext
  <1>9. Awaits(inbox, Shown) => Awaits(inbox, Shown)'
    <2>1. Awaits(q, S) => Awaits(q \o new, S)'
      OBVIOUS
    <2> QED
      BY <1>4, <1>5, <1>7, <2>1, LinkNow, LinkNext
  <1>10. Awaits(inbox, Seen) => Awaits(inbox, Seen)'
    <2>1. Awaits(q, T) => Awaits(q \o new, T)'
      OBVIOUS
    <2> QED
      BY <1>4, <1>6, <1>7, <2>1, LinkNow, LinkNext
  <1>11. ASSUME NEW c, Heard(c, inbox, Seen) PROVE Heard(c, inbox, Seen)'
    <2>1. Heard(c, q, T)
      BY <1>4, <1>6, <1>11, LinkNow
    <2>2. game = "TTT" /\ c \in Cells /\ Free(T, c) /\ HoldsTurn(q, T \cup {<<"opp", c>>})
      BY <2>1 DEF Heard
    <2>3. T \cup {<<"opp", c>>} \in SUBSET (Players \X Cells)
      BY <2>2 DEF Players
    <2>4. HoldsTurn(q \o new, T \cup {<<"opp", c>>})'
      BY <2>2, <2>3
    <2>5. Heard(c, q \o new, T)'
      BY <1>3, <2>2, <2>4 DEF Heard
    <2> QED
      BY <1>7, <2>5, LinkNext
  <1>12. ASSUME inbox # <<>>, Connecting \/ (Tapped /\ request = NONE) PROVE InStep'
    <2>1. PICK p \in Seq(Seq(Bytes)) : p = Tail(inbox)
      BY <1>1, <1>12, HeadAndTail
    <2>2. inbox' # <<>> /\ Head(inbox') = Head(inbox) /\ Tail(inbox') = p \o new
      BY <1>1, <1>12, <2>1, HeadTailConcat
    <2>3. ASSUME NEW U \in SUBSET (Players \X Cells)
          PROVE  /\ HoldsTurn(p, U) => HoldsTurn(p \o new, U)'
                 /\ Awaits(p, U) => Awaits(p \o new, U)'
      OBVIOUS
    <2>4. CASE Connecting
      <3>1. {} \in SUBSET (Players \X Cells)
        OBVIOUS
      <3>2. Fresh(p)
        BY <2>1, <2>4 DEF Connecting
      <3>3. Fresh(p \o new)'
        BY <1>2, <1>3, <2>3, <3>1, <3>2 DEF Fresh
      <3>4. Fresh(Tail(inbox))'
        BY <2>2, <3>3 DEF Fresh, HoldsTurn, Awaits
      <3>5. Head(inbox') = Start(IF begins THEN 1 ELSE 2)'
        BY <1>3, <2>2, <2>4 DEF Connecting, Start
      <3> QED
        BY <1>3, <2>2, <2>4, <3>4, <3>5 DEF Connecting, InStep
    <2>5. CASE Tapped /\ request = NONE
      <3>1. tap \in Cells
        BY <2>5 DEF BInv, TypeOK, Tapped
      <3>2. PICK U \in SUBSET (Players \X Cells) : U = Shown \cup {<<"me", tap>>}
        <4>1. <<"me", tap>> \in Players \X Cells
          BY <3>1 DEF Players
        <4> QED
          BY <1>1, <4>1
      <3>3. Awaits(p, U) /\ Head(inbox) = Success
        BY <2>1, <2>5, <3>1, <3>2, CellsAssumption DEF Tapped, NONE
      <3>4. Awaits(p \o new, U)'
        BY <2>3, <3>3
      <3>5. (Shown \cup {<<"me", tap>>})' = U /\ Tail(inbox)' = p \o new
        BY <1>2, <1>3, <2>2, <3>2
      <3>6. Awaits(Tail(inbox), Shown \cup {<<"me", tap>>})'
        BY <3>4, <3>5 DEF Awaits
      <3> QED
        BY <1>2, <1>3, <2>2, <2>5, <3>3, <3>6 DEF Tapped, InStep, Success
    <2> QED
      BY <1>12, <2>4, <2>5
  <1>13. CASE Created
    <2>1. {} \in SUBSET (Players \X Cells)
      OBVIOUS
    <2>2. Fresh(q)
      BY <1>4, <1>13 DEF Created
    <2>3. Fresh(q \o new)'
      BY <1>2, <1>3, <2>1, <2>2 DEF Fresh
    <2>4. Fresh(inbox)'
      BY <1>7, <2>3 DEF Fresh, HoldsTurn, Awaits
    <2> QED
      BY <1>3, <1>13, <2>4 DEF Created, InStep
  <1>14. CASE Opening
    BY <1>2, <1>3, <1>9, <1>14 DEF Opening, InStep
  <1>15. CASE OnTurn
    BY <1>2, <1>3, <1>8, <1>15 DEF OnTurn, InStep
  <1>16. CASE Tapped /\ request = tap
    BY <1>2, <1>3, <1>8, <1>16 DEF Tapped, InStep
  <1>17. CASE Waiting
    BY <1>2, <1>3, <1>10, <1>17 DEF Waiting, InStep
  <1>18. CASE Judging
    BY <1>2, <1>3, <1>11, <1>18 DEF Judging, InStep
  <1>19. CASE Judged
    BY <1>2, <1>3, <1>11, <1>19 DEF Judged, InStep
  <1> QED
    BY <1>12, <1>13, <1>14, <1>15, <1>16, <1>17, <1>18, <1>19 DEF InStep, Done, Connecting, Tapped

\* The server takes the move, and what it writes starts with the success.
LEMMA ServerTakesStep ==
    ASSUME BInv, InStep, ServerTakes
    PROVE  InStep'
  <1>1. /\ Shown \in SUBSET (Players \X Cells) /\ page \in Pages
    BY SeenTypes
  <1>2. ~over /\ request # NONE /\ request' = NONE /\ UNCHANGED appVars /\ UNCHANGED <<game, begins>>
    BY DEF ServerTakes, Play, serverVars
  <1>3. Tapped /\ request = tap
    BY <1>2 DEF InStep, Connecting, Created, Fresh, Opening, OnTurn, Tapped, Waiting, Judging, Judged, Done
  <1>4. HoldsTurn(inbox, Shown) /\ request \in Cells
    BY <1>2, <1>3 DEF Tapped, BInv, TypeOK
  <1>5. PICK S \in SUBSET (Players \X Cells) : S = Shown
    BY <1>1
  <1>6. game = "TTT" => Free(S, request)
    BY <1>1, <1>3, <1>4, <1>5, ShownFree DEF Tapped
  <1>7. HoldsTurn(inbox, S)
    BY <1>4, <1>5 DEF HoldsTurn
  <1>8. /\ inbox' # <<>> /\ Head(inbox') = Success
        /\ \E q \in Seq(Seq(Bytes)), c \in Cells :
              c = request /\ q = Tail(inbox') /\ Awaits(q, S \cup {<<"me", c>>})'
    BY <1>6, <1>7, ServerTakesLink
  <1>9. PICK q \in Seq(Seq(Bytes)), c \in Cells :
            c = request /\ q = Tail(inbox') /\ Awaits(q, S \cup {<<"me", c>>})'
    BY <1>8
  <1>10. /\ Shown' = Shown
         /\ Idle' <=> Idle
         /\ NoBoards' <=> NoBoards
         /\ CanTap' <=> CanTap
    BY <1>2, AppSame
  <1>11. UNCHANGED <<tap, page, posted, start>> /\ (Running' <=> Running)
    BY <1>2 DEF appVars, Running, Started, Members
  <1>12. (Shown \cup {<<"me", tap>>})' = S \cup {<<"me", c>>}
    BY <1>3, <1>5, <1>9, <1>10, <1>11
  <1>13. Awaits(Tail(inbox), Shown \cup {<<"me", tap>>})'
    BY <1>9, <1>12 DEF Awaits
  <1>14. Tapped'
    BY <1>2, <1>3, <1>8, <1>10, <1>11, <1>13 DEF Tapped, Success
  <1> QED
    BY <1>14 DEF InStep

\* What is on its way to the page, of the boards.
SameBoards == \A x : x[1] = "board" => (x \in Members(posted') <=> x \in Members(posted))

\* The boards under way, by the queue.
LEMMA BoardsSame ==
    ASSUME SameBoards
    PROVE  /\ Boards("me")' = Boards("me") /\ Boards("opp")' = Boards("opp")
           /\ NoBoards' <=> NoBoards
  <1>1. \A x : x \in Boards("me")' <=> x \in Boards("me")
    BY DEF SameBoards, Boards
  <1>2. \A x : x \in Boards("opp")' <=> x \in Boards("opp")
    BY DEF SameBoards, Boards
  <1>3. NoBoards' <=> NoBoards
    BY DEF SameBoards, NoBoards
  <1> QED
    BY <1>1, <1>2, <1>3

\* A step that leaves boards, marks and threads alone.
LEMMA SteadyStep ==
    ASSUME BInv, InStep, Started, Started',
           UNCHANGED <<serverVars, linkVars, tap, opp, response>>,
           page'.turn = page.turn, page'.disabled = page.disabled, page'.cells = page.cells,
           SameBoards, Running => Running', Opening => start' \in {"posted", "thread"}
    PROVE  InStep'
  <1>1. Shown' = Shown
    BY DEF Shown
  <1>2. Boards("me")' = Boards("me") /\ Boards("opp")' = Boards("opp") /\ (NoBoards' <=> NoBoards)
    BY BoardsSame
  <1>3. Seen' = Seen
    BY <1>1, <1>2 DEF Seen
  <1>4. (Idle' <=> Idle) /\ (CanTap' <=> CanTap)
    BY DEF Idle, CanTap
  <1>5. \A t \in Threads : Only(t)' <=> Only(t)
    BY DEF Only
  <1>6. UNCHANGED <<game, begins, marks, over, ending, inbox, request>>
    BY DEF serverVars, linkVars
  <1>7. MyBoard' <=> MyBoard
    BY <1>2, <1>4, <1>6 DEF MyBoard
  <1>8. PICK q : q = inbox
    OBVIOUS
  <1>9. PICK S : S = Shown
    OBVIOUS
  <1>10. PICK T : T = Seen
    OBVIOUS
  <1>11. inbox' = q /\ Shown' = S /\ Seen' = T
    BY <1>1, <1>3, <1>6, <1>8, <1>9, <1>10
  <1>12. (HoldsTurn(inbox, Shown) <=> HoldsTurn(inbox, Shown)') /\ (Awaits(inbox, Shown) <=> Awaits(inbox, Shown)')
    BY <1>8, <1>9, <1>11, LinkNow, LinkNext, LinkSame
  <1>13. Awaits(inbox, Seen) <=> Awaits(inbox, Seen)'
    BY <1>8, <1>10, <1>11, LinkNow, LinkNext, LinkSame
  <1>14. \A c : Heard(c, inbox, Seen) <=> Heard(c, inbox, Seen)'
    BY <1>8, <1>10, <1>11, LinkNow, LinkNext, LinkSame
  <1>15. CASE Connecting \/ Created
    <2>1. start # "connecting" /\ posted = <<<<"initialize", begins>>>>
      BY <1>15 DEF Connecting, Created, Started
    <2>2. <<"initialize", begins>> \in Members(posted)
      BY <2>1 DEF Members
    <2> QED
      BY <2>2 DEF Started
  <1>16. CASE Opening
    BY <1>2, <1>4, <1>6, <1>12, <1>16 DEF Opening, InStep
  <1>17. CASE OnTurn
    BY <1>2, <1>4, <1>6, <1>12, <1>17 DEF OnTurn, InStep
  <1>18. CASE Tapped
    <2>1. CASE request = tap /\ HoldsTurn(inbox, Shown)
      BY <1>2, <1>4, <1>6, <1>12, <1>18, <2>1 DEF Tapped, InStep
    <2>2. CASE /\ request = NONE /\ inbox # <<>> /\ Head(inbox) = Success
               /\ Awaits(Tail(inbox), Shown \cup {<<"me", tap>>})
      <3>1. PICK p : p = Tail(inbox)
        OBVIOUS
      <3>2. PICK U : U = Shown \cup {<<"me", tap>>}
        OBVIOUS
      <3>3. Awaits(p, U)'
        BY <2>2, <3>1, <3>2, LinkSame
      <3>4. Tail(inbox)' = p /\ (Shown \cup {<<"me", tap>>})' = U
        BY <1>1, <1>6, <3>1, <3>2
      <3>5. Awaits(Tail(inbox), Shown \cup {<<"me", tap>>})'
        BY <3>3, <3>4 DEF Awaits
      <3> QED
        BY <1>2, <1>4, <1>6, <1>18, <2>2, <3>5 DEF Tapped, InStep, Success
    <2> QED
      BY <1>18, <2>1, <2>2 DEF Tapped
  <1>19. CASE Waiting
    BY <1>2, <1>5, <1>6, <1>7, <1>13, <1>19 DEF Waiting, InStep
  <1>20. CASE Judging
    BY <1>2, <1>5, <1>6, <1>7, <1>14, <1>20 DEF Judging, InStep
  <1>21. CASE Judged
    BY <1>2, <1>4, <1>6, <1>7, <1>14, <1>21 DEF Judged, InStep
  <1>22. CASE Done
    BY <1>1, <1>2, <1>4, <1>6, <1>22 DEF Done, InStep
  <1> QED
    BY <1>15, <1>16, <1>17, <1>18, <1>19, <1>20, <1>21, <1>22 DEF InStep

-----------------------------------------------------------------------------
(* The steps of the app, phase by phase.                                    *)

\* createGame understands the start update: both agree on who begins.
LEMMA CreateStep ==
    ASSUME BInv, InStep, CreateGame
    PROVE  InStep' /\ posted' = <<<<"initialize", begins>>>> /\ start' = "posted" /\ posted = <<>>
  <1>1. /\ inbox \in Seq(Seq(Bytes)) /\ page \in Pages
        /\ game \in {"TTT", "RPS"} /\ begins \in BOOLEAN /\ (game = "RPS" => begins)
    BY SeenTypes
  <1>2. Connecting
    BY DEF CreateGame, InStep, Created, Opening, OnTurn, Tapped, Waiting, Judging, Judged, Done, Running, Started
  <1> DEFINE m == Start(IF begins THEN 1 ELSE 2)
             n == IF game = "TTT" THEN 4 ELSE 3
  <1>3. inbox # <<>> /\ m = Head(inbox) /\ n \in 1..5 /\ Takes(n, 1) /\ posted = <<>>
    BY <1>2 DEF Connecting, CreateGame
  <1>4. m \in Seq(Bytes)
    <2>1. Start(1) \in Seq(Bytes) /\ Start(2) \in Seq(Bytes)
      BY Messages
    <2> QED
      BY <1>1, <2>1
  <1>5. Len(m) = n
    BY <1>1 DEF Start
  <1>6. inbox' = Tail(inbox)
    <2> HIDE DEF m, n
    <2>1. Len(m) <= n
      BY <1>3, <1>5
    <2> QED
      BY <1>1, <1>3, <1>4, <2>1, ReadsOne
  <1> DEFINE turn == game = "RPS" \/ Buffer(4, 1)[4] = 1
  <1>7. turn <=> begins
    <2>1. CASE game = "RPS"
      BY <1>1, <2>1
    <2>2. CASE game = "TTT"
      <3>1. m[4] = IF begins THEN 1 ELSE 2
        BY <1>1, <2>2 DEF Start
      <3>2. Arrived(1) = m /\ Len(m) = 4
        BY <1>1, <1>3, <1>5, <2>2, ArrivedGrows
      <3> HIDE DEF m
      <3>3. Buffer(4, 1)[4] = m[4]
        BY <3>2 DEF Buffer
      <3> QED
        BY <1>1, <2>2, <3>1, <3>3
    <2> QED
      BY <1>1, <2>1, <2>2
  <1>8. posted' = Append(posted, <<"initialize", turn>>)
    BY DEF CreateGame, Post
  <1>9. turn = begins
    BY <1>1, <1>7
  <1>10. posted' = <<<<"initialize", begins>>>>
    <2> HIDE DEF turn
    <2> QED
      BY <1>3, <1>8, <1>9
  <1>11. start' = "posted" /\ UNCHANGED <<serverVars, request, tap, opp, page>>
    BY DEF CreateGame
  <1>12. PICK q : q = Tail(inbox)
    OBVIOUS
  <1>13. Fresh(q)
    BY <1>2, <1>12 DEF Connecting
  <1>14. Fresh(q)'
    BY <1>11, <1>13, LinkSame DEF Fresh, Idle, Shown, serverVars
  <1>15. Fresh(inbox)'
    BY <1>6, <1>12, <1>14 DEF Fresh, HoldsTurn, Awaits
  <1>16. begins' = begins
    BY <1>11 DEF serverVars
  <1> QED
    BY <1>3, <1>10, <1>11, <1>15, <1>16 DEF InStep, Created

\* initializeGame leaves the first status to show.
LEMMA InitializeStep ==
    ASSUME BInv, InStep, InitializePage
    PROVE  /\ InStep' /\ posted' = <<<<"started">>>> /\ start' = "posted"
  <1>1. /\ inbox \in Seq(Seq(Bytes)) /\ page \in Pages /\ posted \in Seq(Posts)
        /\ game \in {"TTT", "RPS"} /\ begins \in BOOLEAN /\ (game = "RPS" => begins)
    BY SeenTypes
  <1>2. posted # <<>> /\ Head(posted)[1] = "initialize"
    BY DEF InitializePage, Runs
  <1>3. ~Started
    <2>1. Head(posted) \in Members(posted)
      <3>1. 1 \in DOMAIN posted /\ posted[1] = Head(posted)
        BY <1>1, <1>2, HeadTailProperties, LenProperties, EmptySeq
      <3> QED
        BY <3>1 DEF Members
    <2> QED
      BY <1>2, <2>1 DEF Started
  <1>4. Created
    BY <1>2, <1>3 DEF InStep, Connecting, Opening, OnTurn, Tapped, Waiting, Judging, Judged, Done, Running
  <1>5. posted' = Append(Tail(posted), <<"started">>) /\ posted = <<<<"initialize", begins>>>>
    BY <1>4 DEF InitializePage, Created
  <1>6. posted' = <<<<"started">>>> /\ Head(posted)[2] = begins
    BY <1>5
  <1>7. Members(posted') = {<<"started">>}
    BY <1>6 DEF Members
  <1>8. start' = "posted" /\ UNCHANGED <<serverVars, linkVars, tap, opp>>
    BY <1>4 DEF InitializePage, Created
  <1>9. page' = [page EXCEPT !.turn = begins]
    BY <1>6 DEF InitializePage
  <1>10. page'.turn = begins /\ page'.disabled = page.disabled /\ page'.cells = page.cells
    BY <1>1, <1>9 DEF Pages
  <1>11. Shown' = Shown /\ Shown = {}
    BY <1>4, <1>10 DEF Shown, Created, Fresh
  <1>12. Started' /\ NoBoards' /\ Idle' /\ tap' = NONE /\ request' = NONE
    BY <1>4, <1>7, <1>8 DEF Started, NoBoards, Idle, Created, Fresh, linkVars
  <1>13. PICK q : q = inbox
    OBVIOUS
  <1>14. UNCHANGED <<begins, inbox>>
    BY <1>8 DEF serverVars, linkVars
  <1>15. CASE begins
    <2>1. HoldsTurn(q, {})'
      BY <1>4, <1>8, <1>13, <1>15, LinkSame DEF Created, Fresh, HoldsTurn
    <2>2. HoldsTurn(inbox, Shown)'
      BY <1>11, <1>13, <1>14, <2>1 DEF HoldsTurn
    <2>3. OnTurn'
      BY <1>4, <1>10, <1>12, <1>14, <1>15, <2>2 DEF OnTurn, Running, CanTap, Created, Fresh
    <2> QED
      BY <1>6, <1>8, <2>3 DEF InStep
  <1>16. CASE ~begins
    <2>1. Awaits(q, {})'
      <3>1. Awaits(q, {})
        BY <1>4, <1>13, <1>16 DEF Created, Fresh, Awaits
      <3> QED
        BY <1>8, <3>1, LinkSame
    <2>2. Awaits(inbox, Shown)'
      BY <1>11, <1>13, <1>14, <2>1 DEF Awaits
    <2>3. Opening'
      BY <1>1, <1>4, <1>8, <1>10, <1>12, <1>14, <1>16, <2>2 DEF Opening, Created, Fresh
    <2> QED
      BY <1>6, <1>8, <2>3 DEF InStep
  <1> QED
    BY <1>15, <1>16

\* The page's posts carry no board of this player's or the opponent's: it
\* shows what it will show.
LEMMA SeenIsShown == NoBoards => Seen = Shown /\ Boards("me") = {} /\ Boards("opp") = {}
  BY DEF NoBoards, Seen, Boards

\* The thread of the second callback waits for the first move, or only sets RUNNING.
LEMMA SetRunningStep ==
    ASSUME BInv, BInv', InStep, SetRunning
    PROVE  InStep'
  <1>1. /\ start = "thread" /\ start' = "done"
        /\ UNCHANGED <<serverVars, linkVars, tap, posted, page>>
    BY DEF SetRunning
  <1>2. ~Connecting /\ ~Created
    BY <1>1 DEF Connecting, Created
  <1>3. Started /\ Started'
    BY <1>1, <1>2 DEF InStep, Opening, OnTurn, Tapped, Waiting, Judging, Judged, Done, Running, Started, Members
  <1>4. UNCHANGED <<game, begins, inbox, request>>
    BY <1>1 DEF serverVars, linkVars
  <1>5. CASE begins
    <2>1. opp' = opp /\ response' = response
      BY <1>5 DEF SetRunning
    <2>2. SameBoards
      BY <1>1 DEF SameBoards, Members
    <2>3. Running => Running'
      BY <1>1, <1>3, <1>4 DEF Running
    <2>4. ~Opening
      BY <1>5 DEF Opening
    <2> QED
      BY <1>1, <1>3, <2>1, <2>2, <2>3, <2>4, SteadyStep
  <1>6. CASE ~begins
    <2>1. Opening
      BY <1>1, <1>2, <1>6 DEF InStep, OnTurn, Tapped, Waiting, Judging, Judged, Done, Running
    <2>2. PICK t \in Threads : opp[t] = "idle" /\ opp' = [opp EXCEPT ![t] = "reading"]
      BY <1>6 DEF SetRunning
    <2>3. opp \in [Threads -> {"idle", "reading", "judging"}]
      BY DEF BInv, TypeOK
    <2>4. opp'[t] = "reading" /\ Only(t)'
      BY <2>1, <2>2, <2>3 DEF Only, Opening, Idle
    <2>5. NoBoards' /\ game = "TTT"
      BY <1>1, <1>6, <2>1, SeenTypes DEF Opening, NoBoards, Members
    <2>6. Seen = Shown /\ Boards("me") = {} /\ Boards("opp") = {}
      BY <2>1, SeenIsShown DEF Opening
    <2>7. Shown' = Shown /\ Boards("me")' = Boards("me") /\ Boards("opp")' = Boards("opp")
      BY <1>1 DEF Shown, Boards, Members
    <2>8. Seen' = Shown'
      BY <2>6, <2>7 DEF Seen
    <2>9. PICK q, S : q = inbox /\ S = Shown
      OBVIOUS
    <2>10. Awaits(q, S)'
      BY <1>1, <2>1, <2>9, LinkNow, LinkSame DEF Opening
    <2>11. Awaits(inbox, Seen)'
      BY <1>4, <2>7, <2>8, <2>9, <2>10, LinkNext
    <2>12. MyBoard'
      BY <1>1, <1>4, <2>1, <2>5, <2>6, <2>7 DEF MyBoard, Opening
    <2>13. Waiting'
      BY <1>1, <1>3, <1>4, <2>1, <2>4, <2>6, <2>7, <2>11, <2>12 DEF Waiting, Running, Opening
    <2> QED
      BY <2>13 DEF InStep
  <1> QED
    BY <1>5, <1>6

\* The player taps in turn.
LEMMA PressStep ==
    ASSUME BInv, InStep, NEW c \in Cells, Press(c), Unspoilt'
    PROVE  InStep'
  <1>1. posted \in Seq(Posts) /\ game \in {"TTT", "RPS"}
    BY SeenTypes
  <1>2. /\ tap = NONE /\ CanTap /\ (game = "TTT" => page.cells[c] = " ")
        /\ tap' = c /\ request' = c
        /\ UNCHANGED <<serverVars, inbox, GAME_STATE, start, opp, posted, page>>
    BY DEF Press, CanTap
  <1>13. c # NONE
    BY CellsAssumption DEF NONE
  <1>3. \A i \in DOMAIN posted : posted[i][1] # "board"
    BY DEF Press, Unspoilt
  <1>4. NoBoards
    BY <1>3 DEF NoBoards, Members
  <1>5. OnTurn
    <2>1. ~Connecting /\ ~Created /\ ~Opening
      BY <1>2 DEF Connecting, Created, Fresh, Opening, CanTap
    <2>2. ~Tapped
      BY <1>2 DEF Tapped
    <2>3. ~Waiting /\ ~Judging
      BY <1>1, <1>2, <1>4, SeenIsShown DEF Waiting, Judging, MyBoard, CanTap
    <2>4. ~Judged
      BY <1>1, <1>2, <1>4, SeenIsShown DEF Judged, MyBoard, CanTap
    <2>5. ~Done
      BY <1>1, <1>2 DEF Done, CanTap
    <2> QED
      BY <2>1, <2>2, <2>3, <2>4, <2>5 DEF InStep
  <1>6. UNCHANGED <<game, begins, over>>
    BY <1>2 DEF serverVars
  <1>7. PICK q, S : q = inbox /\ S = Shown
    OBVIOUS
  <1>8. HoldsTurn(q, S)'
    BY <1>2, <1>5, <1>7, LinkNow, LinkSame DEF OnTurn
  <1>9. Shown' = Shown /\ inbox' = inbox
    BY <1>2 DEF Shown
  <1>10. HoldsTurn(inbox, Shown)'
    BY <1>7, <1>8, <1>9, LinkNext
  <1>11. Running' /\ Idle' /\ NoBoards' /\ CanTap'
    BY <1>2, <1>5, <1>6 DEF OnTurn, Running, Started, Idle, NoBoards, CanTap, Members
  <1>12. Tapped'
    BY <1>2, <1>6, <1>10, <1>11, <1>13 DEF Tapped
  <1> QED
    BY <1>12 DEF InStep

\* The tap comes to nothing: the page is on turn again.
LEMMA NotSent ==
    ASSUME BInv, Tapped, over', HoldsTurn(inbox, Shown)', tap' = NONE,
           UNCHANGED <<game, begins, start, opp, page>>, SameBoards, Started'
    PROVE  OnTurn'
  <1>1. NoBoards'
    BY BoardsSame DEF Tapped
  <1>2. Running' /\ Idle' /\ CanTap'
    BY DEF Tapped, Running, Idle, CanTap
  <1> QED
    BY <1>1, <1>2 DEF OnTurn

\* What is posted.
LEMMA PostBoards ==
    ASSUME posted \in Seq(Posts), NEW item \in Posts, Post(item)
    PROVE  /\ item[1] # "board" => SameBoards
           /\ \A who : item[1] = "board" /\ item[2] = who => Boards(who)' = Boards(who) \cup {item}
           /\ \A who : item[2] # who => Boards(who)' = Boards(who)
           /\ Started /\ item[1] # "initialize" /\ start' = start => Started'
  <1>1. Members(posted') = Members(posted) \cup {item}
    BY Posted
  <1>2. item[1] # "board" => SameBoards
    BY <1>1 DEF SameBoards
  <1>3. ASSUME NEW who, item[1] = "board", item[2] = who PROVE Boards(who)' = Boards(who) \cup {item}
    BY <1>1, <1>3 DEF Boards
  <1>4. ASSUME NEW who, item[2] # who PROVE Boards(who)' = Boards(who)
    BY <1>1, <1>4 DEF Boards
  <1>5. Started /\ item[1] # "initialize" /\ start' = start => Started'
    BY <1>1 DEF Started
  <1> QED
    BY <1>2, <1>3, <1>4, <1>5

\* A failure concerns no board and not the start.
LEMMA FailsIsSteady ==
    ASSUME BInv, Fails, Started, start' = start
    PROVE  SameBoards /\ Started'
  <1> DEFINE item == <<"status", "error sending">>
  <1>1. item \in Posts /\ item[1] # "board" /\ item[1] # "initialize"
    BY Postables
  <1>2. posted \in Seq(Posts)
    BY SeenTypes
  <1>3. Post(item)
    BY DEF Fails
  <1> HIDE DEF item
  <1> QED
    BY <1>1, <1>2, <1>3, PostBoards

\* The write of a move fails only when the game is over.
LEMMA PressFailsStep ==
    ASSUME BInv, InStep, PressFails
    PROVE  InStep'
  <1>1. /\ tap # NONE /\ over /\ request # NONE /\ tap' = NONE /\ Fails
        /\ UNCHANGED <<serverVars, linkVars, start, opp, page>>
    BY DEF PressFails, Reset
  <1>2. Tapped
    BY <1>1 DEF InStep, Connecting, Created, Fresh, Opening, OnTurn, Waiting, Judging, Judged, Done
  <1>3. HoldsTurn(inbox, Shown)
    BY <1>1, <1>2 DEF Tapped
  <1>4. UNCHANGED <<game, begins, over, inbox>> /\ Shown' = Shown
    BY <1>1 DEF serverVars, linkVars, Shown
  <1>5. PICK q, S : q = inbox /\ S = Shown
    OBVIOUS
  <1>6. HoldsTurn(inbox, Shown)'
    BY <1>1, <1>3, <1>4, <1>5, LinkNow, LinkSame, LinkNext
  <1>7. SameBoards /\ Started'
    BY <1>1, <1>2, FailsIsSteady DEF Tapped, Running
  <1> QED
    BY <1>1, <1>2, <1>4, <1>6, <1>7, NotSent DEF InStep

\* So does a read of the response.
LEMMA ReadNoResponseStep ==
    ASSUME BInv, InStep, ReadNoResponse
    PROVE  InStep'
  <1>1. /\ tap # NONE /\ over /\ inbox = <<>> /\ tap' = NONE
        /\ UNCHANGED <<serverVars, linkVars, start, opp, page, posted>>
    BY DEF ReadNoResponse, AtEnd
  <1>2. Tapped
    BY <1>1 DEF InStep, Connecting, Created, Fresh, Opening, OnTurn, Waiting, Judging, Judged, Done
  <1>3. HoldsTurn(inbox, Shown)
    BY <1>1, <1>2 DEF Tapped
  <1>4. UNCHANGED <<game, begins, over, inbox>> /\ Shown' = Shown
    BY <1>1 DEF serverVars, linkVars, Shown
  <1>5. PICK q, S : q = inbox /\ S = Shown
    OBVIOUS
  <1>6. HoldsTurn(inbox, Shown)'
    BY <1>1, <1>3, <1>4, <1>5, LinkNow, LinkSame, LinkNext
  <1>7. SameBoards /\ Started'
    BY <1>1, <1>2 DEF SameBoards, Members, Started, Tapped, Running
  <1> QED
    BY <1>1, <1>2, <1>4, <1>6, <1>7, NotSent DEF InStep

\* The response to the move is what is read, and it is read alone.
LEMMA ReadResponseStep ==
    ASSUME BInv, InStep, NEW k \in 1..Len(inbox), ReadResponse(k), Unspoilt'
    PROVE  InStep' /\ (IsSuccess(Buffer(3, k)) => NoBoards)
  <1>1. /\ Shown \in SUBSET (Players \X Cells) /\ inbox \in Seq(Seq(Bytes)) /\ posted \in Seq(Posts)
        /\ page \in Pages /\ game \in {"TTT", "RPS"}
    BY SeenTypes
  <1>2. inbox # <<>>
    BY EmptySeq
  <1>3. /\ tap # NONE /\ Takes(3, k) /\ tap' = NONE /\ tap \in Cells
        /\ UNCHANGED <<serverVars, request, start, page>>
    BY DEF ReadResponse, BInv, TypeOK
  <1>4. Tapped
    BY <1>3 DEF InStep, Connecting, Created, Fresh, Opening, OnTurn, Waiting, Judging, Judged, Done
  <1>5. Head(inbox) = Success \/ inbox = <<OppDisconnected>>
    BY <1>2, <1>4 DEF Tapped, HoldsTurn
  <1>6. PICK m \in Seq(Bytes) : m = Head(inbox)
    BY <1>1, <1>2, HeadAndTail
  <1>7. Len(m) = 3 /\ (m = Success \/ m = OppDisconnected)
    <2>1. Len(Success) = 3 /\ Len(OppDisconnected) = 3
      BY DEF Success, OppDisconnected
    <2>2. inbox = <<OppDisconnected>> => Head(inbox) = OppDisconnected
      OBVIOUS
    <2> QED
      BY <1>5, <1>6, <2>1, <2>2
  <1>8. k = 1
    BY <1>1, <1>2, <1>3, <1>6, <1>7, ReadsFirst
  <1>9. inbox' = Tail(inbox) /\ Buffer(3, 1) = [i \in 1..3 |-> IF i <= Len(m) THEN m[i] ELSE 0]
    <2>1. Len(m) <= 3 /\ Takes(3, 1) /\ 3 \in 1..5
      BY <1>3, <1>7, <1>8
    <2> QED
      BY <1>1, <1>2, <1>6, <2>1, ReadsOne
  <1>10. Buffer(3, k)[1] = m[1]
    BY <1>7, <1>8, <1>9
  <1>11. UNCHANGED <<game, begins, over, marks, ending>> /\ Shown' = Shown
    BY <1>3 DEF serverVars, Shown
  <1>12. CASE request = tap /\ HoldsTurn(inbox, Shown)
    <2>1. over /\ inbox = <<OppDisconnected>> /\ ending = OPP_LEFT
          /\ (game = "TTT" => Shown \subseteq marks)
      BY <1>2, <1>12 DEF HoldsTurn
    <2>2. m = OppDisconnected /\ inbox' = <<>>
      BY <1>6, <1>9, <2>1
    <2>3. ~IsSuccess(Buffer(3, k))
      BY <1>10, <2>2 DEF IsSuccess, OppDisconnected
    <2>4. Fails /\ UNCHANGED opp
      BY <2>3 DEF ReadResponse
    <2>5. HoldsTurn(inbox, Shown)'
      BY <1>11, <2>1, <2>2 DEF HoldsTurn
    <2>6. SameBoards /\ Started'
      BY <1>3, <1>4, <2>4, FailsIsSteady DEF Tapped, Running
    <2>7. OnTurn'
      BY <1>3, <1>4, <1>11, <2>1, <2>4, <2>5, <2>6, NotSent
    <2> QED
      BY <2>3, <2>7 DEF InStep
  <1>13. CASE /\ request = NONE /\ Head(inbox) = Success
              /\ Awaits(Tail(inbox), Shown \cup {<<"me", tap>>})
    <2>1. IsSuccess(Buffer(3, k))
      BY <1>6, <1>10, <1>13 DEF IsSuccess, Success
    <2> DEFINE item == <<"board", "me", tap, "wait">>
    <2>2. Post(item) /\ \E t \in Threads : opp[t] = "idle" /\ opp' = [opp EXCEPT ![t] = "reading"]
      BY <2>1 DEF ReadResponse
    <2>3. PICK t \in Threads : opp[t] = "idle" /\ opp' = [opp EXCEPT ![t] = "reading"]
      BY <2>2
    <2>4. opp'[t] = "reading" /\ Only(t)'
      BY <1>4, <2>3 DEF BInv, TypeOK, Tapped, Idle, Only
    <2>5. /\ item \in Posts /\ item[1] = "board" /\ item[2] = "me" /\ item[3] = tap
          /\ "opp" # item[2] /\ item[1] # "initialize"
      BY <1>3, Postables
    <2>6. NoBoards /\ Seen = Shown /\ Boards("me") = {} /\ Boards("opp") = {}
      BY <1>4, SeenIsShown DEF Tapped
    <2>7. Boards("me")' = {item} /\ Boards("opp")' = {} /\ Started'
      <3> HIDE DEF item
      <3>1. /\ Boards("me")' = Boards("me") \cup {item}
            /\ Boards("opp")' = Boards("opp")
            /\ Started /\ item[1] # "initialize" /\ start' = start => Started'
        BY <1>1, <2>2, <2>5, PostBoards
      <3> QED
        BY <1>3, <1>4, <2>5, <2>6, <3>1 DEF Tapped, Running
    <2>8. Seen' = Shown \cup {<<"me", tap>>}
      BY <1>11, <2>5, <2>7 DEF Seen
    <2>9. PICK q, S : q = Tail(inbox) /\ S = Shown \cup {<<"me", tap>>}
      OBVIOUS
    <2>10. Awaits(q, S)'
      <3>1. Awaits(q, S)
        BY <1>13, <2>9
      <3> QED
        BY <1>3, <3>1, LinkSame
    <2>11. Awaits(inbox, Seen)'
      BY <1>9, <2>8, <2>9, <2>10, LinkNext
    <2>12. MyBoard'
      BY <1>3, <1>4, <1>11, <2>5, <2>7 DEF MyBoard, Tapped, CanTap
    <2>13. Running'
      BY <1>3, <1>4, <1>11, <2>7 DEF Running, Tapped
    <2>14. Waiting'
      BY <1>3, <1>13, <2>4, <2>7, <2>11, <2>12, <2>13 DEF Waiting
    <2> QED
      BY <2>6, <2>14 DEF InStep
  <1> QED
    BY <1>4, <1>12, <1>13 DEF Tapped

\* What the app makes of each message.
LEMMA Understood ==
    ASSUME NEW b \in [1..5 -> Bytes], NEW m \in Seq(Bytes),
           b = [i \in 1..5 |-> IF i <= Len(m) THEN m[i] ELSE 0]
    PROVE  /\ \A d \in 0..8 : m = MoveMade(d) => OpponentMove(b) = d /\ StateAfter(b) = GAME_STATE
           /\ \A d, r \in 0..8 : m = EndOfGame(r, d) => OpponentMove(b) = d /\ StateAfter(b) = r
           /\ m = OppDisconnected => OpponentMove(b) = ERROR /\ StateAfter(b) = OPP_LEFT
  <1>1. ASSUME NEW d \in 0..8, m = MoveMade(d)
        PROVE  OpponentMove(b) = d /\ StateAfter(b) = GAME_STATE
    <2>1. b[1] = 20 /\ b[2] = 2 /\ b[3] = 1 /\ b[4] = d
      BY <1>1 DEF MoveMade
    <2> QED
      BY <2>1 DEF OpponentMove, StateAfter
  <1>2. ASSUME NEW d \in 0..8, NEW r \in 0..8, m = EndOfGame(r, d)
        PROVE  OpponentMove(b) = d /\ StateAfter(b) = r
    <2>1. b[1] = 20 /\ b[2] = 3 /\ b[3] = 2 /\ b[4] = r /\ b[5] = d
      BY <1>2 DEF EndOfGame
    <2> QED
      BY <2>1 DEF OpponentMove, StateAfter
  <1>3. ASSUME m = OppDisconnected
        PROVE  OpponentMove(b) = ERROR /\ StateAfter(b) = OPP_LEFT
    <2>1. b[1] = 20 /\ b[2] = 4 /\ b[3] = 0
      BY <1>3 DEF OppDisconnected
    <2> QED
      BY <2>1 DEF OpponentMove, StateAfter
  <1> QED
    BY <1>1, <1>2, <1>3

\* What is read while the app awaits the opponent's move is that move, unless
\* the read tears what came after it.
LEMMA Hears ==
    ASSUME BInv, NEW S \in SUBSET (Players \X Cells), Awaits(inbox, S),
           NEW k \in 1..Len(inbox), Takes(5, k), Cut(5, k) = {}
    PROVE  LET b == Buffer(5, k) IN
           /\ StateAfter(b) = GAME_STATE \/ (over /\ StateAfter(b) = ending)
           /\ \E q : q = inbox' /\ Heard(OpponentMove(b), q, S)
  <1>1. inbox \in Seq(Seq(Bytes)) /\ inbox # <<>> /\ game \in {"TTT", "RPS"} /\ Len(inbox) \in Nat
    BY SeenTypes, EmptySeq, LenProperties
  <1>2. PICK m \in Seq(Bytes) : m = Head(inbox)
    BY <1>1, HeadAndTail
  <1>3. Cells \subseteq 0..8 /\ Results \subseteq 0..8
    BY CellsAssumption, ResultsAssumption
  <1>4. ASSUME k = 1, Len(m) <= 5
        PROVE  /\ Buffer(5, k) \in [1..5 -> Bytes]
               /\ Buffer(5, k) = [i \in 1..5 |-> IF i <= Len(m) THEN m[i] ELSE 0]
    BY <1>1, <1>2, <1>4, ReadsOne, Reading
  <1>9. ASSUME k = 1, Len(m) <= 5 PROVE inbox' = Tail(inbox)
    BY <1>1, <1>2, <1>9, ReadsOne
  <1>5. ASSUME NEW d \in Cells, game = "TTT", Free(S, d), marks = S \cup {<<"opp", d>>},
               inbox = <<MoveMade(d)>>, ~over, Mine
        PROVE  /\ StateAfter(Buffer(5, k)) = GAME_STATE
               /\ \E q : q = inbox' /\ Heard(OpponentMove(Buffer(5, k)), q, S)
    <2>1. m = MoveMade(d) /\ Len(m) = 4 /\ k = 1 /\ Tail(inbox) = <<>>
      BY <1>2, <1>5 DEF MoveMade
    <2>2. PICK b \in [1..5 -> Bytes] : b = Buffer(5, k) /\ b = [i \in 1..5 |-> IF i <= Len(m) THEN m[i] ELSE 0]
      BY <1>4, <2>1
    <2>3. OpponentMove(b) = d /\ StateAfter(b) = GAME_STATE
      BY <1>3, <2>1, <2>2, Understood
    <2>4. Heard(d, <<>>, S)
      BY <1>5 DEF Heard, HoldsTurn
    <2>6. inbox' = <<>>
      <3>1. Len(m) <= 5
        BY <2>1
      <3> QED
        BY <1>9, <2>1, <3>1, Zenon
    <2>7. PICK c : c = OpponentMove(Buffer(5, k))
      OBVIOUS
    <2>8. Heard(c, <<>>, S)
      BY <2>2, <2>3, <2>4, <2>7
    <2> QED
      BY <2>2, <2>3, <2>6, <2>7, <2>8
  <1>6. ASSUME NEW d \in Cells, game = "TTT", Free(S, d), marks = S \cup {<<"opp", d>>},
               inbox = <<MoveMade(d), OppDisconnected>>, over, ending = OPP_LEFT
        PROVE  /\ StateAfter(Buffer(5, k)) = GAME_STATE
               /\ \E q : q = inbox' /\ Heard(OpponentMove(Buffer(5, k)), q, S)
    <2>1. m = MoveMade(d) /\ Len(m) = 4 /\ k \in {1, 2} /\ Tail(inbox) = <<OppDisconnected>>
          /\ Len(inbox) = 2 /\ inbox[2] = OppDisconnected
      BY <1>2, <1>6 DEF MoveMade
    <2>2. CASE k = 1
      <3>1. PICK b \in [1..5 -> Bytes] : b = Buffer(5, k) /\ b = [i \in 1..5 |-> IF i <= Len(m) THEN m[i] ELSE 0]
        BY <1>4, <2>1, <2>2
      <3>2. OpponentMove(b) = d /\ StateAfter(b) = GAME_STATE
        BY <1>3, <2>1, <3>1, Understood
      <3>3. Heard(d, <<OppDisconnected>>, S)
        BY <1>6 DEF Heard, HoldsTurn
      <3>4. inbox' = <<OppDisconnected>>
        <4>1. Len(m) <= 5
          BY <2>1
        <4> QED
          BY <1>9, <2>1, <2>2, <4>1, Zenon
      <3>5. PICK c : c = OpponentMove(Buffer(5, k))
        OBVIOUS
      <3>6. Heard(c, <<OppDisconnected>>, S)
        BY <3>1, <3>2, <3>3, <3>5
      <3> QED
        BY <3>1, <3>2, <3>4, <3>5, <3>6
    <2>3. CASE k = 2
      <3>1. 1 \in 0..(Len(inbox) - 1) /\ 1 + 1 = 2
        BY <2>1
      <3>2. Len(Upto(inbox, 1 + 1)) = Len(Upto(inbox, 1)) + Len(inbox[1 + 1])
        BY <1>1, <3>1, UptoAt
      <3>3. Len(Upto(inbox, 1)) = 4
        BY <1>1, <1>2, <2>1, ArrivedGrows DEF Arrived, Upto
      <3>4. Len(OppDisconnected) = 3
        BY DEF OppDisconnected
      <3>5. Len(Upto(inbox, 2)) = 7
        <4>1. inbox[1 + 1] = OppDisconnected /\ Upto(inbox, 1 + 1) = Upto(inbox, 2)
          BY <2>1, <3>1
        <4>2. Len(Upto(inbox, 2)) = 4 + 3
          BY <3>2, <3>3, <3>4, <4>1
        <4> QED
          BY <4>2
      <3>6. Len(Arrived(2)) > 5
        <4>1. Arrived(2) = Upto(inbox, 2)
          BY Zenon DEF Arrived, Upto
        <4>2. \A n : n = 7 => n > 5
          OBVIOUS
        <4> QED
          BY <3>5, <4>1, <4>2, Zenon
      <3> QED
        BY <2>3, <3>6 DEF Cut
    <2> QED
      BY <2>1, <2>2, <2>3
  <1>7. ASSUME NEW d \in Cells, over, game = "TTT" => S \subseteq marks,
               inbox = <<EndOfGame(ending, d)>>, ending \in Results,
               game = "TTT" => <<"opp", d>> \in marks \/ <<"me", d>> \in S
        PROVE  /\ StateAfter(Buffer(5, k)) = ending
               /\ \E q : q = inbox' /\ Heard(OpponentMove(Buffer(5, k)), q, S)
    <2>1. m = EndOfGame(ending, d) /\ Len(m) = 5 /\ k = 1 /\ Tail(inbox) = <<>>
      BY <1>2, <1>7 DEF EndOfGame
    <2>2. PICK b \in [1..5 -> Bytes] : b = Buffer(5, k) /\ b = [i \in 1..5 |-> IF i <= Len(m) THEN m[i] ELSE 0]
      BY <1>4, <2>1
    <2>3. OpponentMove(b) = d /\ StateAfter(b) = ending
      <3>1. PICK r \in 0..8 : r = ending
        BY <1>3, <1>7
      <3>2. m = EndOfGame(r, d) /\ d \in 0..8
        BY <1>3, <2>1, <3>1 DEF EndOfGame
      <3>3. \A x, y \in 0..8 : m = EndOfGame(y, x) => OpponentMove(b) = x /\ StateAfter(b) = y
        BY <1>3, <2>2, Understood
      <3> QED
        BY <3>1, <3>2, <3>3, Zenon
    <2>4. Heard(d, <<>>, S)
      BY <1>7 DEF Heard
    <2>6. inbox' = <<>>
      <3>1. Len(m) <= 5
        BY <2>1
      <3> QED
        BY <1>9, <2>1, <3>1, Zenon
    <2>7. PICK c : c = OpponentMove(Buffer(5, k))
      OBVIOUS
    <2>8. Heard(c, <<>>, S)
      BY <2>2, <2>3, <2>4, <2>7
    <2> QED
      BY <2>2, <2>3, <2>6, <2>7, <2>8
  <1>8. ASSUME over, game = "TTT" => S \subseteq marks,
               inbox = <<OppDisconnected>>, ending = OPP_LEFT
        PROVE  /\ StateAfter(Buffer(5, k)) = ending
               /\ \E q : q = inbox' /\ Heard(OpponentMove(Buffer(5, k)), q, S)
    <2>1. m = OppDisconnected /\ Len(m) = 3 /\ k = 1 /\ Tail(inbox) = <<>>
      BY <1>2, <1>8 DEF OppDisconnected
    <2>2. PICK b \in [1..5 -> Bytes] : b = Buffer(5, k) /\ b = [i \in 1..5 |-> IF i <= Len(m) THEN m[i] ELSE 0]
      BY <1>4, <2>1
    <2>3. OpponentMove(b) = ERROR /\ StateAfter(b) = ending
      BY <1>8, <2>1, <2>2, Understood
    <2>4. ERROR \notin Cells
      BY CellsAssumption DEF ERROR
    <2>5. Heard(ERROR, <<>>, S)
      BY <1>8, <2>4 DEF Heard
    <2>6. inbox' = <<>>
      <3>1. Len(m) <= 5
        BY <2>1
      <3> QED
        BY <1>9, <2>1, <3>1, Zenon
    <2>7. PICK c : c = OpponentMove(Buffer(5, k))
      OBVIOUS
    <2>8. Heard(c, <<>>, S)
      BY <2>2, <2>3, <2>5, <2>7
    <2> QED
      BY <2>2, <2>3, <2>6, <2>7, <2>8
  <1> QED
    BY <1>1, <1>5, <1>6, <1>7, <1>8 DEF Awaits

\* One thread at most waits for the opponent, and it is the one the phase names.
LEMMA WhoReads ==
    ASSUME InStep, NEW t \in Threads
    PROVE  /\ opp[t] = "reading" => Waiting /\ Only(t)
           /\ opp[t] = "judging" => Judging /\ Only(t) /\ Heard(response[t], inbox, Seen)
  BY DEF InStep, Connecting, Created, Fresh, Opening, OnTurn, Tapped, Waiting, Judging, Judged, Done, Idle, Only

\* The thread understands what it reads; GAME_STATE is the ending, if it changes.
LEMMA ReadOpponentStep ==
    ASSUME BInv, InStep, NEW t \in Threads, NEW k \in 1..Len(inbox), ReadOpponent(t, k), Unspoilt'
    PROVE  /\ InStep'
           /\ GAME_STATE' = GAME_STATE \/ (over /\ GAME_STATE' = ending)
  <1>1. Seen \in SUBSET (Players \X Cells)
    BY SeenTypes
  <1>2. /\ opp[t] = "reading" /\ Takes(5, k) /\ opp' = [opp EXCEPT ![t] = "judging"]
        /\ response' = [response EXCEPT ![t] = OpponentMove(Buffer(5, k))]
        /\ GAME_STATE' = StateAfter(Buffer(5, k))
        /\ UNCHANGED <<serverVars, request, start, tap, posted, page>>
    BY DEF ReadOpponent
  <1>3. Cut(5, k) = {}
    BY DEF ReadOpponent, Cut, Unspoilt
  <1>4. Waiting /\ Only(t)
    BY <1>2, WhoReads
  <1>5. PICK S \in SUBSET (Players \X Cells) : S = Seen
    BY <1>1
  <1>6. Awaits(inbox, S)
    BY <1>4, <1>5 DEF Waiting, Awaits
  <1> DEFINE b == Buffer(5, k)
  <1>7. /\ StateAfter(b) = GAME_STATE \/ (over /\ StateAfter(b) = ending)
        /\ \E q : q = inbox' /\ Heard(OpponentMove(b), q, S)
    BY <1>2, <1>3, <1>6, Hears
  <1>8. PICK q, c : q = inbox' /\ c = OpponentMove(b) /\ Heard(c, q, S)
    BY <1>7
  <1>9. Heard(c, q, S)'
    BY <1>2, <1>8, LinkSame
  <1>10. Shown' = Shown /\ Boards("me")' = Boards("me") /\ Boards("opp")' = Boards("opp")
    BY <1>2 DEF Shown, Boards, Members
  <1>11. Seen' = S
    BY <1>5, <1>10 DEF Seen
  <1>12. opp'[t] = "judging" /\ Only(t)' /\ response'[t] = c
    BY <1>2, <1>4, <1>8 DEF Only, BInv, TypeOK
  <1>13. Heard(response[t], inbox, Seen)'
    BY <1>8, <1>9, <1>11, <1>12 DEF Heard, HoldsTurn
  <1>14. MyBoard' /\ Running'
    BY <1>2, <1>4, <1>10 DEF MyBoard, CanTap, Waiting, Running, Started, Members, serverVars
  <1>15. Judging'
    BY <1>2, <1>4, <1>10, <1>12, <1>13, <1>14 DEF Judging, Waiting
  <1> QED
    BY <1>2, <1>7, <1>15 DEF InStep

\* A thread that reads finds no end of file: the ending comes first.
LEMMA ReaderIsAwaited ==
    ASSUME InStep, NEW t \in Threads
    PROVE  ~ReadOpponentFails(t) /\ ~ReadOpponentDies(t)
  <1>1. ASSUME opp[t] = "reading", AtEnd PROVE FALSE
    <2>1. Awaits(inbox, Seen)
      BY <1>1, WhoReads DEF Waiting
    <2>2. over /\ inbox = <<>>
      BY <1>1 DEF AtEnd
    <2>3. \A m, n : inbox # <<m>> /\ inbox # <<m, n>>
      BY <2>2
    <2> QED
      BY <2>1, <2>2, <2>3 DEF Awaits
  <1> QED
    BY <1>1 DEF ReadOpponentFails, ReadOpponentDies

\* It posts the only board of the opponent.
LEMMA HandleStep ==
    ASSUME BInv, BInv', InStep, NEW t \in Threads, HandleOpponentMove(t)
    PROVE  InStep' /\ Boards("opp") = {}
  <1>1. posted \in Seq(Posts) /\ opp[t] = "judging"
    BY SeenTypes DEF HandleOpponentMove
  <1>2. Judging /\ Only(t) /\ Heard(response[t], inbox, Seen)
    BY <1>1, WhoReads
  <1>3. PICK c \in 0..ERROR : c = response[t]
    BY DEF BInv, TypeOK
  <1>4. PICK s : Post(<<"board", "opp", c, s>>) /\ s \in AllStatuses
    <2>1. EndText(GAME_STATE) \in AllStatuses /\ "error receiving" \in AllStatuses /\ "turn" \in AllStatuses
      BY EndTexts DEF AllStatuses, Statuses
    <2> QED
      BY <1>3, <2>1 DEF HandleOpponentMove
  <1>5. PICK item \in Posts : item = <<"board", "opp", c, s>>
    BY <1>4, Postables
  <1>6. /\ item[1] = "board" /\ item[2] = "opp" /\ item[3] = c /\ item[2] # "me"
        /\ item[1] # "initialize" /\ Post(item)
    BY <1>4, <1>5
  <1>7. UNCHANGED <<serverVars, linkVars, start, tap, page>> /\ opp' = [opp EXCEPT ![t] = "idle"]
    BY DEF HandleOpponentMove
  <1>8. /\ Boards("opp")' = Boards("opp") \cup {item}
        /\ Boards("me")' = Boards("me")
        /\ Started /\ item[1] # "initialize" /\ start' = start => Started'
    BY <1>1, <1>6, PostBoards
  <1>9. Boards("opp") = {} /\ Running'
    BY <1>2, <1>6, <1>7, <1>8 DEF Judging, Running, serverVars
  <1>10. Idle'
    BY <1>2, <1>7 DEF Idle, Only, BInv, TypeOK
  <1>11. Shown' = Shown
    BY <1>7 DEF Shown
  <1>12. PICK q, S : q = inbox /\ S = Seen
    OBVIOUS
  <1>13. Heard(c, q, S)'
    <2>1. Heard(c, q, S)
      BY <1>2, <1>3, <1>12
    <2> QED
      BY <1>7, <2>1, LinkSame
  <1>14. inbox' = q /\ Seen' = S
    BY <1>7, <1>8, <1>11, <1>12 DEF Seen, linkVars
  <1>15. Heard(item[3], inbox, Seen)'
    BY <1>6, <1>13, <1>14 DEF Heard, HoldsTurn
  <1>16. MyBoard'
    BY <1>2, <1>7, <1>8 DEF MyBoard, CanTap, Judging, serverVars
  <1>17. Judged'
    BY <1>2, <1>7, <1>8, <1>9, <1>10, <1>15, <1>16 DEF Judged, Judging, linkVars
  <1> QED
    BY <1>9, <1>17 DEF InStep

\* In rock, paper, scissors nothing is marked.
LEMMA NoMarks ==
    ASSUME game = "RPS"
    PROVE  \A q, S, T : /\ Awaits(q, S) => Awaits(q, T)
                        /\ \A c : Heard(c, q, S) => Heard(c, q, T)
  BY DEF Awaits, Heard

\* The page shows this player's own move.
LEMMA UpdateMineStep ==
    ASSUME BInv, BInv', InStep, Queue, UpdateBoard, Head(posted)[2] = "me"
    PROVE  InStep'
  <1>1. /\ posted \in Seq(Posts) /\ page \in Pages /\ game \in {"TTT", "RPS"}
    BY SeenTypes
  <1>2. PICK item : item = Head(posted)
    OBVIOUS
  <1>3. /\ posted # <<>> /\ item[1] = "board" /\ item[2] = "me" /\ posted' = Tail(posted)
        /\ tap = NONE
        /\ page' = [Board("me", item[3]) EXCEPT !.status = item[4]]
        /\ UNCHANGED <<serverVars, linkVars, start, tap, opp, response>>
    BY <1>2 DEF UpdateBoard, Runs
  <1>4. item \in Posts /\ item[3] \in Cells
    BY <1>1, <1>2, <1>3, RunTypes, Kinds
  <1>5. Members(posted) = Members(posted') \cup {item}
    BY <1>1, <1>2, <1>3, Ran
  <1>6. \A x \in Members(posted') :
            /\ x[1] \notin {"initialize", "started"}
            /\ x[1] = "board" => x[2] = "opp"
    BY <1>1, <1>2, <1>3, RunKeepsQueue
  <1>7. Boards("me") = {item} /\ Boards("me")' = {} /\ Boards("opp")' = Boards("opp")
    BY <1>3, <1>5, <1>6 DEF Boards
  <1>8. ~NoBoards
    BY <1>3, <1>5 DEF NoBoards
  <1>9. Waiting \/ Judging \/ Judged
    <2>1. ~Created
      BY <1>2, <1>3 DEF Created
    <2> QED
      BY <1>3, <1>8, <2>1 DEF InStep, Connecting, Opening, OnTurn, Tapped, Done
  <1>10. Running /\ MyBoard /\ request = NONE
    BY <1>9 DEF Waiting, Judging, Judged
  <1>11. CanTap /\ (game = "TTT" => page.cells[item[3]] = " ")
    BY <1>7, <1>10 DEF MyBoard
  <1>12. UNCHANGED <<game, begins, marks, over, ending, inbox, request>>
    BY <1>3 DEF serverVars, linkVars
  <1>13. Running'
    BY <1>3, <1>6, <1>10, <1>12 DEF Running, Started
  <1>14. PICK q, S : q = inbox /\ S = Seen
    OBVIOUS
  <1>15. /\ Awaits(inbox, Seen) => Awaits(inbox, Seen)'
         /\ \A c : Heard(c, inbox, Seen) => Heard(c, inbox, Seen)'
         /\ MyBoard'
    <2>1. /\ Awaits(inbox, Seen) => Awaits(q, S)'
          /\ \A c : Heard(c, inbox, Seen) => Heard(c, q, S)'
      BY <1>3, <1>14, LinkNow, LinkSame
    <2>2. Seen' = Shown'
      BY <1>7 DEF Seen
    <2>3. CASE game = "TTT"
      <3>1. page' = [[page EXCEPT !.turn = ~@, !.disabled = page.turn, !.cells[item[3]] = "me"]
                         EXCEPT !.status = item[4]]
        BY <1>3, <1>4, <1>11, <2>3 DEF Board
      <3>2. ~page'.turn /\ page'.cells = [page.cells EXCEPT ![item[3]] = "me"]
        BY <1>1, <1>11, <3>1 DEF Pages, CanTap
      <3>3. Shown' = Shown \cup {<<"me", item[3]>>}
        BY <1>1, <1>4, <1>11, <2>3, <3>2, ShownMark DEF Players
      <3>4. Seen = Shown \cup {<<"me", item[3]>>}
        BY <1>7 DEF Seen
      <3>5. Seen' = S /\ inbox' = q
        BY <1>12, <1>14, <2>2, <3>3, <3>4
      <3>6. MyBoard'
        BY <1>7, <1>12, <2>3, <3>2 DEF MyBoard
      <3> QED
        BY <2>1, <3>5, <3>6, LinkNext
    <2>4. CASE game = "RPS"
      <3>1. page' = [[page EXCEPT !.turn = ~@, !.disabled = @ \/ page.turn] EXCEPT !.status = item[4]]
        BY <1>3, <1>4, <2>4 DEF Board
      <3>2. page'.disabled
        BY <1>1, <1>11, <3>1 DEF Pages, CanTap
      <3>3. MyBoard'
        BY <1>7, <1>12, <2>4, <3>2 DEF MyBoard
      <3>4. PICK T : T = Seen'
        OBVIOUS
      <3>5. /\ Awaits(inbox, Seen) => Awaits(q, T)'
            /\ \A c : Heard(c, inbox, Seen) => Heard(c, q, T)'
        BY <1>3, <1>14, <2>4, LinkNow, LinkSame, NoMarks
      <3> QED
        BY <1>12, <1>14, <3>3, <3>4, <3>5, LinkNext
    <2> QED
      BY <1>1, <2>3, <2>4
  <1>16. (Idle' <=> Idle) /\ \A t \in Threads : (Only(t)' <=> Only(t))
    BY <1>3 DEF Idle, Only
  <1>17. CASE Waiting
    BY <1>3, <1>7, <1>12, <1>13, <1>15, <1>16, <1>17 DEF Waiting, InStep
  <1>18. CASE Judging
    BY <1>3, <1>7, <1>12, <1>13, <1>15, <1>16, <1>18 DEF Judging, InStep
  <1>19. CASE Judged
    BY <1>3, <1>7, <1>12, <1>13, <1>15, <1>16, <1>19 DEF Judged, InStep
  <1> QED
    BY <1>9, <1>17, <1>18, <1>19

\* The page shows the opponent's move, and is on turn; or the ending.
LEMMA UpdateTheirsStep ==
    ASSUME BInv, BInv', InStep, Queue, UpdateBoard, Head(posted)[2] = "opp"
    PROVE  InStep'
  <1>1. /\ posted \in Seq(Posts) /\ page \in Pages /\ game \in {"TTT", "RPS"}
    BY SeenTypes
  <1>2. PICK item : item = Head(posted)
    OBVIOUS
  <1>3. /\ posted # <<>> /\ item[1] = "board" /\ item[2] = "opp" /\ posted' = Tail(posted)
        /\ tap = NONE
        /\ page' = [Board("opp", item[3]) EXCEPT !.status = item[4]]
        /\ UNCHANGED <<serverVars, linkVars, start, tap, opp, response>>
    BY <1>2 DEF UpdateBoard, Runs
  <1>4. Members(posted) = Members(posted') \cup {item}
    BY <1>1, <1>2, <1>3, Ran
  <1>5. \A x \in Members(posted') : x[1] \notin {"initialize", "started"} /\ x[1] # "board"
    BY <1>1, <1>2, <1>3, RunKeepsQueue
  <1>6. Boards("opp") = {item} /\ Boards("me") = {} /\ NoBoards'
    BY <1>3, <1>4, <1>5 DEF Boards, NoBoards
  <1>7. ~NoBoards
    BY <1>3, <1>4 DEF NoBoards
  <1>8. Judged
    <2>1. ~Created
      BY <1>2, <1>3 DEF Created
    <2> QED
      BY <1>3, <1>6, <1>7, <2>1 DEF InStep, Connecting, Opening, OnTurn, Tapped, Waiting, Judging, Done
  <1>9. Heard(item[3], inbox, Seen) /\ Running /\ MyBoard /\ request = NONE /\ Idle
    BY <1>6, <1>8 DEF Judged
  <1>10. Seen = Shown
    BY <1>6 DEF Seen
  <1>11. UNCHANGED <<game, begins, marks, over, ending, inbox, request>>
    BY <1>3 DEF serverVars, linkVars
  <1>12. Running' /\ Idle'
    BY <1>3, <1>5, <1>9, <1>11 DEF Running, Started, Idle
  <1>13. IF game = "TTT" THEN ~page.turn ELSE page.disabled
    BY <1>6, <1>9 DEF MyBoard
  <1>14. PICK q, S, c : q = inbox /\ S = Shown /\ c = item[3]
    OBVIOUS
  <1>15. Heard(c, q, S)
    BY <1>9, <1>10, <1>14 DEF Heard, HoldsTurn
  <1>16. ASSUME game = "TTT", c \in Cells, page.cells[c] = " "
         PROVE  CanTap' /\ Shown' = S \cup {<<"opp", c>>}
    <2>1. page' = [[page EXCEPT !.turn = ~@, !.disabled = page.turn, !.cells[c] = "opp"]
                       EXCEPT !.status = item[4]]
      BY <1>3, <1>14, <1>16 DEF Board
    <2>2. page'.turn /\ ~page'.disabled /\ page'.cells = [page.cells EXCEPT ![c] = "opp"]
      BY <1>1, <1>13, <1>16, <2>1 DEF Pages
    <2> QED
      BY <1>1, <1>14, <1>16, <2>2, ShownMark DEF CanTap, Players
  <1>17. ASSUME game = "TTT", ~(c \in Cells /\ page.cells[c] = " ")
         PROVE  ~page'.turn /\ Shown' = S
    <2>1. page' = [page EXCEPT !.status = item[4]]
      BY <1>3, <1>14, <1>17 DEF Board
    <2>2. page'.turn = page.turn /\ page'.cells = page.cells
      BY <1>1, <2>1 DEF Pages
    <2> QED
      BY <1>13, <1>14, <1>17, <2>2 DEF Shown
  <1>18. ASSUME game = "RPS" PROVE page'.disabled
    <2>1. CASE c \in Cells
      <3>1. page' = [[page EXCEPT !.turn = ~@, !.disabled = @ \/ page.turn] EXCEPT !.status = item[4]]
        BY <1>3, <1>14, <1>18, <2>1 DEF Board
      <3> QED
        BY <1>1, <1>13, <1>18, <3>1 DEF Pages
    <2>2. CASE c \notin Cells
      <3>1. page' = [page EXCEPT !.status = item[4]]
        BY <1>3, <1>14, <2>2 DEF Board
      <3> QED
        BY <1>1, <1>13, <1>18, <3>1 DEF Pages
    <2> QED
      BY <2>1, <2>2
  <1>19. CASE /\ game = "TTT" /\ c \in Cells /\ Free(S, c)
              /\ HoldsTurn(q, S \cup {<<"opp", c>>})
    <2>1. page.cells[c] = " "
      BY <1>1, <1>14, <1>19, ShownFree
    <2>2. HoldsTurn(q, S \cup {<<"opp", c>>})'
      BY <1>3, <1>19, LinkSame
    <2>3. HoldsTurn(inbox, Shown)'
      BY <1>11, <1>14, <1>16, <1>19, <2>1, <2>2 DEF HoldsTurn
    <2>4. OnTurn'
      BY <1>3, <1>6, <1>9, <1>11, <1>12, <1>16, <1>19, <2>1, <2>3 DEF OnTurn
    <2> QED
      BY <2>4 DEF InStep
  <1>20. CASE /\ over /\ q = <<>>
              /\ game = "TTT" =>
                    /\ S \subseteq marks
                    /\ c \in Cells => <<"opp", c>> \in marks \/ <<"me", c>> \in S
    <2>1. CASE game = "TTT" /\ c \in Cells /\ page.cells[c] = " "
      <3>1. Free(S, c)
        BY <1>1, <1>14, <2>1, ShownFree
      <3>2. <<"opp", c>> \in marks
        BY <1>20, <2>1, <3>1 DEF Free, Players
      <3>3. HoldsTurn(inbox, Shown)'
        BY <1>11, <1>14, <1>16, <1>20, <2>1, <3>2 DEF HoldsTurn
      <3>4. OnTurn'
        BY <1>3, <1>6, <1>9, <1>11, <1>12, <1>16, <2>1, <3>3 DEF OnTurn
      <3> QED
        BY <3>4 DEF InStep
    <2>2. CASE game = "TTT" /\ ~(c \in Cells /\ page.cells[c] = " ")
      <3>1. Done'
        BY <1>3, <1>6, <1>11, <1>12, <1>17, <1>20, <2>2 DEF Done
      <3> QED
        BY <3>1 DEF InStep
    <2>3. CASE game = "RPS"
      <3>1. Done'
        BY <1>3, <1>6, <1>11, <1>12, <1>18, <1>20, <2>3 DEF Done
      <3> QED
        BY <3>1 DEF InStep
    <2> QED
      BY <1>1, <2>1, <2>2, <2>3
  <1> QED
    BY <1>15, <1>19, <1>20 DEF Heard

-----------------------------------------------------------------------------

\* What the page was told stays true.
LEMMA TruthStays ==
    ASSUME over => over' /\ ending' = ending
    PROVE  \A s : Truthful(s) => Truthful(s)'
  BY DEF Truthful

\* Told, by what becomes of the queue: nothing, a post, a run.
LEMMA ToldStays ==
    ASSUME Told, over => over' /\ ending' = ending, page' = page, posted' = posted,
           GAME_STATE' = GAME_STATE \/ (over /\ GAME_STATE' = ending) \/ GAME_STATE' = RUNNING
    PROVE  Told'
  BY TruthStays DEF Told, Members, Truthful

\* An item that tells the truth is posted.
LEMMA ToldPost ==
    ASSUME Told, over => over' /\ ending' = ending, posted \in Seq(Posts),
           NEW item \in Posts, Post(item),
           item[1] = "board" => Truthful(item[4]), item[1] = "status" => Truthful(item[2]),
           UNCHANGED <<page, GAME_STATE>>
    PROVE  Told'
  <1>1. Members(posted') = Members(posted) \cup {item}
    BY Posted
  <1>2. \A x \in Members(posted') : /\ x[1] = "board" => Truthful(x[4])
                                    /\ x[1] = "status" => Truthful(x[2])
    BY <1>1 DEF Told
  <1> QED
    BY <1>2, TruthStays DEF Told, Truthful, Members

\* The first item is run.
LEMMA ToldRun ==
    ASSUME Told, UNCHANGED <<over, ending, GAME_STATE>>, posted \in Seq(Posts), posted # <<>>,
           posted' = Tail(posted), Truthful(page'.status)
    PROVE  Told'
  <1>1. Members(posted) = Members(posted') \cup {Head(posted)}
    BY Ran
  <1> QED
    BY <1>1 DEF Told, Truthful, Members

-----------------------------------------------------------------------------
(* Sound is kept by every step.                                             *)

\* The order of the queue depends on it and on the start only.
LEMMA QueueStays ==
    ASSUME Queue, UNCHANGED <<posted, start>>
    PROVE  Queue'
  BY DEF Queue

\* The environment: the opponent moves or leaves, or the server takes the move.
LEMMA ServerSteps ==
    ASSUME BInv, BInv', Sound,
           (\E c \in Cells : OpponentMoves(c)) \/ OpponentLeaves \/ ServerTakes
    PROVE  Sound'
  <1>1. UNCHANGED appVars /\ ~over
    BY DEF OpponentMoves, OpponentLeaves, ServerTakes
  <1>2. UNCHANGED <<GAME_STATE, start, tap, opp, response, posted, page, ghost, dead>>
    BY <1>1 DEF appVars
  <1>3. Told' /\ Queue' /\ ~dead'
    BY <1>1, <1>2, ToldStays, QueueStays DEF Sound
  <1>4. CASE ServerTakes
    BY <1>3, <1>4, ServerTakesStep DEF Sound
  <1>5. CASE (\E c \in Cells : OpponentMoves(c)) \/ OpponentLeaves
    <2>1. UNCHANGED <<game, begins, request>>
      BY <1>5 DEF OpponentMoves, OpponentLeaves, Play
    <2>2. \E new \in Seq(Seq(Bytes)) :
             /\ inbox' = inbox \o new
             /\ \A q \in Seq(Seq(Bytes)), S \in SUBSET (Players \X Cells) :
                   /\ HoldsTurn(q, S) => HoldsTurn(q \o new, S)'
                   /\ Awaits(q, S) => Awaits(q \o new, S)'
      BY <1>5, OpponentMovesLink, OpponentLeavesLink
    <2>3. InStep'
      BY <1>1, <2>1, <2>2, OpponentStep DEF Sound
    <2> QED
      BY <1>3, <2>3 DEF Sound
  <1> QED
    BY <1>4, <1>5

\* The start of the game.
LEMMA StartSteps ==
    ASSUME BInv, BInv', Sound, CreateGame \/ SetRunning
    PROVE  Sound'
  <1>0. posted \in Seq(Posts)
    BY SeenTypes
  <1>1. CASE CreateGame
    <2>1. /\ InStep' /\ posted' = <<<<"initialize", begins>>>> /\ start' = "posted"
          /\ posted = <<>>
      BY <1>1, CreateStep DEF Sound
    <2>2. UNCHANGED <<serverVars, GAME_STATE, page, dead>> /\ begins \in BOOLEAN
      BY <1>1 DEF CreateGame, BInv, TypeOK
    <2>3. Members(posted') = {<<"initialize", begins>>}
      BY <2>1 DEF Members
    <2>4. Told'
      BY <2>2, <2>3, TruthStays DEF Told, Sound, serverVars, Truthful, Members
    <2>5. Queue'
      BY <2>1 DEF Queue
    <2> QED
      BY <2>1, <2>2, <2>4, <2>5 DEF Sound
  <1>2. CASE SetRunning
    <2>1. InStep'
      BY <1>2, SetRunningStep DEF Sound
    <2>2. /\ UNCHANGED <<serverVars, posted, page, dead>> /\ GAME_STATE' = RUNNING
          /\ start = "thread"
      BY <1>2 DEF SetRunning
    <2>3. Told'
      BY <2>2, ToldStays DEF Sound, serverVars
    <2>4. Queue'
      BY <2>2 DEF Sound, Queue
    <2> QED
      BY <2>1, <2>2, <2>3, <2>4 DEF Sound
  <1> QED
    BY <1>1, <1>2

\* A failure to send is posted.
LEMMA FailsIsTold ==
    ASSUME BInv, Told, Queue, Fails, UNCHANGED <<serverVars, GAME_STATE, start, page>>
    PROVE  Told' /\ Queue'
  <1> DEFINE item == <<"status", "error sending">>
  <1>1. posted \in Seq(Posts) /\ item \in Posts /\ Post(item)
    BY SeenTypes, Postables DEF Fails
  <1>2. Truthful(item[2]) /\ item[1] = "status"
    BY DEF Truthful, Statuses
  <1> HIDE DEF item
  <1>3. Told'
    BY <1>1, <1>2, ToldPost DEF serverVars
  <1>4. Queue'
    BY <1>1, <1>2, PostKeepsQueue
  <1> QED
    BY <1>3, <1>4

\* The player's move, from the tap to the response.
LEMMA PlayerSteps ==
    ASSUME BInv, BInv', Sound, Unspoilt', (\E c \in Cells : Press(c)) \/ Bridge
    PROVE  Sound'
  <1>0. posted \in Seq(Posts)
    BY SeenTypes
  <1>1. CASE \E c \in Cells : Press(c)
    <2>1. InStep'
      BY <1>1, PressStep DEF Sound
    <2>2. UNCHANGED <<serverVars, GAME_STATE, start, posted, page, dead>>
      BY <1>1 DEF Press
    <2> QED
      BY <2>1, <2>2, ToldStays, QueueStays DEF Sound, serverVars
  <1>2. CASE PressFails
    <2>1. InStep'
      BY <1>2, PressFailsStep DEF Sound
    <2>2. UNCHANGED <<serverVars, GAME_STATE, start, page, dead>> /\ Fails
      BY <1>2 DEF PressFails
    <2> QED
      BY <2>1, <2>2, FailsIsTold DEF Sound
  <1>3. CASE ReadNoResponse
    <2>1. InStep'
      BY <1>3, ReadNoResponseStep DEF Sound
    <2>2. UNCHANGED <<serverVars, GAME_STATE, start, posted, page, dead>>
      BY <1>3 DEF ReadNoResponse
    <2> QED
      BY <2>1, <2>2, ToldStays, QueueStays DEF Sound, serverVars
  <1>4. ASSUME NEW k \in 1..Len(inbox), ReadResponse(k)
        PROVE  Sound'
    <2>1. InStep' /\ (IsSuccess(Buffer(3, k)) => NoBoards)
      BY <1>4, ReadResponseStep DEF Sound
    <2>2. UNCHANGED <<serverVars, GAME_STATE, start, page, dead>> /\ tap # NONE
      BY <1>4 DEF ReadResponse
    <2>3. CASE ~IsSuccess(Buffer(3, k))
      <3>1. Fails
        BY <1>4, <2>3 DEF ReadResponse
      <3> QED
        BY <2>1, <2>2, <3>1, FailsIsTold DEF Sound
    <2>4. CASE IsSuccess(Buffer(3, k))
      <3>1. PICK item : item = <<"board", "me", tap, "wait">>
        OBVIOUS
      <3>2. Post(item)
        BY <1>4, <2>4, <3>1 DEF ReadResponse
      <3>3. tap \in Cells
        BY <2>2 DEF BInv, TypeOK
      <3>4. item \in Posts
        BY <3>1, <3>3, Postables
      <3>5. item[1] = "board" /\ item[4] = "wait"
        BY <3>1
      <3>6. Truthful(item[4])
        BY <3>5 DEF Truthful, Statuses
      <3>7. Told'
        BY <1>0, <2>2, <3>2, <3>4, <3>5, <3>6, ToldPost DEF Sound, serverVars
      <3>8. Queue'
        BY <1>0, <2>1, <2>2, <2>4, <3>2, <3>4, <3>5, PostKeepsQueue DEF Sound
      <3> QED
        BY <2>1, <2>2, <3>7, <3>8 DEF Sound
    <2> QED
      BY <2>3, <2>4
  <1> QED
    BY <1>1, <1>2, <1>3, <1>4 DEF Bridge

\* The opponent's move.
LEMMA ThreadSteps ==
    ASSUME BInv, BInv', Sound, Unspoilt', NEW t \in Threads, OppThread(t)
    PROVE  Sound'
  <1>0. posted \in Seq(Posts)
    BY SeenTypes
  <1>1. ASSUME NEW k \in 1..Len(inbox), ReadOpponent(t, k)
        PROVE  Sound'
    <2>1. /\ InStep'
          /\ GAME_STATE' = GAME_STATE \/ (over /\ GAME_STATE' = ending)
      BY <1>1, ReadOpponentStep DEF Sound
    <2>2. UNCHANGED <<serverVars, start, posted, page, dead>>
      BY <1>1 DEF ReadOpponent
    <2> QED
      BY <2>1, <2>2, ToldStays, QueueStays DEF Sound, serverVars
  <1>2. ~ReadOpponentFails(t) /\ ~ReadOpponentDies(t)
    BY ReaderIsAwaited DEF Sound
  <1>3. CASE HandleOpponentMove(t)
    <2>1. InStep' /\ Boards("opp") = {}
      BY <1>3, HandleStep DEF Sound
    <2>2. UNCHANGED <<serverVars, GAME_STATE, start, page, dead>>
      BY <1>3 DEF HandleOpponentMove
    <2> DEFINE s == IF GAME_STATE # RUNNING THEN EndText(GAME_STATE)
                    ELSE IF response[t] = ERROR THEN "error receiving"
                    ELSE "turn"
    <2>3. s \in AllStatuses /\ Truthful(s)
      <3>1. CASE GAME_STATE = RUNNING
        BY <3>1 DEF AllStatuses, Statuses, Truthful
      <3>2. CASE GAME_STATE = NOT_STARTED
        <4>1. EndText(GAME_STATE) \in Statuses
          BY <3>2, EndTexts DEF NOT_STARTED, OPP_LEFT
        <4>2. s = EndText(GAME_STATE)
          BY <3>2 DEF NOT_STARTED, RUNNING
        <4> QED
          BY <4>1, <4>2 DEF AllStatuses, Truthful
      <3>3. CASE GAME_STATE # RUNNING /\ over /\ GAME_STATE = ending
        BY <3>3, EndTexts DEF Truthful
      <3> QED
        BY <3>1, <3>2, <3>3 DEF Sound, Told
    <2>4. PICK item : item = <<"board", "opp", response[t], s>>
      OBVIOUS
    <2>5. Post(item)
      BY <1>3, <2>4 DEF HandleOpponentMove
    <2>6. response[t] \in 0..ERROR
      BY DEF BInv, TypeOK
    <2>7. item \in Posts
      <3> HIDE DEF s
      <3> QED BY <2>3, <2>4, <2>6, Postables
    <2>8. item[1] = "board" /\ item[2] = "opp" /\ Truthful(item[4])
      <3> HIDE DEF s
      <3> QED BY <2>3, <2>4
    <2> HIDE DEF s
    <2>9. Told'
      BY <1>0, <2>2, <2>5, <2>7, <2>8, ToldPost DEF Sound, serverVars
    <2>10. Queue'
      BY <1>0, <2>1, <2>2, <2>5, <2>7, <2>8, PostKeepsQueue DEF Sound
    <2> QED
      BY <2>1, <2>2, <2>9, <2>10 DEF Sound
  <1> QED
    BY <1>1, <1>2, <1>3 DEF OppThread

\* Running what is no board and not the start.
LEMMA RunOther ==
    ASSUME BInv, Sound, posted # <<>>, posted' = Tail(posted),
           Head(posted)[1] \in {"started", "status"},
           UNCHANGED <<serverVars, linkVars, tap, opp, response>>,
           page'.turn = page.turn, page'.disabled = page.disabled, page'.cells = page.cells,
           start' = start \/ (start = "posted" /\ start' = "thread")
    PROVE  InStep'
  <1>1. posted \in Seq(Posts)
    BY SeenTypes
  <1>2. Members(posted) = Members(posted') \cup {Head(posted)}
    BY <1>1, Ran
  <1>3. \A x \in Members(posted') : x[1] \notin {"initialize", "started"}
    BY <1>1, RunKeepsQueue DEF Sound
  <1>4. SameBoards
    BY <1>2 DEF SameBoards
  <1>5. Head(posted)[1] # "initialize"
    OBVIOUS
  <1>6. ~Connecting
    BY DEF Connecting
  <1>7. ~Created
    <2> SUFFICES ASSUME posted = <<<<"initialize", begins>>>> PROVE FALSE
      BY DEF Created
    <2> QED
      BY <1>5
  <1>8. Started
    BY <1>6, <1>7 DEF Sound, InStep, Opening, OnTurn, Tapped, Waiting, Judging, Judged, Done, Running
  <1>9. Started'
    BY <1>3, <1>8 DEF Started
  <1>10. Running => Running'
    BY <1>9 DEF Running, serverVars
  <1>11. Opening => start' \in {"posted", "thread"}
    BY DEF Opening
  <1> QED
    BY <1>4, <1>8, <1>9, <1>10, <1>11, SteadyStep DEF Sound

\* The page.
LEMMA PageSteps ==
    ASSUME BInv, BInv', Sound, Page
    PROVE  Sound'
  <1>0. posted \in Seq(Posts) /\ page \in Pages
    BY SeenTypes
  <1>1. posted # <<>> /\ Head(posted) \in Members(posted) /\ Head(posted) \in Posts
    <2>1. posted # <<>>
      BY DEF Page, InitializePage, PageStarted, UpdateBoard, UpdateStatus, Runs
    <2>2. Head(posted) \in Members(posted) /\ Head(posted) \in Posts
      <3>1. 1 \in DOMAIN posted /\ posted[1] = Head(posted)
        BY <1>0, <2>1, Ran, HeadTailProperties, LenProperties, EmptySeq
      <3> QED
        BY <1>0, <2>1, <3>1, RunTypes DEF Members
    <2> QED
      BY <2>1, <2>2
  <1>2. UNCHANGED <<serverVars, linkVars, GAME_STATE, tap, opp, response, dead>>
    BY DEF Page, InitializePage, PageStarted, UpdateBoard, UpdateStatus
  <1>3. ASSUME posted' = Tail(posted), Truthful(page'.status)
        PROVE  Told' /\ Queue'
    BY <1>0, <1>1, <1>2, <1>3, ToldRun, RunKeepsQueue DEF Sound, serverVars
  <1>4. CASE InitializePage
    <2>1. InStep' /\ posted' = <<<<"started">>>> /\ start' = "posted"
      BY <1>4, InitializeStep DEF Sound
    <2>2. Members(posted') = {<<"started">>}
      BY <2>1 DEF Members
    <2>3. page'.status = page.status
      BY <1>0, <1>4 DEF InitializePage, Pages
    <2>4. Told'
      BY <1>2, <2>2, <2>3, TruthStays DEF Told, Sound, serverVars, Truthful, Members
    <2>5. Queue'
      BY <2>1 DEF Queue
    <2> QED
      BY <1>2, <2>1, <2>4, <2>5 DEF Sound
  <1>5. CASE PageStarted
    <2>1. /\ Head(posted)[1] = "started" /\ posted' = Tail(posted) /\ start' = "thread"
          /\ page' = [page EXCEPT !.status = IF page.turn THEN "turn" ELSE "wait"]
      BY <1>5 DEF PageStarted, Runs
    <2>2. /\ page'.turn = page.turn /\ page'.disabled = page.disabled
          /\ page'.cells = page.cells /\ page'.status \in {"turn", "wait"}
      BY <1>0, <2>1 DEF Pages
    <2>3. start = "posted"
      <3>1. 1 \in DOMAIN posted /\ posted[1] = Head(posted)
        BY <1>0, <1>1, HeadTailProperties, LenProperties, EmptySeq
      <3> QED
        BY <2>1, <3>1 DEF Sound, Queue
    <2>4. InStep'
      BY <1>1, <1>2, <2>1, <2>2, <2>3, RunOther
    <2>5. Truthful(page'.status)
      BY <2>2 DEF Truthful, Statuses
    <2>6. Told' /\ Queue'
      BY <1>3, <2>1, <2>5
    <2> QED
      BY <1>2, <2>4, <2>6 DEF Sound
  <1>6. CASE UpdateBoard
    <2>1. /\ Head(posted)[1] = "board" /\ posted' = Tail(posted)
          /\ page' = [Board(Head(posted)[2], Head(posted)[3]) EXCEPT !.status = Head(posted)[4]]
      BY <1>6 DEF UpdateBoard, Runs
    <2>2. Head(posted)[2] \in Players
      BY <1>1, <2>1, Kinds
    <2>3. InStep'
      BY <1>6, <2>2, UpdateMineStep, UpdateTheirsStep DEF Sound, Players
    <2>4. page'.status = Head(posted)[4]
      <3>1. Board(Head(posted)[2], Head(posted)[3]) \in Pages
        BY <1>0, <2>2 DEF Board, Pages, Players
      <3> QED
        BY <2>1, <3>1 DEF Pages
    <2>5. Truthful(page'.status)
      BY <1>1, <2>1, <2>4 DEF Sound, Told
    <2>6. Told' /\ Queue'
      BY <1>3, <2>1, <2>5
    <2> QED
      BY <1>2, <2>3, <2>6 DEF Sound
  <1>7. CASE UpdateStatus
    <2>1. /\ Head(posted)[1] = "status" /\ posted' = Tail(posted) /\ start' = start
          /\ page' = [page EXCEPT !.status = Head(posted)[2]]
      BY <1>7 DEF UpdateStatus, Runs
    <2>2. /\ page'.turn = page.turn /\ page'.disabled = page.disabled
          /\ page'.cells = page.cells /\ page'.status = Head(posted)[2]
      BY <1>0, <2>1 DEF Pages
    <2>3. InStep'
      BY <1>1, <1>2, <2>1, <2>2, RunOther
    <2>4. Truthful(page'.status)
      BY <1>1, <2>1, <2>2 DEF Sound, Told
    <2>5. Told' /\ Queue'
      BY <1>3, <2>1, <2>4
    <2> QED
      BY <1>2, <2>3, <2>5 DEF Sound
  <1> QED
    BY <1>4, <1>5, <1>6, <1>7 DEF Page

-----------------------------------------------------------------------------

\* The start.
LEMMA SoundInit ==
    ASSUME Init
    PROVE  Sound
  <1>1. /\ BInv /\ posted = <<>> /\ over = FALSE /\ marks = {} /\ tap = NONE /\ request = NONE
        /\ start = "connecting" /\ GAME_STATE = NOT_STARTED /\ dead = FALSE
        /\ opp = [t \in Threads |-> "idle"]
        /\ page = [turn |-> FALSE, disabled |-> FALSE, status |-> "loading",
                   cells |-> [c \in Cells |-> " "]]
    BY TypeInit DEF Init
  <1>2. inbox = <<Start(IF begins THEN 1 ELSE 2)>>
    BY DEF Init
  <1>3. inbox # <<>> /\ Head(inbox) = Start(IF begins THEN 1 ELSE 2) /\ Tail(inbox) = <<>>
    BY <1>2
  <1>4. Shown = {} /\ Idle /\ ~page.turn /\ ~page.disabled /\ page.status = "loading"
    BY <1>1 DEF Shown, Idle, Players
  <1>5. Mine <=> begins
    <2>1. Even(Cardinality(marks))
      <3>1. Cardinality(marks) = 0
        BY <1>1, FS_EmptySet
      <3> QED
        BY <3>1 DEF Even
    <2> QED
      BY <1>1, <2>1 DEF Mine, BInv, TypeOK
  <1>6. begins => HoldsTurn(<<>>, {})
    BY <1>1, <1>5 DEF HoldsTurn
  <1>7. ~begins => Awaits(<<>>, {})
    BY <1>1, <1>5 DEF Awaits
  <1>8. Fresh(Tail(inbox))
    BY <1>1, <1>3, <1>4, <1>6, <1>7 DEF Fresh
  <1>9. InStep
    BY <1>1, <1>3, <1>8 DEF InStep, Connecting
  <1>10. DOMAIN posted = {} /\ Members(posted) = {}
    <2>1. Len(posted) = 0 /\ posted \in Seq(Posts)
      BY <1>1, EmptySeq
    <2>2. DOMAIN posted = {}
      BY <2>1, LenProperties
    <2> QED
      BY <2>2 DEF Members
  <1>11. Told
    BY <1>1, <1>4, <1>10 DEF Told, Truthful, Statuses
  <1>12. Queue
    BY <1>10 DEF Queue
  <1> QED
    BY <1>1, <1>9, <1>11, <1>12 DEF Sound

\* Nothing that went wrong is undone.
LEMMA SpoiltStays ==
    ASSUME Next, Unspoilt'
    PROVE  Unspoilt
  <1>1. spoilt \subseteq spoilt'
    BY DEF Next, App, Bridge, OppThread, Page, OpponentMoves, OpponentLeaves, ServerTakes,
           CreateGame, SetRunning, Press, PressFails, ReadResponse, ReadNoResponse, ReadOpponent,
           ReadOpponentFails, ReadOpponentDies, HandleOpponentMove, GhostReads, InitializePage,
           PageStarted, UpdateBoard, UpdateStatus
  <1> QED
    BY <1>1 DEF Unspoilt

\* A stuttering step.
LEMMA StutterStep ==
    ASSUME BInv, InStep, UNCHANGED vars
    PROVE  InStep'
  <1>1. UNCHANGED <<serverVars, linkVars, appVars>>
    BY DEF vars
  <1>2. /\ UNCHANGED <<game, begins, marks, over, ending, inbox, request>>
        /\ UNCHANGED <<GAME_STATE, start, tap, opp, response, posted, page, ghost, dead>>
    BY <1>1 DEF serverVars, linkVars, appVars
  <1>3. CASE Started
    <2>1. SameBoards /\ Started'
      BY <1>2, <1>3 DEF SameBoards, Members, Started
    <2>2. Running => Running'
      BY <1>2, <2>1 DEF Running
    <2>3. Opening => start' \in {"posted", "thread"}
      BY <1>2 DEF Opening
    <2> QED
      BY <1>1, <1>2, <1>3, <2>1, <2>2, <2>3, SteadyStep
  <1>4. CASE ~Started
    <2>1. Connecting \/ Created
      BY <1>4 DEF InStep, Opening, OnTurn, Tapped, Waiting, Judging, Judged, Done, Running
    <2>2. PICK q, r : q = inbox /\ r = Tail(inbox)
      OBVIOUS
    <2>3. /\ Fresh(q) => Fresh(q)'
          /\ Fresh(r) => Fresh(r)'
      BY <1>1, <1>2, LinkSame DEF Fresh, Idle, Shown
    <2>4. (Fresh(inbox) => Fresh(q)) /\ (Fresh(q)' => Fresh(inbox)')
      BY <1>2, <2>2 DEF Fresh, HoldsTurn, Awaits
    <2>5. (Fresh(Tail(inbox)) => Fresh(r)) /\ (Fresh(r)' => Fresh(Tail(inbox))')
      BY <1>2, <2>2 DEF Fresh, HoldsTurn, Awaits
    <2> QED
      BY <1>2, <2>1, <2>3, <2>4, <2>5 DEF InStep, Connecting, Created, Start
  <1> QED
    BY <1>3, <1>4

\* Every step that does not go wrong keeps it.
LEMMA SoundStep ==
    ASSUME BInv, BInv', Unspoilt => Sound, [Next]_vars, Unspoilt'
    PROVE  Sound'
  <1>1. CASE Next
    <2>1. Sound
      BY <1>1, SpoiltStays
    <2>2. CASE (\E c \in Cells : OpponentMoves(c)) \/ OpponentLeaves \/ ServerTakes
      BY <2>1, <2>2, ServerSteps
    <2>3. CASE CreateGame \/ SetRunning
      BY <2>1, <2>3, StartSteps
    <2>4. CASE (\E c \in Cells : Press(c)) \/ Bridge
      BY <2>1, <2>4, PlayerSteps
    <2>5. CASE \E t \in Threads : OppThread(t)
      BY <2>1, <2>5, ThreadSteps
    <2>6. CASE GhostReads
      BY <2>6 DEF GhostReads, Unspoilt
    <2>7. CASE Page
      BY <2>1, <2>7, PageSteps
    <2> QED
      BY <1>1, <2>2, <2>3, <2>4, <2>5, <2>6, <2>7 DEF Next, App
  <1>2. CASE UNCHANGED vars
    <2>1. Sound
      BY <1>2 DEF Unspoilt, vars
    <2>2. UNCHANGED <<serverVars, linkVars, appVars>>
      BY <1>2 DEF vars
    <2>3. /\ UNCHANGED <<game, begins, marks, over, ending, inbox, request>>
          /\ UNCHANGED <<GAME_STATE, start, tap, opp, response, posted, page, ghost, dead>>
      BY <2>2 DEF serverVars, linkVars, appVars
    <2>4. Told' /\ Queue' /\ ~dead'
      BY <2>1, <2>3, ToldStays, QueueStays DEF Sound
    <2>5. InStep'
      BY <1>2, <2>1, StutterStep DEF Sound
    <2> QED
      BY <2>4, <2>5 DEF Sound
  <1> QED
    BY <1>1, <1>2

\* What is in step is what the player must not be misled about.
LEMMA SoundShows ==
    ASSUME BInv, Sound
    PROVE  ShownIsTrue /\ RequestsAreValid /\ ~dead
  <1>0. /\ game \in {"TTT", "RPS"} /\ page \in Pages /\ begins \in BOOLEAN /\ over \in BOOLEAN
        /\ request \in Cells \cup {NONE}
    BY SeenTypes DEF BInv, TypeOK
  <1>1. ASSUME game = "TTT" PROVE Shown \subseteq marks
    <2>1. Shown \subseteq Seen
      BY DEF Seen
    <2>2. \/ Shown = {}
          \/ \E q, S : /\ Shown \subseteq S
                       /\ HoldsTurn(q, S) \/ Awaits(q, S) \/ \E c : Heard(c, q, S)
          \/ Shown \subseteq marks
          \/ Tapped
      BY <1>1, <2>1
         DEF Sound, InStep, Connecting, Created, Fresh, Opening, OnTurn, Waiting, Judging, Judged, Done
    <2>3. CASE Tapped
      <3>1. HoldsTurn(inbox, Shown) \/ Awaits(Tail(inbox), Shown \cup {<<"me", tap>>})
        BY <2>3 DEF Tapped
      <3> QED
        BY <1>1, <3>1, SeenIsMade
    <2> QED
      BY <1>1, <2>2, <2>3, SeenIsMade
  <1>2. ASSUME game = "TTT", NEW c \in Cells, page.cells[c] # " "
        PROVE  <<page.cells[c], c>> \in marks
    <2>1. page.cells[c] \in Players
      BY <1>0, <1>2 DEF Pages
    <2>2. <<page.cells[c], c>> \in Shown
      BY <2>1 DEF Shown
    <2> QED
      BY <1>1, <1>2, <2>2
  <1>3. page.status \notin Statuses => page.status = EndText(ending)
    BY DEF Sound, Told, Truthful
  <1>4. ASSUME request # NONE, ~over PROVE Valid("me", request)
    <2>1. Tapped
      BY <1>4 DEF Sound, InStep, Connecting, Created, Fresh, Opening, OnTurn, Waiting, Judging,
                  Judged, Done
    <2>2. request = tap /\ HoldsTurn(inbox, Shown) /\ tap \in Cells
      BY <1>0, <1>4, <2>1 DEF Tapped
    <2>3. CASE game = "TTT"
      <3>1. Free(Shown, request)
        BY <1>0, <2>1, <2>2, <2>3, ShownFree DEF Tapped
      <3>2. marks = Shown /\ Mine
        BY <1>4, <2>2, <2>3 DEF HoldsTurn
      <3> QED
        BY <1>0, <2>3, <3>1, <3>2 DEF Valid, Mine, Free
    <2>4. CASE game = "RPS"
      BY <1>4, <2>2, <2>4 DEF HoldsTurn, Valid
    <2> QED
      BY <1>0, <2>3, <2>4
  <1> QED
    BY <1>2, <1>3, <1>4 DEF ShownIsTrue, RequestsAreValid, Sound

-----------------------------------------------------------------------------

\* Every variable has its type: what the server and the app write to each other
\* are bytes, what is posted the page can run, and the page stays a page
\* whatever cell the opponent's message names (TTTutils.java, TttActivity.java).
THEOREM TypeCorrect == Spec => []TypeOK
  <1>1. Init => BInv
    BY TypeInit
  <1>2. BInv /\ [Next]_vars => BInv'
    BY TypeStep
  <1>3. BInv => TypeOK
    BY DEF BInv
  <1> QED
    BY <1>1, <1>2, <1>3, PTL DEF Spec

\* The inductive invariant.
IInv == BInv /\ (Unspoilt => Sound)

\* What the page shows the server said, what it lets the player tap is a move,
\* and no thread of the app dies, as long as the player does not tap twice in
\* a row, no read tears two updates apart, and no thread of the last game
\* interferes (TttActivity.java, RpsActivity.java, TTTutils.java).
THEOREM PageStaysInStep == Spec => []PageInStep
  <1>1. Init => IInv
    BY TypeInit, SoundInit DEF IInv
  <1>2. IInv /\ [Next]_vars => IInv'
    <2> SUFFICES ASSUME IInv, [Next]_vars PROVE IInv'
      OBVIOUS
    <2>1. BInv'
      BY TypeStep DEF IInv
    <2>2. ASSUME Unspoilt' PROVE Sound'
      BY <2>1, <2>2, SoundStep DEF IInv
    <2> QED
      BY <2>1, <2>2 DEF IInv
  <1>3. IInv => PageInStep
    <2> SUFFICES ASSUME IInv, Unspoilt PROVE ShownIsTrue /\ RequestsAreValid /\ ~dead
      BY DEF PageInStep, Unspoilt
    <2> QED
      BY SoundShows DEF IInv
  <1> QED
    BY <1>1, <1>2, <1>3, PTL DEF Spec
=============================================================================
