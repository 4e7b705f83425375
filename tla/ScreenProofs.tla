---------------------------- MODULE ScreenProofs -----------------------------
(***************************************************************************)
(* Theorems about Screen, for any fees and boards, any length of a turn    *)
(* and any number of tickets, news and troubles.  What a pass has painted  *)
(* is right or said to be wrong; on that rests what a whole turn is.       *)
(***************************************************************************)
EXTENDS Screen, SequenceTheorems, WellFoundedInduction, TLAPS

Abouts == {"none", "message", "sentence"} \cup Fees \cup Items \cup 1 .. MaxTickets

Types ==
    /\ TypeOK
    /\ shown \in [kind : Kinds, about : Abouts]
    /\ seen \in [item : Abouts, for : 0 .. Turn, lost : BOOLEAN, of : Boards]

\* The agent is running, and display_unavailable says that the screen is wrong, or the
\* screen changed since it was last asked.
Running == at # "down" /\ ~exiting
Said == code = "active" \/ unseen

\* The frame of whoever has the screen.
FrameNow == FrameFor(Wanted(pending # 0), index, mode)

\* What is on the screen: between what a pass reads and what it paints for it, only a
\* ticket and what is black are sure to be right.
Settled == {"handle", "read", "expire", "turn"}
Laid == unseen \/ geometry = mode
Painted == Running /\ at \in Settled => shown = FrameNow \/ Said \/ raised # "no"
OfTicket == Running /\ pending # 0 => shown = Frame("ticket", pending) \/ Said
Blanked == Running /\ pending = 0 /\ ~drawn => shown = Black \/ Said \/ raised = "ticket"
Pictured == Laid /\ Painted /\ OfTicket /\ Blanked

\* When the clock runs, an item that is to have a whole turn has the screen, or its turn
\* has not begun.
HeldByBoard ==
    seen.of # <<>> /\ at = "handle" /\ ~ticked /\ up => pending = 0 /\ Wanted(FALSE) = "board"

\* What was seen of the board's items, and what the rotation has it at.
Noted == at # "down" /\ shown.kind = "item" => seen.item = shown.about /\ ~seen.lost
Turning ==
    seen.of # <<>> =>
        /\ seen.of = board /\ seen.item = board[index]
        /\ health = "well" /\ mode = "large" /\ code = "ok" /\ ~unseen /\ raised = "no"
        /\ up => ~seen.lost /\ seen.for >= age

-------------------------------------------------------------------------------
(* Boards, frames and turns.                                               *)

LEMMA BoardItems ==
    ASSUME NEW b \in Boards
    PROVE  /\ Len(b) \in Nat /\ (b = <<>> <=> Len(b) = 0)
           /\ \A i \in 1 .. Len(b) : b[i] \in Items /\ b[i] \in ToSet(b)
           /\ \A x \in ToSet(b) : \E i \in 1 .. Len(b) : b[i] = x
  <1>1. b \in Seq(ToSet(b))
    BY ScreenAssumption
  <1>2. Len(b) \in Nat /\ DOMAIN b = 1 .. Len(b) /\ (b = <<>> <=> Len(b) = 0)
    BY <1>1, LenProperties, EmptySeq
  <1>3. \A i \in 1 .. Len(b) : b[i] \in ToSet(b)
    BY <1>2 DEF ToSet
  <1>4. \A x \in ToSet(b) : \E i \in 1 .. Len(b) : b[i] = x
    BY <1>2 DEF ToSet
  <1>5. ToSet(b) \subseteq Items
    BY DEF Items
  <1> QED
    BY <1>2, <1>3, <1>4, <1>5

\* An item that is on a board is there first somewhere.
LEMMA FirstPlace ==
    ASSUME NEW b \in Boards, NEW x \in ToSet(b)
    PROVE  IndexOf(x, b) \in 1 .. Len(b) /\ b[IndexOf(x, b)] = x
  <1> DEFINE T == {i \in 1 .. Len(b) : b[i] = x}
  <1>1. Len(b) \in Nat /\ T # {} /\ T \subseteq Nat
    BY BoardItems
  <1>2. PICK i \in T : \A j \in T : ~(<<j, i>> \in OpToRel(<, Nat))
    BY <1>1, NatLessThanWellFounded, WFMin, Zenon
  <1>3. \A j \in T : ~(j < i)
    BY <1>1, <1>2 DEF OpToRel
  <1>4. i \in 1 .. Len(b) /\ b[i] = x /\ \A j \in 1 .. i - 1 : b[j] # x
    <2>1. \A j \in 1 .. i - 1 : j \in 1 .. Len(b) /\ j < i
      BY <1>1
    <2> QED
      BY <1>3, <2>1
  <1> QED
    BY <1>4 DEF IndexOf

LEMMA Geometries == Modes = {"large", "small", "tiny"}
  BY DEF Modes

\* Which frame it is, and of what kind.
LEMMA Frames ==
    ASSUME Types, NEW m \in Modes, NEW i \in Nat, board # <<>> => i \in 1 .. Len(board)
    PROVE  /\ FrameFor("ticket", i, m) = Frame("ticket", pending)
           /\ FrameFor("black", i, m) = Black
           /\ \A w \in {"fee", "closed"} :
                 /\ FrameFor(w, i, m) = Impossible \/ FrameFor(w, i, m).kind \in {"fee", "not_shown", "closed"}
                 /\ m = "large" => FrameFor(w, i, m).kind \in {"fee", "closed"}
                 /\ (w = "fee" => fee # "none") /\ FrameFor(w, i, m) # Impossible =>
                       FrameFor(w, i, m) \in [kind : Kinds, about : Abouts]
           /\ FrameFor("board", i, m) = IF m = "large" THEN Frame("item", board[i]) ELSE Black
  <1>1. FrameFor("ticket", i, m) = Frame("ticket", pending) /\ FrameFor("black", i, m) = Black
    BY DEF FrameFor
  <1>2. FrameFor("board", i, m) = IF m = "large" THEN Frame("item", board[i]) ELSE Black
    BY DEF FrameFor
  <1>3. /\ FrameFor("fee", i, m) = IF m = "large" THEN Frame("fee", fee)
                                   ELSE IF m = "small" THEN Frame("not_shown", fee) ELSE Impossible
        /\ FrameFor("closed", i, m) = IF m = "large" THEN Frame("closed", "message")
                                      ELSE IF m = "small" THEN Frame("closed", "sentence") ELSE Impossible
    BY DEF FrameFor
  <1>4. fee \in Fees \cup {"none"}
    BY DEF Types, TypeOK, Read, Publications
  <1> QED
    BY <1>1, <1>2, <1>3, <1>4 DEF Frame, Kinds, Abouts

LEMMA FrameTypes ==
    /\ Black \in [kind : Kinds, about : Abouts] /\ Noise \in [kind : Kinds, about : Abouts]
    /\ \A t \in 1 .. MaxTickets : Frame("ticket", t) \in [kind : Kinds, about : Abouts]
    /\ \A x \in Items : Frame("item", x) \in [kind : Kinds, about : Abouts]
    /\ Black.kind = "black" /\ Noise.kind = "noise"
    /\ \A x : Frame("ticket", x).kind = "ticket" /\ Frame("item", x).kind = "item"
              /\ Frame("item", x).about = x
    /\ Black # Impossible /\ \A x : Frame("item", x) # Impossible
  BY DEF Black, Noise, Impossible, Frame, Kinds, Abouts

\* The index of the rotation.
LEMMA IndexType ==
    ASSUME Types
    PROVE  /\ index \in Nat /\ index >= 1 /\ (board # <<>> => index \in 1 .. Len(board))
           /\ board \in Boards /\ Len(board) \in Nat /\ (board = <<>> <=> Len(board) = 0)
           /\ Turn \in Nat /\ Turn > 0 /\ age \in 0 .. Turn /\ up \in BOOLEAN /\ mode \in Modes
  <1>1. board \in Boards
    BY DEF Types, TypeOK, Read, Publications
  <1>2. Len(board) \in Nat /\ (board = <<>> <=> Len(board) = 0)
    BY <1>1, BoardItems
  <1> QED
    BY <1>1, <1>2, ScreenAssumption DEF Types, TypeOK

LEMMA TurnTypes ==
    ASSUME Types, TakeTurn, board # <<>>
    PROVE  /\ index' \in 1 .. Len(board) /\ up' = TRUE /\ age' \in 0 .. Turn
           /\ ~IsNew => index' = index /\ age' = age /\ up
           /\ IsNew => age' = 0
           /\ index' # index => up /\ age = Turn /\ index' = (index % Len(board)) + 1
  <1>1. /\ index \in 1 .. Len(board) /\ Len(board) \in Nat /\ Len(board) > 0
        /\ Turn \in Nat /\ age \in 0 .. Turn
    BY IndexType
  <1>2. (index % Len(board)) + 1 \in 1 .. Len(board)
    <2> DEFINE n == Len(board)
    <2>1. \A i \in Nat : i % n \in 0 .. n - 1
      BY <1>1
    <2> QED
      BY <1>1, <2>1
  <1> QED
    BY <1>1, <1>2 DEF TakeTurn, TurnEnds, IsNew, NextItem

-------------------------------------------------------------------------------
(* Drawing.                                                                *)

\* The turn begins or goes on, with its item drawn.
Shows ==
    /\ TakeTurn /\ board # <<>> /\ shown' = Frame("item", board[index'])
    /\ health = "well" /\ mode = "large" /\ code' = "ok" /\ unseen' = FALSE /\ raised' = "no"
    /\ Wanted(FALSE) = "board"

\* What every drawing and blanking comes to.
Drawn(frame) ==
    /\ shown' \in [kind : Kinds, about : Abouts]
    /\ geometry' \in Modes /\ drawn' \in BOOLEAN /\ code' \in {"ok", "active"} /\ unseen' \in BOOLEAN
    /\ Laid => Laid'
    /\ Laid => shown' = frame \/ Said'
    /\ shown' \in {shown, frame, Black, Noise}
    /\ unseen' \in {unseen, FALSE} /\ raised' = "no"

LEMMA DrawEffect ==
    ASSUME Types, NEW w \in {"fee", "closed", "board"}, NEW i \in Nat, board # <<>> => i \in 1 .. Len(board),
           w = "fee" => fee # "none", w = "board" => board # <<>>, DrawLane(w, i), UNCHANGED mode
    PROVE  /\ Drawn(FrameFor(w, i, mode)) /\ drawn' = TRUE
           /\ health = "well" /\ FrameFor(w, i, mode) # Impossible =>
                 shown' = FrameFor(w, i, mode) /\ code' = "ok" /\ unseen' = FALSE
  <1> DEFINE frame == FrameFor(w, i, mode)
  <1>1. mode \in Modes /\ geometry \in Modes /\ health \in {"well", "mute", "refusing"} /\ board \in Boards
        /\ shown \in [kind : Kinds, about : Abouts] /\ code \in {"ok", "active"} /\ unseen \in BOOLEAN
    BY IndexType DEF Types, TypeOK
  <1>2. frame # Impossible => frame \in [kind : Kinds, about : Abouts]
    <2>1. CASE w \in {"fee", "closed"}
      BY <1>1, <2>1, Frames
    <2>2. CASE w = "board"
      BY <1>1, <2>2, Frames, FrameTypes, BoardItems
    <2> QED
      BY <2>1, <2>2
  <1>3. /\ drawn' = TRUE /\ raised' = "no"
        /\ IF health = "mute"
           THEN code' = "active" /\ UNCHANGED <<shown, geometry, unseen>>
           ELSE /\ geometry' = mode /\ unseen' = FALSE
                /\ code' = IF frame = Impossible \/ health = "refusing" THEN "active" ELSE "ok"
                /\ shown' = IF health = "refusing" THEN shown
                            ELSE IF frame = Impossible THEN Black ELSE frame
    BY DEF DrawLane
  <1> HIDE DEF frame
  <1>4. Drawn(frame) /\ drawn' = TRUE
    BY <1>1, <1>2, <1>3, FrameTypes DEF Drawn, Laid, Said
  <1>5. health = "well" /\ frame # Impossible => shown' = frame /\ code' = "ok" /\ unseen' = FALSE
    BY <1>3
  <1> QED
    BY <1>4, <1>5 DEF frame

LEMMA BlankEffect ==
    ASSUME Types, BlankScreens, UNCHANGED mode
    PROVE  /\ Drawn(Black) /\ drawn' = FALSE
           /\ shown' \in {shown, Black, Noise} /\ (health = "well" => code' = code) /\ unseen' = unseen
  <1>1. mode \in Modes /\ geometry \in Modes /\ health \in {"well", "mute", "refusing"}
        /\ shown \in [kind : Kinds, about : Abouts] /\ code \in {"ok", "active"} /\ unseen \in BOOLEAN
    BY DEF Types, TypeOK
  <1> QED
    BY <1>1, FrameTypes DEF BlankScreens, Drawn, Laid, Said, On

\* Paint and Blank, of a screen that has no ticket.
LEMMA PaintEffect ==
    ASSUME Types, Paint(FALSE) \/ Blank, UNCHANGED mode
    PROVE  LET settled == Laid /\ (Blank \/ drawn \/ shown = Black \/ Said \/ raised = "ticket") IN
           /\ (board = <<>> => index' = 1) /\ (board # <<>> => index' \in 1 .. Len(board))
           /\ up' \in BOOLEAN /\ age' \in 0 .. Turn /\ (board = <<>> => ~up')
           /\ shown' \in [kind : Kinds, about : Abouts]
           /\ geometry' \in Modes /\ drawn' \in BOOLEAN /\ code' \in {"ok", "active"} /\ unseen' \in BOOLEAN
           /\ Laid => Laid'
           /\ raised' \in {"no", "pass", "ticket"}
           /\ settled => \/ shown' = FrameFor(Wanted(FALSE), index', mode) \/ Said'
                         \/ raised' = "ticket"
           /\ settled /\ ~drawn' => shown' = Black \/ Said' \/ raised' = "ticket"
           /\ \/ Shows
              \/ /\ shown' = shown \/ shown'.kind # "item"
                 /\ health = "well" /\ mode = "large" =>
                       UNCHANGED rotation /\ code' \in {code, "ok"} /\ unseen' \in {unseen, FALSE}
           /\ up' => up \/ Wanted(FALSE) = "board"
  <1>1. /\ mode \in Modes /\ geometry \in Modes /\ health \in {"well", "mute", "refusing"} /\ board \in Boards
        /\ shown \in [kind : Kinds, about : Abouts] /\ code \in {"ok", "active"} /\ unseen \in BOOLEAN
        /\ drawn \in BOOLEAN /\ (board = <<>> => index = 1) /\ (board # <<>> => index \in 1 .. Len(board))
        /\ up \in BOOLEAN /\ age \in 0 .. Turn /\ (board = <<>> => ~up)
        /\ raised \in {"no", "pass", "ticket"}
    BY IndexType DEF Types, TypeOK
  <1>2. /\ index \in Nat /\ (board # <<>> => index \in 1 .. Len(board))
        /\ Len(board) \in Nat /\ (board = <<>> <=> Len(board) = 0)
    BY IndexType
  <1>3. Wanted(FALSE) \in {"fee", "closed", "board", "black"}
        /\ (Wanted(FALSE) = "fee" => fee # "none") /\ (Wanted(FALSE) = "board" => board # <<>>)
    BY DEF Wanted
  <1>4. CASE Wanted(FALSE) = "board"
    <2>1. TakeTurn /\ DrawLane("board", index') /\ board # <<>>
      BY <1>3, <1>4 DEF Paint, Blank
    <2>2. index' \in 1 .. Len(board) /\ index' \in Nat /\ up' = TRUE /\ age' \in 0 .. Turn
      BY <1>2, <2>1, TurnTypes
    <2> DEFINE i == index'
    <2>3. i \in Nat /\ i \in 1 .. Len(board) /\ DrawLane("board", i)
      BY <2>1, <2>2
    <2> HIDE DEF i
    <2>4. /\ Drawn(FrameFor("board", i, mode)) /\ drawn' = TRUE
          /\ health = "well" /\ FrameFor("board", i, mode) # Impossible =>
                 shown' = FrameFor("board", i, mode) /\ code' = "ok" /\ unseen' = FALSE
      BY <2>1, <2>3, DrawEffect
    <2>5. FrameFor("board", i, mode) = IF mode = "large" THEN Frame("item", board[i]) ELSE Black
      BY <1>1, <2>3, Frames
    <2>6. board[i] \in Items
      BY <1>1, <2>3, BoardItems
    <2>7. mode = "large" /\ health = "well" => Shows
      BY <1>4, <2>1, <2>4, <2>5, <2>6, FrameTypes DEF Shows, Drawn, i
    <2>8. mode # "large" \/ health # "well" => shown' = shown \/ shown'.kind # "item"
      <3>1. CASE mode # "large"
        BY <2>4, <2>5, <3>1, FrameTypes DEF Drawn
      <3>2. CASE health # "well"
        BY <1>1, <2>1, <3>2, FrameTypes DEF DrawLane
      <3> QED
        BY <3>1, <3>2
    <2>9. Laid => shown' = FrameFor(Wanted(FALSE), index', mode) \/ Said'
      BY <1>4, <2>4 DEF Drawn, i
    <2> QED
      BY <1>4, <2>1, <2>2, <2>4, <2>7, <2>8, <2>9 DEF Drawn
  <1>5. CASE Wanted(FALSE) \in {"fee", "closed"}
    <2> DEFINE w == Wanted(FALSE)
    <2>1. DrawLane(w, index) /\ UNCHANGED rotation /\ w \in {"fee", "closed"} /\ (w = "fee" => fee # "none")
      BY <1>3, <1>5 DEF Paint, Blank
    <2> HIDE DEF w
    <2>2. /\ Drawn(FrameFor(w, index, mode)) /\ drawn' = TRUE
          /\ health = "well" /\ FrameFor(w, index, mode) # Impossible =>
                 shown' = FrameFor(w, index, mode) /\ code' = "ok" /\ unseen' = FALSE
      BY <1>2, <2>1, DrawEffect
    <2>3. /\ FrameFor(w, index, mode) = Impossible \/ FrameFor(w, index, mode).kind \in {"fee", "not_shown", "closed"}
          /\ mode = "large" => FrameFor(w, index, mode).kind \in {"fee", "closed"}
      BY <1>1, <1>2, <2>1, Frames
    <2>4. Impossible.kind \notin {"item", "fee", "closed"}
      BY DEF Impossible, Frame
    <2>5. shown' = shown \/ shown'.kind # "item"
      BY <2>2, <2>3, <2>4, FrameTypes DEF Drawn
    <2>6. index' = index /\ up' = up /\ age' = age
      BY <2>1 DEF rotation
    <2>7. health = "well" /\ mode = "large" => code' = "ok" /\ unseen' = FALSE
      BY <2>2, <2>3, <2>4
    <2>8. Laid => shown' = FrameFor(w, index', mode) \/ Said'
      BY <2>2, <2>6 DEF Drawn
    <2> QED
      BY <1>1, <2>1, <2>2, <2>5, <2>6, <2>7, <2>8 DEF Drawn, w
  <1>6. CASE Wanted(FALSE) = "black"
    <2>1. UNCHANGED rotation /\ (BlankScreens \/ (~Blank /\ ~drawn /\ NothingToDraw))
      BY <1>6 DEF Paint, Blank
    <2>2. index' = index /\ up' = up /\ age' = age
      BY <2>1 DEF rotation
    <2>3. FrameFor(Wanted(FALSE), index', mode) = Black
      BY <1>1, <1>2, <1>6, <2>2, Frames
    <2>4. CASE BlankScreens
      <3>1. /\ Drawn(Black) /\ drawn' = FALSE
            /\ shown' \in {shown, Black, Noise} /\ (health = "well" => code' = code) /\ unseen' = unseen
        BY <2>4, BlankEffect
      <3> QED
        BY <1>1, <2>1, <2>2, <2>3, <3>1, FrameTypes DEF Drawn
    <2>5. CASE ~Blank /\ ~drawn /\ NothingToDraw
      <3>1. /\ UNCHANGED <<shown, drawn, geometry, code, unseen>>
            /\ raised' \in {raised, "no"} /\ (raised = "ticket" => raised' = "ticket")
        BY <2>5 DEF NothingToDraw
      <3> QED
        BY <1>1, <2>1, <2>2, <2>3, <2>5, <3>1 DEF Laid, Said
    <2> QED
      BY <2>1, <2>4, <2>5
  <1> QED
    BY <1>3, <1>4, <1>5, <1>6

-------------------------------------------------------------------------------
(* Types.                                                                  *)

LEMMA TypesInit == Init => Types
  <1> SUFFICES ASSUME Init PROVE Types
    OBVIOUS
  <1>1. /\ news = 0 /\ health = "well" /\ mode \in Modes /\ shown = Black /\ troubles = 0
        /\ at = "handle" /\ exiting = FALSE /\ ticked = FALSE
        /\ fee = "none" /\ closed = FALSE /\ board = <<>> /\ index = 1 /\ up = FALSE /\ age = 0
        /\ pending = 0 /\ issued = 0 /\ drawn = FALSE /\ geometry = mode /\ code = "ok" /\ unseen = FALSE
        /\ raised = "no"
        /\ seen = [item |-> "none", for |-> 0, lost |-> FALSE, of |-> <<>>]
    BY DEF Init, NothingSeen
  <1>2. /\ Read \in Publications
        /\ shown \in [kind : Kinds, about : Abouts]
    BY <1>1, ScreenAssumption, FrameTypes DEF Read, Publications
  <1>3. seen \in [item : Abouts, for : 0 .. Turn, lost : BOOLEAN, of : Boards]
    BY <1>1, ScreenAssumption DEF Abouts
  <1>4. /\ news \in 0 .. MaxNews /\ troubles \in 0 .. MaxTroubles /\ issued \in 0 .. MaxTickets /\ age \in 0 .. Turn
        /\ (board = <<>> => index = 1) /\ (board # <<>> => index \in 1 .. Len(board))
    BY <1>1, ScreenAssumption
  <1> QED
    BY <1>1, <1>2, <1>3, <1>4 DEF Types, TypeOK, Places

LEMMA WatchTypes ==
    ASSUME Types, Watches, shown' \in [kind : Kinds, about : Abouts], board' \in Boards
    PROVE  seen' \in [item : Abouts, for : 0 .. Turn, lost : BOOLEAN, of : Boards]
  <1>1. /\ seen \in [item : Abouts, for : 0 .. Turn, lost : BOOLEAN, of : Boards]
        /\ <<>> \in Boards /\ "none" \in Abouts /\ 0 \in 0 .. Turn /\ Turn \in Nat
    BY ScreenAssumption DEF Types, Abouts
  <1>2. NothingSeen \in [item : Abouts, for : 0 .. Turn, lost : BOOLEAN, of : Boards]
    BY <1>1 DEF NothingSeen
  <1>3. seen.for < Turn => seen.for + 1 \in 0 .. Turn
    BY <1>1
  <1>4. /\ seen'.item = seen'.item
        /\ \/ seen' = NothingSeen
           \/ \E o \in {board', <<>>} : seen' = [item |-> shown'.about, for |-> 0, lost |-> FALSE, of |-> o]
           \/ \E f \in {seen.for, seen.for + 1}, l \in BOOLEAN, o \in {seen.of, <<>>} :
                 /\ seen' = [seen EXCEPT !.for = f, !.lost = l, !.of = o]
                 /\ f = seen.for + 1 => seen.for < Turn
    <2> DEFINE undisturbed == /\ board' = seen.of /\ health' = "well" /\ mode' = "large" /\ ~exiting'
                              /\ raised' = "no"
               anew == shown'.about # seen.item \/ seen.lost
               f == IF ~ticked /\ ticked' /\ shown.kind = "item" /\ seen.for < Turn THEN seen.for + 1 ELSE seen.for
               l == seen.lost \/ (at = "turn" /\ at' = "handle" /\ shown'.kind # "item")
               o == IF undisturbed THEN seen.of ELSE <<>>
    <2>1. /\ f \in {seen.for, seen.for + 1} /\ l \in BOOLEAN /\ o \in {seen.of, <<>>}
          /\ f = seen.for + 1 => seen.for < Turn
      BY <1>1
    <2>2. \/ seen' = NothingSeen
          \/ seen' = [item |-> shown'.about, for |-> 0, lost |-> FALSE, of |-> IF age' = 0 THEN board' ELSE <<>>]
          \/ seen' = [seen EXCEPT !.for = f, !.lost = l, !.of = o]
      BY DEF Watches
    <2> HIDE DEF f, l, o
    <2> QED
      BY <2>1, <2>2
  <1>5. ASSUME NEW f \in {seen.for, seen.for + 1}, NEW l \in BOOLEAN, NEW o \in {seen.of, <<>>},
               seen' = [seen EXCEPT !.for = f, !.lost = l, !.of = o], f = seen.for + 1 => seen.for < Turn
        PROVE  seen' \in [item : Abouts, for : 0 .. Turn, lost : BOOLEAN, of : Boards]
    <2>1. f \in 0 .. Turn /\ o \in Boards
      BY <1>1, <1>3, <1>5
    <2> QED
      BY <1>1, <1>5, <2>1
  <1>6. ASSUME NEW o \in {board', <<>>}, seen' = [item |-> shown'.about, for |-> 0, lost |-> FALSE, of |-> o]
        PROVE  seen' \in [item : Abouts, for : 0 .. Turn, lost : BOOLEAN, of : Boards]
    BY <1>1, <1>6
  <1> QED
    BY <1>2, <1>4, <1>5, <1>6

\* All but what is seen, as it was.
LEMMA Flat ==
    ASSUME Types
    PROVE  /\ news \in 0 .. MaxNews /\ troubles \in 0 .. MaxTroubles
           /\ health \in {"well", "mute", "refusing"} /\ mode \in Modes
           /\ geometry \in Modes /\ shown \in [kind : Kinds, about : Abouts]
           /\ at \in Places /\ exiting \in BOOLEAN
           /\ fee \in Fees \cup {"none"} /\ closed \in BOOLEAN /\ board \in Boards
           /\ (board = <<>> => index = 1) /\ (board # <<>> => index \in 1 .. Len(board)) /\ index \in Nat
           /\ up \in BOOLEAN /\ age \in 0 .. Turn /\ (board = <<>> => ~up)
           /\ issued \in 0 .. MaxTickets /\ MaxTickets \in Nat /\ pending \in {0, issued}
           /\ drawn \in BOOLEAN /\ code \in {"ok", "active"} /\ unseen \in BOOLEAN /\ ticked \in BOOLEAN
           /\ raised \in {"no", "pass", "ticket"}
  BY ScreenAssumption, IndexType DEF Types, TypeOK, Read, Publications

\* Everything that Watches does not set.
Rest ==
    /\ news' \in 0 .. MaxNews /\ troubles' \in 0 .. MaxTroubles
    /\ health' \in {"well", "mute", "refusing"} /\ mode' \in Modes
    /\ geometry' \in Modes /\ shown' \in [kind : Kinds, about : Abouts]
    /\ at' \in Places /\ exiting' \in BOOLEAN
    /\ fee' \in Fees \cup {"none"} /\ closed' \in BOOLEAN /\ board' \in Boards
    /\ (board' = <<>> => index' = 1) /\ (board' # <<>> => index' \in 1 .. Len(board'))
    /\ up' \in BOOLEAN /\ age' \in 0 .. Turn /\ (board' = <<>> => ~up')
    /\ issued' \in 0 .. MaxTickets /\ pending' \in {0, issued'}
    /\ drawn' \in BOOLEAN /\ code' \in {"ok", "active"} /\ unseen' \in BOOLEAN /\ ticked' \in BOOLEAN
    /\ raised' \in {"no", "pass", "ticket"}

LEMMA RestIsEnough ==
    ASSUME Types, Rest, Watches
    PROVE  Types'
  <1>1. seen' \in [item : Abouts, for : 0 .. Turn, lost : BOOLEAN, of : Boards]
    BY WatchTypes DEF Rest
  <1>2. Read' \in Publications
    BY DEF Rest, Read, Publications
  <1> QED
    BY <1>1, <1>2 DEF Rest, Types, TypeOK

LEMMA PassTypes ==
    ASSUME Types, PassBegins \/ LaneUnread \/ LanePolled \/ Expired \/ Exits \/ Dies \/ Stops \/ Tick
                    \/ ScreenFails \/ ModeChanges \/ ScreenRecovers \/ PassLeft \/ TicketDropped
    PROVE  Rest
  <1>2. Turn \in Nat /\ MaxTroubles \in Nat
    BY ScreenAssumption
  <1>3. {"handle", "read", "poll", "reassert", "paint", "expire", "turn", "down"} \subseteq Places
    BY DEF Places
  <1>4. CASE PassBegins \/ LaneUnread \/ LanePolled \/ Expired
    BY Flat, <1>3, <1>4 DEF PassBegins, PassTo, LaneUnread, LanePolled, Expired, Goes, Rest,
       readVars, rotation, ticketVars, drawVars
  <1>5. CASE Exits
    <2>1. /\ UNCHANGED <<news, health, mode, shown, troubles, fee, closed, board, index, up, age,
                        pending, issued, drawn, geometry, code, unseen, raised, ticked>>
          /\ at' = "down" /\ exiting' = FALSE
      BY <1>5 DEF Exits, screenVars, readVars, rotation, ticketVars
    <2>2. exiting' \in BOOLEAN /\ at' \in Places
      BY <1>3, <2>1
    <2> QED
      BY Flat, <2>1, <2>2 DEF Rest
  <1>6. CASE Tick
    <2>1. /\ UNCHANGED <<news, health, mode, shown, troubles, at, exiting, fee, closed, board, index, up,
                        pending, issued, drawn, geometry, code, unseen, raised>>
          /\ ticked' = TRUE /\ age' = IF up /\ age < Turn THEN age + 1 ELSE age
      BY <1>6 DEF Tick, screenVars, readVars, ticketVars
    <2>2. age' \in 0 .. Turn
      BY Flat, <1>2, <2>1
    <2> QED
      BY Flat, <2>1, <2>2 DEF Rest
  <1>7. CASE Dies \/ Stops
    <2>1. /\ UNCHANGED <<news, health, mode, fee, closed, board, index, up, age,
                        pending, issued, drawn, geometry, code, unseen, raised, ticked>>
          /\ troubles < MaxTroubles /\ troubles' = troubles + 1
          /\ at' \in {at, "down"} /\ (exiting' = exiting \/ exiting' = TRUE) /\ shown' \in {shown, Black, Noise}
      BY <1>7 DEF Dies, Stops, Ending, Ended, On, readVars, rotation, ticketVars
    <2>2. shown' \in [kind : Kinds, about : Abouts]
      BY Flat, <2>1, FrameTypes
    <2>3. troubles' \in 0 .. MaxTroubles
      BY Flat, <1>2, <2>1
    <2>4. exiting' \in BOOLEAN
      BY Flat, <2>1, Zenon
    <2> QED
      BY Flat, <1>3, <2>1, <2>2, <2>3, <2>4 DEF Rest
  <1>8. CASE ScreenFails \/ ModeChanges \/ ScreenRecovers
    <2>1. /\ UNCHANGED <<news, at, exiting, fee, closed, board, index, up, age,
                        pending, issued, drawn, geometry, code, raised, ticked>>
          /\ troubles' = troubles \/ (troubles < MaxTroubles /\ troubles' = troubles + 1)
          /\ health' \in {health, "well", "mute", "refusing"} /\ mode' \in Modes \cup {mode}
          /\ shown' \in {shown, Noise} /\ (unseen' = unseen \/ unseen' = TRUE)
      BY <1>8 DEF ScreenFails, ModeChanges, ScreenRecovers, Troubled, readVars, rotation, ticketVars
    <2>2. shown' \in [kind : Kinds, about : Abouts]
      BY Flat, <2>1, FrameTypes
    <2>3. troubles' \in 0 .. MaxTroubles
      BY Flat, <1>2, <2>1
    <2>4. unseen' \in BOOLEAN
      BY Flat, <2>1, Zenon
    <2> QED
      BY Flat, <1>3, <2>1, <2>2, <2>3, <2>4 DEF Rest
  <1>9. CASE PassLeft \/ TicketDropped
    <2>1. /\ UNCHANGED <<news, health, mode, exiting, fee, closed, board, index, up, age,
                        issued, shown, drawn, geometry, code, unseen>>
          /\ troubles < MaxTroubles /\ troubles' = troubles + 1 /\ at' = "handle" /\ ticked' = FALSE
          /\ pending' \in {0, pending} /\ raised' \in {"pass", "ticket"}
      BY <1>9 DEF PassLeft, TicketDropped, Leaves, readVars, rotation
    <2>2. troubles' \in 0 .. MaxTroubles
      BY Flat, <1>2, <2>1
    <2>3. /\ raised' \in {"no", "pass", "ticket"} /\ ticked' \in BOOLEAN /\ exiting' \in BOOLEAN
          /\ closed' \in BOOLEAN /\ up' \in BOOLEAN /\ drawn' \in BOOLEAN /\ unseen' \in BOOLEAN
      BY Flat, <2>1, Zenon
    <2>4. pending' \in {0, issued'} /\ issued' \in 0 .. MaxTickets
      BY Flat, <2>1
    <2>5. at' \in Places
      BY <1>3, <2>1
    <2> QED
      BY Flat, <2>1, <2>2, <2>3, <2>4, <2>5 DEF Rest
  <1> QED
    BY <1>4, <1>5, <1>6, <1>7, <1>8, <1>9

LEMMA UpdateTypes ==
    ASSUME Types, NEW items \in Boards, Update(items)
    PROVE  /\ (items = <<>> => index' = 1) /\ (items # <<>> => index' \in 1 .. Len(items))
           /\ up' \in BOOLEAN /\ age' \in 0 .. Turn /\ (items = <<>> => ~up')
  <1>1. /\ (board = <<>> => index = 1) /\ (board # <<>> => index \in 1 .. Len(board)) /\ index \in Nat
        /\ up \in BOOLEAN /\ age \in 0 .. Turn /\ (board = <<>> => ~up) /\ 0 \in 0 .. Turn
        /\ Len(items) \in Nat /\ (items = <<>> <=> Len(items) = 0)
    BY IndexType, BoardItems, ScreenAssumption DEF Types, TypeOK
  <1>2. CASE items = board
    BY <1>1, <1>2 DEF Update, rotation
  <1>3. CASE items # board /\ items = <<>>
    BY <1>1, <1>3 DEF Update
  <1>4. CASE items # board /\ items # <<>> /\ board # <<>> /\ board[index] \in ToSet(items)
    <2>1. index' = IndexOf(board[index], items) /\ up' = up /\ age' = age
      BY <1>4 DEF Update
    <2> QED
      BY <1>1, <1>4, <2>1, FirstPlace
  <1>5. CASE items # board /\ items # <<>> /\ ~(board # <<>> /\ board[index] \in ToSet(items))
    <2>1. index' = (IF index < Len(items) THEN index ELSE Len(items)) /\ up' = FALSE /\ age' = 0
      BY <1>5 DEF Update
    <2>2. index >= 1 /\ Len(items) >= 1
      BY <1>1, <1>5, IndexType
    <2>3. index' \in 1 .. Len(items)
      BY <1>1, <2>1, <2>2
    <2> QED
      BY <1>1, <1>5, <2>1, <2>3
  <1> QED
    BY <1>2, <1>3, <1>4, <1>5

LEMMA PaintTypes ==
    ASSUME Types, TicketEnds \/ Reassert \/ PaintFee \/ TurnBoards
    PROVE  Rest
  <1>1. /\ pending \in {0, issued} /\ issued \in 0 .. MaxTickets /\ MaxTickets \in Nat
    BY Flat
  <1>2. {"handle", "read", "poll", "reassert", "paint", "expire", "turn", "down"} \subseteq Places
    BY DEF Places
  <1>3. /\ UNCHANGED <<news, troubles, health, mode, exiting, fee, closed, board, issued>>
        /\ at' \in Places /\ ticked' \in BOOLEAN /\ pending' \in {0, pending}
    <2>1. CASE TicketEnds
      BY Flat, <2>1 DEF TicketEnds, Stays, TakeDown, readVars
    <2>2. CASE Reassert
      BY Flat, <1>2, <2>2 DEF Reassert, Goes, TakeDown, readVars, ticketVars
    <2>3. CASE PaintFee \/ TurnBoards
      BY Flat, <1>2, <2>3 DEF PaintFee, TurnBoards, Goes, readVars, ticketVars
    <2> QED
      BY <2>1, <2>2, <2>3
  <1>4. ASSUME Paint(FALSE) \/ Blank PROVE Rest
    <2>1. /\ (board = <<>> => index' = 1) /\ (board # <<>> => index' \in 1 .. Len(board))
          /\ up' \in BOOLEAN /\ age' \in 0 .. Turn /\ (board = <<>> => ~up')
          /\ shown' \in [kind : Kinds, about : Abouts]
          /\ geometry' \in Modes /\ drawn' \in BOOLEAN /\ code' \in {"ok", "active"} /\ unseen' \in BOOLEAN
          /\ raised' \in {"no", "pass", "ticket"}
      BY <1>3, <1>4, PaintEffect
    <2> QED
      BY Flat, <1>1, <1>3, <2>1 DEF Rest
  <1>5. ASSUME UNCHANGED <<rotation, geometry, drawn, unseen>> \/ UNCHANGED <<rotation, drawVars>>
                  \/ (UNCHANGED <<rotation, drawn>> /\ geometry' = mode /\ unseen' = FALSE),
               shown' \in [kind : Kinds, about : Abouts], code' \in {"ok", "active"},
               raised' \in {raised, "no"}
        PROVE  Rest
    <2>1. /\ UNCHANGED <<index, up, age, drawn>>
          /\ geometry' \in {geometry, mode} /\ (unseen' = unseen \/ unseen' = FALSE)
      BY <1>5 DEF rotation, drawVars
    <2>2. unseen' \in BOOLEAN
      BY Flat, <2>1, Zenon
    <2> QED
      BY Flat, <1>1, <1>3, <1>5, <2>1, <2>2 DEF Rest
  <1>6. CASE TicketEnds
    BY <1>4, <1>6 DEF TicketEnds, TakeDown
  <1>7. CASE Reassert
    <2>1. CASE pending = 0
      BY <1>1, <1>5, <1>7, <2>1, Flat DEF Reassert, drawVars
    <2>2. CASE pending # 0 /\ health = "well"
      <3>1. /\ geometry' = mode /\ unseen' = FALSE /\ ShowTicket(pending) /\ UNCHANGED <<rotation, drawn>>
            /\ pending \in 1 .. MaxTickets
        BY <1>1, <1>7, <2>2 DEF Reassert
      <3>2. shown' \in [kind : Kinds, about : Abouts] /\ code' \in {"ok", "active"} /\ raised' = "no"
        BY Flat, <1>1, <3>1, FrameTypes DEF ShowTicket, On
      <3> QED
        BY <1>5, <3>1, <3>2
    <2>3. CASE pending # 0 /\ health # "well"
      BY <1>4, <1>7, <2>3 DEF Reassert, TakeDown
    <2> QED
      BY <2>1, <2>2, <2>3
  <1>8. CASE PaintFee
    <2>1. CASE pending # 0
      BY <1>1, <1>5, <1>8, <2>1, Flat DEF PaintFee, Paint, Wanted, drawVars
    <2>2. CASE pending = 0
      BY <1>4, <1>8, <2>2 DEF PaintFee
    <2> QED
      BY <2>1, <2>2
  <1>9. CASE TurnBoards
    <2>1. CASE Wanted(pending # 0) # "board"
      <3>1. UNCHANGED <<index, shown, drawn, geometry, code, unseen, raised>> /\ up' = FALSE /\ age' = 0
        BY <1>9, <2>1 DEF TurnBoards, Pause, drawVars
      <3>2. 0 \in 0 .. Turn
        BY ScreenAssumption
      <3>3. /\ raised' \in {"no", "pass", "ticket"} /\ up' \in BOOLEAN /\ drawn' \in BOOLEAN
            /\ unseen' \in BOOLEAN /\ code' \in {"ok", "active"}
        BY Flat, <3>1, Zenon
      <3>4. shown' \in [kind : Kinds, about : Abouts] /\ geometry' \in Modes
        BY Flat, <3>1
      <3> QED
        BY Flat, <1>1, <1>3, <3>1, <3>2, <3>3, <3>4 DEF Rest
    <2>2. CASE Wanted(pending # 0) = "board"
      <3>1. TakeTurn /\ board # <<>> /\ (IF IsNew THEN DrawLane("board", index') ELSE UNCHANGED drawVars)
        BY <1>9, <2>2 DEF TurnBoards, Wanted
      <3>2. index' \in 1 .. Len(board) /\ up' = TRUE /\ age' \in 0 .. Turn /\ index' \in Nat
        BY <3>1, TurnTypes, IndexType
      <3>3. CASE IsNew
        <4> DEFINE i == index'
        <4>1. i \in Nat /\ i \in 1 .. Len(board) /\ DrawLane("board", i) /\ UNCHANGED mode
          BY <1>3, <3>1, <3>2, <3>3
        <4> HIDE DEF i
        <4>2. Drawn(FrameFor("board", i, mode))
          BY <3>1, <4>1, DrawEffect
        <4> QED
          BY Flat, <1>1, <1>3, <3>1, <3>2, <4>2 DEF Drawn, Rest
      <3>4. CASE ~IsNew
        BY Flat, <1>1, <1>3, <3>1, <3>2, <3>4 DEF Rest, drawVars
      <3> QED
        BY <3>3, <3>4
    <2> QED
      BY <2>1, <2>2
  <1> QED
    BY <1>6, <1>7, <1>8, <1>9

LEMMA OtherTypes ==
    ASSUME Types, TicketIssued \/ ReadFee \/ Starts
    PROVE  Rest
  <1>1. /\ pending \in {0, issued} /\ issued \in 0 .. MaxTickets /\ MaxTickets \in Nat
    BY Flat
  <1>2. {"handle", "read", "poll", "reassert", "paint", "expire", "turn", "down"} \subseteq Places
    BY DEF Places
  <1>3. MaxNews \in Nat /\ 0 \in 0 .. Turn /\ <<>> \in Boards /\ Len(<<>>) = 0
    BY ScreenAssumption, EmptySeq
  <1>4. CASE TicketIssued
    <2>1. issued + 1 \in 1 .. MaxTickets
      BY <1>1, <1>4 DEF TicketIssued
    <2>2. shown' \in [kind : Kinds, about : Abouts] /\ code' \in {"ok", "active"} /\ raised' = "no"
      BY Flat, <1>1, <1>4, <2>1, FrameTypes DEF TicketIssued, ShowTicket, On
    <2> QED
      BY Flat, <1>1, <1>4, <2>1, <2>2 DEF TicketIssued, Stays, Rest, readVars, rotation
  <1>5. CASE ReadFee
    <2>1. PICK says \in Publications :
              /\ says # Read => news < MaxNews
              /\ news' = IF says = Read THEN news ELSE news + 1
              /\ fee' = says.fee /\ closed' = says.closed /\ board' = says.board
              /\ Update(says.board)
      BY <1>5 DEF ReadFee
    <2>2. says.fee \in Fees \cup {"none"} /\ says.closed \in BOOLEAN /\ says.board \in Boards
      BY <2>1 DEF Publications
    <2>3. /\ (board' = <<>> => index' = 1) /\ (board' # <<>> => index' \in 1 .. Len(board'))
          /\ up' \in BOOLEAN /\ age' \in 0 .. Turn /\ (board' = <<>> => ~up')
      BY <2>1, <2>2, UpdateTypes
    <2>4. news' \in 0 .. MaxNews
      BY <1>3, <2>1 DEF Types, TypeOK
    <2> QED
      BY Flat, <1>1, <1>2, <1>5, <2>1, <2>2, <2>3, <2>4 DEF ReadFee, Goes, Rest, ticketVars, drawVars
  <1>6. CASE Starts
    BY Flat, <1>1, <1>2, <1>3, <1>6, FrameTypes DEF Starts, Fresh, Rest
  <1> QED
    BY <1>4, <1>5, <1>6

\* An action of the program's, and what is seen of it.
Action ==
    \/ PassBegins \/ LaneUnread \/ LanePolled \/ Expired \/ Exits \/ Dies \/ Stops \/ Tick
    \/ ScreenFails \/ ModeChanges \/ ScreenRecovers
    \/ TicketEnds \/ Reassert \/ PaintFee \/ TurnBoards
    \/ TicketIssued \/ ReadFee \/ Starts \/ PassLeft \/ TicketDropped

LEMMA NextIsAction == Next => Action /\ Watches
  BY DEF Next, Action

LEMMA TypesStep == Types /\ [Next]_vars => Types'
  <1> SUFFICES ASSUME Types, [Next]_vars PROVE Types'
    OBVIOUS
  <1>1. CASE UNCHANGED vars
    <2>1. UNCHANGED <<news, health, mode, shown, troubles, at, exiting, fee, closed, board, index, up, age,
                      pending, issued, drawn, geometry, code, unseen, raised, ticked, seen>>
      BY <1>1 DEF vars, screenVars, readVars, rotation, ticketVars
    <2> QED
      BY <2>1 DEF Types, TypeOK, Read
  <1>2. CASE Next
    BY <1>2, NextIsAction, PassTypes, PaintTypes, OtherTypes, RestIsEnough DEF Action
  <1> QED
    BY <1>1, <1>2

-------------------------------------------------------------------------------
(* What is on the screen.                                                  *)

LEMMA FrameOfTicket ==
    ASSUME pending # 0
    PROVE  FrameNow = Frame("ticket", pending)
  BY DEF FrameNow, Wanted, FrameFor

LEMMA WantedLater ==
    ASSUME UNCHANGED <<fee, closed, board>>
    PROVE  Wanted(FALSE)' = Wanted(FALSE)
  BY DEF Wanted

LEMMA FrameLater ==
    ASSUME Types, UNCHANGED <<fee, closed, board, mode>>, pending' = 0
    PROVE  FrameNow' = FrameFor(Wanted(FALSE), index', mode)
  BY DEF FrameNow, FrameFor, Wanted

LEMMA Quiet ==
    ASSUME Pictured, Running' => Running, at' \in Settled => at \in Settled,
           UNCHANGED <<mode, shown, fee, closed, board, index, pending, drawn, geometry, code, unseen, raised>>
    PROVE  Pictured'
  <1>1. FrameNow' = FrameNow /\ Said' = Said
    BY DEF FrameNow, Wanted, FrameFor, Said
  <1> QED
    BY <1>1 DEF Pictured, Laid, Painted, OfTicket, Blanked, Settled

\* What is not running shows nothing that could be wrong, and what is said to be
\* wrong is not.
LEMMA Excused ==
    ASSUME Laid', ~Running' \/ Said'
    PROVE  Pictured'
  BY DEF Pictured, Laid, Painted, OfTicket, Blanked

\* A ticket that has the screen.
LEMMA TicketUp ==
    ASSUME Laid', pending' # 0, shown' = Frame("ticket", pending') \/ Said'
    PROVE  Pictured'
  <1>1. FrameNow' = Frame("ticket", pending)'
    BY DEF FrameNow, Wanted, FrameFor
  <1> QED
    BY <1>1 DEF Pictured, Painted, OfTicket, Blanked

\* The screen goes from a ticket, or from nobody, to what the lane wants.
LEMMA LanePainted ==
    ASSUME Types, Laid, UNCHANGED <<fee, closed, board, mode>>, pending' = 0,
           Blank \/ (Paint(FALSE) /\ (drawn \/ shown = Black \/ Said \/ raised = "ticket"))
    PROVE  Pictured'
  <1>1. /\ Laid => Laid'
        /\ shown' = FrameFor(Wanted(FALSE), index', mode) \/ Said' \/ raised' = "ticket"
        /\ ~drawn' => shown' = Black \/ Said' \/ raised' = "ticket"
    BY PaintEffect
  <1> QED
    BY <1>1, FrameLater DEF Pictured, Painted, OfTicket, Blanked

LEMMA PicturedByAgent ==
    ASSUME Types, Pictured, TicketEnds \/ Reassert \/ PaintFee \/ TurnBoards \/ TicketIssued \/ Starts
    PROVE  Pictured'
  <1>1. mode \in Modes /\ mode' = mode /\ Laid
    BY Flat DEF TicketEnds, Reassert, PaintFee, TurnBoards, TicketIssued, Starts, Goes, Stays, Pictured
  <1>2. CASE TicketEnds
    BY <1>1, <1>2, LanePainted DEF TicketEnds, TakeDown, readVars
  <1>3. CASE Reassert
    <2>1. UNCHANGED <<mode, fee, closed, board>> /\ at' = "paint" /\ (Running' => Running)
      BY <1>3 DEF Reassert, Goes, readVars, Running
    <2>2. CASE pending = 0
      <3>1. UNCHANGED <<mode, shown, fee, closed, board, index, pending, drawn, geometry, code, unseen, raised>>
        BY <1>3, <2>1, <2>2 DEF Reassert, rotation, ticketVars, drawVars
      <3> QED
        BY <2>1, <3>1, Quiet DEF Settled
    <2>3. CASE pending # 0 /\ health = "well"
      <3>1. geometry' = mode /\ ShowTicket(pending) /\ pending' = pending
        BY <1>3, <2>3 DEF Reassert, ticketVars
      <3>2. shown' = Frame("ticket", pending') /\ Laid'
        BY <1>1, <2>3, <3>1 DEF ShowTicket, On, Laid
      <3> QED
        BY <2>3, <3>1, <3>2, TicketUp
    <2>4. CASE pending # 0 /\ health # "well"
      BY <1>1, <1>3, <2>1, <2>4, LanePainted DEF Reassert, TakeDown
    <2> QED
      BY <2>2, <2>3, <2>4
  <1>4. CASE PaintFee
    <2>1. /\ UNCHANGED <<mode, fee, closed, board, pending>> /\ (Running' => Running)
          /\ at = "paint" /\ at # "down" /\ exiting' = exiting /\ Paint(pending # 0)
      BY <1>4 DEF PaintFee, Goes, readVars, ticketVars, Running
    <2>2. CASE pending # 0
      <3>1. UNCHANGED drawVars
        BY <2>1, <2>2 DEF Paint, Wanted
      <3>2. Running => shown = Frame("ticket", pending) \/ Said
        BY <2>2 DEF Pictured, OfTicket
      <3>3. Laid'
        BY <1>1, <3>1 DEF Laid, drawVars
      <3>4. Running' => shown' = Frame("ticket", pending') \/ Said'
        BY <2>1, <3>1, <3>2 DEF Said, drawVars
      <3> QED
        BY <2>1, <2>2, <3>3, <3>4, TicketUp, Excused
    <2>3. CASE pending = 0
      <3>1. CASE Running
        BY <1>1, <2>1, <2>3, <3>1, LanePainted DEF Pictured, Blanked
      <3>2. CASE ~Running
        <4>1. Laid'
          BY <1>1, <2>1, <2>3, PaintEffect
        <4> QED
          BY <2>1, <3>2, <4>1, Excused
      <3> QED
        BY <3>1, <3>2
    <2> QED
      BY <2>2, <2>3
  <1>5. CASE TurnBoards
    <2>1. /\ UNCHANGED <<mode, fee, closed, board, pending>> /\ (Running' => Running)
          /\ at = "turn" /\ at' = "handle"
      BY <1>5 DEF TurnBoards, Goes, readVars, ticketVars, Running
    <2>2. CASE UNCHANGED drawVars /\ index' = index
      <3>1. UNCHANGED <<mode, shown, fee, closed, board, index, pending, drawn, geometry, code, unseen, raised>>
        BY <2>1, <2>2 DEF drawVars
      <3> QED
        BY <2>1, <3>1, Quiet DEF Settled
    <2>3. CASE Wanted(pending # 0) # "board"
      BY <1>5, <2>2, <2>3 DEF TurnBoards, Pause
    <2>4. CASE Wanted(pending # 0) = "board"
      <3>1. /\ TakeTurn /\ board # <<>> /\ pending = 0 /\ Wanted(FALSE) = "board"
            /\ (IF IsNew THEN DrawLane("board", index') ELSE UNCHANGED drawVars)
        BY <1>5, <2>4 DEF TurnBoards, Wanted
      <3>2. index' \in 1 .. Len(board) /\ index' \in Nat /\ (~IsNew => index' = index)
        BY <3>1, TurnTypes, IndexType
      <3>3. CASE IsNew
        <4> DEFINE i == index'
        <4>1. i \in Nat /\ i \in 1 .. Len(board) /\ DrawLane("board", i) /\ UNCHANGED mode
          BY <1>1, <3>1, <3>2, <3>3
        <4> HIDE DEF i
        <4>2. Drawn(FrameFor("board", i, mode)) /\ drawn' = TRUE
          BY <3>1, <4>1, DrawEffect
        <4>3. FrameNow' = FrameFor("board", i, mode)
          BY <2>1, <3>1, FrameLater DEF i
        <4> QED
          BY <1>1, <2>1, <3>1, <4>2, <4>3 DEF Drawn, Pictured, Painted, OfTicket, Blanked
      <3> QED
        BY <2>2, <3>1, <3>2, <3>3
    <2> QED
      BY <2>3, <2>4
  <1>6. CASE TicketIssued
    <2>1. geometry' = geometry /\ ShowTicket(issued + 1) /\ unseen' = unseen /\ issued \in Nat
          /\ pending' = IF health = "refusing" THEN 0 ELSE issued + 1
      BY <1>6, Flat DEF TicketIssued
    <2>2. Laid'
      BY <1>1, <2>1 DEF Laid
    <2>3. CASE health = "refusing"
      BY <2>1, <2>2, <2>3, Excused DEF ShowTicket, Said
    <2>4. CASE health # "refusing"
      <3>1. pending' # 0 /\ pending' = issued + 1
        BY <2>1, <2>4
      <3>2. shown' = Frame("ticket", pending') \/ Said'
        BY <1>1, <2>1, <2>4, <3>1 DEF ShowTicket, On, Said, Laid
      <3> QED
        BY <2>2, <3>1, <3>2, TicketUp
    <2> QED
      BY <2>3, <2>4
  <1>7. CASE Starts
    <2>1. /\ fee' = "none" /\ closed' = FALSE /\ board' = <<>> /\ pending' = 0
          /\ shown' = Black /\ geometry' = mode /\ mode' = mode
      BY <1>7 DEF Starts, Fresh
    <2>2. FrameNow' = Black
      BY <2>1 DEF FrameNow, Wanted, FrameFor
    <2> QED
      BY <2>1, <2>2 DEF Pictured, Laid, Painted, OfTicket, Blanked
  <1> QED
    BY <1>2, <1>3, <1>4, <1>5, <1>6, <1>7

LEMMA PicturedByRest ==
    ASSUME Types, Pictured,
           \/ PassBegins \/ LaneUnread \/ LanePolled \/ Expired \/ Exits \/ Dies \/ Stops \/ Tick
           \/ ScreenFails \/ ModeChanges \/ ScreenRecovers \/ ReadFee \/ PassLeft \/ TicketDropped
    PROVE  Pictured'
  <1>1. Laid
    BY DEF Pictured
  <1>2. CASE PassBegins \/ LaneUnread \/ LanePolled \/ Expired \/ Tick \/ ScreenRecovers
    <2>1. /\ UNCHANGED <<mode, shown, fee, closed, board, index, pending, drawn, geometry, code, unseen, raised>>
          /\ exiting' = exiting /\ (at # "down" \/ at' = at) /\ (at' \in Settled => at \in Settled)
      BY <1>2 DEF PassBegins, PassTo, LaneUnread, LanePolled, Expired, Tick, ScreenRecovers, Goes,
         screenVars, readVars, rotation, ticketVars, drawVars, Settled
    <2> QED
      BY <2>1, Quiet DEF Running
  <1>3. CASE Exits \/ Dies \/ Stops
    <2>1. UNCHANGED <<mode, geometry, unseen>> /\ ~Running'
      BY <1>3 DEF Exits, Dies, Stops, Ending, Ended, screenVars, Running
    <2> QED
      BY <1>1, <2>1, Excused DEF Laid
  <1>4. CASE ScreenFails \/ ModeChanges
    <2>1. unseen' = TRUE
      BY <1>4 DEF ScreenFails, ModeChanges, Troubled
    <2> QED
      BY <2>1, Excused DEF Laid, Said
  <1>5. CASE ReadFee
    <2>1. /\ UNCHANGED <<mode, pending, shown, drawn, geometry, code, unseen, raised,
                       exiting>>
          /\ at = "read" /\ at' = "poll"
      BY <1>5 DEF ReadFee, Goes, ticketVars, drawVars
    <2> QED
      BY <2>1 DEF Pictured, Laid, Painted, OfTicket, Blanked, Settled, Running, Said
  <1>6. CASE PassLeft
    <2>1. /\ UNCHANGED <<mode, exiting, pending, shown, drawn, geometry, code, unseen>>
          /\ at \in {"read", "poll"} /\ raised' # "no" /\ (raised = "ticket" => raised' = "ticket")
      BY <1>6 DEF PassLeft, Leaves
    <2>2. Running' => Running
      BY <2>1 DEF Running
    <2> QED
      BY <2>1, <2>2 DEF Pictured, Laid, Painted, OfTicket, Blanked, Said
  <1>7. CASE TicketDropped
    <2>1. UNCHANGED <<mode, geometry, unseen>> /\ pending' = 0 /\ raised' = "ticket"
      BY <1>7 DEF TicketDropped, Leaves
    <2> QED
      BY <1>1, <2>1 DEF Pictured, Laid, Painted, OfTicket, Blanked
  <1> QED
    BY <1>2, <1>3, <1>4, <1>5, <1>6, <1>7

LEMMA PicturedStep ==
    ASSUME Types, Pictured, Action
    PROVE  Pictured'
  BY PicturedByAgent, PicturedByRest DEF Action

-------------------------------------------------------------------------------
(* The turns.                                                              *)

\* While the board keeps the screen it was given, and nothing is wrong with it.
Undisturbed ==
    /\ seen.of # <<>> /\ board' = board /\ health = "well" /\ mode = "large"
    /\ health' = "well" /\ mode' = "large" /\ ~exiting' /\ raised' = "no"

\* A step that brings no item: if nothing was disturbed the rotation stays where it is,
\* and its turn gets no longer than the time its item has been on the screen.
Kept ==
    /\ shown' = shown \/ shown'.kind # "item"
    /\ Undisturbed =>
          /\ index' = index /\ (code' = code \/ code' = "ok") /\ (unseen' = unseen \/ unseen' = FALSE)
          /\ up' => up
          /\ age' = age \/ ~up' \/ (shown.kind = "item" /\ ~ticked /\ ticked' /\ age' = age + 1)
          /\ at = "turn" /\ at' = "handle" /\ shown'.kind # "item" => ~up'

\* What the board's item is, where nobody says that it is wrong.
LEMMA ItemIsShown ==
    ASSUME Types, Painted, Running, at \in Settled, pending = 0, Wanted(FALSE) = "board",
           mode = "large", ~Said, raised = "no"
    PROVE  shown.kind = "item"
  <1>1. shown = FrameFor("board", index, mode)
    BY DEF Painted, FrameNow
  <1> QED
    BY <1>1, Flat, IndexType, Frames, FrameTypes

LEMMA KeptByRest ==
    ASSUME Types, Painted, HeldByBoard, Turning,
           \/ PassBegins \/ LaneUnread \/ LanePolled \/ Expired \/ Exits \/ Dies \/ Stops \/ Tick
           \/ ScreenFails \/ ModeChanges \/ ScreenRecovers \/ TicketIssued \/ ReadFee
           \/ PassLeft \/ TicketDropped
    PROVE  at' = "down" \/ (at # "down" /\ Kept)
  <1>1. CASE PassBegins \/ LaneUnread \/ LanePolled \/ Expired
    <2>1. /\ UNCHANGED <<shown, index, up, age, code, unseen>>
          /\ at # "down" /\ at # "turn"
      BY <1>1 DEF PassBegins, PassTo, LaneUnread, LanePolled, Expired, Goes, rotation, drawVars
    <2> QED
      BY <2>1 DEF Kept
  <1>2. CASE Exits \/ Dies \/ ScreenFails \/ ModeChanges \/ ScreenRecovers
    <2>1. /\ UNCHANGED <<index, up, age, code>> /\ (shown' = shown \/ shown' = Noise)
          /\ at' = "down" \/ at' = at
          /\ Undisturbed => UNCHANGED unseen
      BY <1>2 DEF Exits, Dies, Ended, ScreenFails, ModeChanges, ScreenRecovers, Troubled,
         screenVars, rotation, Undisturbed
    <2> QED
      BY <2>1, FrameTypes DEF Kept
  <1>3. CASE Stops
    <2>1. /\ UNCHANGED <<index, up, age, code, unseen>> /\ (shown' = shown \/ shown' = Black \/ shown' = Noise)
          /\ at' = "down" \/ (at' = at /\ at # "down")
      BY <1>3 DEF Stops, Ending, Ended, On, rotation
    <2> QED
      BY <2>1, FrameTypes DEF Kept
  <1>4. CASE Tick
    <2>1. /\ UNCHANGED <<shown, index, up, code, unseen, mode, exiting>> /\ at = "handle" /\ at' = "handle"
          /\ ~ticked /\ ticked' = TRUE /\ (age' = age \/ (up /\ age' = age + 1))
      BY <1>4 DEF Tick, screenVars
    <2>2. ASSUME Undisturbed, up PROVE shown.kind = "item"
      <3>1. pending = 0 /\ Wanted(FALSE) = "board"
        BY <2>1, <2>2 DEF HeldByBoard, Undisturbed
      <3>2. Running /\ at \in Settled /\ mode = "large" /\ ~Said /\ raised = "no"
        BY <2>1, <2>2 DEF Undisturbed, Running, Settled, Turning, Said
      <3> QED
        BY <3>1, <3>2, ItemIsShown
    <2> QED
      BY <2>1, <2>2 DEF Kept
  <1>5. CASE TicketIssued
    <2>1. /\ UNCHANGED <<index, up, age, unseen>> /\ at' = at /\ at # "turn" /\ at # "down"
          /\ ShowTicket(issued + 1)
      BY <1>5 DEF TicketIssued, Stays, rotation
    <2>2. shown' = shown \/ shown'.kind # "item"
      BY <2>1, FrameTypes DEF ShowTicket, On
    <2>3. health = "well" => code' = "ok"
      BY <2>1 DEF ShowTicket
    <2> QED
      BY <2>1, <2>2, <2>3 DEF Kept, Undisturbed
  <1>6. CASE ReadFee
    <2>1. /\ UNCHANGED <<shown, code, unseen>> /\ at = "read" /\ at' = "poll"
          /\ board' = board => UNCHANGED <<index, up, age>>
      BY <1>6 DEF ReadFee, Goes, Update, drawVars, rotation
    <2> QED
      BY <2>1 DEF Kept, Undisturbed
  <1>7. CASE PassLeft \/ TicketDropped
    <2>1. shown' = shown /\ raised' # "no" /\ at # "down"
      BY <1>7 DEF PassLeft, TicketDropped, Leaves
    <2> QED
      BY <2>1 DEF Kept, Undisturbed
  <1> QED
    BY <1>1, <1>2, <1>3, <1>4, <1>5, <1>6, <1>7

LEMMA KeptOrShown ==
    ASSUME Types, Painted, HeldByBoard, Turning, TicketEnds \/ Reassert \/ PaintFee \/ TurnBoards
    PROVE  at # "down" /\ (Kept \/ (Shows /\ UNCHANGED <<board, health, mode>>))
  <1>1. UNCHANGED <<fee, closed, board, health, mode, exiting>> /\ at # "down"
    BY DEF TicketEnds, Reassert, PaintFee, TurnBoards, Goes, Stays, readVars
  <1>2. ASSUME Paint(FALSE) \/ Blank, at # "turn" PROVE Kept \/ Shows
    <2>1. \/ Shows
          \/ /\ shown' = shown \/ shown'.kind # "item"
             /\ health = "well" /\ mode = "large" =>
                   UNCHANGED rotation /\ code' \in {code, "ok"} /\ unseen' \in {unseen, FALSE}
      BY <1>1, <1>2, PaintEffect
    <2> QED
      BY <1>2, <2>1 DEF Kept, Undisturbed, rotation
  <1>3. CASE TicketEnds
    BY <1>1, <1>2, <1>3 DEF TicketEnds, Stays, TakeDown
  <1>4. CASE Reassert
    <2>1. CASE pending = 0
      BY <1>1, <1>4, <2>1 DEF Reassert, Goes, Kept, rotation, drawVars
    <2>2. CASE pending # 0 /\ health = "well"
      <3>1. UNCHANGED <<index, up, age>> /\ unseen' = FALSE /\ ShowTicket(pending) /\ at = "reassert"
        BY <1>4, <2>2 DEF Reassert, Goes, rotation
      <3>2. shown'.kind # "item" /\ code' = "ok"
        BY <2>2, <3>1, FrameTypes DEF ShowTicket, On
      <3> QED
        BY <1>1, <3>1, <3>2 DEF Kept
    <2>3. CASE pending # 0 /\ health # "well"
      BY <1>1, <1>2, <1>4, <2>3 DEF Reassert, Goes, TakeDown
    <2> QED
      BY <2>1, <2>2, <2>3
  <1>5. CASE PaintFee
    <2>1. CASE pending # 0
      BY <1>1, <1>5, <2>1 DEF PaintFee, Paint, Wanted, Goes, Kept, rotation, drawVars
    <2>2. CASE pending = 0
      BY <1>1, <1>2, <1>5, <2>2 DEF PaintFee, Goes
    <2> QED
      BY <2>1, <2>2
  <1>6. CASE TurnBoards
    <2>1. CASE Wanted(pending # 0) # "board"
      BY <1>1, <1>6, <2>1 DEF TurnBoards, Pause, drawVars, Kept
    <2>2. CASE Wanted(pending # 0) = "board"
      <3>1. /\ TakeTurn /\ board # <<>> /\ pending = 0 /\ Wanted(FALSE) = "board" /\ at = "turn"
            /\ (IF IsNew THEN DrawLane("board", index') ELSE UNCHANGED drawVars)
        BY <1>6, <2>2 DEF TurnBoards, Wanted, Goes
      <3>2. index' \in 1 .. Len(board) /\ index' \in Nat /\ (~IsNew => index' = index /\ age' = age /\ up)
        BY <3>1, TurnTypes, IndexType
      <3>3. CASE IsNew
        <4> DEFINE i == index'
        <4>1. i \in Nat /\ i \in 1 .. Len(board) /\ DrawLane("board", i) /\ UNCHANGED mode
          BY <1>1, <3>1, <3>2, <3>3
        <4> HIDE DEF i
        <4>2. /\ Drawn(FrameFor("board", i, mode))
              /\ health = "well" /\ FrameFor("board", i, mode) # Impossible =>
                    shown' = FrameFor("board", i, mode) /\ code' = "ok" /\ unseen' = FALSE
          BY <3>1, <4>1, DrawEffect
        <4>3. FrameFor("board", i, mode) = IF mode = "large" THEN Frame("item", board[i]) ELSE Black
          BY <4>1, Flat, Frames
        <4>4. CASE health = "well" /\ mode = "large"
          BY <1>1, <3>1, <4>2, <4>3, <4>4, FrameTypes DEF Shows, Drawn, i
        <4>5. CASE mode # "large"
          BY <1>1, <4>2, <4>3, <4>5, FrameTypes DEF Drawn, Kept, Undisturbed
        <4>6. CASE health # "well"
          <5>1. health \in {"mute", "refusing"}
            BY Flat, <4>6
          <5>2. shown' = shown
            BY <4>1, <5>1 DEF DrawLane
          <5> QED
            BY <1>1, <4>6, <5>2 DEF Kept, Undisturbed
        <4> QED
          BY <4>4, <4>5, <4>6
      <3>4. CASE ~IsNew
        <4>1. UNCHANGED <<shown, code, unseen>>
          BY <3>1, <3>4 DEF drawVars
        <4>2. ASSUME Undisturbed PROVE shown.kind = "item"
          <5>1. Running /\ at \in Settled /\ mode = "large" /\ ~Said /\ raised = "no"
            BY <1>1, <3>1, <4>2 DEF Undisturbed, Running, Settled, Turning, Said
          <5> QED
            BY <3>1, <5>1, ItemIsShown
        <4> QED
          BY <1>1, <3>2, <3>4, <4>1, <4>2 DEF Kept
      <3> QED
        BY <3>3, <3>4
    <2> QED
      BY <2>1, <2>2
  <1> QED
    BY <1>1, <1>3, <1>4, <1>5, <1>6

\* What Watches makes of a step.
Notes ==
    [seen EXCEPT
        !.for = IF ~ticked /\ ticked' /\ shown.kind = "item" /\ seen.for < Turn
                THEN seen.for + 1 ELSE seen.for,
        !.lost = seen.lost \/ (at = "turn" /\ at' = "handle" /\ shown'.kind # "item"),
        !.of = IF /\ board' = seen.of /\ health' = "well" /\ mode' = "large" /\ ~exiting'
                  /\ raised' = "no"
               THEN seen.of ELSE <<>>]

SeenType == [item : Abouts, for : 0 .. Turn, lost : BOOLEAN, of : Boards]

LEMMA Noting ==
    ASSUME Types
    PROVE  /\ Notes.item = seen.item
           /\ Notes.for = IF ~ticked /\ ticked' /\ shown.kind = "item" /\ seen.for < Turn
                          THEN seen.for + 1 ELSE seen.for
           /\ Notes.lost = (seen.lost \/ (at = "turn" /\ at' = "handle" /\ shown'.kind # "item"))
           /\ Notes.of # <<>> => /\ Notes.of = seen.of /\ board' = seen.of /\ raised' = "no"
                                 /\ health' = "well" /\ mode' = "large" /\ ~exiting'
  <1>1. seen \in [item : Abouts, for : 0 .. Turn, lost : BOOLEAN, of : Boards]
    BY DEF Types
  <1> QED
    BY <1>1 DEF Notes

LEMMA WatchedDown ==
    ASSUME Watches, at' = "down"
    PROVE  seen' = NothingSeen
  BY DEF Watches

LEMMA WatchedAnew ==
    ASSUME Watches, at' # "down", shown'.kind = "item", shown'.about # seen.item \/ seen.lost
    PROVE  seen' = [item |-> shown'.about, for |-> 0, lost |-> FALSE, of |-> IF age' = 0 THEN board' ELSE <<>>]
  BY DEF Watches

LEMMA WatchedOn ==
    ASSUME Watches, at' # "down", ~(shown'.kind = "item" /\ (shown'.about # seen.item \/ seen.lost))
    PROVE  seen' = Notes
  BY DEF Watches, Notes

Watching == Noted /\ Turning

LEMMA WatchingDown ==
    ASSUME Watches, at' = "down"
    PROVE  Watching'
  BY WatchedDown DEF Watching, Noted, Turning, NothingSeen

LEMMA WatchingStart ==
    ASSUME Types, Turning, Watches, Starts
    PROVE  Watching' /\ seen'.item = seen.item
  <1>1. at' = "handle" /\ shown' = Black /\ board' = <<>>
    BY DEF Starts, Fresh
  <1>2. seen' = Notes /\ shown'.kind # "item"
    BY <1>1, WatchedOn, FrameTypes
  <1> QED
    BY <1>1, <1>2, Noting DEF Watching, Noted, Turning

LEMMA WatchingKept ==
    ASSUME Types, Rest, Watching, Watches, Kept, at # "down", at' # "down"
    PROVE  Watching' /\ seen'.item = seen.item
  <1>1. shown'.kind = "item" => shown' = shown /\ seen.item = shown'.about /\ ~seen.lost
    BY DEF Kept, Watching, Noted
  <1>2. seen' = Notes
    BY <1>1, WatchedOn
  <1>3. Noted'
    BY <1>1, <1>2, Noting DEF Noted
  <1>4. ASSUME seen'.of # <<>>
        PROVE  /\ seen.of # <<>> /\ Undisturbed /\ seen'.of = board' /\ seen'.item = board'[index']
               /\ code' = "ok" /\ unseen' = FALSE
    <2>1. seen'.of = seen.of /\ board' = seen.of /\ health' = "well" /\ mode' = "large" /\ ~exiting'
          /\ seen'.item = seen.item /\ raised' = "no"
      BY <1>2, <1>4, Noting
    <2>2. /\ seen.of = board /\ seen.item = board[index] /\ health = "well" /\ mode = "large"
          /\ code = "ok" /\ ~unseen
      BY <1>4, <2>1 DEF Watching, Turning
    <2>3. Undisturbed
      BY <1>4, <2>1, <2>2 DEF Undisturbed
    <2>4. unseen = FALSE
      BY <2>2, Flat
    <2> QED
      BY <1>4, <2>1, <2>2, <2>3, <2>4 DEF Kept
  <1>5. ASSUME seen'.of # <<>>, up' PROVE ~seen'.lost /\ seen'.for >= age'
    <2>1. seen.of # <<>> /\ Undisturbed
      BY <1>4, <1>5
    <2>2. /\ up /\ ~(at = "turn" /\ at' = "handle" /\ shown'.kind # "item")
          /\ age' = age \/ (shown.kind = "item" /\ ~ticked /\ ticked' /\ age' = age + 1)
      BY <1>5, <2>1 DEF Kept
    <2>3. ~seen.lost /\ seen.for >= age
      BY <2>1, <2>2 DEF Watching, Turning
    <2>4. ~seen'.lost
      BY <1>2, <2>2, <2>3, Noting
    <2>5. seen.for \in 0 .. Turn /\ age \in 0 .. Turn /\ Turn \in Nat
      BY Flat, ScreenAssumption DEF Types
    <2>6. seen'.for = IF ~ticked /\ ticked' /\ shown.kind = "item" /\ seen.for < Turn
                      THEN seen.for + 1 ELSE seen.for
      BY <1>2, Noting
    <2>7. CASE age' = age
      <3>1. seen'.for = seen.for \/ seen'.for = seen.for + 1
        BY <2>6
      <3>2. seen'.for >= age'
        BY <2>3, <2>5, <2>7, <3>1
      <3> QED
        BY <2>4, <3>2
    <2>8. CASE shown.kind = "item" /\ ~ticked /\ ticked' /\ age' = age + 1
      <3>1. age' \in 0 .. Turn
        BY DEF Rest
      <3>2. seen'.for = IF seen.for < Turn THEN seen.for + 1 ELSE seen.for
        BY <2>6, <2>8
      <3>3. seen'.for >= age'
        BY <2>3, <2>5, <2>8, <3>1, <3>2
      <3> QED
        BY <2>4, <3>3
    <2> QED
      BY <2>2, <2>7, <2>8
  <1> QED
    BY <1>2, <1>3, <1>4, <1>5, Noting DEF Watching, Turning, Undisturbed

LEMMA WatchingShown ==
    ASSUME Types, Watching, Watches, Shows, UNCHANGED <<board, health, mode>>, at' # "down"
    PROVE  /\ Watching'
           /\ seen'.item # seen.item /\ seen.of # <<>> /\ seen'.of = seen.of =>
                 /\ ~seen.lost /\ seen.for = Turn
                 /\ \E i \in 1 .. Len(seen.of) : /\ seen.of[i] = seen.item
                                                 /\ seen'.item = seen.of[(i % Len(seen.of)) + 1]
  <1>1. /\ TakeTurn /\ board # <<>> /\ shown'.kind = "item" /\ shown'.about = board[index']
        /\ health' = "well" /\ mode' = "large" /\ code' = "ok" /\ unseen' = FALSE /\ board' = board
        /\ raised' = "no"
    BY FrameTypes DEF Shows
  <1>2. /\ ~IsNew => index' = index /\ age' = age /\ up
        /\ IsNew => age' = 0
        /\ index' # index => up /\ age = Turn /\ index' = (index % Len(board)) + 1
    BY <1>1, TurnTypes
  <1>3. seen.for \in 0 .. Turn /\ age \in 0 .. Turn /\ Turn \in Nat /\ index \in 1 .. Len(board)
    BY <1>1, Flat, ScreenAssumption DEF Types
  <1>4. CASE shown'.about # seen.item \/ seen.lost
    <2>1. seen' = [item |-> shown'.about, for |-> 0, lost |-> FALSE, of |-> IF age' = 0 THEN board' ELSE <<>>]
      BY <1>1, <1>4, WatchedAnew
    <2>2. /\ seen'.item = board[index'] /\ seen'.for = 0 /\ seen'.lost = FALSE
          /\ seen'.of # <<>> => seen'.of = board' /\ age' = 0
      BY <1>1, <2>1
    <2>3. Watching'
      BY <1>1, <2>2 DEF Watching, Noted, Turning
    <2>4. ASSUME seen'.item # seen.item, seen.of # <<>>
          PROVE  /\ ~seen.lost /\ seen.for = Turn /\ seen.of[index] = seen.item /\ seen.of = board
                 /\ seen'.item = seen.of[(index % Len(seen.of)) + 1]
      <3>1. seen.of = board /\ seen.item = board[index] /\ (up => ~seen.lost /\ seen.for >= age)
        BY <2>4 DEF Watching, Turning
      <3>2. index' # index
        BY <2>2, <2>4, <3>1
      <3>3. up /\ age = Turn /\ index' = (index % Len(board)) + 1 /\ seen.for >= age
        BY <1>2, <3>1, <3>2
      <3>4. seen.for = Turn
        BY <1>3, <3>3
      <3> QED
        BY <2>2, <3>1, <3>3, <3>4
    <2>5. ASSUME seen'.item # seen.item, seen.of # <<>>
          PROVE  \E i \in 1 .. Len(seen.of) : /\ seen.of[i] = seen.item
                                              /\ seen'.item = seen.of[(i % Len(seen.of)) + 1]
      BY <1>3, <2>4, <2>5
    <2> QED
      BY <2>3, <2>4, <2>5
  <1>5. CASE ~(shown'.about # seen.item \/ seen.lost)
    <2>1. seen' = Notes
      BY <1>5, WatchedOn
    <2>2. seen'.item = seen.item /\ seen.item = shown'.about /\ ~seen.lost /\ ~seen'.lost
      BY <1>1, <1>5, <2>1, Noting
    <2>3. seen'.of # <<>> => seen.of # <<>> /\ seen'.of = board'
      BY <2>1, Noting
    <2>4. seen'.for = seen.for \/ seen'.for = seen.for + 1
      BY <2>1, Noting
    <2>5. ASSUME seen'.of # <<>> PROVE seen'.for >= age'
      <3>1. up => seen.for >= age
        BY <2>3, <2>5 DEF Watching, Turning
      <3>2. CASE IsNew
        BY <1>2, <1>3, <2>4, <3>2
      <3>3. CASE ~IsNew
        <4>1. seen.for >= age /\ age' = age
          BY <1>2, <3>1, <3>3
        <4> QED
          BY <1>3, <2>4, <4>1
      <3> QED
        BY <3>2, <3>3
    <2> QED
      BY <1>1, <2>2, <2>3, <2>5 DEF Watching, Noted, Turning
  <1> QED
    BY <1>4, <1>5

\* The board that is watched is the one that was, or its item has just come up.
LEMMA OfLater ==
    ASSUME Types, Noted, Watches, Kept, at # "down", at' # "down"
    PROVE  seen'.of = <<>> \/ (seen'.of = seen.of /\ raised' = "no")
  <1>1. shown'.kind = "item" => shown' = shown /\ seen.item = shown'.about /\ ~seen.lost
    BY DEF Kept, Noted
  <1>2. seen' = Notes
    BY <1>1, WatchedOn
  <1> QED
    BY <1>2, Noting

LEMMA HeldStep ==
    ASSUME Types, HeldByBoard, Noted, Watches, Action,
           at' = "down" \/ Starts \/ (at # "down" /\ Kept) \/ Shows
    PROVE  HeldByBoard'
  <1>1. CASE PassBegins \/ LaneUnread \/ LanePolled \/ Expired \/ ReadFee \/ Reassert \/ PaintFee
                \/ Exits \/ Tick \/ TicketIssued \/ Starts
    <2>1. at' # "handle" \/ ticked' = TRUE \/ up' = FALSE
      BY <1>1 DEF PassBegins, PassTo, LaneUnread, LanePolled, Expired, ReadFee, Reassert, PaintFee, Goes,
         Exits, Tick, TicketIssued, Starts, Fresh
    <2> QED
      BY <2>1 DEF HeldByBoard
  <1>2. CASE Dies \/ Stops \/ ScreenFails \/ ModeChanges \/ ScreenRecovers
    <2>1. UNCHANGED <<fee, closed, board, up, pending, ticked>> /\ (at' = "down" \/ at' = at)
          /\ (shown' = shown \/ shown'.kind # "item")
      BY <1>2, FrameTypes DEF Dies, Stops, Ending, Ended, ScreenFails, ModeChanges, ScreenRecovers, Troubled,
         On, readVars, rotation, ticketVars, screenVars
    <2>2. CASE at' = "handle" /\ at = "handle"
      <3>1. seen' = Notes
        BY <2>1, <2>2, WatchedOn DEF Noted
      <3>2. seen'.of = <<>> \/ seen'.of = seen.of
        BY <3>1, Noting
      <3> QED
        BY <2>1, <3>2, WantedLater DEF HeldByBoard
    <2> QED
      BY <2>1, <2>2 DEF HeldByBoard
  <1>3. CASE TicketEnds
    <2>1. /\ at' = at /\ ticked' = ticked /\ pending # 0 /\ pending' = 0 /\ Blank /\ mode' = mode
          /\ UNCHANGED <<fee, closed, board>> /\ at # "down"
      BY <1>3 DEF TicketEnds, Stays, TakeDown, readVars
    <2>2. up' => up \/ Wanted(FALSE) = "board"
      BY <2>1, PaintEffect
    <2>3. Shows => Wanted(FALSE) = "board"
      BY DEF Shows
    <2>4. CASE Kept
      <3>1. seen'.of = <<>> \/ seen'.of = seen.of
        BY <2>1, <2>4, OfLater
      <3> QED
        BY <2>1, <2>2, <3>1, WantedLater DEF HeldByBoard
    <2>5. CASE Shows
      BY <2>1, <2>3, <2>5, WantedLater DEF HeldByBoard
    <2>6. ~Starts
      BY <2>1 DEF Starts
    <2>7. at' # "down"
      BY <2>1
    <2> QED
      BY <2>4, <2>5, <2>6, <2>7
  <1>4. CASE TurnBoards
    <2>1. UNCHANGED <<fee, closed, board, pending>>
      BY <1>4 DEF TurnBoards, readVars, ticketVars
    <2>2. up' = FALSE \/ Wanted(pending # 0) = "board"
      BY <1>4 DEF TurnBoards, Pause
    <2>3. Wanted(pending # 0) = "board" => pending = 0 /\ Wanted(FALSE) = "board"
      BY DEF Wanted
    <2> QED
      BY <2>1, <2>2, <2>3, WantedLater DEF HeldByBoard
  <1>5. CASE PassLeft \/ TicketDropped
    <2>1. shown' = shown /\ raised' # "no" /\ at # "down" /\ at' # "down"
      BY <1>5 DEF PassLeft, TicketDropped, Leaves
    <2>2. Kept
      BY <2>1 DEF Kept, Undisturbed
    <2> QED
      BY <2>1, <2>2, OfLater DEF HeldByBoard
  <1> QED
    BY <1>1, <1>2, <1>3, <1>4, <1>5 DEF Action

-------------------------------------------------------------------------------
(* The theorems.                                                           *)

ScreenInv == Types /\ Pictured /\ HeldByBoard /\ Watching

LEMMA InitHolds == Init => ScreenInv
  <1> SUFFICES ASSUME Init PROVE ScreenInv
    OBVIOUS
  <1>1. /\ shown = Black /\ at = "handle" /\ up = FALSE /\ fee = "none" /\ closed = FALSE /\ board = <<>>
        /\ pending = 0 /\ geometry = mode /\ seen = NothingSeen
    BY DEF Init
  <1>2. FrameNow = Black
    BY <1>1 DEF FrameNow, Wanted, FrameFor
  <1>3. Black.kind # "item" /\ NothingSeen.of = <<>>
    BY FrameTypes DEF NothingSeen
  <1> QED
    BY <1>1, <1>2, <1>3, TypesInit DEF ScreenInv, Pictured, Laid, Painted, OfTicket, Blanked,
       HeldByBoard, Watching, Noted, Turning

\* A change of the item that is seen comes after a whole turn of it.
WholeTurn ==
    seen'.item # seen.item /\ seen.of # <<>> /\ seen'.of = seen.of =>
        /\ ~seen.lost /\ seen.for = Turn
        /\ \E i \in 1 .. Len(seen.of) : /\ seen.of[i] = seen.item
                                        /\ seen'.item = seen.of[(i % Len(seen.of)) + 1]

LEMMA StepHolds ==
    ASSUME ScreenInv, Next
    PROVE  ScreenInv' /\ WholeTurn
  <1>1. Action /\ Watches /\ Types /\ Pictured /\ HeldByBoard /\ Noted /\ Turning /\ Watching /\ Painted
    BY NextIsAction DEF ScreenInv, Watching, Pictured
  <1>2. Rest /\ Types'
    BY <1>1, PassTypes, PaintTypes, OtherTypes, RestIsEnough DEF Action
  <1>3. at' = "down" \/ Starts \/ (at # "down" /\ Kept)
              \/ (Shows /\ UNCHANGED <<board, health, mode>>)
    BY <1>1, KeptByRest, KeptOrShown DEF Action
  <1>5. Pictured' /\ HeldByBoard'
    BY <1>1, <1>3, PicturedStep, HeldStep
  <1>4. Watching' /\ WholeTurn
    <2>1. CASE at' = "down"
      BY <1>1, <2>1, WatchingDown, WatchedDown DEF NothingSeen, WholeTurn
    <2>2. CASE Starts
      BY <1>1, <2>2, WatchingStart DEF WholeTurn
    <2>3. CASE at' # "down" /\ at # "down" /\ Kept
      BY <1>1, <1>2, <2>3, WatchingKept DEF WholeTurn
    <2>4. CASE at' # "down" /\ Shows /\ UNCHANGED <<board, health, mode>>
      BY <1>1, <2>4, WatchingShown DEF WholeTurn
    <2> QED
      BY <1>3, <2>1, <2>2, <2>3, <2>4
  <1> QED
    BY <1>2, <1>4, <1>5 DEF ScreenInv

LEMMA InvStep == ScreenInv /\ [Next]_vars => ScreenInv'
  <1> SUFFICES ASSUME ScreenInv, UNCHANGED vars PROVE ScreenInv'
    BY StepHolds
  <1>1. UNCHANGED <<news, health, mode, shown, troubles, at, exiting, fee, closed, board, index, up, age,
                    pending, issued, drawn, geometry, code, unseen, raised, ticked, seen>>
    BY DEF vars, screenVars, readVars, rotation, ticketVars
  <1>2. Types'
    BY TypesStep DEF ScreenInv
  <1>3. FrameNow' = FrameNow /\ Wanted(FALSE)' = Wanted(FALSE)
    BY <1>1 DEF FrameNow, FrameFor, Wanted
  <1> QED
    BY <1>1, <1>2, <1>3 DEF ScreenInv, Pictured, Laid, Painted, OfTicket, Blanked, Running, Said,
       HeldByBoard, Watching, Noted, Turning

LEMMA Invariant == Spec => []ScreenInv
  BY InitHolds, InvStep, PTL DEF Spec

\* The types, and the rotation within its board: the item whose turn it is is one the
\* lane publishes, a board gone or changed included (Rotation.update).
THEOREM ScreenIsSound == Spec => []TypeOK
  <1>1. ScreenInv => TypeOK
    BY DEF ScreenInv, Types
  <1> QED
    BY <1>1, Invariant, PTL

\* For any fees and boards: between two passes the screen shows the frame of whoever has
\* it, or the lane's record says that it does not, or the screen has changed since it was
\* last asked (frame_wanted, _show_lane_frame, _blank_screens, _reassert, _turn_boards); but
\* for what an exception left undone, till the lane is painted or anything drawn again.
THEOREM WrongWasSaid == Spec => []WrongIsSaid
  <1>1. ASSUME ScreenInv PROVE WrongIsSaid
    <2>1. FrameFor(IF pending # 0 THEN "ticket" ELSE Wanted(FALSE), index, mode) = FrameNow
      BY DEF FrameNow, Wanted
    <2>2. at = "handle" /\ ~exiting => shown = FrameNow \/ Said \/ raised # "no"
      BY <1>1 DEF ScreenInv, Pictured, Painted, Running, Settled
    <2> QED
      BY <2>1, <2>2 DEF WrongIsSaid, Said
  <1> QED
    BY <1>1, Invariant, PTL

\* For any boards and any length of a turn: while the board and the screen stay as they
\* are an item gives way only to the next, after a whole turn and not while something
\* else has had the screen since (Rotation, _turn_boards).
THEOREM TurnsStayWhole == Spec => TurnsAreWhole
  <1>1. ScreenInv /\ [Next]_vars => [WholeTurn]_vars
    BY StepHolds
  <1>2. [][WholeTurn]_vars => TurnsAreWhole
    BY PTL DEF TurnsAreWhole, WholeTurn
  <1>3. Spec => [][WholeTurn]_vars
    BY <1>1, Invariant, PTL DEF Spec
  <1> QED
    BY <1>2, <1>3
=============================================================================
