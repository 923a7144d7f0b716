--------------------------- MODULE UiPagesProofs ---------------------------
(***************************************************************************)
(* The panel between two ticks, proved for any pages, any failing          *)
(* renderers and any titles: it shows the update page exactly while an     *)
(* update owns the screen or asks, the Setup page exactly while setup owns *)
(* it, and the menu's row as the menu has it.                              *)
(*                                                                         *)
(* The invariant says what the flags showing_ota, showing_setup and the    *)
(* tick's own "dirty" still promise of the panel while the parts of a tick *)
(* run: whatever else draws, draws a carousel page, and only when no page  *)
(* of the four owns the screen, or a flag says that it must be redrawn.    *)
(***************************************************************************)
EXTENDS UiPages, TLAPS, SequenceTheorems, WellFoundedInduction, NaturalsInduction

Owned == owns_screen(ota) \/ awaits_confirm(ota)

\* As much of the types as the owners need.
Typed ==
    /\ ota \in OtaPhases /\ setup \in BOOLEAN /\ flicked \in BOOLEAN
    /\ menu \in [showing : BOOLEAN, focus : DOMAIN Rows, offered : BOOLEAN]
    /\ showing \in [ota : BOOLEAN, setup : BOOLEAN, nowPlaying : BOOLEAN]
    /\ tick \in [at : {"rest", "buttons", "media", "carousel", "owners"},
                 otaChanged : BOOLEAN, dirty : BOOLEAN, action : Actions]

\* A tick leaves nothing of its own behind; what the menu asked for has it redrawn.
TickInv ==
    /\ tick.at = "rest" => ~tick.otaChanged /\ ~tick.dirty /\ tick.action = None
    /\ tick.action # None => tick.dirty

UpdateInv ==
    /\ tick.at = "rest" => (showing.ota <=> Owned)
    /\ showing.ota /\ Owned /\ ~tick.otaChanged => screen = <<"Ota", ota>>
    /\ ~showing.ota => screen[1] # "Ota"

SetupInv ==
    /\ ~(showing.ota /\ showing.setup)
    /\ screen = <<"Setup">> => showing.setup
    /\ showing.setup /\ setup => screen = <<"Setup">> \/ flicked
    /\ menu.showing /\ ~tick.dirty => screen # <<"Setup">>
    /\ tick.at = "rest" /\ showing.setup => setup /\ ~menu.showing
    /\ tick.at = "rest" /\ setup /\ ~menu.showing /\ ~Owned => showing.setup

RowInv == menu.showing /\ ~tick.dirty /\ screen[1] = "Settings" => screen = MenuPage

Inv == Typed /\ TickInv /\ UpdateInv /\ SetupInv /\ RowInv

-----------------------------------------------------------------------------
(* Steps that do not end a tick *)

\* The panel is given a carousel page.
PageDrawn == screen'[1] = "Page" /\ screen' # <<"Setup">>

LEMMA Rendered ==
    ASSUME NEW ps, NEW i, NEW man, NEW failing, RenderCurrent(ps, i, man, failing)
    PROVE  PageDrawn
<1>1. \E p : screen' = <<"Page", p>>
  BY Zenon DEF RenderCurrent, Page
<1>2. QED
  BY <1>1 DEF PageDrawn

LEMMA Initially == Init => Inv
<1> SUFFICES ASSUME Init PROVE Inv
  OBVIOUS
<1>1. Typed
  <2>1. 1 \in DOMAIN Rows /\ None \in Actions /\ "idle" \in OtaPhases
    BY DEF Rows, Actions, OtaPhases
  <2>2. QED
    BY <2>1 DEF Init, Typed
<1>2. TickInv
  BY DEF Init, TickInv
<1>3. ~Owned /\ screen[1] = "Page" /\ screen # <<"Setup">>
  BY DEF Init, Owned, owns_screen, awaits_confirm, Page
<1>4. UpdateInv /\ SetupInv /\ RowInv
  BY <1>3 DEF Init, UpdateInv, SetupInv, RowInv
<1>5. QED
  BY <1>1, <1>2, <1>4 DEF Inv

LEMMA ConsumeInv ==
    ASSUME Inv, Consume
    PROVE  Inv'
<1>1. PICK status \in {None, "offer", "nothing"} :
        /\ menu' = IF status = None THEN menu ELSE [menu EXCEPT !.offered = status = "offer"]
        /\ tick' = [at |-> "buttons", otaChanged |-> ota' # ota,
                    dirty |-> status # None, action |-> None]
  BY DEF Consume
<1>2. /\ tick.at = "rest" /\ ota' \in OtaPhases /\ setup' \in BOOLEAN
      /\ UNCHANGED <<showing, screen, flicked>>
  BY DEF Consume
<1>3. menu'.showing = menu.showing /\ menu'.focus = menu.focus /\ (status = None => menu' = menu)
  BY <1>1 DEF Inv, Typed
<1>4. Typed'
  BY <1>1, <1>2 DEF Inv, Typed, Actions
<1>5. TickInv'
  BY <1>1, <1>2 DEF TickInv
<1>6. UpdateInv'
  BY <1>1, <1>2 DEF Inv, Typed, TickInv, UpdateInv, Owned
<1>7. SetupInv'
  BY <1>1, <1>2, <1>3 DEF Inv, Typed, TickInv, SetupInv
<1>8. RowInv'
  BY <1>1, <1>2, <1>3 DEF Inv, Typed, TickInv, RowInv, MenuPage
<1>9. QED
  BY <1>4, <1>5, <1>6, <1>7, <1>8 DEF Inv

\* A step between two parts of a tick that draws nothing or, when none of the four
\* pages owns the screen, a carousel page.
LEMMA PartOfTick ==
    ASSUME Inv, tick.at # "rest", UNCHANGED <<ota, setup, menu, flicked>>,
           showing' = [showing EXCEPT !.nowPlaying = showing'.nowPlaying],
           showing'.nowPlaying \in BOOLEAN,
           NEW at \in {"media", "carousel", "owners"}, tick' = [tick EXCEPT !.at = at],
           screen' = screen \/ (PageDrawn /\ ~takeover_page_owns_screen)
    PROVE  Inv'
<1>1. /\ tick'.at # "rest" /\ tick'.otaChanged = tick.otaChanged
      /\ tick'.dirty = tick.dirty /\ tick'.action = tick.action
      /\ showing'.ota = showing.ota /\ showing'.setup = showing.setup
  BY DEF Inv, Typed
<1>2. Typed'
  BY DEF Inv, Typed
<1>3. TickInv'
  BY <1>1 DEF Inv, TickInv
<1>4. UpdateInv'
  BY <1>1 DEF Inv, Typed, UpdateInv, Owned, PageDrawn, takeover_page_owns_screen
<1>5. SetupInv'
  BY <1>1 DEF Inv, Typed, SetupInv, PageDrawn, takeover_page_owns_screen
<1>6. RowInv'
  BY <1>1 DEF Inv, Typed, RowInv, MenuPage, PageDrawn, takeover_page_owns_screen
<1>7. QED
  BY <1>2, <1>3, <1>4, <1>5, <1>6 DEF Inv

LEMMA NoMoreButtonsInv ==
    ASSUME Inv, NoMoreButtons
    PROVE  Inv'
<1>1. /\ tick.at # "rest" /\ UNCHANGED <<ota, setup, menu, flicked, showing, screen>>
      /\ tick' = [tick EXCEPT !.at = "media"]
  BY DEF NoMoreButtons
<1>2. showing' = [showing EXCEPT !.nowPlaying = showing'.nowPlaying] /\ showing'.nowPlaying \in BOOLEAN
  BY <1>1 DEF Inv, Typed
<1>3. QED
  BY <1>1, <1>2, PartOfTick

LEMMA MediaInv ==
    ASSUME Inv, NEW failing, Media(failing)
    PROVE  Inv'
<1>1. /\ tick.at # "rest" /\ UNCHANGED <<ota, setup, menu, flicked>>
      /\ tick' = [tick EXCEPT !.at = "carousel"]
  BY Zenon DEF Media
<1>2. /\ \E owns \in BOOLEAN : showing' = [showing EXCEPT !.nowPlaying = owns]
      /\ screen' = screen \/ (PageDrawn /\ ~takeover_page_owns_screen)
  <2>1. PICK open, expired, second \in BOOLEAN, title \in Titles :
        LET next  == seize_tick(open, title, expired)
            cycle == IF open # lastOpen THEN begin_cycle(open) ELSE <<pages, index>>
            owns  == next.owns /\ ~takeover_page_owns_screen
            draws == \/ ~showing.nowPlaying \/ ~seize.owns
                     \/ seize.title # next.title \/ second
            exits == ~owns /\ showing.nowPlaying /\ ~takeover_page_owns_screen
        IN  /\ lastOpen' = open
            /\ seize' = next
            /\ showing' = [showing EXCEPT !.nowPlaying = owns]
            /\ stamped' = (stamped \/ owns \/ exits \/ open # lastOpen)
            /\ IF exits THEN RenderCurrent(cycle[1], cycle[2], manual, failing)
               ELSE /\ pages' = cycle[1] /\ index' = cycle[2] /\ UNCHANGED manual
                    /\ screen' = IF owns /\ draws THEN Page("NowPlaying") ELSE screen
            /\ tick' = [tick EXCEPT !.at = "carousel"]
    BY Zenon DEF Media
  <2> DEFINE next  == seize_tick(open, title, expired)
             cycle == IF open # lastOpen THEN begin_cycle(open) ELSE <<pages, index>>
             owns  == next.owns /\ ~takeover_page_owns_screen
             exits == ~owns /\ showing.nowPlaying /\ ~takeover_page_owns_screen
  <2>2. owns \in BOOLEAN /\ showing' = [showing EXCEPT !.nowPlaying = owns]
    BY <2>1, Zenon
  <2>3. CASE exits
    <3>1. RenderCurrent(cycle[1], cycle[2], manual, failing) /\ ~takeover_page_owns_screen
      BY <2>1, <2>3, Zenon
    <3> HIDE DEF cycle
    <3>2. PageDrawn
      BY <3>1, Rendered
    <3>3. QED
      BY <2>2, <3>1, <3>2, Zenon
  <2>4. CASE ~exits
    <3>1. screen' = screen \/ (screen' = Page("NowPlaying") /\ ~takeover_page_owns_screen)
      BY <2>1, <2>4, Zenon
    <3>2. screen' = Page("NowPlaying") => PageDrawn
      BY DEF Page, PageDrawn
    <3>3. QED
      BY <2>2, <3>1, <3>2, Zenon
  <2>5. QED
    BY <2>3, <2>4, Zenon
<1>3. showing' = [showing EXCEPT !.nowPlaying = showing'.nowPlaying] /\ showing'.nowPlaying \in BOOLEAN
  BY <1>2 DEF Inv, Typed
<1>4. QED
  BY <1>1, <1>2, <1>3, PartOfTick

LEMMA CarouselInv ==
    ASSUME Inv, NEW failing, Carousel(failing)
    PROVE  Inv'
<1>1. /\ tick.at # "rest" /\ UNCHANGED <<ota, setup, menu, flicked, showing>>
      /\ tick' = [tick EXCEPT !.at = "owners"]
  BY Zenon DEF Carousel
<1>2. screen' = screen \/ (PageDrawn /\ ~takeover_page_owns_screen)
  <2>1. screen' = screen \/
          (/\ ~takeover_page_owns_screen
           /\ \E ps, i, man : RenderCurrent(ps, i, man, failing))
    BY Zenon DEF Carousel
  <2>2. QED
    BY <2>1, Rendered, Zenon
<1>3. showing' = [showing EXCEPT !.nowPlaying = showing'.nowPlaying] /\ showing'.nowPlaying \in BOOLEAN
  BY <1>1 DEF Inv, Typed
<1>4. QED
  BY <1>1, <1>2, <1>3, PartOfTick
\* What a button does to the owners: nothing, a change of the open menu that has
\* it drawn, the menu's end, or a turn of the carousel outside setup.
NothingPressed == UNCHANGED <<menu, tick, screen, flicked>>
MenuChanges ==
    /\ menu' \in [showing : {TRUE}, focus : DOMAIN Rows, offered : BOOLEAN]
    /\ \E a \in Actions : tick' = [tick EXCEPT !.dirty = TRUE, !.action = a]
    /\ UNCHANGED <<screen, flicked>>
MenuLeft ==
    /\ menu' = [menu EXCEPT !.showing = FALSE] /\ flicked' = (flicked \/ showing.setup)
    /\ PageDrawn /\ UNCHANGED tick
CarouselTurned == ~setup /\ PageDrawn /\ UNCHANGED <<menu, tick, flicked>>

LEMMA MenuButtonCases ==
    ASSUME Inv, NEW e \in Events, NEW failing, menu.showing, MenuButton(e, failing)
    PROVE  NothingPressed \/ MenuChanges \/ MenuLeft
<1>1. CASE e = "EnterSetup"
  <2>1. /\ menu' = [menu EXCEPT !.showing = FALSE] /\ flicked' = (flicked \/ showing.setup)
        /\ RenderCurrent(pages, index, manual, failing) /\ UNCHANGED tick
    BY <1>1, Zenon DEF MenuButton
  <2>2. QED
    BY <2>1, Rendered, Zenon DEF MenuLeft
<1>2. CASE e = "Previous"
  <2>1. /\ menu' = [menu EXCEPT !.focus = (@ % Len(Rows)) + 1]
        /\ tick' = [tick EXCEPT !.dirty = TRUE] /\ UNCHANGED <<screen, flicked>>
    BY <1>2 DEF MenuButton
  <2>2. (menu.focus % Len(Rows)) + 1 \in DOMAIN Rows
    <3>1. Len(Rows) = 4 /\ DOMAIN Rows = 1 .. 4
      BY DEF Rows
    <3>2. menu.focus \in 1 .. 4
      BY <3>1 DEF Inv, Typed
    <3>3. QED
      BY <3>1, <3>2
  <2>3. menu' \in [showing : {TRUE}, focus : DOMAIN Rows, offered : BOOLEAN]
    BY <2>1, <2>2 DEF Inv, Typed
  <2>4. tick.action \in Actions /\ tick' = [tick EXCEPT !.dirty = TRUE, !.action = tick.action]
    BY <2>1 DEF Inv, Typed
  <2>5. QED
    BY <2>1, <2>3, <2>4 DEF MenuChanges
<1>3. CASE e = "Next"
  <2>1. /\ UNCHANGED <<menu, screen, flicked>>
        /\ tick' = [tick EXCEPT !.dirty = TRUE, !.action = tick'.action]
        /\ tick'.action \in Actions
    BY <1>3 DEF MenuButton, Inv, Typed, Actions
  <2>2. menu' \in [showing : {TRUE}, focus : DOMAIN Rows, offered : BOOLEAN]
    BY <2>1 DEF Inv, Typed
  <2>3. QED
    BY <2>1, <2>2 DEF MenuChanges
<1>4. CASE e \notin {"EnterSetup", "Previous", "Next"}
  BY <1>4, Zenon DEF MenuButton, NothingPressed
<1>5. QED
  BY <1>1, <1>2, <1>3, <1>4

LEMMA ButtonCases ==
    ASSUME Inv, NEW e \in Events, NEW failing, Button(e, failing)
    PROVE  /\ tick.at = "buttons" /\ UNCHANGED <<ota, setup, showing>>
           /\ NothingPressed \/ (~Owned /\ (MenuChanges \/ MenuLeft \/ CarouselTurned))
<1>1. tick.at = "buttons" /\ UNCHANGED <<ota, setup, showing>>
  BY Zenon DEF Button
<1>2. CASE Owned
  BY <1>2, Zenon DEF Button, Owned, NothingPressed
<1>3. CASE ~Owned /\ menu.showing
  <2>1. MenuButton(e, failing)
    BY <1>3, Zenon DEF Button, Owned
  <2>2. QED
    BY <1>1, <1>3, <2>1, MenuButtonCases
<1>4. CASE ~Owned /\ ~menu.showing /\ e = "OpenMenu"
  <2>1. /\ menu' = [showing |-> TRUE, focus |-> 1, offered |-> FALSE]
        /\ tick' = [tick EXCEPT !.dirty = TRUE] /\ UNCHANGED <<screen, flicked>>
    BY <1>4 DEF Button, Owned
  <2>2. 1 \in DOMAIN Rows
    BY DEF Rows
  <2>3. tick.action \in Actions /\ tick' = [tick EXCEPT !.dirty = TRUE, !.action = tick.action]
    BY <2>1 DEF Inv, Typed
  <2>4. MenuChanges
    BY <2>1, <2>2, <2>3 DEF MenuChanges
  <2>5. QED
    BY <1>1, <1>4, <2>4
<1>5. CASE ~Owned /\ ~menu.showing /\ e # "OpenMenu"
  <2>1. IF e = "EnterSetup" \/ setup
        THEN UNCHANGED <<menu, tick, carousel, stamped, screen, flicked>>
        ELSE /\ stamped' = TRUE
             /\ RenderCurrent(pages, Turned(e), "set", failing)
             /\ UNCHANGED <<menu, tick, flicked>>
    BY <1>5, Zenon DEF Button, Owned
  <2>2. NothingPressed \/ CarouselTurned
    BY <2>1, Rendered, Zenon DEF NothingPressed, CarouselTurned
  <2>3. QED
    BY <1>1, <1>5, <2>2
<1>6. QED
  BY <1>2, <1>3, <1>4, <1>5

LEMMA ButtonInv ==
    ASSUME Inv, NEW e \in Events, NEW failing, Button(e, failing)
    PROVE  Inv'
<1>1. tick.at = "buttons" /\ UNCHANGED <<ota, setup, showing>>
  BY ButtonCases
<1>2. CASE NothingPressed
  <2>1. showing' = [showing EXCEPT !.nowPlaying = showing'.nowPlaying] /\ showing'.nowPlaying \in BOOLEAN
    BY <1>1 DEF Inv, Typed
  <2>2. QED
    BY <1>1, <1>2 DEF Inv, Typed, TickInv, UpdateInv, SetupInv, RowInv, Owned, MenuPage,
                      NothingPressed
<1>3. CASE ~Owned /\ MenuChanges
  <2>1. PICK a \in Actions : tick' = [tick EXCEPT !.dirty = TRUE, !.action = a]
    BY <1>3 DEF MenuChanges
  <2>2. tick'.at = "buttons" /\ tick'.dirty
    BY <1>1, <2>1 DEF Inv, Typed
  <2>3. Typed'
    BY <1>1, <1>3, <2>1 DEF Inv, Typed, MenuChanges
  <2>4. TickInv' /\ RowInv'
    BY <2>2 DEF TickInv, RowInv
  <2>5. UpdateInv' /\ SetupInv'
    BY <1>1, <1>3, <2>2 DEF Inv, UpdateInv, SetupInv, Owned, MenuChanges
  <2>6. QED
    BY <2>3, <2>4, <2>5 DEF Inv
<1>4. CASE ~Owned /\ MenuLeft
  <2>1. ~menu'.showing /\ Typed'
    BY <1>1, <1>4 DEF Inv, Typed, MenuLeft
  <2>2. TickInv' /\ RowInv'
    BY <1>1, <1>4, <2>1 DEF Inv, TickInv, RowInv, MenuLeft
  <2>3. UpdateInv' /\ SetupInv'
    BY <1>1, <1>4, <2>1 DEF Inv, Typed, UpdateInv, SetupInv, Owned, MenuLeft, PageDrawn
  <2>4. QED
    BY <2>1, <2>2, <2>3 DEF Inv
<1>5. CASE ~Owned /\ CarouselTurned
  <2>1. Typed' /\ TickInv' /\ RowInv'
    BY <1>1, <1>5 DEF Inv, Typed, TickInv, RowInv, CarouselTurned, PageDrawn
  <2>2. UpdateInv' /\ SetupInv'
    BY <1>1, <1>5 DEF Inv, UpdateInv, SetupInv, Owned, CarouselTurned, PageDrawn
  <2>3. QED
    BY <2>1, <2>2 DEF Inv
<1>6. QED
  BY <1>2, <1>3, <1>4, <1>5, ButtonCases

-----------------------------------------------------------------------------
(* The end of a tick *)

LEMMA OwnedByUpdateInv ==
    ASSUME Inv, OwnedByUpdate
    PROVE  Inv'
<1>1. /\ Owned /\ UNCHANGED <<ota, setup, menu, flicked>>
      /\ screen' = IF ~showing.ota \/ tick.otaChanged THEN <<"Ota", ota>> ELSE screen
      /\ showing' = [showing EXCEPT !.ota = TRUE, !.setup = FALSE]
      /\ tick' = [at |-> "rest", otaChanged |-> FALSE, dirty |-> FALSE, action |-> None]
  BY DEF OwnedByUpdate, EndOfTick, Owned
<1>2. screen' = <<"Ota", ota>>
  BY <1>1 DEF Inv, UpdateInv
<1>3. showing'.ota /\ ~showing'.setup
  BY <1>1 DEF Inv, Typed
<1>4. Typed'
  BY <1>1 DEF Inv, Typed, Actions
<1>5. TickInv' /\ RowInv'
  BY <1>1, <1>2 DEF TickInv, RowInv
<1>6. UpdateInv' /\ SetupInv'
  BY <1>1, <1>2, <1>3 DEF UpdateInv, SetupInv, Owned
<1>7. QED
  BY <1>4, <1>5, <1>6 DEF Inv

LEMMA UpdateEndsInv ==
    ASSUME Inv, NEW failing, UpdateEnds(failing)
    PROVE  Inv'
<1>1. /\ tick.at = "owners" /\ showing.ota /\ UNCHANGED <<ota, setup, menu, tick, flicked>>
      /\ showing' = [showing EXCEPT !.ota = FALSE]
      /\ RenderCurrent(pages, index, manual, failing)
  BY Zenon DEF UpdateEnds
<1>2. PageDrawn
  BY <1>1, Rendered
<1>3. ~showing'.ota /\ ~showing'.setup
  BY <1>1 DEF Inv, Typed, SetupInv
<1>4. Typed'
  BY <1>1 DEF Inv, Typed
<1>5. TickInv' /\ RowInv'
  BY <1>1, <1>2 DEF Inv, TickInv, RowInv, PageDrawn
<1>6. UpdateInv' /\ SetupInv'
  BY <1>1, <1>2, <1>3 DEF UpdateInv, SetupInv, Owned, PageDrawn
<1>7. QED
  BY <1>4, <1>5, <1>6 DEF Inv
\* Neither an update nor its end: the menu, setup, what setup left, or nothing.
LEMMA OthersInv ==
    ASSUME Inv, NEW failing, Others(failing)
    PROVE  Inv'
<1> DEFINE offer == tick.action # "StartUpdateInstall" /\ menu.offered
           open  == menu.showing /\ tick.action # "EnterWifiSetup"
<1>1. /\ tick.at = "owners" /\ ~Owned /\ ~showing.ota /\ UNCHANGED <<ota, setup>>
      /\ tick' = [at |-> "rest", otaChanged |-> FALSE, dirty |-> FALSE, action |-> None]
      /\ menu' = [menu EXCEPT !.showing = open, !.offered = offer]
      /\ showing' = [showing EXCEPT !.setup = ~open /\ setup]
  BY Zenon DEF Others, EndOfTick, Owned
<1>2. /\ menu'.showing = open /\ menu'.focus = menu.focus /\ menu'.offered = offer
      /\ ~showing'.ota /\ showing'.setup = (~open /\ setup)
      /\ menu' \in [showing : BOOLEAN, focus : DOMAIN Rows, offered : BOOLEAN]
      /\ showing' \in [ota : BOOLEAN, setup : BOOLEAN, nowPlaying : BOOLEAN]
  BY <1>1 DEF Inv, Typed
<1>3. TickInv'
  BY <1>1 DEF TickInv
<1>4. flicked' \in BOOLEAN => Typed'
  BY <1>1, <1>2 DEF Inv, Typed, Actions
<1>5. CASE open
  <2>1. /\ screen' = IF tick.dirty THEN <<"Settings", Rows[menu.focus], offer>> ELSE screen
        /\ flicked' = FALSE
    BY <1>5, Zenon DEF Others
  <2>2. screen' # <<"Setup">> /\ screen'[1] # "Ota"
    BY <1>1, <1>5, <2>1 DEF Inv, SetupInv, UpdateInv
  <2>3. screen'[1] = "Settings" => screen' = MenuPage'
    <3>1. CASE tick.dirty
      BY <1>2, <2>1, <3>1 DEF MenuPage
    <3>2. CASE ~tick.dirty
      <4>1. tick.action = None /\ screen' = screen
        BY <2>1, <3>2 DEF Inv, TickInv
      <4>2. offer = menu.offered
        BY <4>1 DEF Inv, Typed, None
      <4>3. QED
        BY <1>2, <1>5, <3>2, <4>1, <4>2 DEF Inv, RowInv, MenuPage
    <3>3. QED
      BY <3>1, <3>2
  <2>4. UpdateInv' /\ SetupInv' /\ RowInv'
    BY <1>1, <1>2, <1>5, <2>1, <2>2, <2>3 DEF UpdateInv, SetupInv, RowInv, Owned
  <2>5. QED
    BY <1>3, <1>4, <2>1, <2>4 DEF Inv
<1>6. CASE ~open /\ setup
  <2>1. /\ screen' = IF showing.setup THEN screen ELSE <<"Setup">>
        /\ flicked' = (flicked /\ showing.setup)
    BY <1>6, Zenon DEF Others
  <2>2. screen' = <<"Setup">> \/ flicked'
    BY <1>6, <2>1 DEF Inv, Typed, SetupInv
  <2>3. screen'[1] # "Ota"
    BY <1>1, <2>1 DEF Inv, UpdateInv
  <2>4. ~menu'.showing /\ showing'.setup
    BY <1>2, <1>6
  <2>5. UpdateInv' /\ SetupInv' /\ RowInv'
    BY <1>1, <1>2, <1>6, <2>2, <2>3, <2>4 DEF Inv, Typed, UpdateInv, SetupInv, RowInv, Owned
  <2>6. QED
    BY <1>3, <1>4, <2>1, <2>5 DEF Inv
<1>7. CASE ~open /\ ~setup
  <2>1. flicked' = FALSE /\ (PageDrawn \/ (~showing.setup /\ screen' = screen))
    <3>1. CASE showing.setup
      <4>1. RenderCurrent(pages, index, manual, failing) /\ flicked' = FALSE
        BY <1>7, <3>1, Zenon DEF Others
      <4>2. QED
        BY <4>1, Rendered
    <3>2. CASE ~showing.setup
      BY <1>7, <3>2, Zenon DEF Others
    <3>3. QED
      BY <3>1, <3>2
  <2>2. screen' # <<"Setup">> /\ screen'[1] # "Ota"
    BY <1>1, <2>1 DEF Inv, SetupInv, UpdateInv, PageDrawn
  <2>3. ~menu'.showing /\ ~showing'.setup
    BY <1>2, <1>7
  <2>4. UpdateInv' /\ SetupInv' /\ RowInv'
    BY <1>1, <1>2, <1>7, <2>2, <2>3 DEF UpdateInv, SetupInv, RowInv, Owned
  <2>5. QED
    BY <1>3, <1>4, <2>1, <2>4 DEF Inv
<1>8. QED
  <2>1. setup \in BOOLEAN
    BY DEF Inv, Typed
  <2>2. QED
    BY <1>5, <1>6, <1>7

-----------------------------------------------------------------------------
(* The rotation *)

\* The pages there are.
PageNames == {"Home", "NowPlaying"} \cup STRING

\* Home is in the rotation, and the carousel stands on one of its pages.
PagesInv ==
    /\ pages \in Seq(PageNames) /\ index \in 1 .. Len(pages)
    /\ \E h \in 1 .. Len(pages) : pages[h] = "Home"

LEMMA NatWellFounded == IsWellFoundedOn({ss \in Nat \X Nat : ss[1] < ss[2]}, Nat)
BY NatLessThanWellFounded, Zenon DEF OpToRel

\* The least element that the search of render_current() for a page stops at.
LEMMA Least ==
    ASSUME NEW S \in SUBSET Nat, S # {}
    PROVE  \E m \in S : \A k \in S : m <= k
<1> DEFINE R == {ss \in Nat \X Nat : ss[1] < ss[2]}
<1>1. PICK m \in S : \A k \in S : ~ (<<k, m>> \in R)
  <2>1. IsWellFoundedOn(R, Nat) /\ S \subseteq Nat
    BY NatWellFounded
  <2> HIDE DEF R
  <2>2. QED
    BY <2>1, WFMin, Zenon
<1>2. \A a, b \in Nat : a < b => <<a, b>> \in R
  <2> SUFFICES ASSUME NEW a \in Nat, NEW b \in Nat, a < b PROVE <<a, b>> \in R
    OBVIOUS
  <2>1. <<a, b>> \in Nat \X Nat /\ <<a, b>>[1] = a /\ <<a, b>>[2] = b
    OBVIOUS
  <2>2. QED
    BY <2>1
<1>3. \A k \in S : ~(k < m)
  <2> HIDE DEF R
  <2>1. QED
    BY <1>1, <1>2
<1>4. QED
  BY <1>3

LEMMA Remainder ==
    ASSUME NEW n \in Nat, n > 0, NEW x \in 0 .. 2 * n - 1
    PROVE  x % n = IF x < n THEN x ELSE x - n
<1>1. CASE x < n
  BY <1>1
<1>2. CASE x >= n
  <2>1. (x - n) % n = x - n
    BY <1>2
  <2>2. x % n = (x - n) % n
    BY <1>2
  <2>3. QED
    BY <1>2, <2>1, <2>2
<1>3. QED
  BY <1>1, <1>2

LEMMA WrappedAt ==
    ASSUME NEW ps \in Seq(PageNames), NEW i \in 1 .. Len(ps), NEW k \in 0 .. Len(ps)
    PROVE  /\ Wrapped(ps, i + k) = IF i + k <= Len(ps) THEN i + k ELSE i + k - Len(ps)
           /\ Wrapped(ps, i + k) \in 1 .. Len(ps)
<1> DEFINE n == Len(ps)
           x == i + k - 1
<1>1. n \in Nat /\ n > 0 /\ x \in 0 .. 2 * n - 1
  OBVIOUS
<1>2. x % n = IF x < n THEN x ELSE x - n
  BY <1>1, Remainder
<1>3. Wrapped(ps, i + k) = (x % n) + 1
  BY DEF Wrapped
<1>4. QED
  BY <1>1, <1>2, <1>3

\* How far Home lies ahead of the i-th page, at h.
Ahead(ps, i, h) == IF h >= i THEN h - i ELSE h - i + Len(ps)

\* While Home is in the rotation and can be drawn, the search ends, at Home at last.
LEMMA SearchEnds ==
    ASSUME NEW ps \in Seq(PageNames), NEW i \in 1 .. Len(ps), NEW failing,
           NEW h \in 1 .. Len(ps), ps[h] = "Home", "Home" \notin failing
    PROVE  /\ Steps(ps, i, failing) # {}
           /\ \A k \in Steps(ps, i, failing) : k \in 0 .. Len(ps) - 1 /\ k <= Ahead(ps, i, h)
<1> DEFINE n == Len(ps)
           drawn == {k \in 0 .. n - 1 : ps[Wrapped(ps, i + k)] \notin failing}
           a == Ahead(ps, i, h)
<1>1. a \in 0 .. n - 1 /\ Wrapped(ps, i + a) = h
  <2>1. a \in 0 .. n - 1
    BY DEF Ahead
  <2>2. Wrapped(ps, i + a) = IF i + a <= n THEN i + a ELSE i + a - n
    <3>1. a \in 0 .. Len(ps)
      BY <2>1
    <3> HIDE DEF a
    <3>2. QED
      BY <3>1, WrappedAt
  <2>3. QED
    BY <2>1, <2>2 DEF Ahead
<1> HIDE DEF a
<1>2. a \in drawn /\ drawn \subseteq Nat
  BY <1>1
<1>3. PICK m \in drawn : \A k \in drawn : m <= k
  <2> HIDE DEF drawn
  <2>1. QED
    BY <1>2, Least
<1>4. \A j \in 0 .. m - 1 : ps[Wrapped(ps, i + j)] \in failing
  BY <1>3
<1>5. m \in Steps(ps, i, failing)
  BY <1>3, <1>4 DEF Steps
<1>6. ASSUME NEW k \in Steps(ps, i, failing)
      PROVE  k \in 0 .. n - 1 /\ k <= a
  BY <1>1, <1>6 DEF Steps
<1>7. QED
  BY <1>5, <1>6 DEF a

\* What render_current() leaves of a rotation: Home, and an index in it.
LEMMA RenderedPages ==
    ASSUME NEW ps \in Seq(PageNames), NEW i \in 1 .. Len(ps), NEW man, NEW failing,
           NEW h \in 1 .. Len(ps), ps[h] = "Home", "Home" \notin failing,
           RenderCurrent(ps, i, man, failing)
    PROVE  PagesInv'
<1> DEFINE n == Len(ps)
           k == CHOOSE k \in Steps(ps, i, failing) : TRUE
<1>1. k \in 0 .. n - 1 /\ k <= Ahead(ps, i, h)
  <2>1. k \in Steps(ps, i, failing)
    BY SearchEnds
  <2> HIDE DEF k
  <2>2. QED
    BY <2>1, SearchEnds
<1>2. IF i + k <= n
      THEN pages' = SubSeq(ps, 1, i - 1) \o SubSeq(ps, i + k, n) /\ index' = i
      ELSE pages' = SubSeq(ps, i + k - n, i - 1) /\ index' = 1
  BY DEF RenderCurrent
<1> HIDE DEF k
<1>3. CASE i + k <= n
  <2> DEFINE a == SubSeq(ps, 1, i - 1)
             b == SubSeq(ps, i + k, n)
  <2>1. a \in Seq(PageNames) /\ Len(a) = i - 1 /\ \A j \in 1 .. i - 1 : a[j] = ps[j]
    OBVIOUS
  <2>2. /\ b \in Seq(PageNames) /\ Len(b) = n - i - k + 1
        /\ \A j \in 1 .. n - i - k + 1 : b[j] = ps[i + k + j - 1]
    BY <1>1, <1>3
  <2> HIDE DEF a, b
  <2>3. /\ a \o b \in Seq(PageNames) /\ Len(a \o b) = n - k
        /\ \A j \in 1 .. n - k : (a \o b)[j] = IF j <= i - 1 THEN a[j] ELSE b[j - i + 1]
    BY <1>1, <1>3, <2>1, <2>2
  <2>4. pages' = a \o b /\ index' = i
    BY <1>2, <1>3 DEF a, b
  <2> DEFINE ab == a \o b
  <2> HIDE DEF ab
  <2>5. \E g \in 1 .. n - k : ab[g] = "Home"
    <3>1. CASE h < i
      <4>1. h \in 1 .. n - k /\ ab[h] = ps[h]
        BY <1>1, <1>3, <2>1, <2>3, <3>1 DEF ab
      <4>2. QED
        BY <4>1
    <3>2. CASE h >= i
      <4>1. PICK g \in Int : g = h - k
        BY <1>1
      <4>2. g \in 1 .. n - k /\ g >= i
        BY <1>1, <1>3, <3>2, <4>1 DEF Ahead
      <4>3. ab[g] = b[g - i + 1]
        BY <1>1, <2>3, <4>2 DEF ab
      <4>4. PICK j \in 1 .. n - i - k + 1 : j = g - i + 1
        BY <1>1, <4>2
      <4>5. b[j] = ps[i + k + j - 1] /\ i + k + j - 1 = h
        BY <1>1, <2>2, <4>1, <4>4
      <4>6. QED
        BY <4>2, <4>3, <4>4, <4>5
    <3>3. h \in Int /\ i \in Int
      OBVIOUS
    <3>4. QED
      BY <3>1, <3>2, <3>3
  <2>6. QED
    BY <1>1, <1>3, <2>3, <2>4, <2>5 DEF PagesInv, ab
<1>4. CASE i + k > n
  <2> DEFINE m == i + k - n
             c == SubSeq(ps, m, i - 1)
  <2>1. m \in 1 .. i - 1
    BY <1>1, <1>4
  <2>2. h >= m /\ h <= i - 1
    BY <1>1, <1>4 DEF Ahead
  <2>3. c \in Seq(PageNames) /\ Len(c) = i - m /\ \A j \in 1 .. i - m : c[j] = ps[m + j - 1]
    BY <2>1
  <2> HIDE DEF c
  <2>4. pages' = c /\ index' = 1
    BY <1>1, <1>2, <1>4 DEF c
  <2>5. h - m + 1 \in 1 .. i - m /\ c[h - m + 1] = ps[h]
    BY <2>1, <2>2, <2>3
  <2>6. QED
    BY <2>1, <2>3, <2>4, <2>5 DEF PagesInv
<1>5. QED
  BY <1>1, <1>3, <1>4

\* A rotation that PagesInv allows, and an index into it.
Rotation(ps, i) == /\ ps \in Seq(PageNames) /\ i \in 1 .. Len(ps)
                   /\ \E h \in 1 .. Len(ps) : ps[h] = "Home"

LEMMA RotationRendered ==
    ASSUME NEW ps, NEW i, Rotation(ps, i), NEW man, NEW failing, "Home" \notin failing,
           RenderCurrent(ps, i, man, failing)
    PROVE  PagesInv'
<1>1. ps \in Seq(PageNames) /\ i \in 1 .. Len(ps)
  BY DEF Rotation
<1>2. PICK h \in 1 .. Len(ps) : ps[h] = "Home"
  BY DEF Rotation
<1>3. QED
  BY <1>1, <1>2, RenderedPages

LEMMA RegistryPages ==
    ASSUME NEW open
    PROVE  Rotation(registry_pages(open), 1)
<1> DEFINE a == IF open THEN <<"NowPlaying">> ELSE <<>>
           b == a \o Optional
           c == <<"Home">> \o b
<1>1. a \in Seq(PageNames) /\ Optional \in Seq(PageNames)
  <2>1. "NowPlaying" \in PageNames /\ STRING \subseteq PageNames
    BY DEF PageNames
  <2>2. <<"NowPlaying">> \in Seq(PageNames) /\ <<>> \in Seq(PageNames)
    BY <2>1
  <2>3. a \in Seq(PageNames)
    BY <2>2, Zenon
  <2>4. Optional \in Seq(PageNames)
    <3>1. Optional \in Seq(STRING)
      BY UiAssumption
    <3>2. \A S, T : S \subseteq T => \A q \in Seq(S) : q \in Seq(T)
      OBVIOUS
    <3>3. QED
      BY <2>1, <3>1, <3>2, Zenon
  <2>5. QED
    BY <2>3, <2>4
<1> HIDE DEF a
<1>2. b \in Seq(PageNames)
  BY <1>1
<1> HIDE DEF b
<1>3. c \in Seq(PageNames) /\ Len(c) >= 1 /\ c[1] = "Home"
  <2>1. <<"Home">> \in Seq(PageNames) /\ Len(<<"Home">>) = 1 /\ <<"Home">>[1] = "Home"
    BY DEF PageNames
  <2> DEFINE hm == <<"Home">>
  <2> HIDE DEF hm
  <2>2. hm \in Seq(PageNames) /\ Len(hm) = 1 /\ hm[1] = "Home"
    BY <2>1 DEF hm
  <2>3. hm \o b \in Seq(PageNames) /\ Len(hm \o b) = 1 + Len(b) /\ (hm \o b)[1] = hm[1]
    <3>1. Len(b) \in Nat
      BY <1>2
    <3>2. /\ hm \o b \in Seq(PageNames) /\ Len(hm \o b) = Len(hm) + Len(b)
          /\ \A j \in 1 .. Len(hm) + Len(b) :
                (hm \o b)[j] = IF j <= Len(hm) THEN hm[j] ELSE b[j - Len(hm)]
      <4> HIDE DEF PageNames
      <4>1. QED
        BY <1>2, <2>2, ConcatProperties
    <3>3. QED
      BY <2>2, <3>1, <3>2
  <2>4. QED
    BY <1>2, <2>2, <2>3 DEF hm
<1>4. c = registry_pages(open)
  <2>1. registry_pages(open) = <<"Home">> \o a \o Optional
    BY DEF registry_pages, a
  <2>2. <<"Home">> \o a \o Optional = <<"Home">> \o (a \o Optional)
    BY <1>1
  <2>3. QED
    BY <2>1, <2>2 DEF b
<1>5. Rotation(c, 1)
  <2> HIDE DEF c
  <2>1. QED
    BY <1>3 DEF Rotation
<1>6. QED
  BY <1>4, <1>5

LEMMA PagesAreRotation == PagesInv <=> Rotation(pages, index)
BY DEF PagesInv, Rotation

LEMMA ButtonPages ==
    ASSUME PagesInv, NEW failing \in SUBSET Failing, NEW e \in Events, Button(e, failing)
    PROVE  PagesInv'
<1>1. "Home" \notin failing
  BY UiAssumption
<1>2. \/ UNCHANGED <<pages, index>>
      \/ RenderCurrent(pages, index, manual, failing)
      \/ RenderCurrent(pages, Turned(e), "set", failing)
  BY Zenon DEF Button, MenuButton, carousel
<1>3. Rotation(pages, Turned(e))
  <2>1. Len(pages) \in Nat /\ index \in 1 .. Len(pages)
    BY DEF PagesInv
  <2>2. (index % Len(pages)) + 1 \in 1 .. Len(pages)
    <3>1. index % Len(pages) = IF index < Len(pages) THEN index ELSE index - Len(pages)
      BY <2>1, Remainder
    <3>2. QED
      BY <2>1, <3>1
  <2>3. Turned(e) \in 1 .. Len(pages)
    BY <2>1, <2>2 DEF Turned
  <2>4. QED
    BY <2>3 DEF PagesInv, Rotation
<1>4. CASE UNCHANGED <<pages, index>>
  BY <1>4 DEF PagesInv
<1>5. QED
  BY <1>1, <1>2, <1>3, <1>4, PagesAreRotation, RotationRendered, Zenon

LEMMA MediaPages ==
    ASSUME PagesInv, NEW failing \in SUBSET Failing, Media(failing)
    PROVE  PagesInv'
<1>1. PICK open, expired, second \in BOOLEAN, title \in Titles :
      LET next  == seize_tick(open, title, expired)
          cycle == IF open # lastOpen THEN begin_cycle(open) ELSE <<pages, index>>
          owns  == next.owns /\ ~takeover_page_owns_screen
          draws == \/ ~showing.nowPlaying \/ ~seize.owns
                   \/ seize.title # next.title \/ second
          exits == ~owns /\ showing.nowPlaying /\ ~takeover_page_owns_screen
      IN  /\ lastOpen' = open
          /\ seize' = next
          /\ showing' = [showing EXCEPT !.nowPlaying = owns]
          /\ stamped' = (stamped \/ owns \/ exits \/ open # lastOpen)
          /\ IF exits THEN RenderCurrent(cycle[1], cycle[2], manual, failing)
             ELSE /\ pages' = cycle[1] /\ index' = cycle[2] /\ UNCHANGED manual
                  /\ screen' = IF owns /\ draws THEN Page("NowPlaying") ELSE screen
          /\ tick' = [tick EXCEPT !.at = "carousel"]
  BY Zenon DEF Media
<1> DEFINE exits == /\ ~(seize_tick(open, title, expired).owns /\ ~takeover_page_owns_screen)
                    /\ showing.nowPlaying /\ ~takeover_page_owns_screen
           cycle == IF open # lastOpen THEN begin_cycle(open) ELSE <<pages, index>>
<1>2. Rotation(cycle[1], cycle[2])
  <2>1. CASE open # lastOpen
    <3>1. cycle[1] = registry_pages(open) /\ cycle[2] = 1
      BY <2>1 DEF begin_cycle
    <3>2. QED
      BY <3>1, RegistryPages
  <2>2. CASE open = lastOpen
    <3>1. cycle[1] = pages /\ cycle[2] = index
      BY <2>2
    <3>2. QED
      BY <3>1, PagesAreRotation
  <2>3. QED
    BY <2>1, <2>2
<1>3. "Home" \notin failing
  BY UiAssumption
<1>4. CASE exits
  <2>1. RenderCurrent(cycle[1], cycle[2], manual, failing)
    BY <1>1, <1>4, Zenon
  <2> HIDE DEF cycle
  <2>2. QED
    BY <1>2, <1>3, <2>1, RotationRendered
<1>5. CASE ~exits
  <2>1. pages' = cycle[1] /\ index' = cycle[2]
    BY <1>1, <1>5, Zenon
  <2> HIDE DEF cycle
  <2>2. QED
    BY <1>2, <2>1 DEF PagesInv, Rotation
<1>6. QED
  BY <1>4, <1>5

LEMMA CarouselPages ==
    ASSUME PagesInv, NEW failing \in SUBSET Failing, Carousel(failing)
    PROVE  PagesInv'
<1>1. CASE UNCHANGED <<pages, index>>
  BY <1>1 DEF PagesInv
<1>2. CASE \E man : RenderCurrent(pages, index, man, failing)
  <2>1. "Home" \notin failing
    BY UiAssumption
  <2>2. Rotation(pages, index)
    BY PagesAreRotation
  <2>3. QED
    BY <1>2, <2>1, <2>2, RotationRendered
<1>3. ASSUME ~UNCHANGED <<pages, index>>, ~\E man : RenderCurrent(pages, index, man, failing)
      PROVE  PagesInv'
  <2> DEFINE wrapped == manual = "off" /\ index = Len(pages)
             to      == IF manual = "on" THEN 1 ELSE (index % Len(pages)) + 1
  <2>1. PICK relevant \in SUBSET Range(Optional), open \in BOOLEAN :
          LET cycle == IF wrapped THEN begin_cycle(open) ELSE <<pages, to>>
              ok == relevant \cup {"Home", "NowPlaying"}
              k  == CHOOSE k \in Steps(cycle[1], cycle[2], Range(cycle[1]) \ ok) : TRUE
          IN  RenderCurrent(cycle[1], Wrapped(cycle[1], cycle[2] + k), "off", failing)
    BY <1>3, Zenon DEF Carousel
  <2> DEFINE cycle == IF wrapped THEN begin_cycle(open) ELSE <<pages, to>>
             skipped == Range(cycle[1]) \ (relevant \cup {"Home", "NowPlaying"})
             k == CHOOSE k \in Steps(cycle[1], cycle[2], skipped) : TRUE
  <2>2. RenderCurrent(cycle[1], Wrapped(cycle[1], cycle[2] + k), "off", failing)
    BY <2>1, Zenon
  <2>3. Rotation(cycle[1], cycle[2])
    <3>1. CASE wrapped
      <4>1. cycle[1] = registry_pages(open) /\ cycle[2] = 1
        BY <3>1 DEF begin_cycle
      <4> HIDE DEF cycle
      <4>2. QED
        BY <4>1, RegistryPages
    <3>2. CASE ~wrapped
      <4>1. cycle[1] = pages /\ cycle[2] = to
        BY <3>2
      <4>2. Len(pages) \in Nat /\ index \in 1 .. Len(pages)
        BY DEF PagesInv
      <4>3. index % Len(pages) = IF index < Len(pages) THEN index ELSE index - Len(pages)
        BY <4>2, Remainder
      <4>4. to \in 1 .. Len(pages)
        BY <4>2, <4>3
      <4>5. Rotation(pages, to)
        BY <4>4 DEF PagesInv, Rotation
      <4>6. QED
        BY <4>1, <4>5
    <3>3. QED
      BY <3>1, <3>2
  <2>4. "Home" \notin failing /\ "Home" \notin skipped
    BY UiAssumption
  <2> HIDE DEF cycle, skipped
  <2>5. PICK h \in 1 .. Len(cycle[1]) : cycle[1][h] = "Home"
    BY <2>3 DEF Rotation
  <2>6. cycle[1] \in Seq(PageNames) /\ cycle[2] \in 1 .. Len(cycle[1])
    BY <2>3 DEF Rotation
  <2>7. k \in Steps(cycle[1], cycle[2], skipped)
    BY <2>4, <2>5, <2>6, SearchEnds
  <2> HIDE DEF k
  <2>8. k \in 0 .. Len(cycle[1])
    <3>1. k \in 0 .. Len(cycle[1]) - 1 /\ Len(cycle[1]) \in Nat
      BY <2>4, <2>5, <2>6, <2>7, SearchEnds
    <3>2. QED
      BY <3>1
  <2>9. Wrapped(cycle[1], cycle[2] + k) \in 1 .. Len(cycle[1])
    BY <2>6, <2>8, WrappedAt
  <2>10. Rotation(cycle[1], Wrapped(cycle[1], cycle[2] + k))
    BY <2>3, <2>9 DEF Rotation
  <2>11. QED
    BY <2>2, <2>4, <2>10, RotationRendered
<1>4. QED
  BY <1>1, <1>2, <1>3

\* An end of an owner draws the page the carousel stands on, or leaves it alone.
LEMMA OwnersPages ==
    ASSUME PagesInv, NEW failing \in SUBSET Failing, UpdateEnds(failing) \/ Others(failing)
    PROVE  PagesInv'
<1>1. "Home" \notin failing
  BY UiAssumption
<1>2. UNCHANGED <<pages, index>> \/ RenderCurrent(pages, index, manual, failing)
  <2>1. CASE UpdateEnds(failing)
    BY <2>1, Zenon DEF UpdateEnds
  <2>2. CASE Others(failing)
    BY <2>2, Zenon DEF Others, carousel
  <2>3. QED
    BY <2>1, <2>2
<1>3. CASE UNCHANGED <<pages, index>>
  BY <1>3 DEF PagesInv
<1>4. QED
  BY <1>1, <1>2, <1>3, PagesAreRotation, RotationRendered, Zenon

-----------------------------------------------------------------------------
(* What the project claims of the panel *)

\* The inductive invariant holds of the LVGL timer's tick (ui_app.cpp), for any
\* pages, any renderers that fail and any titles.
THEOREM Invariance == Spec => []Inv
<1>1. Inv /\ [Next]_vars => Inv'
  <2> SUFFICES ASSUME Inv, [Next]_vars PROVE Inv'
    OBVIOUS
  <2>1. CASE Consume
    BY <2>1, ConsumeInv
  <2>2. CASE NoMoreButtons
    BY <2>2, NoMoreButtonsInv
  <2>3. CASE OwnedByUpdate
    BY <2>3, OwnedByUpdateInv
  <2>4. ASSUME NEW failing \in SUBSET Failing, NEW e \in Events, Button(e, failing)
        PROVE  Inv'
    BY <2>4, ButtonInv
  <2>5. ASSUME NEW failing \in SUBSET Failing,
               Media(failing) \/ Carousel(failing) \/ UpdateEnds(failing) \/ Others(failing)
        PROVE  Inv'
    BY <2>5, MediaInv, CarouselInv, UpdateEndsInv, OthersInv
  <2>6. CASE UNCHANGED vars
    BY <2>6 DEF Inv, Typed, TickInv, UpdateInv, SetupInv, RowInv, Owned, MenuPage, vars
  <2>7. QED
    BY <2>1, <2>2, <2>3, <2>4, <2>5, <2>6, Zenon DEF Next
<1>2. QED
  BY Initially, <1>1, PTL DEF Spec

\* Between two ticks the update page is on the panel exactly while an update owns the
\* screen or asks, and Setup exactly while setup owns it, but for a menu opened and
\* left within one tick (ui_app.cpp, the ends of the tick).
THEOREM OwnersAreSeen == Spec => []OwnerIsSeen
<1>1. Inv => OwnerIsSeen
  BY DEF Inv, Typed, TickInv, UpdateInv, SetupInv, OwnerIsSeen, Owned
<1>2. QED
  BY <1>1, Invariance, PTL

\* The row that the open menu marks on the panel, and what it offers there, are the
\* menu's own at the end of every tick, also of one that read the answer of a release
\* check (ui_app.cpp, the drained offer).
THEOREM RowsAreAsDrawn == Spec => []RowIsAsDrawn
<1>1. Inv => RowIsAsDrawn
  BY DEF Inv, TickInv, RowInv, RowIsAsDrawn
<1>2. QED
  BY <1>1, Invariance, PTL

\* The carousel's index is always that of a page in the rotation, whatever pages a
\* failing renderer or a session that closed took out of it (render_current(),
\* begin_cycle(), carousel::next, carousel::previous, carousel::tick).
THEOREM IndexStaysInPages == Spec => []IndexInPages
<1>1. Init => PagesInv
  <2>1. Rotation(registry_pages(FALSE), 1)
    BY RegistryPages
  <2>2. QED
    BY <2>1 DEF Init, PagesInv, Rotation
<1>2. PagesInv /\ [Next]_vars => PagesInv'
  <2> SUFFICES ASSUME PagesInv, [Next]_vars PROVE PagesInv'
    OBVIOUS
  <2>1. CASE Consume \/ NoMoreButtons \/ OwnedByUpdate
    BY <2>1 DEF Consume, NoMoreButtons, OwnedByUpdate, carousel, PagesInv
  <2>2. ASSUME NEW failing \in SUBSET Failing, NEW e \in Events, Button(e, failing)
        PROVE  PagesInv'
    BY <2>2, ButtonPages
  <2>3. ASSUME NEW failing \in SUBSET Failing,
               Media(failing) \/ Carousel(failing) \/ UpdateEnds(failing) \/ Others(failing)
        PROVE  PagesInv'
    BY <2>3, MediaPages, CarouselPages, OwnersPages
  <2>4. CASE UNCHANGED vars
    BY <2>4 DEF PagesInv, vars, carousel
  <2>5. QED
    BY <2>1, <2>2, <2>3, <2>4, Zenon DEF Next
<1>3. PagesInv => IndexInPages
  BY DEF PagesInv, IndexInPages
<1>4. QED
  BY <1>1, <1>2, <1>3, PTL DEF Spec
=============================================================================
