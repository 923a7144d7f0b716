------------------------------ MODULE UiPages ------------------------------
(***************************************************************************)
(* Which page the panel shows and what the two buttons mean               *)
(* (components/ui/ui_app.cpp, with app_core/carousel_controller.cpp,      *)
(* page_registry.cpp, now_playing_controller.hpp and ui/settings_menu.cpp).*)
(* One tick of the LVGL timer is five parts; what the other tasks          *)
(* published, the buttons pressed and the media session are inputs, chosen *)
(* when the tick reads them: nothing limits what a publisher may have left *)
(* there by then.  Time is a choice too: a dwell, the pause after a button *)
(* and the now-playing hold may run out in any tick that did not begin     *)
(* right after they were stamped.  The panel is the last page rendered.    *)
(***************************************************************************)
EXTENDS Naturals, Sequences, SequencesExt

CONSTANTS Optional,      \* the pages besides Home that never leave the rotation, in order
          Failing,       \* the carousel pages whose renderer may return null
          Titles         \* track titles

\* A Home page that cannot be drawn is fatal when the UI starts.
ASSUME UiAssumption == Optional \in Seq(STRING) /\ "Home" \notin Failing

VARIABLES ota, setup,    \* runtime.snapshot
          menu,          \* showing_settings, focused_, update_offered_
          showing,       \* showing_ota, showing_setup, showing_now_playing
          lastOpen,      \* last_session_open
          seize,         \* SeizeState: owns_screen, title, was_open
          pages, index,  \* active_pages, and carousel.index from 1
          manual,        \* carousel.manual_mode: "off", "set" since the carousel last looked, "on"
          stamped,       \* page_started_ms was set since the carousel last looked
          tick,          \* where the tick stands, and its own local flags
          screen,        \* what the panel shows
          flicked        \* the menu was opened and left between two draws

vars == <<ota, setup, menu, showing, lastOpen, seize,
          pages, index, manual, stamped, tick, screen, flicked>>
carousel == <<pages, index, manual>>

None == "none"
OtaPhases == {"idle", "confirm", "receiving", "writing"}
Rows == <<"Language", "Volume", "WifiSetup", "CheckUpdates">>
Events == {"Next", "Previous", "EnterSetup", "OpenMenu"}
Actions == {None, "LanguageChanged", "VolumeChanged", "EnterWifiSetup",
            "StartUpdateCheck", "StartUpdateInstall"}

owns_screen(phase) == phase \in {"receiving", "writing"}
awaits_confirm(phase) == phase = "confirm"

Page(p)  == <<"Page", p>>
MenuPage == <<"Settings", Rows[menu.focus], menu.offered>>

TypeOK ==
    /\ ota \in OtaPhases /\ setup \in BOOLEAN
    /\ menu \in [showing : BOOLEAN, focus : DOMAIN Rows, offered : BOOLEAN]
    /\ showing \in [ota : BOOLEAN, setup : BOOLEAN, nowPlaying : BOOLEAN]
    /\ lastOpen \in BOOLEAN
    /\ seize \in [owns : BOOLEAN, title : Titles \cup {None}, wasOpen : BOOLEAN]
    /\ index \in Nat /\ manual \in {"off", "set", "on"} /\ stamped \in BOOLEAN /\ flicked \in BOOLEAN
    /\ tick \in [at : {"rest", "buttons", "media", "carousel", "owners"},
                 otaChanged : BOOLEAN, dirty : BOOLEAN, action : Actions]

-----------------------------------------------------------------------------
(* Rendering a carousel page.                                             *)

\* SeizeState{}: what a closed session leaves.
Unseized == [owns |-> FALSE, title |-> None, wasOpen |-> FALSE]

\* The pages begin_cycle() takes from the registry: Home, the now-playing page
\* while a session is open, and the pages whose availability never changes.
registry_pages(open) == <<"Home">> \o (IF open THEN <<"NowPlaying">> ELSE <<>>) \o Optional

\* The pages that render_current() meets from the i-th page of ps on before one
\* that does not fail, and the one it stops at: a page that fails is removed
\* and the next one takes its index.
Wrapped(ps, i) == ((i - 1) % Len(ps)) + 1
Steps(ps, i, failing) ==
    { k \in 0 .. Len(ps) - 1 :
        /\ ps[Wrapped(ps, i + k)] \notin failing
        /\ \A j \in 0 .. k - 1 : ps[Wrapped(ps, i + j)] \in failing }

\* render_current() from the index i of the rotation ps: the frame it leaves,
\* and the rotation without the pages it gave up on for this cycle, which stood from
\* i on, and at the end and the beginning if the index wrapped among them.
RenderCurrent(ps, i, man, failing) ==
    LET k == CHOOSE k \in Steps(ps, i, failing) : TRUE
        n == Len(ps)
    IN  /\ IF i + k <= n
           THEN pages' = SubSeq(ps, 1, i - 1) \o SubSeq(ps, i + k, n) /\ index' = i
           ELSE pages' = SubSeq(ps, i + k - n, i - 1) /\ index' = 1
        /\ manual' = man
        /\ screen' = Page(ps[Wrapped(ps, i + k)])

-----------------------------------------------------------------------------
Init ==
    /\ ota = "idle" /\ setup = FALSE
    /\ menu = [showing |-> FALSE, focus |-> 1, offered |-> FALSE]
    /\ showing = [ota |-> FALSE, setup |-> FALSE, nowPlaying |-> FALSE]
    /\ lastOpen = FALSE /\ seize = Unseized
    /\ pages = registry_pages(FALSE) /\ index = 1 /\ manual = "off"
    /\ stamped = TRUE /\ flicked = FALSE
    /\ tick = [at |-> "rest", otaChanged |-> FALSE, dirty |-> FALSE, action |-> None]
    /\ screen = Page("Home")

-----------------------------------------------------------------------------
(* The tick.                                                              *)

\* Slip: the answer of a release check does not have the menu drawn again.
ConsumeQuietly ==
    /\ tick.at = "rest"
    /\ ota' \in OtaPhases /\ setup' \in BOOLEAN
    /\ \E status \in {None, "offer", "nothing"} :
        menu' = IF status = None THEN menu ELSE [menu EXCEPT !.offered = status = "offer"]
    /\ tick' = [at |-> "buttons", otaChanged |-> ota' # ota, dirty |-> FALSE, action |-> None]
    /\ UNCHANGED <<showing, lastOpen, seize, carousel, stamped, screen, flicked>>

\* The answer of a release check and the snapshot are drained, if they are new
\* and no publisher holds the mutex.
Consume ==
    /\ tick.at = "rest"
    /\ ota' \in OtaPhases /\ setup' \in BOOLEAN
    /\ \E status \in {None, "offer", "nothing"} :
        /\ menu' = IF status = None THEN menu ELSE [menu EXCEPT !.offered = status = "offer"]
        /\ tick' = [at |-> "buttons", otaChanged |-> ota' # ota,
                    dirty |-> status # None, action |-> None]
    /\ UNCHANGED <<showing, lastOpen, seize, carousel, stamped, screen, flicked>>

\* The menu's own buttons: KEY moves, BOOT selects, a long KEY leaves and
\* renders the page the carousel stands on.
MenuButton(e, failing) ==
    CASE e = "EnterSetup" ->
            /\ menu' = [menu EXCEPT !.showing = FALSE]
            /\ stamped' = TRUE
            /\ flicked' = (flicked \/ showing.setup)
            /\ RenderCurrent(pages, index, manual, failing)
            /\ UNCHANGED tick
      [] e = "Previous" ->
            /\ menu' = [menu EXCEPT !.focus = (@ % Len(Rows)) + 1]
            /\ tick' = [tick EXCEPT !.dirty = TRUE]
            /\ UNCHANGED <<carousel, stamped, screen, flicked>>
      [] e = "Next" ->
            /\ tick' = [tick EXCEPT !.dirty = TRUE, !.action =
                          CASE Rows[menu.focus] = "Language"  -> "LanguageChanged"
                            [] Rows[menu.focus] = "Volume"    -> "VolumeChanged"
                            [] Rows[menu.focus] = "WifiSetup" -> "EnterWifiSetup"
                            [] OTHER -> IF menu.offered THEN "StartUpdateInstall"
                                                        ELSE "StartUpdateCheck"]
            /\ UNCHANGED <<menu, carousel, stamped, screen, flicked>>
      [] OTHER -> UNCHANGED <<menu, tick, carousel, stamped, screen, flicked>>

\* carousel::next and carousel::previous.
Turned(e) == IF e = "Next" THEN (index % Len(pages)) + 1
             ELSE IF index = 1 THEN Len(pages) ELSE index - 1

\* One button event.  A prompt takes it as yes or no, a write swallows it, then
\* the menu, the two long presses, an active setup and last the carousel.
Button(e, failing) ==
    /\ tick.at = "buttons"
    /\ CASE awaits_confirm(ota) \/ owns_screen(ota) ->
               UNCHANGED <<menu, tick, carousel, stamped, screen, flicked>>
         [] ~(awaits_confirm(ota) \/ owns_screen(ota)) /\ menu.showing -> MenuButton(e, failing)
         [] ~(awaits_confirm(ota) \/ owns_screen(ota)) /\ ~menu.showing /\ e = "OpenMenu" ->
               /\ menu' = [showing |-> TRUE, focus |-> 1, offered |-> FALSE]
               /\ tick' = [tick EXCEPT !.dirty = TRUE]
               /\ UNCHANGED <<carousel, stamped, screen, flicked>>
         [] OTHER ->
               IF e = "EnterSetup" \/ setup
               THEN UNCHANGED <<menu, tick, carousel, stamped, screen, flicked>>
               ELSE /\ stamped' = TRUE
                    /\ RenderCurrent(pages, Turned(e), "set", failing)
                    /\ UNCHANGED <<menu, tick, flicked>>
    /\ UNCHANGED <<ota, setup, showing, lastOpen, seize>>

NoMoreButtons ==
    /\ tick.at = "buttons"
    /\ tick' = [tick EXCEPT !.at = "media"]
    /\ UNCHANGED <<ota, setup, menu, showing, lastOpen, seize, carousel, stamped,
                   screen, flicked>>

\* The four pages that own the screen for a reason of their own.
takeover_page_owns_screen ==
    setup \/ menu.showing \/ owns_screen(ota) \/ awaits_confirm(ota)

\* seize_tick(): a new session or a new track takes the screen, the hold may
\* run out, a closed session forgets everything.
seize_tick(open, title, expired) ==
    IF ~open THEN Unseized
    ELSE IF ~seize.wasOpen \/ title # seize.title
         THEN [owns |-> TRUE, title |-> title, wasOpen |-> TRUE]
         ELSE [seize EXCEPT !.owns = @ /\ ~expired]

\* Slip: the rotation is rebuilt under an index that stays where it was.
begin_cycle_in_place(open) == <<registry_pages(open), index>>

\* begin_cycle(): the rotation is what the registry offers now, from its top.
begin_cycle(open) == <<registry_pages(open), 1>>

\* The session is compared with the last tick's and the seize is ticked; if the
\* seize owns the screen the page is drawn on a change of owner, of track or of
\* the second; if it has lost the screen, the carousel page is drawn unless a
\* takeover page is about to be.
Media(failing) ==
    /\ tick.at = "media"
    /\ \E open, expired, second \in BOOLEAN, title \in Titles :
        LET next  == seize_tick(open, title, expired)
            cycle == IF open # lastOpen THEN begin_cycle(open) ELSE <<pages, index>>
            owns  == next.owns /\ ~takeover_page_owns_screen
            draws == \/ ~showing.nowPlaying \/ ~seize.owns
                     \/ seize.title # next.title \/ second
            exits == ~owns /\ showing.nowPlaying /\ ~takeover_page_owns_screen
        IN  /\ lastOpen' = open
            /\ seize' = next
            /\ showing' = [showing EXCEPT !.nowPlaying = owns]
            /\ stamped' = (stamped \/ owns \/ exits \/ open # lastOpen)
            /\ IF exits THEN RenderCurrent(cycle[1], cycle[2], manual, failing)
               ELSE /\ pages' = cycle[1] /\ index' = cycle[2] /\ UNCHANGED manual
                    /\ screen' = IF owns /\ draws THEN Page("NowPlaying") ELSE screen
            /\ tick' = [tick EXCEPT !.at = "carousel"]
    /\ UNCHANGED <<ota, setup, menu, flicked>>

\* carousel::tick() when nobody owns the screen: after a dwell the next page,
\* with a new cycle where the rotation wraps; after a pause the first page;
\* then on to the next page that has something to show.  The now-playing page is
\* drawn again where it stands when the volume overlay comes or goes.
Carousel(failing) ==
    /\ tick.at = "carousel"
    /\ tick' = [tick EXCEPT !.at = "owners"]
    /\ \/ /\ stamped' = FALSE
          /\ manual' = IF manual = "set" THEN "on" ELSE manual
          /\ UNCHANGED <<pages, index, screen>>
       \/ /\ ~takeover_page_owns_screen /\ ~showing.nowPlaying
          /\ pages[index] = "NowPlaying"
          /\ RenderCurrent(pages, index, IF manual = "set" THEN "on" ELSE manual, failing)
          /\ stamped' = FALSE
       \/ /\ ~takeover_page_owns_screen /\ ~showing.nowPlaying
          /\ IF manual = "off" THEN ~stamped ELSE manual = "on"
          /\ LET wrapped == manual = "off" /\ index = Len(pages)
                 to      == IF manual = "on" THEN 1 ELSE (index % Len(pages)) + 1
             IN \E relevant \in SUBSET Range(Optional), open \in BOOLEAN :
                  LET cycle == IF wrapped THEN begin_cycle(open) ELSE <<pages, to>>
                      ok == relevant \cup {"Home", "NowPlaying"}
                      k  == CHOOSE k \in Steps(cycle[1], cycle[2], Range(cycle[1]) \ ok) : TRUE
                  IN  RenderCurrent(cycle[1], Wrapped(cycle[1], cycle[2] + k), "off", failing)
          /\ stamped' = TRUE
    /\ UNCHANGED <<ota, setup, menu, showing, lastOpen, seize, flicked>>

EndOfTick == tick' = [at |-> "rest", otaChanged |-> FALSE, dirty |-> FALSE, action |-> None]

\* Slip: an update page that covers the setup page does not say so.
OwnedByUpdateOverSetup ==
    /\ tick.at = "owners" /\ (owns_screen(ota) \/ awaits_confirm(ota))
    /\ screen' = IF ~showing.ota \/ tick.otaChanged THEN <<"Ota", ota>> ELSE screen
    /\ showing' = [showing EXCEPT !.ota = TRUE]
    /\ EndOfTick
    /\ UNCHANGED <<ota, setup, menu, lastOpen, seize, carousel, stamped, flicked>>

\* An update page is up: it is drawn when it was not or when it changed, and the
\* tick ends before any other owner is looked at.
OwnedByUpdate ==
    /\ tick.at = "owners" /\ (owns_screen(ota) \/ awaits_confirm(ota))
    /\ screen' = IF ~showing.ota \/ tick.otaChanged THEN <<"Ota", ota>> ELSE screen
    /\ showing' = [showing EXCEPT !.ota = TRUE, !.setup = FALSE]
    /\ EndOfTick
    /\ UNCHANGED <<ota, setup, menu, lastOpen, seize, carousel, stamped, flicked>>

\* An update page has just ended: the carousel page is drawn, whoever owns the
\* screen, before the rest of the tick.
UpdateEnds(failing) ==
    /\ tick.at = "owners" /\ ~owns_screen(ota) /\ ~awaits_confirm(ota) /\ showing.ota
    /\ showing' = [showing EXCEPT !.ota = FALSE]
    /\ stamped' = TRUE
    /\ RenderCurrent(pages, index, manual, failing)
    /\ UNCHANGED <<ota, setup, menu, lastOpen, seize, tick, flicked>>

\* What the menu asked for is done; then the menu is drawn if it changed, or an
\* active setup if it was not on the screen, or the carousel page if setup ended.
Others(failing) ==
    /\ tick.at = "owners" /\ ~owns_screen(ota) /\ ~awaits_confirm(ota) /\ ~showing.ota
    /\ LET left  == tick.action = "EnterWifiSetup"
           offer == tick.action # "StartUpdateInstall" /\ menu.offered
           open  == menu.showing /\ ~left
       IN  /\ menu' = [menu EXCEPT !.showing = open, !.offered = offer]
           /\ showing' = [showing EXCEPT !.setup = ~open /\ setup]
           /\ CASE open ->
                     /\ screen' = IF tick.dirty THEN <<"Settings", Rows[menu.focus], offer>>
                                                ELSE screen
                     /\ flicked' = FALSE
                     /\ UNCHANGED <<carousel, stamped>>
                [] ~open /\ setup ->
                     /\ screen' = IF showing.setup THEN screen ELSE <<"Setup">>
                     /\ flicked' = (flicked /\ showing.setup)
                     /\ UNCHANGED <<carousel, stamped>>
                [] ~open /\ ~setup /\ showing.setup ->
                     /\ RenderCurrent(pages, index, manual, failing)
                     /\ stamped' = TRUE /\ flicked' = FALSE
                [] OTHER ->
                     /\ flicked' = FALSE
                     /\ UNCHANGED <<carousel, stamped, screen>>
    /\ EndOfTick
    /\ UNCHANGED <<ota, setup, lastOpen, seize>>

Next == \/ Consume \/ NoMoreButtons \/ OwnedByUpdate
        \/ \E failing \in SUBSET Failing :
              \/ \E e \in Events : Button(e, failing)
              \/ Media(failing) \/ Carousel(failing) \/ UpdateEnds(failing) \/ Others(failing)

Spec == Init /\ [][Next]_vars

-----------------------------------------------------------------------------
\* The carousel always stands on a page that is in the rotation, whatever was
\* removed by a failing renderer or by a session that closed: ui_app.cpp:609 and
\* 693 index active_pages without a check.
IndexInPages == index \in DOMAIN pages

\* Between two ticks the panel shows the update page exactly while the snapshot
\* says an update owns the screen or asks, and it shows the phase it is in: no
\* prompt is left standing and no write runs behind another page.  Setup mode,
\* when neither an update nor the menu covers it, is on the panel, and only then
\* (a menu opened and left within one tick is the exception: it leaves the
\* carousel page over the setup page, because showing_setup was never cleared).
OwnerIsSeen ==
    tick.at = "rest" =>
        /\ IF owns_screen(ota) \/ awaits_confirm(ota)
           THEN screen = <<"Ota", ota>> ELSE screen[1] # "Ota"
        /\ (screen = <<"Setup">>) => setup /\ ~menu.showing
        /\ setup /\ ~menu.showing /\ ~owns_screen(ota) /\ ~awaits_confirm(ota)
              => screen = <<"Setup">> \/ flicked

\* Between two ticks, while the menu is open and on the panel, the row it marks and
\* what that row offers are the menu's own: what BOOT acts on unless the next tick
\* reads another answer first.
RowIsAsDrawn ==
    tick.at = "rest" /\ menu.showing /\ screen[1] = "Settings" => screen = MenuPage

\* The hints on the menu's own page are what makes the changed buttons
\* defensible (ui_app.cpp:495): while the menu takes the buttons, the panel
\* shows it or the update page over it. The code does not keep this, and no run
\* asserts it: a prompt that comes and goes leaves the carousel's page there.
MenuIsOnScreen ==
    tick.at = "rest" /\ menu.showing => screen[1] \in {"Settings", "Ota"}

\* A session that closed takes its page off the panel within a tick, as the
\* comment on the rebuilt rotation promises (ui_app.cpp:572-577); no run asserts
\* it: after the hold the page stays until the dwell of Home is over.
ClosedSessionLeaves ==
    tick.at = "rest" /\ ~lastOpen => screen # Page("NowPlaying")
=============================================================================
