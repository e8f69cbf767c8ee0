-------------------------- MODULE ConnectionWindow --------------------------
(***************************************************************************)
(* The connection window of rcw.c: its tabs, its timers and idle sources,  *)
(* and the grab of the keyboard and of the pointer.  Everything runs in    *)
(* the main thread; what is hard is the order in which GTK's events, the   *)
(* timers and the plugins' connect and disconnect signals arrive.          *)
(*                                                                         *)
(* One window exists at a time (opening a tab creates it, the last tab     *)
(* takes it away, a change of view mode replaces it).  A tab is "none",    *)
(* "opening", "on" (connected) or "off" (its error panel is shown).  The   *)
(* seat is the display server's; it is lost as a whole when another client *)
(* takes it, and the server announces that with a crossing event of mode   *)
(* UNGRAB, never while this window still holds the seat.                   *)
(***************************************************************************)
EXTENDS Naturals, FiniteSets

LOCAL INSTANCE TLC

CONSTANTS
    Tabs,         \* the connections that may be opened
    MaxSources    \* bound: sources of one kind that may be pending at once

ASSUME MaxSourcesAssumption == MaxSources \in Nat \ {0}

VARIABLES
    win,          \* the RemminaConnectionWindowPriv, and what GTK knows of it
    tabs,         \* the state of every tab
    grabs,        \* keyboard_grab of every tab's profile
    shown,        \* the visible tab
    spf_tab,      \* the cnnobj that the pending idle source of switch-page holds
    orphans       \* sources still pending when the window they point to was freed

vars == <<win, tabs, grabs, shown, spf_tab, orphans>>

Sources == {"acs", "spf", "grab_retry", "delayed_grab", "ftb_hide", "tar",
            "hidetb", "dwp"}

Seat == {"keyboard", "pointer"}

\* run counts the pending sources of a kind; id tells that the window has the
\* number of one of them in its ..._eventsource field.
NewWindow(mode, pinned) ==
    [alive |-> TRUE, mode |-> mode, pinned |-> pinned, focused |-> FALSE,
     entered |-> FALSE, kb |-> FALSE, ptr |-> FALSE, seat |-> {}, button |-> FALSE,
     id |-> [s \in Sources |-> FALSE], run |-> [s \in Sources |-> 0]]

Open == {t \in Tabs : tabs[t] # "none"}

TypeOK ==
    /\ win \in [alive : BOOLEAN, mode : {"window", "fullscreen"}, pinned : BOOLEAN,
                focused : BOOLEAN, entered : BOOLEAN, kb : BOOLEAN, ptr : BOOLEAN,
                seat : SUBSET Seat, button : BOOLEAN, id : [Sources -> BOOLEAN],
                run : [Sources -> 0 .. MaxSources]]
    /\ tabs \in [Tabs -> {"none", "opening", "on", "off"}]
    /\ grabs \in [Tabs -> BOOLEAN]
    /\ shown \in Tabs
    /\ spf_tab \in Tabs
    /\ orphans \subseteq Sources

Init ==
    /\ win = [NewWindow("window", FALSE) EXCEPT !.alive = FALSE]
    /\ tabs = [t \in Tabs |-> "none"]
    /\ grabs \in [Tabs -> BOOLEAN]
    /\ shown \in Tabs
    /\ spf_tab = shown
    /\ orphans = {}

-----------------------------------------------------------------------------
(* Sources of the main loop                                                *)

g_timeout_add(w, s) == [w EXCEPT !.run[s] = @ + 1, !.id[s] = TRUE]

\* Mutant: the number of a removed source is kept.
g_source_remove_KeepsId(w, s) ==
    IF w.id[s] THEN [w EXCEPT !.run[s] = @ - 1] ELSE w

\* if (id) { g_source_remove(id); id = 0; }
g_source_remove(w, s) ==
    IF w.id[s] THEN [w EXCEPT !.run[s] = @ - 1, !.id[s] = FALSE] ELSE w

\* the callback runs for the last time, and clears the field
Last(w, s) == [w EXCEPT !.run[s] = @ - 1, !.id[s] = FALSE]

-----------------------------------------------------------------------------
(* The grabs                                                               *)

\* Mutant: the delayed grab of the focus handler is left alone.
rcw_kp_ungrab_NotDelayed(w) ==
    LET v == g_source_remove(w, "grab_retry")
    IN IF v.kb \/ v.ptr
       THEN [v EXCEPT !.seat = {}, !.kb = FALSE, !.ptr = FALSE]
       ELSE v

rcw_kp_ungrab(w) ==
    LET v == g_source_remove(g_source_remove(w, "grab_retry"), "delayed_grab")
    IN IF v.kb \/ v.ptr
       THEN [v EXCEPT !.seat = {}, !.kb = FALSE, !.ptr = FALSE]
       ELSE v

\* The flags keep their values here.
rcw_pointer_ungrab(w) == IF w.ptr THEN [w EXCEPT !.seat = {}] ELSE w

rcw_pointer_grab(w) ==
    IF w.ptr THEN {w}
    ELSE {w, [w EXCEPT !.seat = @ \cup {"pointer"}, !.ptr = TRUE]}

\* What the server may answer: no, yes, or there is no keyboard.
rcw_keyboard_grab(w) ==
    IF w.kb THEN {w}
    ELSE {IF w.id["grab_retry"] THEN w ELSE g_timeout_add(w, "grab_retry"),
          [g_source_remove(w, "grab_retry") EXCEPT !.seat = @ \cup {"keyboard"},
                                                   !.kb = TRUE],
          rcw_kp_ungrab(w)}

grab_both(w) == UNION {rcw_pointer_grab(v) : v \in rcw_keyboard_grab(w)}

-----------------------------------------------------------------------------
(* The floating toolbar, which exists in the full screen modes only, with  *)
(* the preference that makes it invisible.                                 *)

rcw_floating_toolbar_show(w, show) ==
    IF w.mode = "window" THEN w
    ELSE IF show \/ w.pinned THEN g_source_remove(w, "ftb_hide")
    ELSE IF w.id["ftb_hide"] THEN w ELSE g_timeout_add(w, "ftb_hide")

Pin ==
    /\ win.alive /\ win.mode = "fullscreen"
    /\ win' = [win EXCEPT !.pinned = ~@]
    /\ UNCHANGED <<tabs, grabs, shown, spf_tab, orphans>>

ShowToolbar ==
    /\ win.alive /\ win.mode = "fullscreen"
    /\ \E show \in BOOLEAN : win' = rcw_floating_toolbar_show(win, show)
    /\ UNCHANGED <<tabs, grabs, shown, spf_tab, orphans>>

MakeInvisible ==
    /\ win.run["ftb_hide"] > 0
    /\ win' = Last(win, "ftb_hide")
    /\ UNCHANGED <<tabs, grabs, shown, spf_tab, orphans>>

FloatingToolbarHide ==
    /\ win.run["hidetb"] > 0
    /\ win' = rcw_floating_toolbar_show(Last(win, "hidetb"), FALSE)
    /\ UNCHANGED <<tabs, grabs, shown, spf_tab, orphans>>

-----------------------------------------------------------------------------
(* Pages of the notebook                                                   *)

\* Mutant: a pending source is kept instead of replaced.
on_switch_page_Kept(w, t) ==
    /\ win' = IF w.id["spf"] THEN w ELSE g_timeout_add(w, "spf")
    /\ spf_tab' = IF w.id["spf"] THEN spf_tab ELSE t
    /\ shown' = t

on_switch_page(w, t) ==
    /\ win' = g_timeout_add(g_source_remove(w, "spf"), "spf")
    /\ spf_tab' = t
    /\ shown' = t

SwitchPageFinalsel ==
    /\ win.run["spf"] > 0
    /\ LET v == rcw_floating_toolbar_show(win, TRUE)
           u == IF v.id["hidetb"] THEN v ELSE g_timeout_add(v, "hidetb")
       IN win' = Last([u EXCEPT !.button = grabs[spf_tab]], "spf")
    /\ UNCHANGED <<tabs, grabs, shown, spf_tab, orphans>>

SwitchTab(t) ==
    /\ win.alive /\ t \in Open \ {shown}
    /\ on_switch_page(win, t)
    /\ UNCHANGED <<tabs, grabs, orphans>>

\* The first tab comes with a window of its own.
AddTab(t) ==
    /\ tabs[t] = "none"
    /\ tabs' = [tabs EXCEPT ![t] = "opening"]
    /\ IF win.alive
       THEN on_switch_page(win, t)
       ELSE \E mode \in {"window", "fullscreen"} :
               on_switch_page(NewWindow(mode, win.pinned), t)
    /\ UNCHANGED <<grabs, orphans>>

\* Mutant: the source that hides the toolbar is forgotten.
rcw_destroy_Forgets(w) ==
    LET v == IF w.kb THEN rcw_kp_ungrab(w) ELSE w
    IN {s \in Sources : v.run[s] > (IF v.id[s] /\ s # "hidetb" THEN 1 ELSE 0)}

\* The sources whose number the window still has go with it.  The window is
\* unmapped, and with it goes what it had grabbed.
rcw_destroy(w) ==
    LET v == IF w.kb THEN rcw_kp_ungrab(w) ELSE w
    IN {s \in Sources : v.run[s] > (IF v.id[s] THEN 1 ELSE 0)}

\* A window changes between a toplevel and a full screen: a new one is made, the
\* pages migrate, and the old one is destroyed with its last page.
SwitchViewmode ==
    /\ win.alive /\ win.focused
    /\ LET mode == IF win.mode = "window" THEN "fullscreen" ELSE "window"
       IN on_switch_page(NewWindow(mode, win.pinned), shown)
    /\ orphans' = orphans \cup rcw_destroy(win)
    /\ UNCHANGED <<tabs, grabs>>

\* rco_closewin: the page goes; GTK shows another one first when it was the
\* visible one; the last page takes the window away.
rco_closewin(w, t) ==
    /\ tabs' = [tabs EXCEPT ![t] = "none"]
    /\ \/ /\ Open \ {t} # {}
          /\ IF shown = t
             THEN \E u \in Open \ {t} : on_switch_page(w, u)
             ELSE win' = w /\ UNCHANGED <<shown, spf_tab>>
          /\ UNCHANGED orphans
       \/ /\ Open = {t}
          /\ orphans' = orphans \cup rcw_destroy(w)
          /\ win' = [NewWindow(w.mode, w.pinned) EXCEPT !.alive = FALSE]
          /\ UNCHANGED <<shown, spf_tab>>

CloseTab(t) ==
    /\ tabs[t] = "off"
    /\ rco_closewin(win, t)
    /\ UNCHANGED grabs

-----------------------------------------------------------------------------
(* The plugin's signals                                                    *)

Connect(t) ==
    /\ tabs[t] = "opening" /\ win.run["dwp"] < MaxSources
    /\ tabs' = [tabs EXCEPT ![t] = "on"]
    /\ LET w == [win EXCEPT !.button = grabs[t]]
       IN \E v \in IF w.entered /\ grabs[t] /\ w.focused THEN grab_both(w) ELSE {w} :
             win' = g_timeout_add(v, "dwp")
    /\ UNCHANGED <<grabs, shown, spf_tab, orphans>>

WindowPresent ==
    /\ win.run["dwp"] > 0
    /\ win' = Last(win, "dwp")
    /\ UNCHANGED <<tabs, grabs, shown, spf_tab, orphans>>

\* Mutant: the seat is not given back.
on_disconnect_KeepsGrab(w) == [w EXCEPT !.button = w.button /\ grabs'[shown]]

\* The grab button is set to "not active" whatever tab it shows.  When that is a
\* change its handler takes it for a click in the visible tab, clears the setting
\* of that tab's profile, and shows again what the profile says.
on_disconnect(w) ==
    LET v == rcw_kp_ungrab(rcw_pointer_ungrab(rcw_kp_ungrab(w)))
    IN [v EXCEPT !.button = w.button /\ grabs'[shown]]

Disconnect(t) ==
    /\ tabs[t] \in {"opening", "on"}
    /\ grabs' = IF win.button /\ tabs[shown] = "on" /\ shown # t
                THEN [grabs EXCEPT ![shown] = FALSE]
                ELSE grabs
    /\ \/ /\ tabs' = [tabs EXCEPT ![t] = "off"]
          /\ win' = on_disconnect(win)
          /\ UNCHANGED <<shown, spf_tab, orphans>>
       \/ rco_closewin(on_disconnect(win), t)

-----------------------------------------------------------------------------
(* The user's events                                                       *)

\* The grab button, or its shortcut key.
ToolbarGrab ==
    /\ win.alive /\ win.focused
    /\ LET capture == ~win.button
           on == tabs[shown] = "on"
       IN /\ grabs' = IF on THEN [grabs EXCEPT ![shown] = capture] ELSE grabs
          /\ \E v \in IF ~(capture /\ on) THEN {rcw_kp_ungrab(win)}
                      ELSE IF win.entered THEN grab_both(win)
                      ELSE rcw_keyboard_grab(win) :
                win' = [v EXCEPT !.button = grabs'[shown]]
    /\ UNCHANGED <<tabs, shown, spf_tab, orphans>>

rcw_focus_in(w) ==
    IF tabs[shown] = "on" /\ grabs[shown] /\ ~w.id["delayed_grab"]
    THEN g_timeout_add(w, "delayed_grab") ELSE w

\* Each of the two handlers may be called twice, see rcw_state_event.
FocusIn ==
    /\ win.alive
    /\ win' = rcw_focus_in([win EXCEPT !.focused = TRUE])
    /\ UNCHANGED <<tabs, grabs, shown, spf_tab, orphans>>

FocusOut ==
    /\ win.alive
    /\ win' = rcw_kp_ungrab([win EXCEPT !.focused = FALSE])
    /\ UNCHANGED <<tabs, grabs, shown, spf_tab, orphans>>

DelayedGrab ==
    /\ win.run["delayed_grab"] > 0
    /\ \E v \in IF win.entered THEN grab_both(win) ELSE {win} :
          win' = g_source_remove(v, "delayed_grab")
    /\ UNCHANGED <<tabs, grabs, shown, spf_tab, orphans>>

\* A failure does not add a source here: the field is cleared afterwards only.
GrabRetry ==
    /\ win.run["grab_retry"] > 0
    /\ \E v \in rcw_keyboard_grab(win) : win' = g_source_remove(v, "grab_retry")
    /\ UNCHANGED <<tabs, grabs, shown, spf_tab, orphans>>

\* The pointer enters the widget of the visible tab.
EnterWidget ==
    /\ win.alive /\ tabs[shown] \in {"opening", "on"}
    /\ \E w \in {win, rcw_floating_toolbar_show(win, FALSE)} :
          \E v \in IF tabs[shown] = "on" /\ grabs[shown] /\ w.focused
                   THEN grab_both(w) ELSE {w} :
             win' = [v EXCEPT !.entered = TRUE]
    /\ UNCHANGED <<tabs, grabs, shown, spf_tab, orphans>>

\* The pointer is in the widget at the end of somebody else's grab.
EnterAfterTheft ==
    /\ win.alive /\ win.seat = {} /\ tabs[shown] \in {"opening", "on"}
    /\ win' = IF tabs[shown] = "on"
              THEN [win EXCEPT !.entered = TRUE, !.kb = FALSE, !.ptr = FALSE]
              ELSE [win EXCEPT !.entered = TRUE]
    /\ UNCHANGED <<tabs, grabs, shown, spf_tab, orphans>>

\* normal: by a motion of the pointer, and not into a child
LeaveWidget ==
    /\ win.alive /\ tabs[shown] \in {"opening", "on"}
    /\ LET v == [g_source_remove(win, "delayed_grab") EXCEPT !.entered = FALSE]
       IN \E normal \in BOOLEAN : win' = IF normal THEN rcw_kp_ungrab(v) ELSE v
    /\ UNCHANGED <<tabs, grabs, shown, spf_tab, orphans>>

LeaveWindow ==
    /\ win.alive
    /\ LET v == g_source_remove(win, "delayed_grab")
       IN win' \in {v, rcw_pointer_ungrab(rcw_kp_ungrab(v))}
    /\ UNCHANGED <<tabs, grabs, shown, spf_tab, orphans>>

Theft ==
    /\ win.seat # {}
    /\ win' = [win EXCEPT !.seat = {}]
    /\ UNCHANGED <<tabs, grabs, shown, spf_tab, orphans>>

Configure ==
    /\ win.alive
    /\ LET v == g_source_remove(win, "acs")
       IN win' = IF v.mode = "window" THEN g_timeout_add(v, "acs") ELSE v
    /\ UNCHANGED <<tabs, grabs, shown, spf_tab, orphans>>

AfterConfigure ==
    /\ win.run["acs"] > 0
    /\ win' = Last(win, "acs")
    /\ UNCHANGED <<tabs, grabs, shown, spf_tab, orphans>>

\* A second click forgets the number of the first source.
Autofit ==
    /\ win.alive /\ win.mode = "window" /\ win.run["tar"] < MaxSources
    /\ win' = g_timeout_add(win, "tar")
    /\ UNCHANGED <<tabs, grabs, shown, spf_tab, orphans>>

AutofitRestore ==
    /\ win.run["tar"] > 0
    /\ win' = Last(win, "tar")
    /\ UNCHANGED <<tabs, grabs, shown, spf_tab, orphans>>

Next ==
    \/ \E t \in Tabs : \/ SwitchTab(t) \/ AddTab(t) \/ CloseTab(t)
                       \/ Connect(t) \/ Disconnect(t)
    \/ Pin \/ ShowToolbar \/ MakeInvisible \/ FloatingToolbarHide
    \/ SwitchPageFinalsel \/ SwitchViewmode \/ WindowPresent
    \/ ToolbarGrab \/ FocusIn \/ FocusOut \/ DelayedGrab \/ GrabRetry
    \/ EnterWidget \/ EnterAfterTheft \/ LeaveWidget \/ LeaveWindow \/ Theft
    \/ Configure \/ AfterConfigure \/ Autofit \/ AutofitRestore

Spec == Init /\ [][Next]_vars

-----------------------------------------------------------------------------
(* Properties                                                              *)

GrabTimers == {"grab_retry", "delayed_grab"}

\* A window that has lost the focus holds neither the keyboard nor the pointer,
\* and no timer will take them again: rcw_kp_ungrab looks at two flags before it
\* gives the seat back, and both timers grab without looking at the focus.
NoGrabUnfocused ==
    ~win.focused => win.seat = {} /\ \A s \in GrabTimers : win.run[s] = 0

\* The keyboard is held, or about to be taken, only while some tab is connected:
\* a grab never outlives the last connection, under its error panel.
GrabNeedsConnection ==
    (win.seat # {} \/ \E s \in GrabTimers : win.run[s] > 0)
        => \E t \in Tabs : tabs[t] = "on"

\* rcw_destroy leaves no source behind that would run on the freed window, but
\* those of the two kinds whose number is overwritten by a second request (see
\* the hazards of rcw_toolbar_autofit and rco_on_connect).
SourcesDieWithWindow == orphans \subseteq {"tar", "dwp"}

\* The idle source of switch-page holds a bare pointer to a tab: it is the one
\* that is visible, and it is still open.
SwitchFindsTab ==
    win.run["spf"] > 0 => spf_tab = shown /\ tabs[spf_tab] # "none"

\* The tabs are alike (for TLC).
Symmetry == Permutations(Tabs)
=============================================================================
