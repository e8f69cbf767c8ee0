---------------------------- MODULE ToolbarState ----------------------------
(***************************************************************************)
(* The tool bar of a connection window and the scale modes of its tabs     *)
(* (rcw.c).  There is one tool bar for all the tabs: rco_update_toolbar    *)
(* sets it for a tab, which need not be the one in view, and the handlers  *)
(* of its buttons act on the tab in view.  An update of the alignment is   *)
(* queued, and puts a frame around the screen of a tab that keeps its      *)
(* aspect ratio, or takes it away.                                         *)
(***************************************************************************)
EXTENDS Naturals

CONSTANTS
    Tabs,           \* the tabs of the window
    Features        \* for each tab, [scale, dynres, viewonly]: what its plugin can do

VARIABLES
    startdynres,    \* remmina_pref.start_dynres
    vis,            \* the tab in view
    pend,           \* the tab whose tool bar the idle source of a switch of tabs sets, or None
    tabs,           \* for each tab: connected ("ended" after it was), dynres_unlocked, scalemode, scaler_expand,
                    \* viewonly of its profile, and aspectframe
    btn,            \* the toggles of the tool bar that are active
    sens,           \* those that are sensitive; "option" is the menu of the scaler
    aligns,         \* the tabs with an update of the alignment in the queue
    shown,          \* history: the tab the tool bar was set for, or None after it was used for
                    \* another
    behind,         \* history: a tab that is not in view has set the tool bar
    stale,          \* history: the tabs put in a mode they cannot do with the tool bar of another
    viewodd         \* history: nothing has set the view-only button to what the profile says

vars == <<startdynres, vis, pend, tabs, btn, sens, aligns, shown, behind, stale, viewodd>>

None == "none"
Modes == {"none", "scaled", "dynres"}
Buttons == {"dynres", "scale", "viewonly"}

TypeOK ==
    /\ startdynres \in BOOLEAN
    /\ vis \in Tabs /\ pend \in Tabs \cup {None} /\ shown \in Tabs \cup {None}
    /\ tabs \in [Tabs -> [connected : {"no", "yes", "ended"}, unlocked : BOOLEAN, mode : Modes,
                          expand : BOOLEAN, viewonly : BOOLEAN, frame : BOOLEAN]]
    /\ btn \subseteq Buttons /\ sens \subseteq Buttons \cup {"option"}
    /\ aligns \subseteq Tabs /\ stale \subseteq Tabs
    /\ behind \in BOOLEAN /\ viewodd \in BOOLEAN

\* get_current_allowed_scale_mode
Allowed(t, mode) ==
    LET wanted == IF startdynres THEN "dynres" ELSE mode
    IN IF \/ wanted = "dynres" /\ ~Features[t].dynres
          \/ wanted = "scaled" /\ ~Features[t].scale
       THEN "none" ELSE wanted

\* A new window: no toggle is active, all are sensitive, and the page that is shown has queued
\* the update of the tool bar.
NewWindow ==
    /\ btn' = {} /\ sens' = Buttons \cup {"option"}
    /\ pend' = vis /\ shown' = None /\ viewodd' = TRUE /\ behind' = FALSE

\* rcw_open_from_file_full: the mode of the profile, as far as the plugin can.
Init ==
    /\ startdynres \in BOOLEAN
    /\ vis \in Tabs /\ pend = vis
    /\ \E mode \in [Tabs -> Modes], expand, viewonly \in BOOLEAN :
          tabs = [t \in Tabs |-> [connected |-> "no", unlocked |-> FALSE,
                     mode |-> Allowed(t, mode[t]), expand |-> expand,
                     viewonly |-> viewonly, frame |-> FALSE]]
    /\ btn = {} /\ sens = Buttons \cup {"option"}
    /\ aligns = {} /\ shown = None /\ behind = FALSE /\ stale = {} /\ viewodd = TRUE

-----------------------------------------------------------------------------

\* rco_update_toolbar, with the tabs as they are then: all but the view-only toggle is set.
Toggles(mode) == (IF mode = "dynres" THEN {"dynres"} ELSE {})
                 \cup (IF mode = "scaled" THEN {"scale"} ELSE {})
rco_update_toolbar(t, now) ==
    LET mode == Allowed(t, now[t].mode)
        can == [dynres |-> Features[t].dynres /\ now[t].unlocked,
                scale |-> Features[t].scale, viewonly |-> Features[t].viewonly]
    IN /\ btn' = (btn \cap {"viewonly"}) \cup Toggles(mode)
       /\ sens' = IF now[t].connected # "yes" THEN {}
                  ELSE {b \in Buttons : can[b]} \cup (IF mode = "scaled" THEN {"option"} ELSE {})
       /\ shown' = t
       /\ behind' = (t # vis)

\* rcw_on_switch_page, and the idle source it leaves.
SwitchPage(t) ==
    /\ t # vis
    /\ vis' = t /\ pend' = t /\ viewodd' = TRUE
    /\ UNCHANGED <<startdynres, tabs, btn, sens, aligns, shown, behind, stale>>

rcw_on_switch_page_finalsel ==
    /\ pend # None
    /\ rco_update_toolbar(pend, tabs)
    /\ pend' = None
    /\ UNCHANGED <<startdynres, vis, tabs, aligns, stale, viewodd>>

\* rcw_switch_viewmode, rcw_migrate: the tabs move to a new window.
Migrate == NewWindow /\ UNCHANGED <<startdynres, vis, tabs, aligns, stale>>

Connected(t) == tabs[t].connected = "yes"

\* rco_on_connect: the plugin asks for the alignment when it knows the size.
Connect(t) ==
    /\ tabs[t].connected = "no"
    /\ LET now == [tabs EXCEPT ![t].connected = "yes"]
       IN tabs' = now /\ rco_update_toolbar(t, now)
    /\ aligns' = aligns \cup {t}
    /\ UNCHANGED <<startdynres, vis, pend, stale, viewodd>>

\* rco_on_disconnect with an error to be shown: the tab stays, the tool bar is left alone.
Disconnect(t) ==
    /\ Connected(t) /\ t \notin aligns
    /\ tabs' = [tabs EXCEPT ![t].connected = "ended"]
    /\ UNCHANGED <<startdynres, vis, pend, btn, sens, aligns, shown, behind, stale, viewodd>>

\* rco_on_lock_dynres, rco_on_unlock_dynres: the server can change its resolution, or not.
LockDynres(t, unlocked) ==
    /\ Connected(t) /\ Features[t].dynres
    /\ LET now == [tabs EXCEPT ![t].unlocked = unlocked]
       IN tabs' = now /\ rco_update_toolbar(t, now)
    /\ UNCHANGED <<startdynres, vis, pend, aligns, stale, viewodd>>

\* rco_change_scalemode, on the tab in view.
rco_change_scalemode(dyn, scale) ==
    LET mode == IF dyn THEN "dynres" ELSE IF scale THEN "scaled" ELSE "none"
    IN /\ tabs' = [tabs EXCEPT ![vis].mode = mode]
       /\ sens' = IF mode = "scaled" THEN sens \cup {"option"} ELSE sens \ {"option"}
       /\ aligns' = IF Features[vis].scale THEN aligns \cup {vis} ELSE aligns
       /\ stale' = IF shown # vis /\ Allowed(vis, mode) # mode
                   THEN stale \cup {vis} ELSE stale \ {vis}

Used == shown' = IF shown = vis THEN shown ELSE None
Flip(b) == IF b \in btn THEN btn \ {b} ELSE btn \cup {b}

\* What is active when b has become so: the handler releases the other one, whose own handler
\* runs before it goes on, with the same result.
Exclusive_Both(b, active) == active
Exclusive(b, active) ==
    IF b \notin active THEN active
    ELSE active \ (IF b = "dynres" THEN {"scale"} ELSE {"dynres"})

\* rcw_toolbar_dynres: only for a tab that is connected.
rcw_toolbar_dynres ==
    /\ "dynres" \in sens
    /\ IF Connected(vis)
       THEN /\ btn' = Exclusive("dynres", Flip("dynres"))
            /\ rco_change_scalemode("dynres" \in btn', "scale" \in btn')
       ELSE btn' = Flip("dynres") /\ UNCHANGED <<tabs, sens, aligns, stale>>
    /\ Used
    /\ UNCHANGED <<startdynres, vis, pend, behind, viewodd>>

\* rcw_toolbar_scaled_mode: with or without a connection.
rcw_toolbar_scaled_mode ==
    /\ "scale" \in sens
    /\ btn' = Exclusive("scale", Flip("scale"))
    /\ rco_change_scalemode("dynres" \in btn', "scale" \in btn')
    /\ Used
    /\ UNCHANGED <<startdynres, vis, pend, behind, viewodd>>

\* rcw_toolbar_viewonly_mode: for a tab that is not connected a variable without a value is
\* stored.
rcw_toolbar_viewonly_mode ==
    /\ "viewonly" \in sens
    /\ btn' = Flip("viewonly")
    /\ \E active \in BOOLEAN :
          /\ Connected(vis) => active = ("viewonly" \in btn')
          /\ tabs' = [tabs EXCEPT ![vis].viewonly = active]
    /\ viewodd' = ~Connected(vis)
    /\ UNCHANGED <<startdynres, vis, pend, sens, aligns, shown, behind, stale>>

\* rcw_hostkey_func, the shortcut: the profile is changed, the button is not.
ViewonlyShortcut ==
    /\ Connected(vis)
    /\ tabs' = [tabs EXCEPT ![vis].viewonly = ~@]
    /\ viewodd' = TRUE
    /\ UNCHANGED <<startdynres, vis, pend, btn, sens, aligns, shown, behind, stale>>

\* remmina_protocol_widget_update_alignment
Framed(t, now) ==
    [now EXCEPT ![t].frame =
        IF Features[t].scale THEN Allowed(t, now[t].mode) = "scaled" /\ ~now[t].expand ELSE @]

\* rcw_scaler_expand, rcw_scaler_keep_aspect: the menu of the scaler.
Scaler(expand) ==
    /\ "option" \in sens
    /\ tabs' = Framed(vis, [tabs EXCEPT ![vis].expand = expand])
    /\ UNCHANGED <<startdynres, vis, pend, btn, sens, aligns, shown, behind, stale, viewodd>>

UpdateAlign(t) ==
    /\ t \in aligns
    /\ aligns' = aligns \ {t}
    /\ tabs' = Framed(t, tabs)
    /\ UNCHANGED <<startdynres, vis, pend, btn, sens, shown, behind, stale, viewodd>>

Next ==
    \/ rcw_on_switch_page_finalsel \/ Migrate
    \/ rcw_toolbar_dynres \/ rcw_toolbar_scaled_mode
    \/ rcw_toolbar_viewonly_mode \/ ViewonlyShortcut
    \/ \E t \in Tabs : SwitchPage(t) \/ Connect(t) \/ Disconnect(t) \/ UpdateAlign(t)
    \/ \E t \in Tabs, b \in BOOLEAN : LockDynres(t, b)
    \/ \E b \in BOOLEAN : Scaler(b)

Spec == Init /\ [][Next]_vars

-----------------------------------------------------------------------------

\* With nothing queued the tool bar is that of the tab in view, but after a tab in the
\* background has connected, or its server has changed what it allows.
BarFollows == pend = None /\ shown # vis => behind

\* The two toggles of the scale mode say the mode the tab in view is in, when the tool bar is
\* its own (with start_dynres they are set to a mode the tab need not be in).
TogglesTell ==
    shown = vis /\ Connected(vis) /\ ~startdynres =>
        btn \ {"viewonly"} = Toggles(Allowed(vis, tabs[vis].mode))

\* A tab is in a mode its plugin can do, but where the user has used a tool bar that was not
\* yet, or no longer, its own.
ModePossible == \A t \in Tabs : t \notin stale => Allowed(t, tabs[t].mode) = tabs[t].mode \/ startdynres

\* The view-only button says what the profile of the tab in view does, once it was used: a
\* new window, another tab and the shortcut leave it as it is.
ViewonlyTold == ~viewodd => ("viewonly" \in btn <=> tabs[vis].viewonly)

\* When the queue is empty there is a frame around a screen that is scaled and keeps its
\* aspect ratio, and around no other.
FrameRight ==
    \A t \in Tabs \ aligns : Connected(t) /\ Features[t].scale =>
        (tabs[t].frame <=> Allowed(t, tabs[t].mode) = "scaled" /\ ~tabs[t].expand)
=============================================================================
