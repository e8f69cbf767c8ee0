----------------------------- MODULE MessagePanels -----------------------------
(***************************************************************************)
(* The message panels of a tab: rco_show_message_panel and                 *)
(* rco_destroy_message_panel of src/rcw.c, the migration of a tab to another *)
(* window, and the dialogs that src/remmina_protocol_widget.c runs in a     *)
(* panel.                                                                  *)
(*                                                                         *)
(* A dialog asked for by the main thread runs a nested main loop, like      *)
(* gtk_dialog_run; the panel leaving the screen ends it.  A dialog asked for *)
(* by a plugin thread is set up by an idle source, and the thread waits on a *)
(* condition that the callback of the panel signals.                       *)
(***************************************************************************)
EXTENDS Naturals, Sequences

CONSTANT Panels     \* the panels, made once each

None == "none"

Answers == {"ok", "cancel"}

VARIABLES
    page,           \* the tab is there (and gp->cnnobj)
    box,            \* its panels, in the order of the GtkBox
    visible,        \* the panels that are visible
    auth,           \* gp->priv->auth_message_panel
    loop,           \* nested loop of a dialog of the main thread
    response,       \* mpri.response
    thread,         \* the plugin thread in remmina_protocol_widget_dialog
    setup,          \* remmina_protocol_widget_dialog_mt_setup is queued
    button,         \* d->rcbutton: what the thread will return
    crashed         \* gp->cnnobj, NULL, was followed

tab == <<page, box, visible>>
main == <<loop, response>>
sub == <<thread, setup, button>>
vars == <<tab, auth, main, sub, crashed>>

InBox == {box[i] : i \in DOMAIN box}

TypeOK ==
    /\ page \in BOOLEAN
    /\ box \in Seq(Panels)
    /\ visible \in SUBSET Panels
    /\ auth \in Panels \cup {None}
    /\ loop \in {"none", "running", "quit"}
    /\ response \in Answers
    /\ thread \in {"away", "posted", "waiting", "woken", "ended"}
    /\ setup \in BOOLEAN
    /\ button \in Answers \cup {None}
    /\ crashed \in BOOLEAN

Init ==
    /\ page = TRUE /\ box = <<>> /\ visible = {} /\ auth = None
    /\ loop = "none" /\ response = "cancel"
    /\ thread = "away" /\ setup = FALSE /\ button = None
    /\ crashed = FALSE

-----------------------------------------------------------------------------
Last(s) == s[Len(s)]

\* The positions of p, and the box without position i.
At(p) == {i \in DOMAIN box : box[i] = p}
Without(i) == SubSeq(box, 1, i - 1) \o SubSeq(box, i + 1, Len(box))

\* The panels in gone leave the screen: run_unmap_handler, or
\* run_destroy_handler, if the dialog of the main thread is one of them.
Unmapped(gone) ==
    IF loop = "running" /\ auth \in gone
    THEN loop' = "quit" /\ response' = "cancel"
    ELSE UNCHANGED main

\* Mutant: the other panels are not hidden.
show_message_panel_NoHide(p) ==
    /\ box' = <<p>> \o box
    /\ visible' = visible \cup {p}

\* rco_show_message_panel: the panel goes to the top and is the only visible one.
show_message_panel(p) ==
    /\ box' = <<p>> \o box
    /\ visible' = {p}

\* Mutant: lastPanel is shown when there is none.
destroy_message_panel_NoCheck(p) ==
    IF At(p) = {} THEN UNCHANGED <<box, visible>>
    ELSE \E i \in At(p) :
            /\ box' = Without(i)
            /\ visible' = IF p \notin visible THEN visible
                          ELSE {IF box' = <<>> THEN None ELSE Last(box')}

\* Mutant: the last panel goes instead of the one asked for.
destroy_message_panel_Last(p) ==
    IF At(p) = {} THEN UNCHANGED <<box, visible>>
    ELSE /\ box' = Without(Len(box))
         /\ visible' = IF box' = <<>> THEN {} ELSE {Last(box')}

\* rco_destroy_message_panel: when the panel was visible the last child of the
\* box, which is the oldest panel, is shown; a panel that is not on the page gets
\* a warning.
destroy_message_panel(p) ==
    IF At(p) = {} THEN UNCHANGED <<box, visible>>
    ELSE \E i \in At(p) :
            /\ box' = Without(i)
            /\ visible' =
                  IF p \notin visible THEN visible
                  ELSE (visible \ {p}) \cup
                          (IF box' = <<>> THEN {} ELSE {Last(box')})

Fresh == Panels \ InBox

\* The dialog of a thread is on the screen.
Asked == thread \in {"posted", "waiting"} /\ ~setup /\ button = None

\* A handler of the main loop, nested or not, shows a panel: the progress of the
\* connection, an error, a retry.
ShowPanel(p) ==
    /\ page /\ loop # "quit"
    /\ p \in Fresh
    /\ show_message_panel(p)
    /\ Unmapped(visible)
    /\ UNCHANGED <<page, auth, sub, crashed>>

\* And destroys one, or asks for one that is not there.
DestroyPanel(p) ==
    /\ page /\ loop # "quit"
    /\ p = auth => loop = "none" /\ ~Asked
    /\ destroy_message_panel(p)
    /\ UNCHANGED <<page, auth, main, sub, crashed>>

\* Mutant: the panels are not taken from the old page.
Migrate_Copies ==
    /\ page /\ loop # "quit"
    /\ box' = [i \in DOMAIN box |-> box[Len(box) + 1 - i]] \o box
    /\ Unmapped(visible)
    /\ UNCHANGED <<page, visible, auth, sub, crashed>>

\* nb_migrate_message_panels: each panel goes to the top of the new page.  The
\* removal from the old one unmaps them.
Migrate ==
    /\ page /\ loop # "quit"
    /\ box' = [i \in DOMAIN box |-> box[Len(box) + 1 - i]]
    /\ Unmapped(visible)
    /\ UNCHANGED <<page, visible, auth, sub, crashed>>

\* rco_closewin: the page goes with its panels.  A plugin that stops its thread
\* has done so before; the thread of another plugin goes on.
ClosePage ==
    /\ page /\ loop # "quit"
    /\ page' = FALSE /\ box' = <<>> /\ visible' = {}
    /\ Unmapped(InBox)
    /\ \/ thread' = "ended" /\ setup' = setup /\ button' = button
       \/ UNCHANGED sub
    /\ UNCHANGED <<auth, crashed>>

\* remmina_protocol_widget_dialog in the main thread.
RunDialog(p) ==
    /\ page /\ loop = "none" /\ thread \in {"away", "ended"}
    /\ p \in Fresh
    /\ show_message_panel(p)
    /\ auth' = p
    /\ loop' = "running" /\ response' = "cancel"
    /\ UNCHANGED <<page, sub, crashed>>

\* The user answers: authpanel_mt_cb emits "response".
Answer(a) ==
    /\ loop = "running"
    /\ auth \in visible
    /\ loop' = "quit" /\ response' = a
    /\ UNCHANGED <<tab, auth, sub, crashed>>

\* The nested loop returns and the panel is destroyed, through gp->cnnobj.
EndDialog ==
    /\ loop = "quit"
    /\ loop' = "none"
    /\ IF page THEN destroy_message_panel(auth) /\ UNCHANGED crashed
               ELSE crashed' = TRUE /\ UNCHANGED <<box, visible>>
    /\ UNCHANGED <<page, auth, response, sub>>

\* remmina_protocol_widget_dialog in a plugin thread.
PostDialog ==
    /\ thread = "away" /\ page /\ loop = "none"
    /\ thread' = "posted" /\ setup' = TRUE /\ button' = None
    /\ UNCHANGED <<tab, auth, main, crashed>>

Wait ==
    /\ thread = "posted"
    /\ thread' = "waiting"
    /\ UNCHANGED <<tab, auth, main, setup, button, crashed>>

\* remmina_protocol_widget_dialog_mt_setup: nothing when there is no tab.
SetupDialog(p) ==
    /\ setup /\ loop # "quit"
    /\ setup' = FALSE
    /\ IF page
       THEN p \in Fresh /\ show_message_panel(p) /\ auth' = p
       ELSE UNCHANGED <<box, visible, auth>>
    /\ UNCHANGED <<page, main, thread, button, crashed>>

\* authpanel_mt_cb for a thread: a signal nobody waits for is lost.
AnswerThread(a) ==
    /\ loop = "none" /\ Asked
    /\ auth \in visible
    /\ button' = a
    /\ destroy_message_panel(auth)
    /\ thread' = IF thread = "waiting" THEN "woken" ELSE thread
    /\ UNCHANGED <<page, auth, main, setup, crashed>>

Return ==
    /\ thread = "woken"
    /\ thread' = "away"
    /\ UNCHANGED <<tab, auth, main, setup, button, crashed>>

Next ==
    /\ ~crashed
    /\ \/ \E p \in Panels :
             ShowPanel(p) \/ DestroyPanel(p) \/ RunDialog(p) \/ SetupDialog(p)
       \/ \E a \in Answers : Answer(a) \/ AnswerThread(a)
       \/ Migrate \/ ClosePage \/ EndDialog \/ PostDialog \/ Wait \/ Return

Spec == Init /\ [][Next]_vars

-----------------------------------------------------------------------------
(* Properties.                                                             *)

\* "Each cnnobj->page can have more than one RemminaMessagePanel, but 0 or 1 are
\* visible" (rcw.c), and none only when there is no panel: no panel is left
\* behind where the user cannot reach it.
OneVisible ==
    IF box = <<>> THEN visible = {} ELSE \E p \in InBox : visible = {p}

\* No panel is twice on the page: the one that is destroyed is gone.
NoDuplicates == \A i, j \in DOMAIN box : box[i] = box[j] => i = j

\* The panel of a dialog stays on the page as long as the answer is awaited, so
\* that the user can give it.
DialogOnPage ==
    /\ loop = "running" => page /\ auth \in visible
    /\ page /\ Asked => auth \in InBox
=============================================================================
