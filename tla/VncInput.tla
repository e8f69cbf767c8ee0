-------------------------------- MODULE VncInput --------------------------------
(***************************************************************************)
(* What the keyboard and the mouse send to a VNC server                    *)
(* (plugins/vnc/vnc_plugin.c): the list of the keys that were pressed, the *)
(* mask of the buttons, the wheel that is buttons 4 to 7, and the keymap   *)
(* of the profile (src/remmina_pref.c).  The queue between the main thread *)
(* and the server keeps the order (module VncSession), so an event pushed  *)
(* here has reached the server.                                            *)
(***************************************************************************)
EXTENDS Integers, Sequences

CONSTANTS
    Keyvals,        \* what a key means to GDK and to the server
    Keycodes,       \* the keys of the keyboard
    Buttons,        \* the buttons of the mouse that are used, of 1 .. 3
    MaxPressed      \* bound: length of the list of pressed keys

VARIABLES
    keymap,         \* the keymap of the profile
    viewonly,       \* the setting of the profile, which the user may toggle
    pressed_keys,   \* the list of what was pressed, with what was sent for it
    button_mask,    \* buttons, as the plugin remembers them
    scroll,         \* the accumulators of a smooth wheel, in half steps
    server,         \* what the server takes to be down
    user            \* what the user holds; what was let go unseen

vars == <<keymap, viewonly, pressed_keys, button_mask, scroll, server, user>>

WheelButtons == 4 .. 7

TypeOK ==
    /\ keymap \in [Keyvals -> Keyvals]
    /\ viewonly \in BOOLEAN
    /\ pressed_keys \in Seq([keyval : Keyvals, keycode : Keycodes])
    /\ Len(pressed_keys) <= MaxPressed
    /\ button_mask \subseteq Buttons
    /\ scroll \in [x : -1 .. 1, y : -1 .. 1]
    /\ server \in [keys : SUBSET Keyvals, mask : SUBSET (Buttons \cup WheelButtons)]
    /\ user \in [held : SUBSET Buttons, unseen : SUBSET Buttons]

Init ==
    /\ keymap \in [Keyvals -> Keyvals]
    /\ viewonly = FALSE
    /\ pressed_keys = <<>>
    /\ button_mask = {}
    /\ scroll = [x |-> 0, y |-> 0]
    /\ server = [keys |-> {}, mask |-> {}]
    /\ user = [held |-> {}, unseen |-> {}]

\* remmina_pref_keymap_get_keyval: the first entry of the table, or the key itself.
\* remmina_pref_init_keymap has read the table from a file or from default_keymap_data.
keymap_get_keyval(v) == keymap[v]

\* event_push with a key event, and SendKeyEvent
SendKey(v, down) ==
    server' = [server EXCEPT !.keys = IF down THEN @ \cup {v} ELSE @ \ {v}]

\* event_push with a pointer event, and SendPointerEvent
SendPointer(mask) == server' = [server EXCEPT !.mask = mask]

-----------------------------------------------------------------------------

\* g_ptr_array_remove_index_fast: the last element takes the place.
RemoveFast(s, i) ==
    LET n == Len(s)
    IN  [j \in 1 .. n - 1 |-> IF j = i THEN s[n] ELSE s[j]]

\* The first entry of a key in the list, 0 if there is none
FirstOf(code) ==
    LET at == {i \in 1 .. Len(pressed_keys) : pressed_keys[i].keycode = code}
    IN  IF at = {} THEN 0 ELSE CHOOSE i \in at : \A j \in at : i <= j

\* remmina_plugin_vnc_release_key, with a keycode: it leaves the list
release_key(code) ==
    pressed_keys' =
        IF FirstOf(code) = 0 THEN pressed_keys ELSE RemoveFast(pressed_keys, FirstOf(code))

\* remmina_plugin_vnc_on_key, a key goes down
KeyPress(code, v) ==
    /\ ~viewonly /\ Len(pressed_keys) < MaxPressed
    /\ SendKey(keymap_get_keyval(v), TRUE)
    /\ pressed_keys' = Append(pressed_keys, [keyval |-> keymap_get_keyval(v), keycode |-> code])
    /\ scroll' = [x |-> 0, y |-> 0]
    /\ UNCHANGED <<keymap, viewonly, button_mask, user>>

\* Mutant: the keyval of the event is taken.
ReleasedKeyval_Event(code, v) == keymap_get_keyval(v)

\* What on_key takes for the keyval of a released key: what it has sent for it.
\* The keymap is applied to that once more.
ReleasedKeyval(code, v) ==
    keymap_get_keyval(IF FirstOf(code) = 0 THEN v ELSE pressed_keys[FirstOf(code)].keyval)

\* remmina_plugin_vnc_on_key, a key goes up
KeyRelease(code, v) ==
    /\ ~viewonly
    /\ SendKey(ReleasedKeyval(code, v), FALSE)
    /\ release_key(code)
    /\ scroll' = [x |-> 0, y |-> 0]
    /\ UNCHANGED <<keymap, viewonly, button_mask, user>>

\* remmina_plugin_vnc_release_key(gp, 0), called by the feature UNFOCUS when the
\* connection window loses the keyboard: all that is listed is released.
Unfocus ==
    /\ server' = [server EXCEPT !.keys = @ \ {pressed_keys[i].keyval : i \in 1 .. Len(pressed_keys)}]
    /\ pressed_keys' = <<>>
    /\ UNCHANGED <<keymap, viewonly, button_mask, scroll, user>>

-----------------------------------------------------------------------------

\* remmina_plugin_vnc_on_motion
Motion ==
    /\ ~viewonly
    /\ SendPointer(button_mask)
    /\ UNCHANGED <<keymap, viewonly, pressed_keys, button_mask, scroll, user>>

\* remmina_plugin_vnc_on_button: not in a session that is only viewed.
Button(b, down) ==
    /\ down <=> b \notin user.held
    /\ user' = [held |-> IF down THEN user.held \cup {b} ELSE user.held \ {b},
                unseen |-> IF viewonly THEN user.unseen \cup {b} ELSE user.unseen \ {b}]
    /\ IF viewonly
       THEN UNCHANGED <<button_mask, server>>
       ELSE /\ button_mask' = (IF down THEN button_mask \cup {b} ELSE button_mask \ {b})
            /\ SendPointer(button_mask')
    /\ UNCHANGED <<keymap, viewonly, pressed_keys, scroll>>

\* delta_to_mask: the new accumulator, and the buttons of the wheel
Accumulated(accum, delta) == IF accum + delta \in -1 .. 1 THEN accum + delta ELSE 0
delta_to_mask(accum, delta, plus, minus) ==
    IF accum + delta >= 2 THEN {plus} ELSE IF accum + delta <= -2 THEN {minus} ELSE {}

\* Mutant: the wheel is not let go.
Click_Held(wheel) == server' = [server EXCEPT !.mask = button_mask \cup wheel]

\* The wheel is pressed and let go.
Click(wheel) == server' = [server EXCEPT !.mask = button_mask]

\* remmina_plugin_vnc_on_scroll, a wheel with steps
Scroll(b) ==
    /\ ~viewonly
    /\ scroll' = IF b \in {4, 5} THEN [scroll EXCEPT !.y = 0] ELSE [scroll EXCEPT !.x = 0]
    /\ Click({b})
    /\ UNCHANGED <<keymap, viewonly, pressed_keys, button_mask, user>>

\* remmina_plugin_vnc_on_scroll, a smooth wheel
SmoothScroll(dx, dy) ==
    LET wheel == delta_to_mask(scroll.y, dy, 5, 4) \cup delta_to_mask(scroll.x, dx, 7, 6)
    IN  /\ ~viewonly
        /\ scroll' = [x |-> Accumulated(scroll.x, dx), y |-> Accumulated(scroll.y, dy)]
        /\ IF wheel = {} THEN UNCHANGED server ELSE Click(wheel)
        /\ UNCHANGED <<keymap, viewonly, pressed_keys, button_mask, user>>

\* remmina_plugin_vnc_call_feature with VIEWONLY
ToggleViewonly ==
    /\ viewonly' = ~viewonly
    /\ UNCHANGED <<keymap, pressed_keys, button_mask, scroll, server, user>>

Next ==
    \/ \E c \in Keycodes, v \in Keyvals : KeyPress(c, v) \/ KeyRelease(c, v)
    \/ Unfocus \/ Motion \/ ToggleViewonly
    \/ \E b \in Buttons, down \in BOOLEAN : Button(b, down)
    \/ \E b \in WheelButtons : Scroll(b)
    \/ \E dx, dy \in -1 .. 2 : SmoothScroll(dx, dy)

Spec == Init /\ [][Next]_vars

-----------------------------------------------------------------------------

Idempotent == \A v \in Keyvals : keymap[keymap[v]] = keymap[v]
Listed == {pressed_keys[i].keyval : i \in 1 .. Len(pressed_keys)}

\* With a keymap that changes nothing when it is applied twice, a key that is down at the
\* server is in the list, so that the loss of the focus releases it: whatever keys were
\* repeated, renamed by a modifier between press and release, or let go unseen.
KeysListed == Idempotent => server.keys \subseteq Listed

\* A button that is down at the server is held by the user, or was let go while the
\* session was only viewed; the wheel is never held.
ButtonsHeld == server.mask \subseteq user.held \cup user.unseen

\* A key is released under the keyval it was pressed with, when it was pressed once
\* ("try first to find out a previously sent keyval", on_key).
ReleasesWhatItSent ==
    [][\A c \in Keycodes, v \in Keyvals :
        KeyRelease(c, v) /\ Len(pressed_keys) = 1 /\ FirstOf(c) = 1
            => pressed_keys[1].keyval \notin server'.keys]_vars
=============================================================================
