-------------------------------- MODULE RdpInput --------------------------------
(***************************************************************************)
(* What the keyboard and the mouse send to an RDP server                   *)
(* (plugins/rdp/rdp_event.c).  The events go through a queue that keeps    *)
(* their order (module RdpSession), so an event pushed here has reached    *)
(* the server.  While the session reconnects nothing is pushed.            *)
(***************************************************************************)
EXTENDS Integers, Sequences

CONSTANTS
    Codes,          \* scan codes of keys, as the server knows them; not 0
    Chars,          \* characters that are sent as such, with the client's keymap
    Buttons,        \* the buttons of the mouse that are used
    MaxPressed      \* bound: length of the list of pressed keys

VARIABLES
    rfi,            \* connected, is_reconnecting, use_client_keymap, viewonly
    pressed_keys,   \* the list of what was pressed
    server,         \* scan codes and characters that are down at the server, buttons
    user,           \* the buttons that the user holds; let go unseen
    junk            \* an uninitialised field took a scan code from the list

vars == <<rfi, pressed_keys, server, user, junk>>

Keys == [type : {"code", "char"}, code : Codes \cup {0}, char : Chars \cup {0}]

TypeOK ==
    /\ rfi \in [connected : BOOLEAN, reconnecting : BOOLEAN, client_keymap : BOOLEAN,
                viewonly : BOOLEAN]
    /\ pressed_keys \in Seq(Keys) /\ Len(pressed_keys) <= MaxPressed
    /\ server \in [codes : SUBSET Codes, chars : SUBSET Chars, buttons : SUBSET Buttons]
    /\ user \in [held : SUBSET Buttons, unseen : SUBSET Buttons]
    /\ junk \in BOOLEAN

\* remmina_rdp_event_init
Init ==
    /\ rfi \in [connected : {FALSE}, reconnecting : {FALSE}, client_keymap : BOOLEAN,
                viewonly : {FALSE}]
    /\ pressed_keys = <<>>
    /\ server = [codes |-> {}, chars |-> {}, buttons |-> {}]
    /\ user = [held |-> {}, unseen |-> {}]
    /\ junk = FALSE

\* The guard of nearly every handler
Ready == rfi.connected /\ ~rfi.reconnecting

\* The session connects; the connection to the server is lost and comes back (rf_auto_reconnect).
Connect ==
    /\ ~rfi.connected
    /\ rfi' = [rfi EXCEPT !.connected = TRUE]
    /\ UNCHANGED <<pressed_keys, server, user, junk>>
Reconnecting ==
    /\ rfi.connected
    /\ rfi' = [rfi EXCEPT !.reconnecting = ~@]
    /\ UNCHANGED <<pressed_keys, server, user, junk>>

ToggleViewonly ==
    /\ rfi' = [rfi EXCEPT !.viewonly = ~@]
    /\ UNCHANGED <<pressed_keys, server, user, junk>>

-----------------------------------------------------------------------------
(* Keys.                                                                   *)

\* event_push, and KeyboardEvent or UnicodeKeyboardEvent in rf_process_event_queue
PushKey(key, up) ==
    server' =
        IF key.type = "code"
        THEN [server EXCEPT !.codes = IF up THEN @ \ {key.code} ELSE @ \cup {key.code}]
        ELSE [server EXCEPT !.chars = IF up THEN @ \ {key.char} ELSE @ \cup {key.char}]

\* g_array_remove_index_fast: the last element takes the place.
RemoveFast(s, i) ==
    LET n == Len(s)
    IN  [j \in 1 .. n - 1 |-> IF j = i THEN s[n] ELSE s[j]]

\* remmina_rdp_event_release_key: the first entry that has both codes; which of the two
\* was sent is not compared.
Matching(key) ==
    {i \in 1 .. Len(pressed_keys) :
        pressed_keys[i].code = key.code /\ pressed_keys[i].char = key.char}
release_key(key) ==
    IF Matching(key) = {}
    THEN UNCHANGED <<pressed_keys, junk>>
    ELSE LET i == CHOOSE i \in Matching(key) : \A j \in Matching(key) : i <= j
         IN  /\ pressed_keys' = RemoveFast(pressed_keys, i)
             /\ junk' = (junk \/ pressed_keys[i].type # key.type)

\* Mutant: the list is only written when a key goes up.
keypress_list_add_Up(key, up) ==
    IF up THEN release_key(key) ELSE UNCHANGED <<pressed_keys, junk>>

\* keypress_list_add: nothing, when the code is 0.
keypress_list_add(key, up) ==
    IF key.code = 0
    THEN UNCHANGED <<pressed_keys, junk>>
    ELSE IF up
         THEN release_key(key)
         ELSE pressed_keys' = Append(pressed_keys, key) /\ UNCHANGED junk

\* remmina_rdp_event_on_key.  rdp_event is not initialised: the field of the code that is
\* not sent holds anything.  The codes are those after init_keymap and the remapping; the
\* key Pause goes down and up in one call and is not listed.
on_key(up) ==
    /\ Ready /\ ~rfi.viewonly
    /\ up \/ Len(pressed_keys) < MaxPressed
    /\ \E key \in Keys :
           /\ \/ key.type = "code" /\ key.code # 0
              \/ key.type = "char" /\ key.char # 0 /\ rfi.client_keymap
           /\ PushKey(key, up)
           /\ keypress_list_add(key, up)
    /\ UNCHANGED <<rfi, user>>

\* remmina_rdp_event_unfocus and release_all_keys
Unfocus ==
    /\ Ready
    /\ server' = [server EXCEPT
           !.codes = @ \ {pressed_keys[i].code : i \in {j \in 1 .. Len(pressed_keys) :
                                                        pressed_keys[j].type = "code"}},
           !.chars = @ \ {pressed_keys[i].char : i \in {j \in 1 .. Len(pressed_keys) :
                                                        pressed_keys[j].type = "char"}}]
    /\ pressed_keys' = <<>>
    /\ UNCHANGED <<rfi, user, junk>>

\* remmina_rdp_event_on_focus_in: the locks are made equal, and Tab (0x0F) is released.
FocusIn(tab) ==
    /\ Ready
    /\ server' = [server EXCEPT !.codes = @ \ {tab}]
    /\ UNCHANGED <<rfi, pressed_keys, user, junk>>

-----------------------------------------------------------------------------
(* Mouse.                                                                  *)

\* remmina_rdp_event_on_button: seen unless the session is only viewed; what is pushed
\* while it reconnects is dropped.
Button(b, down) ==
    LET seen == ~rfi.viewonly /\ Ready
    IN  /\ down <=> b \notin user.held
        /\ user' = [held |-> IF down THEN user.held \cup {b} ELSE user.held \ {b},
                    unseen |-> IF seen THEN user.unseen \ {b} ELSE user.unseen \cup {b}]
        /\ server' = IF ~seen THEN server
                     ELSE [server EXCEPT !.buttons = IF down THEN @ \cup {b} ELSE @ \ {b}]
        /\ UNCHANGED <<rfi, pressed_keys, junk>>

-----------------------------------------------------------------------------

Next ==
    \/ Connect \/ Reconnecting \/ ToggleViewonly
    \/ \E up \in BOOLEAN : on_key(up)
    \/ Unfocus \/ FocusIn(CHOOSE c \in Codes : TRUE)
    \/ \E b \in Buttons, down \in BOOLEAN : Button(b, down)

Spec == Init /\ [][Next]_vars

-----------------------------------------------------------------------------

ListedCodes == {pressed_keys[i].code : i \in {j \in 1 .. Len(pressed_keys) :
                                                  pressed_keys[j].type = "code"}}

\* A scan code that is down at the server is in the list, so that the loss of the focus
\* releases it, through reconnections and sessions that are only viewed; unless the
\* release of a character has met it by a field that was never written.
KeysListed == junk \/ server.codes \subseteq ListedCodes

\* A button that is down at the server is held by the user, or was let go while the
\* session was only viewed or reconnected.
ButtonsHeld == server.buttons \subseteq user.held \cup user.unseen
=============================================================================
