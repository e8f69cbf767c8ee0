----------------------------- MODULE PluginSession -----------------------------
(***************************************************************************)
(* What a protocol plugin promises the protocol widget that opened it      *)
(* (src/remmina_protocol_widget.c): it signals at most once that the       *)
(* connection is open (connection_opened), at most once that it is over    *)
(* (connection_closed), and never in the wrong order.  Module              *)
(* ConnectionLifecycle takes the plugins to be so.                         *)
(***************************************************************************)
EXTENDS Naturals

VARIABLES
    started,        \* open_connection was called
    opened,         \* connection_opened was signalled
    closes          \* how often connection_closed was

vars == <<started, opened, closes>>

Init == ~started /\ ~opened /\ closes = 0

Start ==
    /\ ~started
    /\ started' = TRUE
    /\ UNCHANGED <<opened, closes>>

Opened ==
    /\ started /\ ~opened /\ closes = 0
    /\ opened' = TRUE
    /\ UNCHANGED <<started, closes>>

Closed ==
    /\ started /\ closes = 0
    /\ closes' = 1
    /\ UNCHANGED <<started, opened>>

Next == Start \/ Opened \/ Closed

Spec == Init /\ [][Next]_vars
=============================================================================
