----------------------------- MODULE ScreenGeometry -----------------------------
(***************************************************************************)
(* The arithmetic of the remote screen, which the VNC and the RDP plugin   *)
(* have each in their own words: the area that must be drawn again when    *)
(* pixels of the server have changed, the position of the pointer, the     *)
(* monitors and the wheel that are sent to an RDP server.                  *)
(* One axis is modelled; the other is alike.                               *)
(***************************************************************************)
EXTENDS Integers, FiniteSets

CONSTANTS MaxServer, MaxWidget      \* bounds: width of the server, of the widget

VARIABLES
    width,      \* of the remote screen (protocol_plugin_get_width)
    widget,     \* the allocated width of the widget
    scaled,     \* the scale mode is not "none"
    queued,     \* queuedraw_x and queuedraw_w, {} when no handler is queued
    stale       \* pixels of the server that the widget does not show yet

vars == <<width, widget, scaled, queued, stale>>

Least(a, b) == IF a < b THEN a ELSE b
Greatest(a, b) == IF a > b THEN a ELSE b

Areas == [x : 0 .. MaxServer + MaxWidget, w : 0 .. MaxServer + MaxWidget]

TypeOK ==
    /\ width \in 1 .. MaxServer /\ widget \in 1 .. MaxWidget /\ scaled \in BOOLEAN
    /\ queued \subseteq Areas /\ Cardinality(queued) <= 1
    /\ stale \subseteq 0 .. MaxServer - 1

Init ==
    /\ width \in 1 .. MaxServer /\ widget \in 1 .. MaxWidget /\ scaled = FALSE
    /\ queued = {} /\ stale = {}

-----------------------------------------------------------------------------

\* Mutant: the area is not widened.
scale_area_Tight(a) ==
    IF widget = width
    THEN a
    ELSE LET sx == Least(Greatest(0, (a.x * widget) \div width), widget - 1)
         IN  [x |-> sx, w |-> Least(widget - sx, (a.w * widget) \div width)]

\* remmina_plugin_vnc_scale_area, remmina_rdp_event_scale_area: widened by one scaled
\* pixel and two, "to avoid gaps"
scale_area(a) ==
    IF widget = width
    THEN a
    ELSE LET one == widget \div width
             sx == Least(Greatest(0, ((a.x * widget) \div width) - one - 2), widget - 1)
         IN  [x |-> sx, w |-> Least(widget - sx, ((a.w * widget) \div width) + one + 4)]

\* Mutant: the right edge is taken for the width.
queue_draw_area_Edge(a) ==
    queued' =
        IF queued = {}
        THEN {a}
        ELSE {[x |-> Least(o.x, a.x), w |-> Greatest(o.x + o.w, a.x + a.w)] : o \in queued}

\* remmina_plugin_vnc_queue_draw_area: joined with what is queued
queue_draw_area(a) ==
    queued' =
        IF queued = {}
        THEN {a}
        ELSE {[x |-> Least(o.x, a.x),
               w |-> Greatest(o.x + o.w, a.x + a.w) - Least(o.x, a.x)] : o \in queued}

\* remmina_plugin_vnc_rfb_updatefb: the server has sent an area.
updatefb(x, w) ==
    /\ x + w <= width
    /\ stale' = stale \cup x .. x + w - 1
    /\ queue_draw_area(IF scaled THEN scale_area([x |-> x, w |-> w]) ELSE [x |-> x, w |-> w])
    /\ UNCHANGED <<width, widget, scaled>>

\* The pixels of the widget that show a pixel of the server (on_draw: cairo_scale)
Shown(p) ==
    IF scaled
    THEN (p * widget) \div width .. ((p + 1) * widget + width - 1) \div width - 1
    ELSE {p}

\* remmina_plugin_vnc_queue_draw_area_real, and GTK draws the area.
queue_draw_area_real ==
    /\ queued # {}
    /\ queued' = {}
    /\ stale' = {p \in stale : \A a \in queued : ~Shown(p) \subseteq a.x .. a.x + a.w - 1}
    /\ UNCHANGED <<width, widget, scaled>>

\* The mode or the size of the widget changes: GTK draws all of it.
Reshape(w, s) ==
    /\ widget' = w /\ scaled' = s /\ w # widget
    /\ stale' = {} /\ queued' = {}
    /\ UNCHANGED width

Next ==
    \/ \E x \in 0 .. MaxServer - 1, w \in 1 .. MaxServer : updatefb(x, w)
    \/ queue_draw_area_real
    \/ \E w \in 1 .. MaxWidget, s \in BOOLEAN : Reshape(w, s)

Spec == Init /\ [][Next]_vars

-----------------------------------------------------------------------------
(* The pointer.                                                            *)

\* remmina_plugin_vnc_scale_coordinates, remmina_rdp_event_translate_pos
translate_pos(i) == IF scaled THEN (i * width) \div widget ELSE i

\* remmina_rdp_event_reverse_translate_pos_reverse
reverse_translate_pos(o) == IF scaled THEN (o * widget) \div width ELSE o

-----------------------------------------------------------------------------
(* The wheel of RDP: 9 bits, two's complement (remmina_rdp_event_on_scroll).*)

WheelRotation(delta) == Least(Greatest(delta, -256), 255) % 512
WheelMeant(bits) == IF bits >= 256 THEN bits - 512 ELSE bits

-----------------------------------------------------------------------------
(* remmina_rdp_monitor_get: the monitors in the order of GDK; those that    *)
(* were chosen are sent, moved so that the primary one is at 0.             *)

\* The chosen monitor whose place is the origin: the primary one if it is chosen; else the
\* first that is at 0; else the last.
Primary(chosen, at, primary) ==
    IF primary \in chosen THEN primary
    ELSE LET zeros == {m \in chosen : at[m] = 0}
         IN  IF zeros # {} THEN CHOOSE m \in zeros : \A n \in zeros : m <= n
             ELSE CHOOSE m \in chosen : \A n \in chosen : n <= m

\* is_primary is set for the primary one, and for the first at 0 that comes before it.
IsPrimary(chosen, at, primary) ==
    LET zeros == {m \in chosen : at[m] = 0 /\ (primary \in chosen => m < primary)}
    IN  (chosen \cap {primary}) \cup
        (IF zeros = {} THEN {} ELSE {CHOOSE m \in zeros : \A n \in zeros : m <= n})

\* The monitors that were not chosen stay in the array, with no size.
monitor_get(chosen, at, primary) ==
    [m \in DOMAIN at |->
        [x |-> (IF m \in chosen THEN at[m] ELSE 0) - at[Primary(chosen, at, primary)],
         empty |-> m \notin chosen]]

-----------------------------------------------------------------------------

\* When the queued area has been drawn, the widget shows every pixel the server has sent,
\* whatever the scale and however many areas were joined.
DrawnCovers == queued = {} => stale = {}

\* A position on the screen of the server that is turned into one of the widget and back
\* moves by less than the pixels that one pixel of the widget stands for.
PointerReturns ==
    \A o \in 0 .. width - 1 :
        LET back == translate_pos(reverse_translate_pos(o))
        IN  back <= o /\ (o - back) * widget <= width + widget

\* A turn of the wheel arrives as it was, or as the nearest that fits.
WheelArrives ==
    \A d \in {-600, -257, -256, -255, -120, -1, 0, 1, 120, 254, 255, 256, 600} :
        WheelMeant(WheelRotation(d)) = Least(Greatest(d, -256), 255)

\* "Windows requires the primary monitor to have a coordinate of 0,0": the chosen monitor
\* that GDK calls primary is at 0, and no other is marked unless it comes before it at 0.
PrimaryAtOrigin ==
    \A chosen \in SUBSET (1 .. 3) \ {{}}, at \in [1 .. 3 -> 0 .. 2], primary \in 1 .. 3 :
        primary \in chosen =>
            /\ monitor_get(chosen, at, primary)[primary] = [x |-> 0, empty |-> FALSE]
            /\ \A m \in IsPrimary(chosen, at, primary) \ {primary} : m < primary /\ at[m] = 0
=============================================================================
