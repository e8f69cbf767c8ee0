------------------------------- MODULE StringList -------------------------------
(***************************************************************************)
(* The dialog of a list of strings (src/remmina_string_list.c), one string *)
(* in the preferences: rows divided by commas, a description and a value   *)
(* by a sign of their own.  A text is a sequence of tokens: "x" for any    *)
(* other character, "," and "sep" for the two that divide, " ".            *)
(***************************************************************************)
EXTENDS Naturals, Sequences, SequencesExt

CONSTANTS
    Texts,          \* texts a user enters
    MaxRows         \* bound of the list

VARIABLES
    two_columns,    \* a description beside the value
    stored,         \* the string of the preferences
    rows,           \* liststore_items while the dialog is open
    open,           \* the dialog is open
    selected,       \* the selected row, 0 for none
    left,           \* the rows with a value when the dialog was closed last
    fresh,          \* the dialog was just opened
    divided         \* a text with the sign that divides was entered

Tokens == {"x", ",", "sep", " "}

vars == <<two_columns, stored, rows, open, selected, left, fresh, divided>>

Row(d, v) == [d |-> d, v |-> v]

TypeOK ==
    /\ two_columns \in BOOLEAN /\ open \in BOOLEAN /\ fresh \in BOOLEAN /\ divided \in BOOLEAN
    /\ Len(rows) <= MaxRows /\ selected \in 0 .. Len(rows)
    /\ ~open => rows = <<>>

\* g_strsplit: nothing at all for an empty string
Extended(parts, t, sign) ==
    IF t = sign THEN Append(parts, <<>>) ELSE [parts EXCEPT ![Len(parts)] = Append(@, t)]

Split(s, sign) ==
    LET parts[k \in 0 .. Len(s)] ==
            IF k = 0 THEN <<<<>>>> ELSE Extended(parts[k - 1], s[k], sign)
    IN  IF s = <<>> THEN <<>> ELSE parts[Len(s)]

\* remmina_string_list_set_text
RowOf(item) ==
    LET values == Split(item, "sep")
    IN  CASE Len(values) = 0 -> Row(<<>>, <<>>)
          [] Len(values) = 1 -> Row(<<>>, values[1])
          [] Len(values) > 1 -> Row(values[1], values[2])

set_text(s) == LET items == Split(s, ",") IN [i \in DOMAIN items |-> RowOf(items[i])]

\* remmina_string_list_get_text: the rows with a value
Item(r) == (IF two_columns THEN r.d \o <<"sep">> ELSE <<>>) \o r.v
Added(text, r) ==
    IF r.v = <<>> THEN text ELSE text \o (IF text = <<>> THEN <<>> ELSE <<",">>) \o Item(r)

get_text(rs) ==
    LET text[k \in 0 .. Len(rs)] == IF k = 0 THEN <<>> ELSE Added(text[k - 1], rs[k])
    IN  text[Len(rs)]

Kept(found, r) == IF r.v = <<>> THEN found ELSE Append(found, r)
WithValue(rs) ==
    LET found[k \in 0 .. Len(rs)] == IF k = 0 THEN <<>> ELSE Kept(found[k - 1], rs[k])
    IN  found[Len(rs)]

-----------------------------------------------------------------------------

Init ==
    /\ two_columns \in BOOLEAN /\ stored = <<>> /\ rows = <<>> /\ open = FALSE
    /\ selected = 0 /\ left = <<>> /\ fresh = FALSE /\ divided = FALSE

\* remmina_string_list_new and remmina_string_list_set_text
Open ==
    /\ ~open /\ open' = TRUE /\ fresh' = TRUE
    /\ rows' = set_text(stored) /\ selected' = 0
    /\ UNCHANGED <<two_columns, stored, left, divided>>

Change(rs, s) ==
    /\ rows' = rs /\ selected' = s /\ fresh' = FALSE
    /\ UNCHANGED <<two_columns, stored, open, left>>

Select(i) == open /\ i # selected /\ Change(rows, i) /\ UNCHANGED divided

remmina_string_list_on_action_add ==
    /\ open /\ Len(rows) < MaxRows
    /\ Change(Append(rows, Row(<<>>, <<>>)), Len(rows) + 1) /\ UNCHANGED divided

\* remmina_string_list_on_cell_edited: commas become blanks; a value that is not valid is
\* told, and taken.
remmina_string_list_on_cell_edited(i, column, new_text) ==
    /\ open
    /\ LET text == [k \in DOMAIN new_text |-> IF new_text[k] = "," THEN " " ELSE new_text[k]]
       IN  /\ \/ column = "d" /\ two_columns /\ Change([rows EXCEPT ![i].d = text], selected)
              \/ column = "v" /\ Change([rows EXCEPT ![i].v = text], selected)
           /\ divided' = (divided \/ "sep" \in ToSet(text))

Swap(i, j) == Change([rows EXCEPT ![i] = rows[j], ![j] = rows[i]], j) /\ UNCHANGED divided

remmina_string_list_on_action_down == open /\ selected \in 1 .. Len(rows) - 1 /\ Swap(selected, selected + 1)

remmina_string_list_on_action_up == open /\ selected > 1 /\ Swap(selected, selected - 1)

remmina_string_list_on_action_remove ==
    /\ open /\ selected # 0
    /\ Change(RemoveAt(rows, selected), 0) /\ UNCHANGED divided

\* The dialog ends, however it is ended: the string is made of its rows.
Close ==
    /\ open /\ open' = FALSE /\ fresh' = FALSE
    /\ stored' = get_text(rows)
    /\ left' = WithValue(rows)
    /\ rows' = <<>> /\ selected' = 0
    /\ UNCHANGED <<two_columns, divided>>

Next ==
    \/ Open \/ remmina_string_list_on_action_add \/ remmina_string_list_on_action_down
    \/ remmina_string_list_on_action_up \/ remmina_string_list_on_action_remove \/ Close
    \/ \E i \in 1 .. Len(rows) :
          \/ Select(i)
          \/ \E c \in {"d", "v"}, t \in Texts : remmina_string_list_on_cell_edited(i, c, t)

Spec == Init /\ [][Next]_vars

-----------------------------------------------------------------------------

\* The rows come back as they were left, those without a value apart, in their order, as long
\* as nobody entered the sign that divides the columns.
RowsReturn == fresh /\ ~divided => rows = left
=============================================================================
