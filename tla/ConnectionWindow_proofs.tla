----------------------- MODULE ConnectionWindow_proofs -----------------------
(***************************************************************************)
(* The invariants of ConnectionWindow, for any set of tabs.                *)
(*                                                                         *)
(* The inductive invariant says of the window that every source it has a   *)
(* number of is pending, once and no other of its kind (Booked), that the  *)
(* flags tell when the seat is held (WinOK), and that nothing grabs or is  *)
(* about to grab without the focus and a connected tab (IInv).  Every      *)
(* function on the window has a lemma that says what it keeps of this.     *)
(***************************************************************************)
EXTENDS ConnectionWindow, TLAPS

Windows ==
    [alive : BOOLEAN, mode : {"window", "fullscreen"}, pinned : BOOLEAN,
     focused : BOOLEAN, entered : BOOLEAN, kb : BOOLEAN, ptr : BOOLEAN,
     seat : SUBSET Seat, button : BOOLEAN, id : [Sources -> BOOLEAN],
     run : [Sources -> 0 .. MaxSources]]

Overwritten == {"tar", "dwp"}

Booked(w) ==
    \A s \in Sources : IF s \in Overwritten THEN w.id[s] => w.run[s] > 0
                       ELSE w.run[s] = IF w.id[s] THEN 1 ELSE 0

WinOK(w) ==
    /\ w \in Windows
    /\ Booked(w)
    /\ w.seat # {} => w.kb \/ w.ptr

Grabbing(w) == w.kb \/ w.ptr \/ \E s \in GrabTimers : w.id[s]

\* What a function that does not touch the pages leaves as it was.
Alike(v, w) ==
    /\ v.alive = w.alive
    /\ v.focused = w.focused
    /\ v.run["spf"] = w.run["spf"]

IInv ==
    /\ TypeOK
    /\ WinOK(win)
    /\ Grabbing(win) => win.focused /\ \E t \in Tabs : tabs[t] = "on"
    /\ win.alive => tabs[shown] # "none"
    /\ ~win.alive => Open = {} /\ \A s \in Sources : win.run[s] = 0
    /\ SwitchFindsTab
    /\ SourcesDieWithWindow

-----------------------------------------------------------------------------
(* The functions on a window                                               *)

Agrees(s, n, b) ==
    IF s \in Overwritten THEN b => n > 0 ELSE n = IF b THEN 1 ELSE 0

Entered(v, w, s, n, b) == v = [w EXCEPT !.run[s] = n, !.id[s] = b]

\* The entry of one source is changed, and its number agrees with it.
LEMMA Entry ==
    ASSUME NEW w, WinOK(w), NEW s \in Sources, NEW n \in 0 .. MaxSources, NEW b \in BOOLEAN,
           Agrees(s, n, b),
           NEW v, Entered(v, w, s, n, b)
    PROVE  /\ WinOK(v)
           /\ v.id[s] = b /\ v.run[s] = n
           /\ \A r \in Sources \ {s} : v.id[r] = w.id[r] /\ v.run[r] = w.run[r]
           /\ v.kb = w.kb /\ v.ptr = w.ptr /\ v.seat = w.seat /\ v.mode = w.mode
           /\ v.alive = w.alive /\ v.focused = w.focused
  <1>1. w \in Windows /\ w.id \in [Sources -> BOOLEAN] /\ w.run \in [Sources -> 0 .. MaxSources]
    BY DEF WinOK, Windows
  <1>2. /\ v.run = [w.run EXCEPT ![s] = n] /\ v.id = [w.id EXCEPT ![s] = b]
        /\ v.kb = w.kb /\ v.ptr = w.ptr /\ v.seat = w.seat /\ v.mode = w.mode
        /\ v.alive = w.alive /\ v.focused = w.focused
    BY <1>1 DEF Windows, Entered
  <1>3. v \in Windows
    BY <1>1 DEF Windows, Entered
  <1>4. /\ v.id[s] = b /\ v.run[s] = n
        /\ \A r \in Sources \ {s} : v.id[r] = w.id[r] /\ v.run[r] = w.run[r]
    BY <1>1, <1>2
  <1>5. Booked(v)
    <2> SUFFICES ASSUME NEW r \in Sources
                 PROVE  IF r \in Overwritten THEN v.id[r] => v.run[r] > 0
                        ELSE v.run[r] = IF v.id[r] THEN 1 ELSE 0
      BY DEF Booked
    <2>1. CASE r = s
      BY <1>4, <2>1 DEF Agrees
    <2>2. CASE r # s
      BY <1>4, <2>2 DEF WinOK, Booked
    <2>3. QED BY <2>1, <2>2
  <1>6. v.seat # {} => v.kb \/ v.ptr
    BY <1>2 DEF WinOK
  <1>7. QED BY <1>2, <1>3, <1>4, <1>5, <1>6 DEF WinOK

\* A removed source is no longer pending.
LEMMA Removed ==
    ASSUME NEW w, WinOK(w), NEW s \in Sources
    PROVE  LET v == g_source_remove(w, s)
           IN /\ WinOK(v)
              /\ ~v.id[s]
              /\ s \notin Overwritten => v.run[s] = 0
              /\ \A r \in Sources \ {s} : v.id[r] = w.id[r] /\ v.run[r] = w.run[r]
              /\ v.kb = w.kb /\ v.ptr = w.ptr /\ v.seat = w.seat /\ v.mode = w.mode
              /\ v.alive = w.alive /\ v.focused = w.focused
  <1>0. /\ w.id[s] \in BOOLEAN /\ w.run[s] \in 0 .. MaxSources /\ MaxSources \in Nat \ {0}
        /\ w.id \in [Sources -> BOOLEAN] /\ w.run \in [Sources -> 0 .. MaxSources]
        /\ w \in Windows
    BY MaxSourcesAssumption DEF WinOK, Windows
  <1>1. IF s \in Overwritten THEN w.id[s] => w.run[s] > 0
        ELSE w.run[s] = IF w.id[s] THEN 1 ELSE 0
    BY DEF WinOK, Booked
  <1>2. CASE w.id[s]
    <2> DEFINE n == w.run[s] - 1
               b == FALSE
               v == g_source_remove(w, s)
    <2>1. n \in 0 .. MaxSources /\ (s \notin Overwritten => n = 0)
      BY <1>0, <1>1, <1>2
    <2>2. Entered(v, w, s, n, b)
      BY <1>2 DEF g_source_remove, Entered
    <2>3. b \in BOOLEAN /\ ~b /\ Agrees(s, n, b)
      BY <2>1 DEF Agrees
    <2> HIDE DEF n, b, v
    <2>4. /\ WinOK(v)
          /\ v.id[s] = b /\ v.run[s] = n
          /\ \A r \in Sources \ {s} : v.id[r] = w.id[r] /\ v.run[r] = w.run[r]
          /\ v.kb = w.kb /\ v.ptr = w.ptr /\ v.seat = w.seat /\ v.mode = w.mode
          /\ v.alive = w.alive /\ v.focused = w.focused
      BY <2>1, <2>2, <2>3, Entry
    <2>5. QED BY <2>1, <2>4, <2>3 DEF v
  <1>3. CASE ~w.id[s]
    BY <1>1, <1>3 DEF g_source_remove
  <1>4. QED BY <1>2, <1>3

Free(w, s) == IF s \in Overwritten THEN w.run[s] < MaxSources ELSE ~w.id[s]

\* A source that is added is pending, if it was not already.
LEMMA Added ==
    ASSUME NEW w, WinOK(w), NEW s \in Sources, Free(w, s)
    PROVE  LET v == g_timeout_add(w, s)
           IN /\ WinOK(v)
              /\ v.id[s]
              /\ \A r \in Sources \ {s} : v.id[r] = w.id[r] /\ v.run[r] = w.run[r]
              /\ v.kb = w.kb /\ v.ptr = w.ptr /\ v.seat = w.seat /\ v.mode = w.mode
              /\ v.alive = w.alive /\ v.focused = w.focused
  <1>0. /\ w.id[s] \in BOOLEAN /\ w.run[s] \in 0 .. MaxSources /\ MaxSources \in Nat \ {0}
        /\ w.id \in [Sources -> BOOLEAN] /\ w.run \in [Sources -> 0 .. MaxSources]
        /\ w \in Windows
    BY MaxSourcesAssumption DEF WinOK, Windows
  <1>1. IF s \in Overwritten THEN w.id[s] => w.run[s] > 0
        ELSE w.run[s] = IF w.id[s] THEN 1 ELSE 0
    BY DEF WinOK, Booked
  <1> DEFINE n == w.run[s] + 1
             b == TRUE
             v == g_timeout_add(w, s)
  <1>2. n \in 0 .. MaxSources
    BY <1>0, <1>1 DEF Free
  <1>3. n > 0 /\ (s \notin Overwritten => n = 1)
    BY <1>0, <1>1 DEF Free
  <1>4. Entered(v, w, s, n, b)
    BY DEF g_timeout_add, Entered
  <1>5. b \in BOOLEAN /\ Agrees(s, n, b)
    BY <1>3 DEF Agrees
  <1>6. b
    OBVIOUS
  <1> HIDE DEF n, b, v
  <1>7. /\ WinOK(v)
        /\ v.id[s] = b /\ v.run[s] = n
        /\ \A r \in Sources \ {s} : v.id[r] = w.id[r] /\ v.run[r] = w.run[r]
        /\ v.kb = w.kb /\ v.ptr = w.ptr /\ v.seat = w.seat /\ v.mode = w.mode
        /\ v.alive = w.alive /\ v.focused = w.focused
    BY <1>2, <1>4, <1>5, Entry
  <1>8. QED BY <1>6, <1>7 DEF v

\* A source that has run is no longer pending.
LEMMA Ran ==
    ASSUME NEW w, WinOK(w), NEW s \in Sources, w.run[s] > 0
    PROVE  LET v == Last(w, s)
           IN /\ WinOK(v)
              /\ ~v.id[s]
              /\ s \notin Overwritten => v.run[s] = 0
              /\ \A r \in Sources \ {s} : v.id[r] = w.id[r] /\ v.run[r] = w.run[r]
              /\ v.kb = w.kb /\ v.ptr = w.ptr /\ v.seat = w.seat /\ v.mode = w.mode
              /\ v.alive = w.alive /\ v.focused = w.focused
  <1>0. /\ w.id[s] \in BOOLEAN /\ w.run[s] \in 0 .. MaxSources /\ MaxSources \in Nat \ {0}
        /\ w.id \in [Sources -> BOOLEAN] /\ w.run \in [Sources -> 0 .. MaxSources]
        /\ w \in Windows
    BY MaxSourcesAssumption DEF WinOK, Windows
  <1>1. IF s \in Overwritten THEN w.id[s] => w.run[s] > 0
        ELSE w.run[s] = IF w.id[s] THEN 1 ELSE 0
    BY DEF WinOK, Booked
  <1> DEFINE n == w.run[s] - 1
             b == FALSE
             v == Last(w, s)
  <1>2. n \in 0 .. MaxSources /\ (s \notin Overwritten => n = 0)
    BY <1>0, <1>1
  <1>3. Entered(v, w, s, n, b)
    BY DEF Last, Entered
  <1>4. b \in BOOLEAN /\ ~b /\ Agrees(s, n, b)
    BY <1>2 DEF Agrees
  <1> HIDE DEF n, b, v
  <1>5. /\ WinOK(v)
        /\ v.id[s] = b /\ v.run[s] = n
        /\ \A r \in Sources \ {s} : v.id[r] = w.id[r] /\ v.run[r] = w.run[r]
        /\ v.kb = w.kb /\ v.ptr = w.ptr /\ v.seat = w.seat /\ v.mode = w.mode
        /\ v.alive = w.alive /\ v.focused = w.focused
    BY <1>2, <1>3, <1>4, Entry
  <1>6. QED BY <1>2, <1>5, <1>4 DEF v

\* After rcw_kp_ungrab nothing is grabbed and nothing will be.
LEMMA Ungrabbed ==
    ASSUME NEW w, WinOK(w)
    PROVE  LET v == rcw_kp_ungrab(w)
           IN /\ WinOK(v)
              /\ ~Grabbing(v)
              /\ v.seat = {}
              /\ Alike(v, w)
              /\ \A r \in Sources \ GrabTimers : v.id[r] = w.id[r] /\ v.run[r] = w.run[r]
  <1> DEFINE u == g_source_remove(w, "grab_retry")
             x == g_source_remove(u, "delayed_grab")
             v == rcw_kp_ungrab(w)
  <1>0. "grab_retry" \in Sources /\ "delayed_grab" \in Sources /\ "spf" \in Sources
    BY DEF Sources
  <1>1. /\ WinOK(u) /\ ~u.id["grab_retry"]
        /\ \A r \in Sources \ {"grab_retry"} : u.id[r] = w.id[r] /\ u.run[r] = w.run[r]
        /\ u.alive = w.alive /\ u.focused = w.focused
    BY <1>0, Removed
  <1>2. /\ WinOK(x) /\ ~x.id["delayed_grab"]
        /\ \A r \in Sources \ {"delayed_grab"} : x.id[r] = u.id[r] /\ x.run[r] = u.run[r]
        /\ x.alive = u.alive /\ x.focused = u.focused
    <2> HIDE DEF u
    <2> QED BY <1>0, <1>1, Removed
  <1>3. v = IF x.kb \/ x.ptr THEN [x EXCEPT !.seat = {}, !.kb = FALSE, !.ptr = FALSE] ELSE x
    BY DEF rcw_kp_ungrab
  <1> HIDE DEF u, x, v
  <1>4. /\ v.id = x.id /\ v.run = x.run /\ v.alive = x.alive /\ v.focused = x.focused
        /\ ~v.kb /\ ~v.ptr /\ v.seat = {} /\ v \in Windows
    BY <1>2, <1>3 DEF WinOK, Windows
  <1>5. WinOK(v)
    BY <1>2, <1>4 DEF WinOK, Booked
  <1>6. ~Grabbing(v)
    BY <1>0, <1>1, <1>2, <1>4 DEF Grabbing, GrabTimers
  <1>7. Alike(v, w) /\ \A r \in Sources \ GrabTimers : v.id[r] = w.id[r] /\ v.run[r] = w.run[r]
    BY <1>0, <1>1, <1>2, <1>4 DEF Alike, GrabTimers
  <1>8. QED BY <1>4, <1>5, <1>6, <1>7 DEF v

\* rcw_pointer_ungrab gives the seat back and nothing else.
LEMMA PointerUngrabbed ==
    ASSUME NEW w, WinOK(w)
    PROVE  LET v == rcw_pointer_ungrab(w)
           IN WinOK(v) /\ Alike(v, w) /\ (Grabbing(v) => Grabbing(w))
  BY DEF rcw_pointer_ungrab, WinOK, Windows, Booked, Alike, Grabbing

\* Whatever the server answers to a grab, the window stays in order.
LEMMA PointerGrabbed ==
    ASSUME NEW w, WinOK(w), NEW v \in rcw_pointer_grab(w)
    PROVE  WinOK(v) /\ Alike(v, w) /\ v.id = w.id /\ v.run = w.run
  <1>1. CASE v = w
    BY <1>1 DEF Alike
  <1>2. CASE v = [w EXCEPT !.seat = @ \cup {"pointer"}, !.ptr = TRUE]
    <2>1. /\ v \in Windows /\ v.ptr /\ v.id = w.id /\ v.run = w.run
          /\ v.alive = w.alive /\ v.focused = w.focused
      BY <1>2 DEF WinOK, Windows, Seat
    <2>2. QED BY <2>1 DEF WinOK, Booked, Alike
  <1>3. QED BY <1>1, <1>2 DEF rcw_pointer_grab

LEMMA KeyboardGrabbed ==
    ASSUME NEW w, WinOK(w), NEW v \in rcw_keyboard_grab(w)
    PROVE  /\ WinOK(v) /\ Alike(v, w)
           /\ \A r \in Sources \ GrabTimers : v.id[r] = w.id[r] /\ v.run[r] = w.run[r]
  <1> DEFINE a == g_timeout_add(w, "grab_retry")
             u == g_source_remove(w, "grab_retry")
  <1>0. /\ "grab_retry" \in Sources /\ "spf" \in Sources \ {"grab_retry"}
        /\ "grab_retry" \in GrabTimers /\ "grab_retry" \notin Overwritten
    BY DEF Sources, GrabTimers, Overwritten
  <1>1. CASE v = w
    BY <1>1 DEF Alike
  <1>2. CASE v = a /\ ~w.id["grab_retry"]
    <2>1. /\ WinOK(a) /\ a.alive = w.alive /\ a.focused = w.focused
          /\ \A r \in Sources \ {"grab_retry"} : a.id[r] = w.id[r] /\ a.run[r] = w.run[r]
      BY <1>0, <1>2, Added DEF Free
    <2> HIDE DEF a
    <2>2. QED BY <1>0, <1>2, <2>1 DEF Alike
  <1>3. CASE v = [u EXCEPT !.seat = @ \cup {"keyboard"}, !.kb = TRUE]
    <2>1. /\ WinOK(u) /\ u.alive = w.alive /\ u.focused = w.focused
          /\ \A r \in Sources \ {"grab_retry"} : u.id[r] = w.id[r] /\ u.run[r] = w.run[r]
      BY <1>0, Removed
    <2> HIDE DEF u
    <2>2. /\ v \in Windows /\ v.kb /\ v.id = u.id /\ v.run = u.run
          /\ v.alive = u.alive /\ v.focused = u.focused
      BY <1>3, <2>1 DEF WinOK, Windows, Seat
    <2>3. WinOK(v)
      BY <2>1, <2>2 DEF WinOK, Booked
    <2>4. QED BY <1>0, <2>1, <2>2, <2>3 DEF Alike
  <1>4. CASE v = rcw_kp_ungrab(w)
    BY <1>4, Ungrabbed
  <1>5. QED BY <1>1, <1>2, <1>3, <1>4 DEF rcw_keyboard_grab

LEMMA BothGrabbed ==
    ASSUME NEW w, WinOK(w), NEW v \in grab_both(w)
    PROVE  /\ WinOK(v) /\ Alike(v, w)
           /\ \A r \in Sources \ GrabTimers : v.id[r] = w.id[r] /\ v.run[r] = w.run[r]
  <1>1. PICK u \in rcw_keyboard_grab(w) : v \in rcw_pointer_grab(u)
    BY DEF grab_both
  <1>2. /\ WinOK(u) /\ Alike(u, w)
        /\ \A r \in Sources \ GrabTimers : u.id[r] = w.id[r] /\ u.run[r] = w.run[r]
    BY KeyboardGrabbed
  <1>3. WinOK(v) /\ Alike(v, u) /\ v.id = u.id /\ v.run = u.run
    BY <1>1, <1>2, PointerGrabbed
  <1>4. QED BY <1>2, <1>3 DEF Alike

\* The floating toolbar has nothing to do with the grabs.
LEMMA ToolbarShown ==
    ASSUME NEW w, WinOK(w), NEW show
    PROVE  LET v == rcw_floating_toolbar_show(w, show)
           IN /\ WinOK(v) /\ Alike(v, w) /\ (Grabbing(v) => Grabbing(w))
              /\ \A r \in Sources \ {"ftb_hide"} : v.id[r] = w.id[r] /\ v.run[r] = w.run[r]
  <1> DEFINE a == g_timeout_add(w, "ftb_hide")
             u == g_source_remove(w, "ftb_hide")
             v == rcw_floating_toolbar_show(w, show)
  <1>0. /\ "ftb_hide" \in Sources /\ "spf" \in Sources \ {"ftb_hide"}
        /\ GrabTimers \subseteq Sources \ {"ftb_hide"} /\ "ftb_hide" \notin Overwritten
    BY DEF Sources, GrabTimers, Overwritten
  <1>1. CASE v = w
    BY <1>1 DEF Alike
  <1>2. CASE v = u
    <2>1. /\ WinOK(u) /\ u.alive = w.alive /\ u.focused = w.focused
          /\ u.kb = w.kb /\ u.ptr = w.ptr
          /\ \A r \in Sources \ {"ftb_hide"} : u.id[r] = w.id[r] /\ u.run[r] = w.run[r]
      BY <1>0, Removed
    <2> HIDE DEF u, v
    <2>2. QED BY <1>0, <1>2, <2>1 DEF Alike, Grabbing, v
  <1>3. CASE v = a /\ ~w.id["ftb_hide"]
    <2>1. /\ WinOK(a) /\ a.alive = w.alive /\ a.focused = w.focused
          /\ a.kb = w.kb /\ a.ptr = w.ptr
          /\ \A r \in Sources \ {"ftb_hide"} : a.id[r] = w.id[r] /\ a.run[r] = w.run[r]
      BY <1>0, <1>3, Added DEF Free
    <2> HIDE DEF a, v
    <2>2. QED BY <1>0, <1>3, <2>1 DEF Alike, Grabbing, v
  <1>4. QED BY <1>1, <1>2, <1>3 DEF rcw_floating_toolbar_show

NoWindow(mode, pinned) == [NewWindow(mode, pinned) EXCEPT !.alive = FALSE]

\* A new window has no source and grabs nothing; nor does what is left of one.
LEMMA Fresh ==
    ASSUME NEW mode \in {"window", "fullscreen"}, NEW pinned \in BOOLEAN,
           NEW w \in {NewWindow(mode, pinned), NoWindow(mode, pinned)}
    PROVE  /\ WinOK(w) /\ ~Grabbing(w) /\ ~w.focused
           /\ \A s \in Sources : w.run[s] = 0
           /\ w = NewWindow(mode, pinned) => w.alive
           /\ w = NoWindow(mode, pinned) => ~w.alive
  <1>1. /\ w \in Windows /\ ~w.kb /\ ~w.ptr /\ w.seat = {} /\ ~w.focused
        /\ \A s \in Sources : w.run[s] = 0 /\ w.id[s] = FALSE
        /\ w = NewWindow(mode, pinned) => w.alive
        /\ w = NoWindow(mode, pinned) => ~w.alive
    <2> DEFINE n == NewWindow(mode, pinned)
               g == NoWindow(mode, pinned)
    <2>1. /\ n \in Windows /\ n.alive = TRUE /\ ~n.kb /\ ~n.ptr /\ n.seat = {} /\ ~n.focused
          /\ \A s \in Sources : n.run[s] = 0 /\ n.id[s] = FALSE
      BY MaxSourcesAssumption DEF NewWindow, Windows
    <2>2. g = [n EXCEPT !.alive = FALSE]
      BY DEF NoWindow
    <2> HIDE DEF n, g
    <2>3. /\ g \in Windows /\ g.alive = FALSE /\ ~g.kb /\ ~g.ptr /\ g.seat = {} /\ ~g.focused
          /\ \A s \in Sources : g.run[s] = 0 /\ g.id[s] = FALSE
      BY <2>1, <2>2 DEF Windows
    <2>4. w \in {n, g} /\ NewWindow(mode, pinned) = n /\ NoWindow(mode, pinned) = g
      BY DEF n, g
    <2>5. QED BY <2>1, <2>3, <2>4
  <1>2. GrabTimers \subseteq Sources
    BY DEF GrabTimers, Sources
  <1>3. QED BY <1>1, <1>2 DEF WinOK, Booked, Grabbing

\* A destroyed window leaves sources of the overwritten kinds at most.
LEMMA Destroyed ==
    ASSUME NEW w, WinOK(w)
    PROVE  rcw_destroy(w) \subseteq Overwritten
  <1> DEFINE v == IF w.kb THEN rcw_kp_ungrab(w) ELSE w
  <1>1. WinOK(v)
    BY Ungrabbed
  <1>2. rcw_destroy(w) = {s \in Sources : v.run[s] > (IF v.id[s] THEN 1 ELSE 0)}
    BY DEF rcw_destroy
  <1> HIDE DEF v
  <1>3. SUFFICES ASSUME NEW s \in Sources, v.run[s] > (IF v.id[s] THEN 1 ELSE 0),
                        s \notin Overwritten
                 PROVE  FALSE
    BY <1>2
  <1>4. v.run[s] = IF v.id[s] THEN 1 ELSE 0
    BY <1>1, <1>3 DEF WinOK, Booked
  <1>5. QED BY <1>3, <1>4

\* A switch of pages leaves one idle source, for the page that is shown.
LEMMA Switched ==
    ASSUME NEW w, WinOK(w), NEW t \in Tabs, on_switch_page(w, t)
    PROVE  /\ WinOK(win') /\ win'.alive = w.alive /\ win'.focused = w.focused
           /\ Grabbing(win') => Grabbing(w)
           /\ spf_tab' = t /\ shown' = t
  <1> DEFINE u == g_source_remove(w, "spf")
  <1>0. /\ "spf" \in Sources /\ "spf" \notin Overwritten
        /\ GrabTimers \subseteq Sources \ {"spf"}
    BY DEF Sources, Overwritten, GrabTimers
  <1>1. /\ WinOK(u) /\ ~u.id["spf"] /\ u.kb = w.kb /\ u.ptr = w.ptr
        /\ u.alive = w.alive /\ u.focused = w.focused
        /\ \A r \in Sources \ {"spf"} : u.id[r] = w.id[r]
    BY <1>0, Removed
  <1>2. win' = g_timeout_add(u, "spf") /\ spf_tab' = t /\ shown' = t
    BY DEF on_switch_page
  <1> HIDE DEF u
  <1>3. Free(u, "spf")
    BY <1>0, <1>1 DEF Free
  <1>4. /\ WinOK(win') /\ win'.kb = u.kb /\ win'.ptr = u.ptr
        /\ win'.alive = u.alive /\ win'.focused = u.focused
        /\ \A r \in Sources \ {"spf"} : win'.id[r] = u.id[r]
    BY <1>0, <1>1, <1>2, <1>3, Added
  <1>5. QED BY <1>0, <1>1, <1>2, <1>4 DEF Grabbing

-----------------------------------------------------------------------------
(* The steps                                                               *)

\* Most actions change the window alone: what they have to show is that it stays
\* in order, and that it does not grab without the focus and a connection.
LEMMA Quiet ==
    ASSUME IInv, win.alive, WinOK(win'), win'.alive = win.alive,
           win'.run["spf"] > 0 => win.run["spf"] > 0,
           Grabbing(win') => win'.focused /\ \E t \in Tabs : tabs[t] = "on",
           grabs' \in [Tabs -> BOOLEAN], UNCHANGED <<tabs, shown, spf_tab, orphans>>
    PROVE  IInv'
  <1>1. TypeOK'
    BY DEF IInv, TypeOK, WinOK, Windows
  <1>2. SwitchFindsTab' /\ SourcesDieWithWindow'
    BY DEF IInv, SwitchFindsTab, SourcesDieWithWindow
  <1>3. WinOK(win)' /\ Grabbing(win)' = Grabbing(win') /\ WinOK(win)' = WinOK(win')
    BY DEF WinOK, Grabbing, Booked
  <1>4. QED BY <1>1, <1>2, <1>3 DEF IInv, Open

\* Only a living window has sources, and only with a connection does it grab.
LEMMA Living ==
    ASSUME IInv
    PROVE  /\ \A s \in Sources : win.run[s] > 0 => win.alive
           /\ Grabbing(win) => win.alive
           /\ win.seat # {} => win.alive
           /\ \A t \in Tabs : tabs[t] # "none" => win.alive
           /\ \A s \in GrabTimers : win.run[s] > 0 => Grabbing(win)
  <1>1. \A s \in Sources : win.run[s] > 0 => win.alive
    BY DEF IInv
  <1>2. \A t \in Tabs : tabs[t] # "none" => win.alive
    BY DEF IInv, Open
  <1>3. Grabbing(win) => win.alive
    BY <1>2 DEF IInv
  <1>4. win.seat # {} => win.alive
    BY <1>3 DEF IInv, WinOK, Grabbing
  <1>5. ASSUME NEW s \in GrabTimers, win.run[s] > 0 PROVE Grabbing(win)
    <2>1. s \in Sources /\ s \notin Overwritten
      BY DEF GrabTimers, Sources, Overwritten
    <2>2. win.run[s] = IF win.id[s] THEN 1 ELSE 0
      BY <2>1 DEF IInv, WinOK, Booked
    <2>3. win.id[s]
      BY <1>5, <2>2
    <2>4. QED BY <2>3 DEF Grabbing
  <1>6. QED BY <1>1, <1>2, <1>3, <1>4, <1>5

\* A field that no invariant looks at may take any value of its type.
LEMMA Field ==
    ASSUME NEW w, WinOK(w), NEW b \in BOOLEAN
    PROVE  /\ LET v == [w EXCEPT !.button = b]
              IN WinOK(v) /\ Alike(v, w) /\ Grabbing(v) = Grabbing(w)
           /\ LET v == [w EXCEPT !.pinned = b]
              IN WinOK(v) /\ Alike(v, w) /\ Grabbing(v) = Grabbing(w)
  <1>1. w \in Windows /\ Booked(w) /\ (w.seat # {} => w.kb \/ w.ptr)
    BY DEF WinOK
  <1>2. ASSUME NEW v \in Windows, v.id = w.id, v.run = w.run, v.seat = w.seat,
               v.kb = w.kb, v.ptr = w.ptr
        PROVE  WinOK(v) /\ Grabbing(v) = Grabbing(w)
    BY <1>1, <1>2 DEF WinOK, Booked, Grabbing
  <1>3. QED BY <1>1, <1>2 DEF Windows, Alike

\* A step that shows a page of a living window.
LEMMA Turned ==
    ASSUME IInv, NEW w, WinOK(w), w.alive, NEW t \in Tabs, on_switch_page(w, t),
           tabs' \in [Tabs -> {"none", "opening", "on", "off"}], tabs'[t] # "none",
           Grabbing(w) => w.focused /\ \E u \in Tabs : tabs'[u] = "on",
           grabs' \in [Tabs -> BOOLEAN], orphans' \subseteq Overwritten
    PROVE  IInv'
  <1>1. /\ WinOK(win') /\ win'.alive /\ win'.focused = w.focused
        /\ Grabbing(win') => Grabbing(w)
        /\ spf_tab' = t /\ shown' = t
    BY Switched
  <1>2. TypeOK'
    BY <1>1 DEF TypeOK, WinOK, Windows, Overwritten, Sources
  <1>3. SwitchFindsTab' /\ SourcesDieWithWindow'
    BY <1>1 DEF SwitchFindsTab, SourcesDieWithWindow, Overwritten
  <1>4. WinOK(win)' = WinOK(win') /\ Grabbing(win)' = Grabbing(win')
    BY DEF WinOK, Grabbing, Booked
  <1>5. QED BY <1>1, <1>2, <1>3, <1>4 DEF IInv

\* rco_closewin, when nothing is grabbed on behalf of the tab that goes.
LEMMA Closed ==
    ASSUME IInv, NEW w, WinOK(w), Alike(w, win), w.alive,
           NEW t \in Tabs, tabs[t] # "none", rco_closewin(w, t),
           Grabbing(w) => w.focused /\ \E u \in Tabs \ {t} : tabs[u] = "on",
           grabs' \in [Tabs -> BOOLEAN]
    PROVE  IInv'
  <1>1. /\ tabs' = [tabs EXCEPT ![t] = "none"]
        /\ tabs' \in [Tabs -> {"none", "opening", "on", "off"}]
        /\ orphans \subseteq Overwritten
        /\ Open \subseteq Tabs
        /\ Grabbing(w) => w.focused /\ \E u \in Tabs : tabs'[u] = "on"
    BY DEF rco_closewin, IInv, TypeOK, SourcesDieWithWindow, Overwritten, Open
  <1>2. CASE /\ Open \ {t} # {} /\ shown = t /\ UNCHANGED orphans
             /\ \E u \in Open \ {t} : on_switch_page(w, u)
    <2>1. PICK u \in Open \ {t} : on_switch_page(w, u)
      BY <1>2
    <2>2. u \in Tabs /\ tabs'[u] # "none"
      BY <1>1, <2>1 DEF Open, IInv, TypeOK
    <2>3. QED BY <1>1, <1>2, <2>1, <2>2, Turned
  <1>3. CASE shown # t /\ win' = w /\ UNCHANGED <<shown, spf_tab, orphans>>
    <2>1. TypeOK'
      BY <1>1, <1>3 DEF IInv, TypeOK, WinOK, Windows
    <2>2. tabs'[shown] # "none" /\ tabs'[shown] = tabs[shown]
      BY <1>1, <1>3, <2>1 DEF IInv, TypeOK, Alike
    <2>3. SwitchFindsTab'
      BY <1>3, <2>2 DEF IInv, SwitchFindsTab, Alike
    <2>4. SourcesDieWithWindow'
      BY <1>3 DEF IInv, SourcesDieWithWindow
    <2>5. WinOK(win)' = WinOK(win') /\ Grabbing(win)' = Grabbing(win')
      BY DEF WinOK, Grabbing, Booked
    <2>6. QED BY <1>1, <1>3, <2>1, <2>2, <2>3, <2>4, <2>5 DEF IInv
  <1>4. CASE /\ Open = {t} /\ orphans' = orphans \cup rcw_destroy(w)
             /\ win' = [NewWindow(w.mode, w.pinned) EXCEPT !.alive = FALSE]
             /\ UNCHANGED <<shown, spf_tab>>
    <2>1. w.mode \in {"window", "fullscreen"} /\ w.pinned \in BOOLEAN
      BY DEF WinOK, Windows
    <2>2. /\ WinOK(win') /\ ~Grabbing(win') /\ ~win'.alive
          /\ \A s \in Sources : win'.run[s] = 0
      <3>1. win' = NoWindow(w.mode, w.pinned)
        BY <1>4 DEF NoWindow
      <3>2. QED BY <2>1, <3>1, Fresh
    <2>3. orphans' \subseteq Overwritten
      BY <1>1, <1>4, Destroyed
    <2>4. Open' = {}
      BY <1>1, <1>4 DEF Open, IInv, TypeOK
    <2>5. TypeOK'
      BY <1>1, <1>4, <2>2, <2>3 DEF IInv, TypeOK, WinOK, Windows, Overwritten, Sources
    <2>6. SwitchFindsTab' /\ SourcesDieWithWindow'
      BY <2>2, <2>3 DEF SwitchFindsTab, SourcesDieWithWindow, Overwritten, Sources
    <2>7. WinOK(win)' = WinOK(win') /\ Grabbing(win)' = Grabbing(win')
      BY DEF WinOK, Grabbing, Booked
    <2>8. QED BY <2>2, <2>4, <2>5, <2>6, <2>7 DEF IInv
  <1>5. QED BY <1>2, <1>3, <1>4 DEF rco_closewin

\* The steps of the pages and of the plugins' signals.
LEMMA PageSteps ==
    ASSUME IInv, NEW t \in Tabs,
           SwitchTab(t) \/ AddTab(t) \/ CloseTab(t) \/ Connect(t) \/ Disconnect(t)
    PROVE  IInv'
  <1>0. /\ WinOK(win) /\ TypeOK /\ orphans \subseteq Overwritten
        /\ tabs[t] # "none" => win.alive
    BY Living DEF IInv, SourcesDieWithWindow, Overwritten
  <1>1. CASE SwitchTab(t)
    <2>1. win.alive /\ tabs[t] # "none" /\ on_switch_page(win, t)
      BY <1>1 DEF SwitchTab, Open
    <2>2. UNCHANGED <<tabs, grabs, orphans>>
      BY <1>1 DEF SwitchTab
    <2>3. Grabbing(win) => win.focused /\ \E u \in Tabs : tabs'[u] = "on"
      BY <2>2 DEF IInv
    <2>4. QED BY <1>0, <2>1, <2>2, <2>3, Turned DEF TypeOK
  <1>2. CASE AddTab(t)
    <2>1. /\ tabs' = [tabs EXCEPT ![t] = "opening"] /\ tabs[t] = "none"
          /\ UNCHANGED <<grabs, orphans>>
      BY <1>2 DEF AddTab
    <2>2. /\ tabs' \in [Tabs -> {"none", "opening", "on", "off"}] /\ tabs'[t] # "none"
          /\ \A u \in Tabs : tabs[u] = "on" => tabs'[u] = "on"
      BY <1>0, <2>1 DEF TypeOK
    <2>3. CASE win.alive
      <3>1. on_switch_page(win, t)
        BY <1>2, <2>3 DEF AddTab
      <3>2. Grabbing(win) => win.focused /\ \E u \in Tabs : tabs'[u] = "on"
        BY <2>2 DEF IInv
      <3>3. QED BY <1>0, <2>1, <2>2, <2>3, <3>1, <3>2, Turned DEF TypeOK
    <2>4. CASE ~win.alive
      <3>1. PICK mode \in {"window", "fullscreen"} :
                on_switch_page(NewWindow(mode, win.pinned), t)
        BY <1>2, <2>4 DEF AddTab
      <3> DEFINE w == NewWindow(mode, win.pinned)
      <3>2. win.pinned \in BOOLEAN
        BY <1>0 DEF WinOK, Windows
      <3>3. WinOK(w) /\ ~Grabbing(w) /\ w.alive
        BY <3>2, Fresh
      <3> HIDE DEF w
      <3>4. on_switch_page(w, t)
        BY <3>1 DEF w
      <3>5. QED BY <1>0, <2>1, <2>2, <3>3, <3>4, Turned DEF TypeOK
    <2>5. QED BY <2>3, <2>4
  <1>3. CASE CloseTab(t)
    <2>1. tabs[t] # "none" /\ rco_closewin(win, t) /\ UNCHANGED grabs /\ tabs[t] = "off"
      BY <1>3 DEF CloseTab
    <2>2. Grabbing(win) => win.focused /\ \E u \in Tabs \ {t} : tabs[u] = "on"
      BY <2>1 DEF IInv
    <2>3. Alike(win, win) /\ win.alive /\ grabs' \in [Tabs -> BOOLEAN]
      BY <1>0, <2>1 DEF Alike, TypeOK
    <2>4. QED BY <1>0, <2>1, <2>2, <2>3, Closed
  <1>4. CASE Connect(t)
    <2> DEFINE w == [win EXCEPT !.button = grabs[t]]
    <2>1. /\ tabs[t] = "opening" /\ win.run["dwp"] < MaxSources
          /\ tabs' = [tabs EXCEPT ![t] = "on"]
          /\ UNCHANGED <<grabs, shown, spf_tab, orphans>>
      BY <1>4 DEF Connect
    <2>2. PICK v \in IF w.entered /\ grabs[t] /\ w.focused THEN grab_both(w) ELSE {w} :
                 win' = g_timeout_add(v, "dwp")
      BY <1>4 DEF Connect
    <2>3. /\ WinOK(w) /\ Alike(w, win) /\ Grabbing(w) = Grabbing(win)
          /\ w.run = win.run
      <3>1. grabs[t] \in BOOLEAN
        BY <1>0 DEF TypeOK
      <3>2. w.run = win.run
        BY <1>0 DEF WinOK, Windows
      <3>3. QED BY <1>0, <3>1, <3>2, Field
    <2>4. "dwp" \in Sources \ GrabTimers /\ "dwp" \in Overwritten /\ "spf" # "dwp"
          /\ GrabTimers \subseteq Sources \ {"dwp"} /\ "spf" \in Sources
      BY DEF Sources, GrabTimers, Overwritten
    <2> HIDE DEF w
    <2>5. /\ WinOK(v) /\ Alike(v, w) /\ v.run["dwp"] = w.run["dwp"]
          /\ Grabbing(v) => Grabbing(w) \/ w.focused
      <3>1. CASE v \in grab_both(w) /\ w.focused
        BY <2>3, <2>4, <3>1, BothGrabbed
      <3>2. CASE v = w
        BY <2>3, <3>2 DEF Alike
      <3>3. QED BY <2>2, <3>1, <3>2
    <2>6. Free(v, "dwp")
      BY <2>1, <2>3, <2>4, <2>5 DEF Free
    <2>7. /\ WinOK(win') /\ Alike(win', v) /\ (Grabbing(win') => Grabbing(v))
      <3> DEFINE a == g_timeout_add(v, "dwp")
      <3>1. /\ WinOK(a) /\ a.alive = v.alive /\ a.focused = v.focused
            /\ a.kb = v.kb /\ a.ptr = v.ptr
            /\ \A r \in Sources \ {"dwp"} : a.id[r] = v.id[r] /\ a.run[r] = v.run[r]
        BY <2>4, <2>5, <2>6, Added
      <3> HIDE DEF a
      <3>2. QED BY <2>2, <2>4, <3>1 DEF a, Alike, Grabbing
    <2>8. /\ win.alive /\ win'.alive = win.alive /\ win'.run["spf"] = win.run["spf"]
          /\ Grabbing(win') => win'.focused
      BY <1>0, <2>1, <2>3, <2>5, <2>7 DEF Alike, IInv
    <2>9. /\ tabs' \in [Tabs -> {"none", "opening", "on", "off"}] /\ tabs'[t] = "on"
          /\ \A u \in Tabs : tabs'[u] = "none" <=> tabs[u] = "none"
      BY <1>0, <2>1 DEF TypeOK
    <2>10. TypeOK'
      BY <1>0, <2>1, <2>7, <2>9 DEF TypeOK, WinOK, Windows
    <2>11. SwitchFindsTab' /\ SourcesDieWithWindow'
      BY <1>0, <2>1, <2>8, <2>9 DEF IInv, TypeOK, SwitchFindsTab, SourcesDieWithWindow
    <2>12. WinOK(win)' = WinOK(win') /\ Grabbing(win)' = Grabbing(win')
      BY DEF WinOK, Grabbing, Booked
    <2>13. tabs'[shown'] # "none"
      BY <1>0, <2>1, <2>8, <2>9 DEF IInv, TypeOK
    <2>14. QED BY <2>7, <2>8, <2>9, <2>10, <2>11, <2>12, <2>13 DEF IInv
  <1>5. CASE Disconnect(t)
    <2> DEFINE w == on_disconnect(win)
    <2>1. /\ tabs[t] \in {"opening", "on"} /\ grabs' \in [Tabs -> BOOLEAN]
          /\ tabs[t] # "none" /\ win.alive
      BY <1>0, <1>5 DEF Disconnect, TypeOK
    <2>2. WinOK(w) /\ Alike(w, win) /\ ~Grabbing(w)
      <3> DEFINE u == rcw_kp_ungrab(win)
                 x == rcw_pointer_ungrab(u)
                 y == rcw_kp_ungrab(x)
                 b == win.button /\ grabs'[shown]
      <3>1. WinOK(u) /\ Alike(u, win)
        BY <1>0, Ungrabbed
      <3> HIDE DEF u
      <3>2. WinOK(x) /\ Alike(x, u)
        BY <3>1, PointerUngrabbed
      <3> HIDE DEF x
      <3>3. WinOK(y) /\ Alike(y, x) /\ ~Grabbing(y)
        BY <3>2, Ungrabbed
      <3>4. w = [y EXCEPT !.button = b]
        BY DEF on_disconnect, u, x
      <3>5. b \in BOOLEAN
        OBVIOUS
      <3> HIDE DEF y, b, w
      <3> DEFINE z == [y EXCEPT !.button = b]
      <3>6. WinOK(z) /\ Alike(z, y) /\ Grabbing(z) = Grabbing(y)
        BY <3>3, <3>5, Field
      <3> HIDE DEF z
      <3>7. w = z
        BY <3>4 DEF z
      <3>8. QED BY <3>1, <3>2, <3>3, <3>6, <3>7 DEF Alike
    <2> HIDE DEF w
    <2>3. CASE /\ tabs' = [tabs EXCEPT ![t] = "off"] /\ win' = w
               /\ UNCHANGED <<shown, spf_tab, orphans>>
      <3>1. /\ tabs' \in [Tabs -> {"none", "opening", "on", "off"}]
            /\ \A u \in Tabs : tabs'[u] = "none" <=> tabs[u] = "none"
        BY <1>0, <2>1, <2>3 DEF TypeOK
      <3>2. TypeOK'
        BY <1>0, <2>1, <2>2, <2>3, <3>1 DEF TypeOK, WinOK, Windows
      <3>3. SwitchFindsTab' /\ SourcesDieWithWindow'
        BY <1>0, <2>2, <2>3, <3>1
        DEF IInv, TypeOK, SwitchFindsTab, SourcesDieWithWindow, Alike
      <3>4. WinOK(win)' = WinOK(win') /\ Grabbing(win)' = Grabbing(win')
        BY DEF WinOK, Grabbing, Booked
      <3>5. win'.alive /\ tabs'[shown'] # "none"
        BY <1>0, <2>1, <2>2, <2>3, <3>1 DEF IInv, TypeOK, Alike
      <3>6. QED BY <2>2, <2>3, <3>2, <3>3, <3>4, <3>5 DEF IInv
    <2>4. CASE rco_closewin(w, t)
      <3>1. w.alive
        BY <2>1, <2>2 DEF Alike
      <3>2. QED BY <2>1, <2>2, <2>4, <3>1, Closed
    <2>5. QED BY <1>5, <2>3, <2>4 DEF Disconnect, w
  <1>6. QED BY <1>1, <1>2, <1>3, <1>4, <1>5

\* The steps of the timers, of the toolbar and of the user.
LEMMA WindowSteps ==
    ASSUME IInv,
           \/ Pin \/ ShowToolbar \/ MakeInvisible \/ FloatingToolbarHide
           \/ SwitchPageFinalsel \/ SwitchViewmode \/ WindowPresent
           \/ ToolbarGrab \/ FocusIn \/ FocusOut \/ DelayedGrab \/ GrabRetry
           \/ EnterWidget \/ EnterAfterTheft \/ LeaveWidget \/ LeaveWindow \/ Theft
           \/ Configure \/ AfterConfigure \/ Autofit \/ AutofitRestore
    PROVE  IInv'
  <1>0. /\ WinOK(win) /\ TypeOK /\ orphans \subseteq Overwritten
        /\ grabs \in [Tabs -> BOOLEAN] /\ Alike(win, win)
        /\ Grabbing(win) => win.focused /\ \E t \in Tabs : tabs[t] = "on"
        /\ \A s \in Sources : win.run[s] > 0 => win.alive
        /\ win.seat # {} => win.alive
    BY Living DEF IInv, SourcesDieWithWindow, Overwritten, TypeOK, Alike
  <1>s. /\ Sources = {"acs", "spf", "grab_retry", "delayed_grab", "ftb_hide", "tar",
                      "hidetb", "dwp"}
        /\ GrabTimers = {"grab_retry", "delayed_grab"} /\ Overwritten = {"tar", "dwp"}
    BY DEF Sources, GrabTimers, Overwritten
  \* a source runs, and does nothing with the grabs
  <1>r. ASSUME NEW s \in Sources \ (GrabTimers \cup {"spf"}), win.run[s] > 0,
               NEW w, w = Last(win, s)
        PROVE  WinOK(w) /\ Alike(w, win) /\ (Grabbing(w) => Grabbing(win)) /\ win.alive
    <2>1. /\ WinOK(w) /\ w.alive = win.alive /\ w.focused = win.focused
          /\ w.kb = win.kb /\ w.ptr = win.ptr
          /\ \A r \in Sources \ {s} : w.id[r] = win.id[r] /\ w.run[r] = win.run[r]
      BY <1>0, <1>r, Ran
    <2>2. QED BY <1>0, <1>s, <1>r, <2>1 DEF Alike, Grabbing
  \* the window stays alike, and grabs no more than it did
  <1>q. ASSUME WinOK(win'), Alike(win', win), Grabbing(win') => Grabbing(win), win.alive,
               UNCHANGED <<tabs, grabs, shown, spf_tab, orphans>>
        PROVE  IInv'
    BY <1>0, <1>q, Quiet DEF Alike
  <1>1. CASE Pin
    <2>1. PICK b \in BOOLEAN : win' = [win EXCEPT !.pinned = b]
      BY <1>1 DEF Pin
    <2>2. WinOK(win') /\ Alike(win', win) /\ Grabbing(win') = Grabbing(win)
      BY <1>0, <2>1, Field
    <2>3. QED BY <1>1, <1>q, <2>2 DEF Pin
  <1>2. CASE ShowToolbar
    <2>1. PICK show \in BOOLEAN : win' = rcw_floating_toolbar_show(win, show)
      BY <1>2 DEF ShowToolbar
    <2>2. WinOK(win') /\ Alike(win', win) /\ (Grabbing(win') => Grabbing(win))
      BY <1>0, <2>1, ToolbarShown
    <2>3. QED BY <1>2, <1>q, <2>2 DEF ShowToolbar
  <1>3. CASE MakeInvisible
    BY <1>3, <1>s, <1>r, <1>q DEF MakeInvisible
  <1>4. CASE FloatingToolbarHide
    <2> DEFINE w == Last(win, "hidetb")
    <2>1. WinOK(w) /\ Alike(w, win) /\ (Grabbing(w) => Grabbing(win)) /\ win.alive
      BY <1>4, <1>s, <1>r DEF FloatingToolbarHide
    <2>2. /\ win' = rcw_floating_toolbar_show(w, FALSE)
          /\ UNCHANGED <<tabs, grabs, shown, spf_tab, orphans>>
      BY <1>4 DEF FloatingToolbarHide
    <2> HIDE DEF w
    <2>3. WinOK(win') /\ Alike(win', w) /\ (Grabbing(win') => Grabbing(w))
      BY <2>1, <2>2, ToolbarShown
    <2>4. QED BY <1>q, <2>1, <2>2, <2>3 DEF Alike
  <1>5. CASE WindowPresent
    BY <1>5, <1>s, <1>r, <1>q DEF WindowPresent
  <1>6. CASE AfterConfigure
    BY <1>6, <1>s, <1>r, <1>q DEF AfterConfigure
  <1>7. CASE AutofitRestore
    BY <1>7, <1>s, <1>r, <1>q DEF AutofitRestore
  <1>8. CASE Autofit
    <2> DEFINE a == g_timeout_add(win, "tar")
    <2>1. /\ win.alive /\ win' = a /\ Free(win, "tar")
          /\ UNCHANGED <<tabs, grabs, shown, spf_tab, orphans>>
      BY <1>8, <1>s DEF Autofit, Free
    <2>2. /\ WinOK(a) /\ a.alive = win.alive /\ a.focused = win.focused
          /\ a.kb = win.kb /\ a.ptr = win.ptr
          /\ \A r \in Sources \ {"tar"} : a.id[r] = win.id[r] /\ a.run[r] = win.run[r]
      <3>1. "tar" \in Sources /\ Free(win, "tar") /\ WinOK(win)
        BY <1>0, <1>s, <2>1
      <3>2. QED BY <3>1, Added
    <2> HIDE DEF a
    <2>3. QED BY <1>s, <1>q, <2>1, <2>2 DEF Alike, Grabbing
  <1>9. CASE Configure
    <2> DEFINE v == g_source_remove(win, "acs")
               a == g_timeout_add(v, "acs")
    <2>1. /\ WinOK(v) /\ ~v.id["acs"] /\ v.alive = win.alive /\ v.focused = win.focused
          /\ v.kb = win.kb /\ v.ptr = win.ptr
          /\ \A r \in Sources \ {"acs"} : v.id[r] = win.id[r] /\ v.run[r] = win.run[r]
      BY <1>0, <1>s, Removed
    <2>2. /\ win' = v \/ win' = a
          /\ win.alive /\ UNCHANGED <<tabs, grabs, shown, spf_tab, orphans>>
      BY <1>9 DEF Configure
    <2> HIDE DEF v
    <2>3. Free(v, "acs")
      BY <1>s, <2>1 DEF Free
    <2>4. /\ WinOK(a) /\ a.alive = v.alive /\ a.focused = v.focused
          /\ a.kb = v.kb /\ a.ptr = v.ptr
          /\ \A r \in Sources \ {"acs"} : a.id[r] = v.id[r] /\ a.run[r] = v.run[r]
      BY <1>s, <2>1, <2>3, Added
    <2> HIDE DEF a
    <2>5. QED BY <1>s, <1>q, <2>1, <2>2, <2>4 DEF Alike, Grabbing
  <1>10. CASE Theft
    <2>1. win' = [win EXCEPT !.seat = {}] /\ win.alive
          /\ UNCHANGED <<tabs, grabs, shown, spf_tab, orphans>>
      BY <1>0, <1>10 DEF Theft
    <2>2. WinOK(win') /\ Alike(win', win) /\ (Grabbing(win') => Grabbing(win))
      BY <1>0, <2>1 DEF WinOK, Windows, Booked, Alike, Grabbing
    <2>3. QED BY <1>q, <2>1, <2>2
  <1>11. CASE LeaveWindow
    <2> DEFINE v == g_source_remove(win, "delayed_grab")
               u == rcw_kp_ungrab(v)
    <2>1. /\ WinOK(v) /\ v.alive = win.alive /\ v.focused = win.focused
          /\ ~v.id["delayed_grab"] /\ v.kb = win.kb /\ v.ptr = win.ptr
          /\ \A r \in Sources \ {"delayed_grab"} : v.id[r] = win.id[r] /\ v.run[r] = win.run[r]
      BY <1>0, <1>s, Removed
    <2>2. /\ win' = v \/ win' = rcw_pointer_ungrab(u)
          /\ win.alive /\ UNCHANGED <<tabs, grabs, shown, spf_tab, orphans>>
      BY <1>11 DEF LeaveWindow
    <2> HIDE DEF v
    <2>3. WinOK(u) /\ Alike(u, v) /\ ~Grabbing(u)
      BY <2>1, Ungrabbed
    <2>4. Alike(v, win) /\ (Grabbing(v) => Grabbing(win))
      BY <1>s, <2>1 DEF Alike, Grabbing
    <2> HIDE DEF u
    <2>5. /\ WinOK(rcw_pointer_ungrab(u)) /\ Alike(rcw_pointer_ungrab(u), u)
          /\ ~Grabbing(rcw_pointer_ungrab(u))
      BY <2>3, PointerUngrabbed
    <2>6. QED BY <1>q, <2>1, <2>2, <2>3, <2>4, <2>5 DEF Alike
  <1>12. CASE LeaveWidget
    <2> DEFINE x == g_source_remove(win, "delayed_grab")
               v == [x EXCEPT !.entered = FALSE]
    <2>1. /\ WinOK(x) /\ x.alive = win.alive /\ x.focused = win.focused
          /\ ~x.id["delayed_grab"] /\ x.kb = win.kb /\ x.ptr = win.ptr
          /\ \A r \in Sources \ {"delayed_grab"} : x.id[r] = win.id[r] /\ x.run[r] = win.run[r]
      BY <1>0, <1>s, Removed
    <2>2. Alike(x, win) /\ (Grabbing(x) => Grabbing(win))
      BY <1>s, <2>1 DEF Alike, Grabbing
    <2>3. /\ win' = v \/ win' = rcw_kp_ungrab(v)
          /\ win.alive /\ UNCHANGED <<tabs, grabs, shown, spf_tab, orphans>>
      BY <1>12 DEF LeaveWidget
    <2> HIDE DEF x
    <2>4. WinOK(v) /\ Alike(v, x) /\ (Grabbing(v) => Grabbing(x))
      BY <2>1 DEF WinOK, Windows, Booked, Alike, Grabbing
    <2> HIDE DEF v
    <2>5. WinOK(rcw_kp_ungrab(v)) /\ Alike(rcw_kp_ungrab(v), v) /\ ~Grabbing(rcw_kp_ungrab(v))
      BY <2>4, Ungrabbed
    <2>6. QED BY <1>q, <2>2, <2>3, <2>4, <2>5 DEF Alike
  <1>13. CASE FocusOut
    <2> DEFINE b == FALSE
               w == [win EXCEPT !.focused = b]
    <2>1. WinOK(w) /\ w.run = win.run /\ w.alive = win.alive
      BY <1>0 DEF WinOK, Windows, Booked
    <2>2. win' = rcw_kp_ungrab(w) /\ win.alive
          /\ UNCHANGED <<tabs, grabs, shown, spf_tab, orphans>>
      BY <1>13 DEF FocusOut
    <2> HIDE DEF w
    <2>3. WinOK(win') /\ ~Grabbing(win') /\ Alike(win', w)
      BY <2>1, <2>2, Ungrabbed
    <2>4. QED BY <1>0, <2>1, <2>2, <2>3, Quiet DEF Alike
  <1>14. CASE FocusIn
    <2> DEFINE w == [win EXCEPT !.focused = TRUE]
    <2>1. /\ WinOK(w) /\ w.run = win.run /\ w.id = win.id /\ w.alive = win.alive
          /\ w.focused = TRUE /\ (Grabbing(w) => Grabbing(win))
      BY <1>0 DEF WinOK, Windows, Booked, Grabbing
    <2>2. /\ win' = rcw_focus_in(w) /\ win.alive
          /\ UNCHANGED <<tabs, grabs, shown, spf_tab, orphans>>
      BY <1>14 DEF FocusIn
    <2> HIDE DEF w
    <2>3. CASE win' = w
      BY <1>0, <2>1, <2>2, <2>3, Quiet
    <2>4. CASE /\ tabs[shown] = "on" /\ ~w.id["delayed_grab"]
               /\ win' = g_timeout_add(w, "delayed_grab")
      <3>1. Free(w, "delayed_grab")
        BY <1>s, <2>4 DEF Free
      <3>2. /\ WinOK(win') /\ win'.alive = w.alive /\ win'.focused = w.focused
            /\ win'.run["spf"] = w.run["spf"]
        BY <1>s, <2>1, <2>4, <3>1, Added
      <3>3. shown \in Tabs
        BY <1>0 DEF TypeOK
      <3>4. QED BY <1>0, <2>1, <2>2, <2>4, <3>2, <3>3, Quiet
    <2>5. QED BY <2>2, <2>3, <2>4 DEF rcw_focus_in
  \* a window that has the focus and a connection may grab
  <1>g. ASSUME WinOK(win'), win'.alive = win.alive, win'.run["spf"] = win.run["spf"],
               win'.focused, \E t \in Tabs : tabs[t] = "on", win.alive,
               grabs' \in [Tabs -> BOOLEAN], UNCHANGED <<tabs, shown, spf_tab, orphans>>
        PROVE  IInv'
    BY <1>g, Quiet
  <1>15. CASE DelayedGrab
    <2>1. win.focused /\ win.alive /\ \E t \in Tabs : tabs[t] = "on"
      BY <1>0, <1>s, <1>15, Living DEF DelayedGrab
    <2>2. PICK v \in IF win.entered THEN grab_both(win) ELSE {win} :
                 win' = g_source_remove(v, "delayed_grab")
      BY <1>15 DEF DelayedGrab
    <2>3. WinOK(v) /\ Alike(v, win)
      BY <1>0, <2>2, BothGrabbed
    <2> DEFINE u == g_source_remove(v, "delayed_grab")
    <2>4. /\ WinOK(u) /\ u.alive = v.alive /\ u.focused = v.focused
          /\ u.run["spf"] = v.run["spf"]
      BY <1>s, <2>3, Removed
    <2>5. win' = u /\ UNCHANGED <<tabs, grabs, shown, spf_tab, orphans>>
      BY <1>15, <2>2 DEF DelayedGrab
    <2> HIDE DEF u
    <2>6. QED BY <1>0, <1>g, <2>1, <2>3, <2>4, <2>5 DEF Alike
  <1>16. CASE GrabRetry
    <2>1. win.focused /\ win.alive /\ \E t \in Tabs : tabs[t] = "on"
      BY <1>0, <1>s, <1>16, Living DEF GrabRetry
    <2>2. PICK v \in rcw_keyboard_grab(win) : win' = g_source_remove(v, "grab_retry")
      BY <1>16 DEF GrabRetry
    <2>3. WinOK(v) /\ Alike(v, win)
      BY <1>0, <2>2, KeyboardGrabbed
    <2> DEFINE u == g_source_remove(v, "grab_retry")
    <2>4. /\ WinOK(u) /\ u.alive = v.alive /\ u.focused = v.focused
          /\ u.run["spf"] = v.run["spf"]
      BY <1>s, <2>3, Removed
    <2>5. win' = u /\ UNCHANGED <<tabs, grabs, shown, spf_tab, orphans>>
      BY <1>16, <2>2 DEF GrabRetry
    <2> HIDE DEF u
    <2>6. QED BY <1>0, <1>g, <2>1, <2>3, <2>4, <2>5 DEF Alike
  <1>17. CASE EnterWidget
    <2>1. PICK w \in {win, rcw_floating_toolbar_show(win, FALSE)} :
             \E v \in IF tabs[shown] = "on" /\ grabs[shown] /\ w.focused
                      THEN grab_both(w) ELSE {w} :
                win' = [v EXCEPT !.entered = TRUE]
      BY <1>17 DEF EnterWidget
    <2>2. WinOK(w) /\ Alike(w, win) /\ (Grabbing(w) => Grabbing(win))
      <3> DEFINE u == rcw_floating_toolbar_show(win, FALSE)
      <3>1. WinOK(u) /\ Alike(u, win) /\ (Grabbing(u) => Grabbing(win))
        BY <1>0, ToolbarShown
      <3>2. w = win \/ w = u
        BY <2>1
      <3> HIDE DEF u
      <3>3. QED BY <1>0, <3>1, <3>2
    <2>3. PICK v \in IF tabs[shown] = "on" /\ grabs[shown] /\ w.focused
                     THEN grab_both(w) ELSE {w} :
                win' = [v EXCEPT !.entered = TRUE]
      BY <2>1
    <2>4. /\ WinOK(v) /\ Alike(v, w)
          /\ v = w \/ (tabs[shown] = "on" /\ w.focused)
      BY <2>2, <2>3, BothGrabbed DEF Alike
    <2>5. WinOK(win') /\ Alike(win', v) /\ (Grabbing(win') => Grabbing(v))
      BY <2>3, <2>4 DEF WinOK, Windows, Booked, Alike, Grabbing
    <2>6. win.alive /\ shown \in Tabs /\ UNCHANGED <<tabs, grabs, shown, spf_tab, orphans>>
      BY <1>0, <1>17 DEF EnterWidget, TypeOK
    <2>7. CASE v = w
      BY <1>q, <2>2, <2>5, <2>6, <2>7 DEF Alike
    <2>8. CASE tabs[shown] = "on" /\ w.focused
      BY <1>0, <1>g, <2>2, <2>4, <2>5, <2>6, <2>8 DEF Alike
    <2>9. QED BY <2>4, <2>7, <2>8
  <1>18. CASE EnterAfterTheft
    <2>1. /\ win.alive /\ win.seat = {}
          /\ \/ win' = [win EXCEPT !.entered = TRUE, !.kb = FALSE, !.ptr = FALSE]
             \/ win' = [win EXCEPT !.entered = TRUE]
          /\ UNCHANGED <<tabs, grabs, shown, spf_tab, orphans>>
      BY <1>18 DEF EnterAfterTheft
    <2>2. WinOK(win') /\ Alike(win', win) /\ (Grabbing(win') => Grabbing(win))
      BY <1>0, <2>1 DEF WinOK, Windows, Booked, Alike, Grabbing
    <2>3. QED BY <1>q, <2>1, <2>2
  <1>19. CASE ToolbarGrab
    <2> DEFINE on == tabs[shown] = "on"
    <2>1. /\ win.alive /\ win.focused /\ shown \in Tabs
          /\ grabs' \in [Tabs -> BOOLEAN]
          /\ UNCHANGED <<tabs, shown, spf_tab, orphans>>
      BY <1>0, <1>19 DEF ToolbarGrab, TypeOK, WinOK, Windows
    <2>2. PICK v \in IF ~(~win.button /\ on) THEN {rcw_kp_ungrab(win)}
                     ELSE IF win.entered THEN grab_both(win)
                     ELSE rcw_keyboard_grab(win) :
                win' = [v EXCEPT !.button = grabs'[shown]]
      BY <1>19 DEF ToolbarGrab
    <2>3. /\ WinOK(v) /\ Alike(v, win)
          /\ on \/ ~Grabbing(v)
      BY <1>0, <2>2, Ungrabbed, BothGrabbed, KeyboardGrabbed
    <2>4. grabs'[shown] \in BOOLEAN
      BY <2>1
    <2>5. WinOK(win') /\ Alike(win', v) /\ (Grabbing(win') => Grabbing(v))
      BY <2>2, <2>3, <2>4 DEF WinOK, Windows, Booked, Alike, Grabbing
    <2>6. QED BY <2>1, <2>3, <2>5, Quiet DEF Alike
  <1>20. CASE SwitchPageFinalsel
    <2> DEFINE v == rcw_floating_toolbar_show(win, TRUE)
               a == g_timeout_add(v, "hidetb")
               u == IF v.id["hidetb"] THEN v ELSE a
               x == [u EXCEPT !.button = grabs[spf_tab]]
               y == Last(x, "spf")
    <2>1. /\ win' = y /\ win.run["spf"] > 0 /\ win.alive
          /\ UNCHANGED <<tabs, grabs, shown, spf_tab, orphans>>
      BY <1>0, <1>s, <1>20 DEF SwitchPageFinalsel
    <2>2. WinOK(v) /\ Alike(v, win) /\ (Grabbing(v) => Grabbing(win))
      BY <1>0, ToolbarShown
    <2> HIDE DEF v
    <2>3. ASSUME ~v.id["hidetb"]
          PROVE  WinOK(a) /\ Alike(a, v) /\ (Grabbing(a) => Grabbing(v))
      <3>1. Free(v, "hidetb")
        BY <1>s, <2>3 DEF Free
      <3>2. /\ WinOK(a) /\ a.alive = v.alive /\ a.focused = v.focused
            /\ a.kb = v.kb /\ a.ptr = v.ptr
            /\ \A r \in Sources \ {"hidetb"} : a.id[r] = v.id[r] /\ a.run[r] = v.run[r]
        BY <1>s, <2>2, <3>1, Added
      <3> HIDE DEF a
      <3>3. QED BY <1>s, <3>2 DEF Alike, Grabbing
    <2> HIDE DEF a
    <2>4. WinOK(u) /\ Alike(u, win) /\ (Grabbing(u) => Grabbing(win))
      BY <2>2, <2>3 DEF Alike
    <2> HIDE DEF u
    <2>5. grabs[spf_tab] \in BOOLEAN
      BY <1>0 DEF TypeOK
    <2>6. WinOK(x) /\ Alike(x, u) /\ (Grabbing(x) => Grabbing(u))
      BY <2>4, <2>5 DEF WinOK, Windows, Booked, Alike, Grabbing
    <2> HIDE DEF x
    <2>7. x.run["spf"] > 0
      BY <2>1, <2>4, <2>6 DEF Alike
    <2>8. /\ WinOK(y) /\ y.alive = x.alive /\ y.focused = x.focused
          /\ y.kb = x.kb /\ y.ptr = x.ptr /\ y.run["spf"] = 0
          /\ \A r \in Sources \ {"spf"} : y.id[r] = x.id[r] /\ y.run[r] = x.run[r]
      BY <1>s, <2>6, <2>7, Ran
    <2> HIDE DEF y
    <2>9. Grabbing(y) => Grabbing(x)
      BY <1>s, <2>8 DEF Grabbing
    <2>10. QED BY <1>0, <2>1, <2>4, <2>6, <2>8, <2>9, Quiet DEF Alike
  <1>21. CASE SwitchViewmode
    <2> DEFINE mode == IF win.mode = "window" THEN "fullscreen" ELSE "window"
               w == NewWindow(mode, win.pinned)
    <2>1. /\ win.alive /\ on_switch_page(w, shown)
          /\ orphans' = orphans \cup rcw_destroy(win) /\ UNCHANGED <<tabs, grabs>>
      BY <1>21 DEF SwitchViewmode
    <2>2. mode \in {"window", "fullscreen"} /\ win.pinned \in BOOLEAN
      BY <1>0 DEF WinOK, Windows
    <2> HIDE DEF mode
    <2>3. WinOK(w) /\ ~Grabbing(w) /\ w.alive
      BY <2>2, Fresh
    <2> HIDE DEF w
    <2>4. orphans' \subseteq Overwritten
      BY <1>0, <2>1, Destroyed
    <2>5. tabs'[shown] # "none" /\ shown \in Tabs
      BY <2>1 DEF IInv, TypeOK
    <2>6. QED BY <1>0, <2>1, <2>3, <2>4, <2>5, Turned DEF TypeOK
  <1>22. QED
    BY <1>1, <1>2, <1>3, <1>4, <1>5, <1>6, <1>7, <1>8, <1>9, <1>10, <1>11, <1>12, <1>13,
       <1>14, <1>15, <1>16, <1>17, <1>18, <1>19, <1>20, <1>21

-----------------------------------------------------------------------------
(* The theorems                                                            *)

\* The inductive invariant: the window's sources and grabs are in order.
THEOREM Invariance == Spec => []IInv
  <1>1. Init => IInv
    <2> SUFFICES ASSUME Init PROVE IInv
      OBVIOUS
    <2> DEFINE w == NoWindow("window", FALSE)
    <2>1. win = w
      BY DEF Init, NoWindow
    <2>2. WinOK(w) /\ ~Grabbing(w) /\ ~w.alive /\ \A s \in Sources : w.run[s] = 0
      BY Fresh
    <2> HIDE DEF w
    <2>3. TypeOK
      BY <2>1, <2>2 DEF Init, TypeOK, WinOK, Windows
    <2>4. SwitchFindsTab /\ SourcesDieWithWindow /\ Open = {}
      <3>1. win.run["spf"] = 0
        BY <2>1, <2>2 DEF Sources
      <3>2. SwitchFindsTab
        BY <3>1 DEF SwitchFindsTab
      <3>3. SourcesDieWithWindow /\ Open = {}
        BY DEF Init, SourcesDieWithWindow, Open
      <3>4. QED BY <3>2, <3>3
    <2>5. QED BY <2>1, <2>2, <2>3, <2>4 DEF IInv
  <1>2. IInv /\ [Next]_vars => IInv'
    <2> SUFFICES ASSUME IInv, [Next]_vars PROVE IInv'
      OBVIOUS
    <2>1. CASE \E t \in Tabs : \/ SwitchTab(t) \/ AddTab(t) \/ CloseTab(t)
                               \/ Connect(t) \/ Disconnect(t)
      BY <2>1, PageSteps
    <2>2. CASE UNCHANGED vars
      BY <2>2 DEF vars, IInv, TypeOK, WinOK, Booked, Grabbing, Open, SwitchFindsTab,
                  SourcesDieWithWindow
    <2>3. QED BY <2>1, <2>2, WindowSteps DEF Next
  <1>3. QED BY <1>1, <1>2, PTL DEF Spec

\* The types of the window and of its tabs.
THEOREM Typing == Spec => []TypeOK
  BY Invariance, PTL DEF IInv

\* Without the focus the window holds nothing, and nothing will grab.
THEOREM FocusGuardsGrab == Spec => []NoGrabUnfocused
  <1>1. IInv => NoGrabUnfocused
    <2> SUFFICES ASSUME IInv, ~win.focused
                 PROVE  win.seat = {} /\ \A s \in GrabTimers : win.run[s] = 0
      BY DEF NoGrabUnfocused
    <2>1. ~Grabbing(win)
      BY DEF IInv
    <2>2. win.seat = {}
      BY <2>1 DEF IInv, WinOK, Grabbing
    <2>3. \A s \in GrabTimers : s \in Sources /\ win.run[s] \in Nat
      BY MaxSourcesAssumption DEF IInv, WinOK, Windows, GrabTimers, Sources
    <2>4. QED BY <2>1, <2>2, <2>3, Living
  <1>2. QED BY <1>1, Invariance, PTL

\* Without a connection the window holds nothing, and nothing will grab.
THEOREM ConnectionGuardsGrab == Spec => []GrabNeedsConnection
  <1>1. IInv => GrabNeedsConnection
    <2> SUFFICES ASSUME IInv, win.seat # {} \/ \E s \in GrabTimers : win.run[s] > 0
                 PROVE  \E t \in Tabs : tabs[t] = "on"
      BY DEF GrabNeedsConnection
    <2>1. Grabbing(win)
      BY Living DEF IInv, WinOK, Grabbing
    <2>2. QED BY <2>1 DEF IInv
  <1>2. QED BY <1>1, Invariance, PTL

\* Only sources whose number is overwritten outlive a window.
THEOREM NoStraySource == Spec => []SourcesDieWithWindow
  BY Invariance, PTL DEF IInv

\* The idle source of switch-page finds the page that is shown.
THEOREM SwitchSafe == Spec => []SwitchFindsTab
  BY Invariance, PTL DEF IInv

=============================================================================
