--------------------- MODULE ConnectionLifecycle_proofs ---------------------
(***************************************************************************)
(* Proofs about ConnectionLifecycle, for any set of connections.           *)
(*                                                                         *)
(* Every handler works on the record of one connection, so the invariant   *)
(* is a predicate of one record and of what the main thread has still to   *)
(* do with it: t, the connection is among those to close, and m, its close *)
(* request has passed the check.  One lemma for each handler or action     *)
(* says that it keeps the predicate; the step lemma only sorts the actions *)
(* into those on the connection at hand and those on another.              *)
(***************************************************************************)
EXTENDS ConnectionLifecycle, SequenceTheorems, TLAPS

Sources == {"opened", "update", "closed"}

Queues == Seq(Sources)

\* Facts about a queue of sources: its length; the end of the connection is in it,
\* is nowhere but in the last place; the second of two sources is an update.
AtMost(q, n) == Len(q) <= n
Says(q) == \E i \in 1 .. Len(q) : q[i] = "closed"
LastOnly(q) == \A i \in 1 .. Len(q) : q[i] = "closed" => i = Len(q)
Second(q) == Len(q) = 2 => q[2] = "update"

Live(r) == r.thread \in {"run", "up"}

\* What belongs together in TypeOK.
Types(r) ==
    /\ r \in Connection
    /\ r.obj => r.widget \in {"tree", "detached"}
    /\ r.panels # {} => r.obj
    /\ AtMost(r.queue, 4)

\* Before the plugin is opened nothing has been heard of it.
Opening(r) ==
    /\ r.stage # "open" =>
          /\ r.thread = "none" /\ r.closed /\ r.queue = <<>> /\ r.panels = {}
          /\ r.obj => r.widget = "tree"
    /\ r.stage = "new" => ~r.obj /\ r.widget = "none"
    /\ r.stage = "open" => (r.closed <=> ~Live(r))

\* A thread that runs has its tab, and has queued no more than that it is open
\* and one update.
Alive(r) ==
    Live(r) =>
        /\ r.obj /\ r.widget = "tree" /\ r.panels \subseteq {"connect"}
        /\ ~Says(r.queue) /\ AtMost(r.queue, 2) /\ Second(r.queue)
        /\ r.thread = "run" => r.queue = <<>>

\* The end of a connection is on its way to the tab, or in a panel on it.
EndShown(r) ==
    r.obj /\ r.closed /\ r.stage = "open" =>
        Says(r.queue) \/ "error" \in r.panels \/ "prompt" \in r.panels

\* While the closings do not overlap, the end is the last source, and whoever
\* runs a source or the last stage finds the tab.
Orderly(r) ==
    ~r.overlap =>
        /\ r.fault = "none"
        /\ r.queue # <<>> \/ r.stage \in {"sizing", "timer"} => r.obj /\ r.widget = "tree"
        /\ LastOnly(r.queue)

\* What the main thread has still to do with it.
Pending(r, t, m) ==
    /\ ~r.overlap /\ (t \/ m) =>
          r.obj /\ r.stage = "open" /\ (Live(r) \/ r.queue = <<>>)
    /\ m => ~t /\ r.stage = "open"
    /\ m /\ ~r.overlap => Live(r)
    /\ m /\ ~Live(r) => AtMost(r.queue, 3)

Good(r, t, m) ==
    /\ Types(r) /\ Opening(r) /\ Alive(r) /\ EndShown(r) /\ Orderly(r)
    /\ Pending(r, t, m)

IInv ==
    /\ conn \in [Conns -> Connection]
    /\ todo \subseteq Conns /\ mid \in Conns \cup {None}
    /\ \A c \in Conns : Good(conn[c], c \in todo, mid = c)

-----------------------------------------------------------------------------
(* The queue of sources.                                                   *)

\* A source is added.
LEMMA Pushing ==
    ASSUME NEW q \in Queues, NEW x \in Sources
    PROVE  /\ Append(q, x) \in Queues /\ Append(q, x) # <<>>
           /\ AtMost(q, 1) => AtMost(Append(q, x), 2)
           /\ AtMost(q, 2) => AtMost(Append(q, x), 3)
           /\ AtMost(q, 3) => AtMost(Append(q, x), 4)
           /\ Says(Append(q, x)) <=> Says(q) \/ x = "closed"
           /\ ~Says(q) => LastOnly(Append(q, x))
           /\ x = "update" \/ q = <<>> => Second(Append(q, x))
<1> DEFINE p == Append(q, x)
<1>1. /\ p \in Queues /\ p # <<>> /\ Len(q) \in Nat /\ Len(p) = Len(q) + 1
      /\ \A i \in 1 .. Len(q) : p[i] = q[i]
      /\ p[Len(q) + 1] = x
  BY DEF Queues
<1> HIDE DEF p
<1>2. /\ Len(p) \in 1 .. Len(p)
      /\ \A i \in 1 .. Len(p) : i \in 1 .. Len(q) \/ i = Len(p)
      /\ \A i \in 1 .. Len(q) : i \in 1 .. Len(p)
  BY <1>1
<1>3. Says(p) <=> Says(q) \/ x = "closed"
  BY <1>1, <1>2 DEF Says
<1>4. ~Says(q) => LastOnly(p)
  BY <1>1, <1>2 DEF Says, LastOnly
<1>5. x = "update" => Second(p)
  BY <1>1 DEF Second
<1>8. q = <<>> => Second(p)
  <2>1. q = <<>> => Len(p) # 2
    BY <1>1, EmptySeq
  <2>2. QED
    BY <2>1 DEF Second
<1>6. /\ AtMost(q, 1) => AtMost(p, 2)
      /\ AtMost(q, 2) => AtMost(p, 3)
      /\ AtMost(q, 3) => AtMost(p, 4)
  BY <1>1 DEF AtMost
<1>7. QED
  BY <1>1, <1>3, <1>4, <1>5, <1>6, <1>8 DEF p

\* The first source is taken.
LEMMA Popping ==
    ASSUME NEW q \in Queues, q # <<>>
    PROVE  /\ Tail(q) \in Queues /\ Head(q) \in Sources
           /\ AtMost(q, 2) => AtMost(Tail(q), 2)
           /\ AtMost(q, 4) => AtMost(Tail(q), 4)
           /\ Says(q) <=> Says(Tail(q)) \/ Head(q) = "closed"
           /\ LastOnly(q) => LastOnly(Tail(q)) /\ (Head(q) = "closed" => Tail(q) = <<>>)
           /\ AtMost(q, 2) => Second(Tail(q))
<1> DEFINE p == Tail(q)
<1>0. Len(q) \in Nat /\ Len(q) # 0
  BY EmptySeq DEF Queues
<1>1. /\ p \in Queues /\ Len(p) = Len(q) - 1 /\ Len(p) \in Nat
      /\ \A i \in 1 .. Len(p) : p[i] = q[i + 1]
      /\ Head(q) = q[1] /\ Head(q) \in Sources
  BY <1>0 DEF Queues
<1>2. Len(p) = 0 => p = <<>>
  BY <1>1, EmptySeq DEF Queues
<1> HIDE DEF p
<1>3. /\ 1 \in 1 .. Len(q)
      /\ \A i \in 1 .. Len(p) : i + 1 \in 1 .. Len(q)
      /\ \A i \in 1 .. Len(q) : i = 1 \/ (i - 1 \in 1 .. Len(p) /\ (i - 1) + 1 = i)
  BY <1>0, <1>1
<1>4. Says(p) => Says(q)
  BY <1>1, <1>3 DEF Says
<1>5. Says(q) => Says(p) \/ Head(q) = "closed"
  <2>1. SUFFICES ASSUME NEW i \in 1 .. Len(q), q[i] = "closed", i # 1
                 PROVE  Says(p)
    BY <1>1 DEF Says
  <2>2. i - 1 \in 1 .. Len(p) /\ p[i - 1] = q[i]
    BY <1>1, <1>3, <2>1
  <2>3. QED
    BY <2>1, <2>2 DEF Says
<1>6. Head(q) = "closed" => Says(q)
  BY <1>1, <1>3 DEF Says
<1>7. LastOnly(q) => LastOnly(p)
  <2>1. SUFFICES ASSUME LastOnly(q), NEW i \in 1 .. Len(p), p[i] = "closed"
                 PROVE  i = Len(p)
    BY DEF LastOnly
  <2>2. i + 1 = Len(q)
    BY <1>1, <1>3, <2>1 DEF LastOnly
  <2>3. QED
    BY <1>0, <1>1, <2>2
<1>8. LastOnly(q) /\ Head(q) = "closed" => p = <<>>
  BY <1>0, <1>1, <1>2, <1>3 DEF LastOnly
<1>9. AtMost(q, 2) => Second(p)
  <2>1. AtMost(q, 2) => Len(p) # 2
    BY <1>0, <1>1 DEF AtMost
  <2>2. QED
    BY <2>1 DEF Second
<1>10. (AtMost(q, 2) => AtMost(p, 2)) /\ (AtMost(q, 4) => AtMost(p, 4))
  BY <1>0, <1>1 DEF AtMost
<1>11. QED
  BY <1>0, <1>1, <1>4, <1>5, <1>6, <1>7, <1>8, <1>9, <1>10 DEF p

\* Short queues, and the empty one.
LEMMA Short ==
    /\ <<>> \in Queues
    /\ \A q \in Queues :
          /\ q = <<>> => /\ ~Says(q) /\ Second(q)
                         /\ AtMost(q, 1) /\ AtMost(q, 2) /\ AtMost(q, 3) /\ AtMost(q, 4)
          /\ AtMost(q, 2) => AtMost(q, 3) /\ AtMost(q, 4)
          /\ AtMost(q, 3) => AtMost(q, 4)
          /\ AtMost(q, 2) /\ Second(q) /\ (\A i \in DOMAIN q : q[i] # "update") => AtMost(q, 1)
          /\ ~Says(q) => LastOnly(q)
<1>1. <<>> \in Queues
  BY EmptySeq DEF Queues
<1>2. ASSUME NEW q \in Queues
      PROVE  /\ Len(q) \in Nat /\ DOMAIN q = 1 .. Len(q)
             /\ q = <<>> <=> Len(q) = 0
  BY EmptySeq DEF Queues
<1>3. ASSUME NEW q \in Queues, q = <<>>
      PROVE  /\ ~Says(q) /\ Second(q)
             /\ AtMost(q, 1) /\ AtMost(q, 2) /\ AtMost(q, 3) /\ AtMost(q, 4)
  <2>1. Len(q) = 0
    BY <1>2, <1>3
  <2>2. QED
    BY <2>1 DEF Says, Second, AtMost
<1>4. ASSUME NEW q \in Queues
      PROVE  /\ AtMost(q, 2) => AtMost(q, 3) /\ AtMost(q, 4)
             /\ AtMost(q, 3) => AtMost(q, 4)
             /\ ~Says(q) => LastOnly(q)
  BY <1>2 DEF AtMost, Says, LastOnly
<1>5. ASSUME NEW q \in Queues, AtMost(q, 2), Second(q), \A i \in DOMAIN q : q[i] # "update"
      PROVE  AtMost(q, 1)
  <2>1. Len(q) = 2 => 2 \in DOMAIN q
    BY <1>2
  <2>2. Len(q) # 2
    BY <1>5, <2>1 DEF Second
  <2>3. Len(q) \in Nat /\ Len(q) <= 2
    BY <1>2, <1>5 DEF AtMost
  <2>4. \A n \in Nat : n <= 2 /\ n # 2 => n <= 1
    OBVIOUS
  <2>5. QED
    BY <2>2, <2>3, <2>4 DEF AtMost
<1>6. QED
  BY <1>1, <1>3, <1>4, <1>5

\* The record, with the type of its queue under a name.
LEMMA ConnectionType ==
    Connection = [
        widget    : {"none", "tree", "detached", "freed"},
        obj       : BOOLEAN,
        stage     : {"new", "sizing", "timer", "open"},
        closed    : BOOLEAN,
        user      : BOOLEAN,
        error     : BOOLEAN,
        connected : BOOLEAN,
        tunnels   : BOOLEAN,
        prompt    : BOOLEAN,
        panels    : SUBSET {"connect", "error", "prompt"},
        sync      : BOOLEAN,
        thread    : {"none", "run", "up", "ended"},
        asked     : BOOLEAN,
        queue     : Queues,
        fault     : {"none", "freed gp", "no cnnobj"},
        written   : BOOLEAN,
        overlap   : BOOLEAN]
  BY Zenon DEF Connection, Queues, Sources

\* The types of the fields.
LEMMA FieldTypes ==
    ASSUME NEW r \in Connection
    PROVE  /\ r.obj \in BOOLEAN /\ r.closed \in BOOLEAN /\ r.overlap \in BOOLEAN
           /\ r.error \in BOOLEAN /\ r.prompt \in BOOLEAN /\ r.user \in BOOLEAN
           /\ r.sync \in BOOLEAN /\ r.written \in BOOLEAN
           /\ r.queue \in Queues /\ r.panels \subseteq {"connect", "error", "prompt"}
           /\ r.stage \in {"new", "sizing", "timer", "open"}
           /\ r.thread \in {"none", "run", "up", "ended"}
  BY ConnectionType

-----------------------------------------------------------------------------
(* The thread of the plugin.                                               *)

\* The thread reports that it has connected.
LEMMA OpenedGood ==
    ASSUME NEW r, NEW t \in BOOLEAN, NEW m \in BOOLEAN, Good(r, t, m), r.thread = "run"
    PROVE  Good(Push([r EXCEPT !.thread = "up"], "opened"), t, m)
<1> DEFINE q == Append(r.queue, "opened")
           s == Push([r EXCEPT !.thread = "up"], "opened")
<1>1. r \in Connection /\ r.queue \in Queues
  BY FieldTypes DEF Good, Types
<1>2. r.queue = <<>> /\ r.obj /\ r.widget = "tree" /\ r.panels \subseteq {"connect"}
  BY DEF Good, Alive, Live
<1>3. /\ q \in Queues /\ q # <<>> /\ ~Says(q) /\ LastOnly(q) /\ Second(q)
      /\ AtMost(q, 2) /\ AtMost(q, 3) /\ AtMost(q, 4)
  BY <1>1, <1>2, Pushing, Short DEF Sources
<1> HIDE DEF q
<1>4. /\ s \in Connection /\ s.queue = q /\ s.thread = "up"
      /\ s.widget = r.widget /\ s.obj = r.obj /\ s.stage = r.stage /\ s.closed = r.closed
      /\ s.panels = r.panels /\ s.fault = r.fault /\ s.overlap = r.overlap
  BY <1>1, <1>3, ConnectionType DEF Push, q
<1> HIDE DEF s
<1>5. Types(s)
  BY <1>1, <1>2, <1>3, <1>4, FieldTypes DEF Good, Types
<1>6. Opening(s)
  BY <1>1, <1>2, <1>3, <1>4, FieldTypes DEF Good, Opening, Live
<1>7. Alive(s)
  BY <1>2, <1>3, <1>4 DEF Alive, Live
<1>8. EndShown(s)
  BY <1>1, <1>2, <1>3, <1>4, FieldTypes DEF Good, EndShown, Opening, Live
<1>9. Orderly(s)
  BY <1>1, <1>2, <1>3, <1>4, FieldTypes DEF Good, Orderly
<1>10. Pending(s, t, m)
  BY <1>1, <1>2, <1>3, <1>4, FieldTypes DEF Good, Pending, Live
<1>11. QED
  BY <1>5, <1>6, <1>7, <1>8, <1>9, <1>10 DEF Good, s

\* The thread queues an update.
LEMMA UpdateGood ==
    ASSUME NEW r, NEW t \in BOOLEAN, NEW m \in BOOLEAN, Good(r, t, m), r.thread = "up",
           \A i \in DOMAIN r.queue : r.queue[i] # "update"
    PROVE  Good(Push(r, "update"), t, m)
<1> DEFINE q == Append(r.queue, "update")
           s == Push(r, "update")
<1>1. r \in Connection /\ r.queue \in Queues
  BY FieldTypes DEF Good, Types
<1>2. /\ r.obj /\ r.widget = "tree" /\ r.panels \subseteq {"connect"}
      /\ ~Says(r.queue) /\ AtMost(r.queue, 1)
  BY <1>1, Short DEF Good, Alive, Live
<1>3. /\ q \in Queues /\ q # <<>> /\ ~Says(q) /\ LastOnly(q) /\ Second(q)
      /\ AtMost(q, 2) /\ AtMost(q, 3) /\ AtMost(q, 4)
  BY <1>1, <1>2, Pushing, Short DEF Sources
<1> HIDE DEF q
<1>4. /\ s \in Connection /\ s.queue = q /\ s.thread = "up"
      /\ s.widget = r.widget /\ s.obj = r.obj /\ s.stage = r.stage /\ s.closed = r.closed
      /\ s.panels = r.panels /\ s.fault = r.fault /\ s.overlap = r.overlap
  BY <1>1, <1>3, ConnectionType DEF Push, q
<1> HIDE DEF s
<1>5. Types(s)
  BY <1>1, <1>2, <1>3, <1>4, FieldTypes DEF Good, Types
<1>6. Opening(s)
  BY <1>1, <1>2, <1>3, <1>4, FieldTypes DEF Good, Opening, Live
<1>7. Alive(s)
  BY <1>2, <1>3, <1>4 DEF Alive, Live
<1>8. EndShown(s)
  BY <1>1, <1>2, <1>3, <1>4, FieldTypes DEF Good, EndShown, Opening, Live
<1>9. Orderly(s)
  BY <1>1, <1>2, <1>3, <1>4, FieldTypes DEF Good, Orderly
<1>10. Pending(s, t, m)
  BY <1>1, <1>2, <1>3, <1>4, FieldTypes DEF Good, Pending, Live
<1>11. QED
  BY <1>5, <1>6, <1>7, <1>8, <1>9, <1>10 DEF Good, s

\* The end of a thread; if the user closes the connection at this moment they overlap.
LEMMA EndsGood ==
    ASSUME NEW r, NEW t \in BOOLEAN, NEW m \in BOOLEAN, Good(r, t, m), Live(r),
           NEW v, v \in Connection, v.queue = r.queue, v.thread = "ended", v.widget = r.widget,
           v.obj = r.obj, v.stage = r.stage, v.panels = r.panels, v.fault = r.fault,
           r.overlap => v.overlap, t \/ m => v.overlap
    PROVE  Good(SignalClosed(v), t, m)
<1> DEFINE q == Append(r.queue, "closed")
           s == SignalClosed(v)
<1>1. r \in Connection /\ r.queue \in Queues
  BY FieldTypes DEF Good, Types
<1>2. /\ r.obj /\ r.widget = "tree" /\ ~Says(r.queue) /\ AtMost(r.queue, 2)
      /\ r.stage = "open"
  BY <1>1, FieldTypes DEF Good, Alive, Opening, Live
<1>3. /\ q \in Queues /\ q # <<>> /\ Says(q) /\ LastOnly(q)
      /\ AtMost(q, 3) /\ AtMost(q, 4)
  BY <1>1, <1>2, Pushing, Short DEF Sources
<1> HIDE DEF q
<1>4. /\ s \in Connection /\ s.queue = q /\ s.thread = "ended"
      /\ s.widget = r.widget /\ s.obj = r.obj /\ s.stage = r.stage /\ s.closed = TRUE
      /\ s.panels = r.panels /\ s.fault = r.fault /\ s.overlap = v.overlap
  BY <1>1, <1>3, ConnectionType DEF SignalClosed, Push, q
<1> HIDE DEF s
<1>5. Types(s)
  BY <1>1, <1>2, <1>3, <1>4, FieldTypes DEF Good, Types
<1>6. Opening(s)
  BY <1>1, <1>2, <1>3, <1>4, FieldTypes DEF Opening, Live
<1>7. Alive(s)
  BY <1>4 DEF Alive, Live
<1>8. EndShown(s)
  BY <1>3, <1>4 DEF EndShown
<1>9. Orderly(s)
  BY <1>1, <1>2, <1>3, <1>4, FieldTypes DEF Good, Orderly
<1>10. Pending(s, t, m)
  BY <1>1, <1>2, <1>3, <1>4, FieldTypes DEF Good, Pending, Live
<1>11. QED
  BY <1>5, <1>6, <1>7, <1>8, <1>9, <1>10 DEF Good, s

-----------------------------------------------------------------------------
(* The end of a connection.                                                *)

\* A connection that is over; while the closings do not overlap nothing of it is
\* queued.
Over(r) ==
    /\ Types(r) /\ Opening(r) /\ ~Live(r)
    /\ ~r.overlap => r.fault = "none" /\ r.queue = <<>> /\ r.stage = "open"

\* rco_closewin on a connection that is over
LEMMA ClosewinGood ==
    ASSUME NEW r, Over(r)
    PROVE  Good(closewin(r), FALSE, FALSE)
<1> DEFINE s == closewin(r)
<1>1. r \in Connection /\ r.queue \in Queues
  BY FieldTypes DEF Over, Types
<1>2. /\ s \in Connection /\ s.queue = r.queue /\ s.thread = r.thread
      /\ s.obj = FALSE /\ s.stage = r.stage /\ s.closed = r.closed
      /\ s.panels = {} /\ s.fault = r.fault /\ s.overlap = r.overlap
      /\ s.widget = "none" => r.widget = "none"
  BY <1>1, ConnectionType DEF closewin
<1>0. r.stage = "new" => s.widget = "none"
  BY <1>1, ConnectionType DEF closewin, Over, Opening
<1> HIDE DEF s
<1>3. Types(s)
  BY <1>2 DEF Over, Types
<1>4. Opening(s)
  BY <1>1, <1>2, <1>0, FieldTypes DEF Over, Opening, Live
<1>5. Alive(s) /\ EndShown(s) /\ Pending(s, FALSE, FALSE)
  BY <1>2 DEF Over, Alive, EndShown, Pending, Live
<1>6. Orderly(s)
  BY <1>1, <1>2, Short DEF Over, Orderly
<1>7. QED
  BY <1>3, <1>4, <1>5, <1>6 DEF Good, s

\* A handler that does not find the connection object.
LEMMA NoObjectGood ==
    ASSUME NEW r, Over(r), ~r.obj, r.overlap, NEW f \in {"freed gp", "no cnnobj"}
    PROVE  Good([r EXCEPT !.fault = f], FALSE, FALSE)
<1> DEFINE s == [r EXCEPT !.fault = f]
<1>1. r \in Connection /\ r.queue \in Queues
  BY FieldTypes DEF Over, Types
<1>2. /\ s \in Connection /\ s.queue = r.queue /\ s.thread = r.thread
      /\ s.widget = r.widget /\ s.obj = r.obj /\ s.stage = r.stage /\ s.closed = r.closed
      /\ s.panels = r.panels /\ s.overlap = r.overlap
  BY <1>1, ConnectionType
<1> HIDE DEF s
<1>3. Types(s)
  BY <1>2 DEF Over, Types
<1>4. Opening(s)
  BY <1>1, <1>2, FieldTypes DEF Over, Opening, Live
<1>5. Alive(s) /\ EndShown(s) /\ Pending(s, FALSE, FALSE) /\ Orderly(s)
  BY <1>2 DEF Over, Alive, EndShown, Pending, Orderly, Live
<1>6. QED
  BY <1>3, <1>4, <1>5 DEF Good, s

\* A panel on the tab that says that the connection is over.
LEMMA PanelGood ==
    ASSUME NEW r, Over(r), r.obj, r.stage = "open", NEW x \in {"error", "prompt"},
           NEW s, s.queue = r.queue, s.thread = r.thread, s \in Connection,
           s.widget \in {"tree", "detached"}, s.obj = r.obj, s.stage = r.stage, s.closed = r.closed,
           s.panels = r.panels \cup {x}, s.fault = r.fault, s.overlap = r.overlap
    PROVE  Good(s, FALSE, FALSE)
<1>1. r \in Connection /\ r.queue \in Queues
  BY FieldTypes DEF Over, Types
<1>3. Types(s)
  BY <1>1, FieldTypes DEF Over, Types
<1>4. Opening(s)
  BY <1>1, FieldTypes DEF Over, Opening, Live
<1>5. Alive(s) /\ EndShown(s) /\ Pending(s, FALSE, FALSE)
  BY DEF Over, Alive, EndShown, Pending, Live
<1>6. Orderly(s)
  BY <1>1, FieldTypes, Short DEF Over, Orderly
<1>7. QED
  BY <1>3, <1>4, <1>5, <1>6 DEF Good

\* rco_on_disconnect on a connection that is over
LEMMA DisconnectGood ==
    ASSUME NEW r, Over(r), ~r.overlap => r.obj, r.stage = "open" \/ ~r.error
    PROVE  Good(on_disconnect(r), FALSE, FALSE)
<1>1. r \in Connection
  BY DEF Over, Types
<1>2. CASE ~r.obj
  BY <1>2, NoObjectGood DEF on_disconnect
<1> DEFINE d == [r EXCEPT !.widget = "detached", !.connected = FALSE]
           s == [d EXCEPT !.panels = @ \cup {"error"}]
<1>3. CASE r.obj /\ r.error
  <2>1. /\ s.queue = r.queue /\ s.thread = r.thread /\ s \in Connection
        /\ s.widget = "detached" /\ s.obj = r.obj /\ s.stage = r.stage /\ s.closed = r.closed
        /\ s.panels = r.panels \cup {"error"} /\ s.fault = r.fault /\ s.overlap = r.overlap
    BY <1>1, ConnectionType
  <2>2. on_disconnect(r) = s
    BY <1>1, <1>3, ConnectionType DEF on_disconnect
  <2> HIDE DEF s
  <2>3. QED
    BY <1>3, <2>1, <2>2, PanelGood
<1>4. CASE r.obj /\ ~r.error
  <2>1. /\ d.queue = r.queue /\ d.thread = r.thread /\ d \in Connection
        /\ d.widget = "detached" /\ d.obj = r.obj /\ d.stage = r.stage /\ d.closed = r.closed
        /\ d.panels = r.panels /\ d.fault = r.fault /\ d.overlap = r.overlap
    BY <1>1, ConnectionType
  <2>2. on_disconnect(r) = closewin(d)
    BY <1>1, <1>4, ConnectionType DEF on_disconnect
  <2> HIDE DEF d
  <2> DEFINE z == closewin(d)
  <2>3. /\ z \in Connection /\ z.queue = r.queue /\ z.thread = r.thread
        /\ z.widget = "detached" /\ z.obj = FALSE /\ z.stage = r.stage /\ z.closed = r.closed
        /\ z.panels = {} /\ z.fault = r.fault /\ z.overlap = r.overlap
    <3>1. z = [d EXCEPT !.obj = FALSE, !.panels = {}]
      BY <2>1, ConnectionType DEF closewin
    <3>2. QED
      BY <2>1, <3>1, ConnectionType
  <2> HIDE DEF z
  <2>4. Types(z) /\ Alive(z) /\ EndShown(z) /\ Pending(z, FALSE, FALSE)
    BY <2>3 DEF Over, Types, Alive, EndShown, Pending, Live
  <2>5. Opening(z)
    BY <1>1, <1>4, <2>3, FieldTypes DEF Over, Opening, Live
  <2>6. Orderly(z)
    BY <1>1, <2>3, FieldTypes, Short DEF Over, Orderly
  <2>7. QED
    BY <2>2, <2>4, <2>5, <2>6 DEF Good, z
<1>5. QED
  BY <1>1, <1>2, <1>3, <1>4, FieldTypes

-----------------------------------------------------------------------------
(* The idle sources.                                                       *)

\* Whatever runs the source finds the tab, or the closings overlap.
LEMMA Popped ==
    ASSUME NEW r, Good(r, FALSE, FALSE), r.queue # <<>>
    PROVE  LET p == [r EXCEPT !.queue = Tail(@)] IN
           /\ p \in Connection /\ Types(p) /\ Opening(p) /\ Alive(p) /\ p.stage = "open"
           /\ p.widget = r.widget /\ p.obj = r.obj /\ p.overlap = r.overlap
           /\ ~p.overlap => p.obj /\ p.fault = "none" /\ LastOnly(p.queue) /\ p.widget = "tree"
           /\ Head(r.queue) = "closed" => Over(p)
           /\ Head(r.queue) # "closed" => EndShown(p)
<1> DEFINE p == [r EXCEPT !.queue = Tail(@)]
           q == Tail(r.queue)
<1>1. r \in Connection /\ r.queue \in Queues
  BY FieldTypes DEF Good, Types
<1>2. /\ q \in Queues
      /\ AtMost(r.queue, 2) => AtMost(q, 2)
      /\ AtMost(r.queue, 4) => AtMost(q, 4)
      /\ Says(r.queue) <=> Says(q) \/ Head(r.queue) = "closed"
      /\ LastOnly(r.queue) => LastOnly(q) /\ (Head(r.queue) = "closed" => q = <<>>)
      /\ AtMost(r.queue, 2) => Second(q)
  BY <1>1, Popping
<1>3. /\ p \in Connection /\ p.queue = q /\ p.thread = r.thread
      /\ p.widget = r.widget /\ p.obj = r.obj /\ p.stage = r.stage /\ p.closed = r.closed
      /\ p.panels = r.panels /\ p.fault = r.fault /\ p.overlap = r.overlap
  BY <1>1, <1>2, ConnectionType
<1> HIDE DEF p, q
<1>4. p.stage = "open"
  BY <1>1, <1>3, FieldTypes DEF Good, Opening
<1>5. Types(p)
  BY <1>1, <1>2, <1>3, FieldTypes DEF Good, Types
<1>6. Opening(p)
  BY <1>1, <1>3, <1>4, FieldTypes DEF Good, Opening, Live
<1>7. Alive(p)
  BY <1>1, <1>2, <1>3, FieldTypes DEF Good, Alive, Live
<1>8. ~p.overlap => p.obj /\ p.fault = "none" /\ LastOnly(p.queue) /\ p.widget = "tree"
  BY <1>1, <1>2, <1>3, FieldTypes DEF Good, Orderly
<1>9. ASSUME Head(r.queue) = "closed"
      PROVE  Over(p)
  <2>1. ~Live(p)
    BY <1>2, <1>3, <1>9 DEF Good, Alive, Live
  <2>2. ~p.overlap => p.queue = <<>>
    BY <1>2, <1>3, <1>9 DEF Good, Orderly
  <2>3. QED
    BY <1>4, <1>5, <1>6, <1>8, <2>1, <2>2 DEF Over
<1>10. Head(r.queue) # "closed" => EndShown(p)
  BY <1>1, <1>2, <1>3, FieldTypes DEF Good, EndShown
<1>11. QED
  BY <1>3, <1>4, <1>5, <1>6, <1>7, <1>8, <1>9, <1>10 DEF p

\* rco_on_connect and the updates: the panel that shows the progress goes.
LEMMA ReportGood ==
    ASSUME NEW p, p \in Connection, Types(p), Opening(p), Alive(p), EndShown(p), p.stage = "open",
           p.obj, ~p.overlap => p.obj /\ p.fault = "none" /\ LastOnly(p.queue) /\ p.widget = "tree"
    PROVE  Good(p, FALSE, FALSE) /\ Good(conn_opened(p), FALSE, FALSE)
<1> DEFINE s == conn_opened(p)
<1>1. Good(p, FALSE, FALSE)
  BY DEF Good, Orderly, Pending
<1>2. /\ s \in Connection /\ s.queue = p.queue /\ s.thread = p.thread
      /\ s.widget = p.widget /\ s.obj = p.obj /\ s.stage = p.stage /\ s.closed = p.closed
      /\ s.panels = p.panels \ {"connect"} /\ s.fault = p.fault /\ s.overlap = p.overlap
  BY ConnectionType DEF conn_opened
<1> HIDE DEF s
<1>3. Types(s)
  BY <1>2, FieldTypes DEF Types
<1>4. Opening(s)
  BY <1>2, FieldTypes DEF Opening, Live
<1>5. Alive(s)
  BY <1>2, FieldTypes DEF Alive, Live
<1>6. EndShown(s)
  BY <1>2, FieldTypes DEF EndShown
<1>7. Orderly(s) /\ Pending(s, FALSE, FALSE)
  BY <1>2, FieldTypes DEF Orderly, Pending
<1>8. QED
  BY <1>1, <1>3, <1>4, <1>5, <1>6, <1>7 DEF Good, s

\* A source that does not find what it works on.
LEMMA LostGood ==
    ASSUME NEW p, p \in Connection, Types(p), Opening(p), Alive(p), p.stage = "open",
           ~p.obj, p.overlap, NEW f \in {"freed gp", "no cnnobj"}
    PROVE  Good([p EXCEPT !.fault = f], FALSE, FALSE)
<1>1. ~Live(p)
  BY DEF Alive
<1>2. Over(p)
  BY <1>1 DEF Over
<1>3. QED
  BY <1>2, NoObjectGood

\* conn_closed, the source that reports the end
LEMMA ClosedGood ==
    ASSUME NEW p, Over(p), p.stage = "open", ~p.overlap => p.obj
    PROVE  Good(conn_closed(p), FALSE, FALSE)
<1>1. p \in Connection
  BY DEF Over, Types
<1>2. CASE ~p.user /\ ~p.error /\ p.prompt
  <2>1. CASE ~p.obj
    BY <1>2, <2>1, NoObjectGood DEF conn_closed
  <2> DEFINE s == [p EXCEPT !.panels = @ \cup {"prompt"}]
  <2>2. CASE p.obj
    <3>1. /\ s.queue = p.queue /\ s.thread = p.thread /\ s \in Connection
          /\ s.widget = p.widget /\ s.obj = p.obj /\ s.stage = p.stage /\ s.closed = p.closed
          /\ s.panels = p.panels \cup {"prompt"} /\ s.fault = p.fault /\ s.overlap = p.overlap
      BY <1>1, ConnectionType
    <3>2. conn_closed(p) = s
      BY <1>2, <2>2 DEF conn_closed
    <3>3. s.widget \in {"tree", "detached"}
      BY <2>2, <3>1 DEF Over, Types
    <3> HIDE DEF s
    <3>4. QED
      BY <2>2, <3>1, <3>2, <3>3, PanelGood
  <2>3. QED
    BY <2>1, <2>2
<1>3. CASE ~(~p.user /\ ~p.error /\ p.prompt)
  <2> DEFINE s == [p EXCEPT !.tunnels = FALSE]
  <2>1. /\ s.queue = p.queue /\ s.thread = p.thread /\ s \in Connection
        /\ s.widget = p.widget /\ s.obj = p.obj /\ s.stage = p.stage /\ s.closed = p.closed
        /\ s.panels = p.panels /\ s.fault = p.fault /\ s.overlap = p.overlap
    BY <1>1, ConnectionType
  <2>2. conn_closed(p) = on_disconnect(s)
    BY <1>3 DEF conn_closed, conn_closed_real
  <2> HIDE DEF s
  <2>3. Types(s) /\ ~Live(s)
    BY <2>1 DEF Over, Types, Live
  <2>4. Opening(s)
    BY <1>1, <2>1, FieldTypes DEF Over, Opening, Live
  <2>5. Over(s)
    BY <1>1, <2>1, <2>3, <2>4, FieldTypes DEF Over
  <2>6. QED
    BY <1>1, <2>1, <2>2, <2>5, FieldTypes, DisconnectGood
<1>4. QED
  BY <1>2, <1>3

\* The main loop runs the first source of a connection.
LEMMA IdleGood ==
    ASSUME NEW r, Good(r, FALSE, FALSE), r.queue # <<>>,
           NEW s,
           LET p == [r EXCEPT !.queue = Tail(@)]
               h == Head(r.queue)
           IN  \/ p.widget = "freed" /\ s = [p EXCEPT !.fault = "freed gp"]
               \/ p.widget # "freed" /\ h = "opened" /\ s = conn_opened(p)
               \/ p.widget # "freed" /\ h = "update" /\ s = update(p)
               \/ p.widget # "freed" /\ h = "closed" /\ s = conn_closed(p)
    PROVE  Good(s, FALSE, FALSE)
<1> DEFINE p == [r EXCEPT !.queue = Tail(@)]
           h == Head(r.queue)
<1>1. /\ p \in Connection /\ Types(p) /\ Opening(p) /\ Alive(p) /\ p.stage = "open"
      /\ ~p.overlap => p.obj /\ p.fault = "none" /\ LastOnly(p.queue) /\ p.widget = "tree"
      /\ h = "closed" => Over(p)
      /\ h # "closed" => EndShown(p)
  BY Popped
<1>2. \/ p.widget = "freed" /\ s = [p EXCEPT !.fault = "freed gp"]
      \/ p.widget # "freed" /\ h = "opened" /\ s = conn_opened(p)
      \/ p.widget # "freed" /\ h = "update" /\ s = update(p)
      \/ p.widget # "freed" /\ h = "closed" /\ s = conn_closed(p)
  OBVIOUS
<1> HIDE DEF p, h
<1>3. CASE p.widget = "freed" /\ s = [p EXCEPT !.fault = "freed gp"]
  <2>1. ~p.obj /\ p.overlap
    BY <1>1, <1>3 DEF Types
  <2>2. QED
    BY <1>1, <1>3, <2>1, LostGood
<1>4. CASE h = "opened" /\ s = conn_opened(p)
  <2>1. CASE p.obj
    BY <1>1, <1>4, <2>1, ReportGood
  <2>2. CASE ~p.obj
    BY <1>1, <1>4, <2>2, LostGood DEF conn_opened
  <2>3. QED
    BY <2>1, <2>2
<1>5. CASE h = "update" /\ s = update(p)
  <2>1. CASE p.obj
    BY <1>1, <1>5, <2>1, ReportGood DEF update
  <2>2. CASE ~p.obj
    BY <1>1, <1>5, <2>2, LostGood DEF update
  <2>3. QED
    BY <2>1, <2>2
<1>6. CASE h = "closed" /\ s = conn_closed(p)
  BY <1>1, <1>6, ClosedGood
<1>7. QED
  BY <1>2, <1>3, <1>4, <1>5, <1>6

-----------------------------------------------------------------------------
(* The main thread and the user.                                           *)

\* rcw_open_from_file_full
LEMMA OpenGood ==
    ASSUME NEW r, Good(r, FALSE, FALSE), r.stage = "new"
    PROVE  Good([r EXCEPT !.widget = "tree", !.obj = TRUE, !.stage = "sizing"], FALSE, FALSE)
<1> DEFINE s == [r EXCEPT !.widget = "tree", !.obj = TRUE, !.stage = "sizing"]
<1>1. r \in Connection
  BY DEF Good, Types
<1>2. /\ s \in Connection /\ s.queue = r.queue /\ s.thread = r.thread
      /\ s.widget = "tree" /\ s.obj = TRUE /\ s.stage = "sizing" /\ s.closed = r.closed
      /\ s.panels = r.panels /\ s.fault = r.fault /\ s.overlap = r.overlap
  BY <1>1, ConnectionType
<1> HIDE DEF s
<1>3. r.queue = <<>> /\ r.thread = "none" /\ r.panels = {} /\ r.closed
  BY DEF Good, Opening
<1>4. Types(s) /\ Opening(s)
  BY <1>1, <1>2, <1>3, FieldTypes DEF Good, Types, Opening
<1>5. Alive(s) /\ EndShown(s) /\ Pending(s, FALSE, FALSE)
  BY <1>2, <1>3 DEF Alive, EndShown, Pending, Live
<1>6. Orderly(s)
  BY <1>1, <1>2, FieldTypes DEF Good, Orderly
<1>7. QED
  BY <1>4, <1>5, <1>6 DEF Good, s

\* rpw_size_allocated_on_connection
LEMMA SizedGood ==
    ASSUME NEW r, Good(r, FALSE, FALSE), r.stage = "sizing", r.widget = "tree"
    PROVE  Good([r EXCEPT !.stage = "timer"], FALSE, FALSE)
<1> DEFINE s == [r EXCEPT !.stage = "timer"]
<1>1. r \in Connection
  BY DEF Good, Types
<1>2. /\ s \in Connection /\ s.queue = r.queue /\ s.thread = r.thread
      /\ s.widget = r.widget /\ s.obj = r.obj /\ s.stage = "timer" /\ s.closed = r.closed
      /\ s.panels = r.panels /\ s.fault = r.fault /\ s.overlap = r.overlap
  BY <1>1, ConnectionType
<1> HIDE DEF s
<1>3. r.queue = <<>> /\ r.thread = "none" /\ r.panels = {} /\ r.closed
  BY DEF Good, Opening
<1>4. Types(s) /\ Opening(s)
  BY <1>1, <1>2, <1>3, FieldTypes DEF Good, Types, Opening
<1>5. Alive(s) /\ EndShown(s) /\ Pending(s, FALSE, FALSE)
  BY <1>2, <1>3 DEF Alive, EndShown, Pending, Live
<1>6. Orderly(s)
  BY <1>1, <1>2, FieldTypes DEF Good, Orderly
<1>7. QED
  BY <1>4, <1>5, <1>6 DEF Good, s

\* open_connection_last_stage, when the plugin starts its thread ...
LEMMA StartedGood ==
    ASSUME NEW r, Good(r, FALSE, FALSE), r.stage = "timer", r.obj, NEW u \in BOOLEAN
    PROVE  Good([r EXCEPT !.stage = "open", !.panels = {"connect"}, !.closed = FALSE,
                          !.thread = "run", !.tunnels = u], FALSE, FALSE)
<1> DEFINE s == [r EXCEPT !.stage = "open", !.panels = {"connect"}, !.closed = FALSE,
                          !.thread = "run", !.tunnels = u]
<1>1. r \in Connection
  BY DEF Good, Types
<1>2. /\ s \in Connection /\ s.queue = r.queue /\ s.thread = "run"
      /\ s.widget = r.widget /\ s.obj = r.obj /\ s.stage = "open" /\ s.closed = FALSE
      /\ s.panels = {"connect"} /\ s.fault = r.fault /\ s.overlap = r.overlap
  BY <1>1, ConnectionType
<1> HIDE DEF s
<1>3. r.queue = <<>> /\ r.widget = "tree" /\ r.queue \in Queues
  BY <1>1, FieldTypes DEF Good, Opening
<1>4. Types(s) /\ Opening(s)
  BY <1>1, <1>2, <1>3, FieldTypes DEF Good, Types, Opening, Live
<1>5. Alive(s)
  BY <1>2, <1>3, Short DEF Alive
<1>6. EndShown(s) /\ Pending(s, FALSE, FALSE)
  BY <1>2 DEF EndShown, Pending
<1>7. Orderly(s)
  BY <1>1, <1>2, <1>3, FieldTypes DEF Good, Orderly
<1>8. QED
  BY <1>4, <1>5, <1>6, <1>7 DEF Good, s

\* ... or fails and is closed on the spot.
LEMMA FailedGood ==
    ASSUME NEW r, Good(r, FALSE, FALSE), r.stage = "timer", r.obj, NEW e \in BOOLEAN
    PROVE  Good(plugin_close(close_check([r EXCEPT !.stage = "open", !.panels = {"connect"},
                                                   !.closed = FALSE, !.error = e])),
                FALSE, FALSE)
<1> DEFINE o == [r EXCEPT !.stage = "open", !.panels = {"connect"}, !.closed = FALSE, !.error = e]
           v == [o EXCEPT !.user = TRUE]
           q == Append(r.queue, "closed")
           s == plugin_close(close_check(o))
<1>1. r \in Connection /\ r.queue \in Queues
  BY FieldTypes DEF Good, Types
<1>2. r.queue = <<>> /\ r.widget = "tree" /\ r.thread = "none"
  BY <1>1, FieldTypes DEF Good, Opening
<1>3. q \in Queues /\ q # <<>> /\ Says(q) /\ LastOnly(q) /\ AtMost(q, 4)
  BY <1>1, <1>2, Pushing, Short DEF Sources
<1>4. /\ v \in Connection /\ v.queue = r.queue /\ v.thread = "none"
      /\ v.widget = r.widget /\ v.obj = r.obj /\ v.stage = "open"
      /\ v.panels = {"connect"} /\ v.fault = r.fault /\ v.overlap = r.overlap
  BY <1>1, <1>2, ConnectionType
<1>5. close_check(o) = v
  <2>1. o.closed = FALSE
    BY <1>1, ConnectionType
  <2>2. QED
    BY <2>1 DEF close_check
<1> HIDE DEF o, v, q
<1>6. /\ s \in Connection /\ s.queue = q /\ s.thread = "none"
      /\ s.widget = r.widget /\ s.obj = r.obj /\ s.stage = "open" /\ s.closed = TRUE
      /\ s.panels = {"connect"} /\ s.fault = r.fault /\ s.overlap = r.overlap
  BY <1>3, <1>4, <1>5, ConnectionType DEF plugin_close, SignalClosed, Push, q
<1> HIDE DEF s
<1>7. Types(s) /\ Opening(s)
  BY <1>1, <1>2, <1>3, <1>6, FieldTypes DEF Types, Opening, Live
<1>8. Alive(s) /\ EndShown(s) /\ Pending(s, FALSE, FALSE)
  BY <1>3, <1>6 DEF Alive, EndShown, Pending, Live
<1>9. Orderly(s)
  BY <1>1, <1>2, <1>3, <1>6, FieldTypes DEF Good, Orderly
<1>10. QED
  BY <1>7, <1>8, <1>9 DEF Good, s, o

\* The timer finds the widget freed or its connection object gone.
LEMMA LateGood ==
    ASSUME NEW r, Good(r, FALSE, FALSE), r.stage = "timer", ~r.obj,
           NEW f \in {"freed gp", "no cnnobj"}
    PROVE  Good([r EXCEPT !.stage = "open", !.fault = f], FALSE, FALSE)
<1> DEFINE s == [r EXCEPT !.stage = "open", !.fault = f]
<1>1. r \in Connection
  BY DEF Good, Types
<1>2. /\ s \in Connection /\ s.queue = r.queue /\ s.thread = r.thread
      /\ s.widget = r.widget /\ s.obj = r.obj /\ s.stage = "open" /\ s.closed = r.closed
      /\ s.panels = r.panels /\ s.overlap = r.overlap
  BY <1>1, ConnectionType
<1> HIDE DEF s
<1>3. r.overlap /\ r.thread = "none" /\ r.closed
  BY <1>1, FieldTypes DEF Good, Orderly, Opening
<1>4. Types(s)
  BY <1>1, <1>2, FieldTypes DEF Good, Types
<1>5. Opening(s)
  BY <1>1, <1>2, <1>3, FieldTypes DEF Opening, Live
<1>6. Alive(s) /\ EndShown(s) /\ Pending(s, FALSE, FALSE) /\ Orderly(s)
  BY <1>1, <1>2, <1>3, FieldTypes DEF Alive, EndShown, Pending, Orderly, Live
<1>7. QED
  BY <1>4, <1>5, <1>6 DEF Good, s

\* The user acts on a connection: it overlaps with what is queued of it.
Acted(r) == [r EXCEPT !.overlap = @ \/ r.queue # <<>> \/ r.stage # "open"]

\* What the action of the user leaves of the record.
LEMMA ActedFields ==
    ASSUME NEW r, r \in Connection
    PROVE  LET s == Acted(r) IN
           /\ s \in Connection /\ s.queue = r.queue /\ s.thread = r.thread
           /\ s.widget = r.widget /\ s.obj = r.obj /\ s.stage = r.stage /\ s.closed = r.closed
           /\ s.panels = r.panels /\ s.fault = r.fault /\ s.error = r.error
           /\ s.overlap <=> r.overlap \/ r.queue # <<>> \/ r.stage # "open"
  BY ConnectionType DEF Acted

\* A request to close that is not yet carried out.
LEMMA AskedGood ==
    ASSUME NEW r, Good(r, FALSE, FALSE), r.obj
    PROVE  Good(Acted(r), TRUE, FALSE)
<1> DEFINE s == Acted(r)
<1>1. r \in Connection
  BY DEF Good, Types
<1>2. /\ s \in Connection /\ s.queue = r.queue /\ s.thread = r.thread
      /\ s.widget = r.widget /\ s.obj = r.obj /\ s.stage = r.stage /\ s.closed = r.closed
      /\ s.panels = r.panels /\ s.fault = r.fault
      /\ s.overlap <=> r.overlap \/ r.queue # <<>> \/ r.stage # "open"
  BY <1>1, ActedFields
<1> HIDE DEF s
<1>3. Types(s)
  BY <1>1, <1>2, FieldTypes DEF Good, Types
<1>4. Opening(s)
  BY <1>1, <1>2, FieldTypes DEF Good, Opening, Live
<1>5. Alive(s)
  BY <1>1, <1>2, FieldTypes DEF Good, Alive, Live
<1>6. EndShown(s)
  BY <1>1, <1>2, FieldTypes DEF Good, EndShown
<1>7. Orderly(s) /\ Pending(s, TRUE, FALSE)
  BY <1>1, <1>2, FieldTypes DEF Good, Orderly, Pending
<1>8. QED
  BY <1>3, <1>4, <1>5, <1>6, <1>7 DEF Good, s

\* A connection that is over, when the user acts on it.
LEMMA ActedOver ==
    ASSUME NEW r, Good(r, FALSE, FALSE), ~Live(r)
    PROVE  Over(Acted(r))
<1> DEFINE s == Acted(r)
<1>1. r \in Connection
  BY DEF Good, Types
<1>2. /\ s \in Connection /\ s.queue = r.queue /\ s.thread = r.thread
      /\ s.widget = r.widget /\ s.obj = r.obj /\ s.stage = r.stage /\ s.closed = r.closed
      /\ s.panels = r.panels /\ s.fault = r.fault
      /\ s.overlap <=> r.overlap \/ r.queue # <<>> \/ r.stage # "open"
  BY <1>1, ActedFields
<1> HIDE DEF s
<1>3. Types(s)
  BY <1>1, <1>2, FieldTypes DEF Good, Types
<1>4. Opening(s)
  BY <1>1, <1>2, FieldTypes DEF Good, Opening, Live
<1>5. ~s.overlap => s.fault = "none" /\ s.queue = <<>> /\ s.stage = "open"
  BY <1>1, <1>2, FieldTypes DEF Good, Orderly
<1>6. QED
  BY <1>2, <1>3, <1>4, <1>5 DEF Over, Live, s

\* A panel that reports the end is on the tab of a connection that is over.
LEMMA PanelsMeanOver ==
    ASSUME NEW r, Good(r, FALSE, FALSE), NEW x \in {"error", "prompt"}, x \in r.panels
    PROVE  ~Live(r) /\ r.stage = "open" /\ r.obj
  BY DEF Good, Types, Alive, Opening

\* What Over says does not depend on the tunnels or the error.
LEMMA OverFields ==
    ASSUME NEW r, Over(r), NEW s, s \in Connection, s.queue = r.queue, s.thread = r.thread,
           s.widget = r.widget, s.obj = r.obj, s.stage = r.stage, s.closed = r.closed,
           s.panels = r.panels, s.fault = r.fault, s.overlap = r.overlap
    PROVE  Over(s)
<1>1. r \in Connection
  BY DEF Over, Types
<1>2. Types(s)
  BY <1>1, FieldTypes DEF Over, Types
<1>3. Opening(s)
  BY <1>1, FieldTypes DEF Over, Opening, Live
<1>4. QED
  BY <1>1, <1>2, <1>3, FieldTypes DEF Over, Live

\* The confirmation of the disconnection.
LEMMA ConfirmedGood ==
    ASSUME NEW r, Good(r, FALSE, FALSE), "prompt" \in r.panels
    PROVE  Good(conn_closed_real(Acted(r)), FALSE, FALSE)
<1> DEFINE a == Acted(r)
           s == [a EXCEPT !.tunnels = FALSE]
<1>1. ~Live(r) /\ r.stage = "open" /\ r.obj
  BY PanelsMeanOver
<1>2. Over(a)
  BY <1>1, ActedOver
<1>3. a \in Connection /\ a.obj = r.obj /\ a.stage = r.stage
  BY <1>2, ActedFields DEF Good, Types
<1> HIDE DEF a
<1>4. /\ s \in Connection /\ s.queue = a.queue /\ s.thread = a.thread
      /\ s.widget = a.widget /\ s.obj = a.obj /\ s.stage = a.stage /\ s.closed = a.closed
      /\ s.panels = a.panels /\ s.fault = a.fault /\ s.overlap = a.overlap
  BY <1>3, ConnectionType
<1>5. conn_closed_real(a) = on_disconnect(s)
  BY DEF conn_closed_real
<1> HIDE DEF s
<1>6. Over(s)
  BY <1>2, <1>4, OverFields
<1>7. s.obj /\ s.stage = "open"
  BY <1>1, <1>3, <1>4
<1>8. QED
  BY <1>5, <1>6, <1>7, DisconnectGood DEF a

\* The first half of remmina_protocol_widget_close_connection, when the connection is closed
\* already ...
LEMMA CheckedOverGood ==
    ASSUME NEW r, Good(r, TRUE, FALSE), r.closed
    PROVE  Good(close_check(r), FALSE, FALSE)
<1> DEFINE s == [r EXCEPT !.error = FALSE]
<1>1. r \in Connection
  BY DEF Good, Types
<1>2. /\ s \in Connection /\ s.queue = r.queue /\ s.thread = r.thread
      /\ s.widget = r.widget /\ s.obj = r.obj /\ s.stage = r.stage /\ s.closed = r.closed
      /\ s.panels = r.panels /\ s.fault = r.fault /\ s.overlap = r.overlap /\ s.error = FALSE
  BY <1>1, ConnectionType
<1>3. close_check(r) = on_disconnect(s)
  BY DEF close_check
<1> HIDE DEF s
<1>4. ~Live(r)
  BY <1>1, FieldTypes DEF Good, Opening, Live
<1>5. ~r.overlap => r.obj /\ r.fault = "none" /\ r.queue = <<>> /\ r.stage = "open"
  BY <1>1, <1>4, FieldTypes DEF Good, Pending, Orderly
<1>6. Over(r)
  BY <1>4, <1>5 DEF Good, Over
<1>7. Over(s)
  BY <1>2, <1>6, OverFields
<1>8. ~s.overlap => s.obj
  BY <1>1, <1>2, <1>5, FieldTypes
<1>9. QED
  BY <1>2, <1>3, <1>7, <1>8, DisconnectGood

\* ... and when it is not.
LEMMA CheckedGood ==
    ASSUME NEW r, Good(r, TRUE, FALSE), ~r.closed
    PROVE  Good(close_check(r), FALSE, TRUE)
<1> DEFINE s == [r EXCEPT !.user = TRUE]
<1>1. r \in Connection
  BY DEF Good, Types
<1>2. /\ s \in Connection /\ s.queue = r.queue /\ s.thread = r.thread
      /\ s.widget = r.widget /\ s.obj = r.obj /\ s.stage = r.stage /\ s.closed = r.closed
      /\ s.panels = r.panels /\ s.fault = r.fault /\ s.overlap = r.overlap
  BY <1>1, ConnectionType
<1>3. close_check(r) = s
  BY DEF close_check
<1> HIDE DEF s
<1>4. r.stage = "open" /\ Live(r)
  BY <1>1, FieldTypes DEF Good, Opening, Live
<1>5. Types(s)
  BY <1>1, <1>2, FieldTypes DEF Good, Types
<1>6. Opening(s)
  BY <1>1, <1>2, FieldTypes DEF Good, Opening, Live
<1>7. Alive(s)
  BY <1>1, <1>2, FieldTypes DEF Good, Alive, Live
<1>8. EndShown(s)
  BY <1>1, <1>2, FieldTypes DEF Good, EndShown
<1>9. Orderly(s) /\ Pending(s, FALSE, TRUE)
  BY <1>1, <1>2, <1>4, FieldTypes DEF Good, Orderly, Pending, Live
<1>10. QED
  BY <1>3, <1>5, <1>6, <1>7, <1>8, <1>9 DEF Good

\* close_connection of the plugin
LEMMA PluginClosedGood ==
    ASSUME NEW r, Good(r, FALSE, TRUE)
    PROVE  Good(plugin_close(r), FALSE, FALSE)
<1>1. r \in Connection /\ r.queue \in Queues
  BY FieldTypes DEF Good, Types
<1>2. CASE r.sync \/ r.thread = "none"
  <2> DEFINE q == Append(r.queue, "closed")
             s == plugin_close(r)
  <2>1. AtMost(r.queue, 3)
    BY <1>1, Short DEF Good, Alive, Pending
  <2>2. /\ q \in Queues /\ q # <<>> /\ Says(q) /\ AtMost(q, 4)
        /\ ~Says(r.queue) => LastOnly(q)
    BY <1>1, <2>1, Pushing DEF Sources
  <2>3. s = [r EXCEPT !.thread = IF @ = "none" THEN @ ELSE "ended", !.closed = TRUE, !.queue = q]
    BY <1>1, <1>2, ConnectionType DEF plugin_close, SignalClosed, Push
  <2> HIDE DEF q, s
  <2>4. /\ s \in Connection /\ s.queue = q /\ s.thread \in {"none", "ended"}
        /\ s.widget = r.widget /\ s.obj = r.obj /\ s.stage = r.stage /\ s.closed = TRUE
        /\ s.panels = r.panels /\ s.fault = r.fault /\ s.overlap = r.overlap
    BY <1>1, <2>2, <2>3, ConnectionType
  <2>5. r.stage = "open" /\ (~r.overlap => Live(r))
    BY DEF Good, Pending
  <2>6. Types(s)
    BY <1>1, <2>2, <2>4, FieldTypes DEF Good, Types
  <2>7. Opening(s)
    BY <1>1, <2>4, <2>5, FieldTypes DEF Opening, Live
  <2>8. Alive(s) /\ EndShown(s) /\ Pending(s, FALSE, FALSE)
    BY <2>2, <2>4 DEF Alive, EndShown, Pending, Live
  <2>9. ~r.overlap => r.obj /\ r.widget = "tree" /\ ~Says(r.queue) /\ r.fault = "none"
    BY <2>5 DEF Good, Alive, Orderly
  <2>10. Orderly(s)
    BY <1>1, <2>2, <2>4, <2>5, <2>9, FieldTypes DEF Orderly
  <2>11. QED
    BY <2>6, <2>7, <2>8, <2>10 DEF Good, s
<1>3. CASE ~(r.sync \/ r.thread = "none")
  <2> DEFINE s == [r EXCEPT !.asked = TRUE]
  <2>1. /\ s \in Connection /\ s.queue = r.queue /\ s.thread = r.thread
        /\ s.widget = r.widget /\ s.obj = r.obj /\ s.stage = r.stage /\ s.closed = r.closed
        /\ s.panels = r.panels /\ s.fault = r.fault /\ s.overlap = r.overlap
    BY <1>1, ConnectionType
  <2>2. plugin_close(r) = s
    BY <1>3 DEF plugin_close
  <2> HIDE DEF s
  <2>3. Types(s)
    BY <1>1, <2>1, FieldTypes DEF Good, Types
  <2>4. Opening(s)
    BY <1>1, <2>1, FieldTypes DEF Good, Opening, Live
  <2>5. Alive(s)
    BY <1>1, <2>1, FieldTypes DEF Good, Alive, Live
  <2>6. EndShown(s)
    BY <1>1, <2>1, FieldTypes DEF Good, EndShown
  <2>7. Orderly(s) /\ Pending(s, FALSE, FALSE)
    BY <1>1, <2>1, FieldTypes DEF Good, Orderly, Pending
  <2>8. QED
    BY <2>2, <2>3, <2>4, <2>5, <2>6, <2>7 DEF Good
<1>4. QED
  BY <1>2, <1>3

-----------------------------------------------------------------------------
(* The invariant.                                                          *)

\* No connection is open yet.
LEMMA InitInv == Init => IInv
<1> SUFFICES ASSUME Init
             PROVE  IInv
  OBVIOUS
<1>1. /\ conn \in [Conns ->
            [widget : {"none"}, obj : {FALSE}, stage : {"new"}, closed : {TRUE},
             user : {FALSE}, error : {FALSE}, connected : {FALSE}, tunnels : {FALSE},
             prompt : BOOLEAN, panels : {{}}, sync : BOOLEAN, thread : {"none"},
             asked : {FALSE}, queue : {<<>>}, fault : {"none"}, written : {FALSE},
             overlap : {FALSE}]]
      /\ todo = {} /\ mid = None
  BY DEF Init
<1>2. ASSUME NEW c \in Conns
      PROVE  conn[c] \in Connection /\ Good(conn[c], FALSE, FALSE)
  <2> DEFINE r == conn[c]
  <2>1. /\ r \in [widget : {"none"}, obj : {FALSE}, stage : {"new"}, closed : {TRUE},
             user : {FALSE}, error : {FALSE}, connected : {FALSE}, tunnels : {FALSE},
             prompt : BOOLEAN, panels : {{}}, sync : BOOLEAN, thread : {"none"},
             asked : {FALSE}, queue : {<<>>}, fault : {"none"}, written : {FALSE},
             overlap : {FALSE}]
    BY <1>1
  <2> HIDE DEF r
  <2>2. /\ r.widget = "none" /\ r.obj = FALSE /\ r.stage = "new" /\ r.closed = TRUE
        /\ r.panels = {} /\ r.thread = "none" /\ r.queue = <<>> /\ r.fault = "none"
    BY <2>1
  <2>3. r \in Connection
    BY <2>1, Short, ConnectionType
  <2>4. Types(r) /\ Opening(r)
    BY <2>2, <2>3, Short DEF Types, Opening, Live
  <2>5. Alive(r) /\ EndShown(r) /\ Orderly(r) /\ Pending(r, FALSE, FALSE)
    BY <2>2, Short DEF Alive, EndShown, Orderly, Pending, Live
  <2>6. QED
    BY <2>3, <2>4, <2>5 DEF Good, r
<1>3. \A c \in Conns : (c \in todo <=> FALSE) /\ (mid = c <=> FALSE)
  BY <1>1, LifecycleAssumption
<1>4. conn \in [Conns -> Connection]
  BY <1>1, <1>2
<1>5. \A c \in Conns : Good(conn[c], c \in todo, mid = c)
  BY <1>2, <1>3 DEF Good, Pending
<1>6. QED
  BY <1>1, <1>4, <1>5 DEF IInv

\* What a step on the record of c leaves of the invariant to be shown.
LEMMA StepOn ==
    ASSUME IInv, NEW c \in Conns, NEW r, Set(c, r),
           todo' \subseteq Conns, mid' \in Conns \cup {None},
           \A d \in Conns \ {c} : (d \in todo' <=> d \in todo) /\ (mid' = d <=> mid = d),
           NEW t \in BOOLEAN, NEW m \in BOOLEAN, c \in todo' <=> t, mid' = c <=> m,
           Good(r, t, m)
    PROVE  IInv'
<1>1. r \in Connection
  BY DEF Good, Types
<1>2. /\ conn' \in [Conns -> Connection] /\ conn'[c] = r
      /\ \A d \in Conns \ {c} : conn'[d] = conn[d]
  BY <1>1 DEF IInv, Set
<1>3. Good(conn'[c], c \in todo', mid' = c)
  BY <1>2 DEF Good, Pending
<1>4. ASSUME NEW d \in Conns \ {c}
      PROVE  Good(conn'[d], d \in todo', mid' = d)
  BY <1>2, <1>4 DEF IInv, Good, Pending
<1>5. QED
  BY <1>2, <1>3, <1>4 DEF IInv

\* The record of c in the main loop, and at any time.
LEMMA LoopFacts ==
    ASSUME IInv, InLoop, NEW c \in Conns
    PROVE  /\ Good(conn[c], FALSE, FALSE)
           /\ c \notin todo /\ mid # c
  BY LifecycleAssumption DEF IInv, InLoop, Good, Pending

\* Every action keeps the invariant.
LEMMA StepInv == IInv /\ [Next]_vars => IInv'
<1> SUFFICES ASSUME IInv, [Next]_vars
             PROVE  IInv'
  OBVIOUS
<1> USE DEF IInv
<1>1. ASSUME NEW c \in Conns, Open(c)
      PROVE  IInv'
  BY <1>1, LoopFacts, OpenGood, StepOn DEF Open
<1>2. ASSUME NEW c \in Conns, SizeAllocated(c)
      PROVE  IInv'
  BY <1>2, LoopFacts, SizedGood, StepOn DEF SizeAllocated
<1>3. ASSUME NEW c \in Conns, LastStage(c)
      PROVE  IInv'
  <2> DEFINE r == conn[c]
  <2>1. Good(r, FALSE, FALSE) /\ r.stage = "timer" /\ c \notin todo /\ mid # c
    BY <1>3, LoopFacts DEF LastStage
  <2>2. r \in Connection
    BY <2>1 DEF Good, Types
  <2>3. [r EXCEPT !.stage = "open"].widget = r.widget /\ [r EXCEPT !.stage = "open"].obj = r.obj
    BY <2>2, ConnectionType
  <2>4. CASE /\ r.widget = "freed"
             /\ Set(c, [[r EXCEPT !.stage = "open"] EXCEPT !.fault = "freed gp"])
    <3>1. ~r.obj
      BY <2>1, <2>4 DEF Good, Types
    <3>2. Good([r EXCEPT !.stage = "open", !.fault = "freed gp"], FALSE, FALSE)
      BY <2>1, <3>1, LateGood
    <3>3. [[r EXCEPT !.stage = "open"] EXCEPT !.fault = "freed gp"]
            = [r EXCEPT !.stage = "open", !.fault = "freed gp"]
      BY <2>2, ConnectionType
    <3> QED
      BY <1>3, <2>1, <2>4, <3>2, <3>3, StepOn DEF LastStage
  <2>5. CASE ~r.obj /\ Set(c, [[r EXCEPT !.stage = "open"] EXCEPT !.fault = "no cnnobj"])
    <3>2. Good([r EXCEPT !.stage = "open", !.fault = "no cnnobj"], FALSE, FALSE)
      BY <2>1, <2>5, LateGood
    <3>3. [[r EXCEPT !.stage = "open"] EXCEPT !.fault = "no cnnobj"]
            = [r EXCEPT !.stage = "open", !.fault = "no cnnobj"]
      BY <2>2, ConnectionType
    <3> QED
      BY <1>3, <2>1, <2>5, <3>2, <3>3, StepOn DEF LastStage
  <2> DEFINE o == [[r EXCEPT !.stage = "open"] EXCEPT !.panels = {"connect"}, !.closed = FALSE]
  <2>6. ASSUME r.obj, NEW u \in BOOLEAN, Set(c, [o EXCEPT !.thread = "run", !.tunnels = u])
        PROVE  IInv'
    <3>1. [o EXCEPT !.thread = "run", !.tunnels = u]
            = [r EXCEPT !.stage = "open", !.panels = {"connect"}, !.closed = FALSE,
                        !.thread = "run", !.tunnels = u]
      BY <2>2, ConnectionType
    <3>2. Good([o EXCEPT !.thread = "run", !.tunnels = u], FALSE, FALSE)
      BY <2>1, <2>6, <3>1, StartedGood
    <3> QED
      BY <1>3, <2>1, <2>6, <3>2, StepOn DEF LastStage
  <2>7. ASSUME r.obj, NEW e \in BOOLEAN, Set(c, plugin_close(close_check([o EXCEPT !.error = e])))
        PROVE  IInv'
    <3>1. [o EXCEPT !.error = e]
            = [r EXCEPT !.stage = "open", !.panels = {"connect"}, !.closed = FALSE, !.error = e]
      BY <2>2, ConnectionType
    <3>2. Good(plugin_close(close_check([o EXCEPT !.error = e])), FALSE, FALSE)
      BY <2>1, <2>7, <3>1, FailedGood
    <3> QED
      BY <1>3, <2>1, <2>7, <3>2, StepOn DEF LastStage
  <2>8. \/ r.widget = "freed" /\ Set(c, [[r EXCEPT !.stage = "open"] EXCEPT !.fault = "freed gp"])
        \/ ~r.obj /\ Set(c, [[r EXCEPT !.stage = "open"] EXCEPT !.fault = "no cnnobj"])
        \/ r.obj /\ \E u \in BOOLEAN : Set(c, [o EXCEPT !.thread = "run", !.tunnels = u])
        \/ r.obj /\ \E e \in BOOLEAN : Set(c, plugin_close(close_check([o EXCEPT !.error = e])))
    BY <1>3, <2>3 DEF LastStage
  <2>9. QED
    BY <2>4, <2>5, <2>6, <2>7, <2>8
<1>4. ASSUME NEW c \in Conns, ThreadOpened(c)
      PROVE  IInv'
  <2> DEFINE t == c \in todo
             m == mid = c
  <2>1. t \in BOOLEAN /\ m \in BOOLEAN /\ Good(conn[c], t, m)
    OBVIOUS
  <2>2. (c \in todo <=> t) /\ (mid = c <=> m)
    OBVIOUS
  <2> HIDE DEF t, m
  <2>3. Good(Push([conn[c] EXCEPT !.thread = "up"], "opened"), t, m)
    BY <1>4, <2>1, OpenedGood DEF ThreadOpened
  <2>4. QED
    BY <1>4, <2>1, <2>2, <2>3, StepOn DEF ThreadOpened
<1>5. ASSUME NEW c \in Conns, ThreadUpdate(c)
      PROVE  IInv'
  <2> DEFINE t == c \in todo
             m == mid = c
  <2>1. t \in BOOLEAN /\ m \in BOOLEAN /\ Good(conn[c], t, m)
    OBVIOUS
  <2>2. (c \in todo <=> t) /\ (mid = c <=> m)
    OBVIOUS
  <2> HIDE DEF t, m
  <2>3. Good(Push(conn[c], "update"), t, m)
    BY <1>5, <2>1, UpdateGood DEF ThreadUpdate
  <2>4. QED
    BY <1>5, <2>1, <2>2, <2>3, StepOn DEF ThreadUpdate
<1>6. ASSUME NEW c \in Conns, ThreadEnds(c)
      PROVE  IInv'
  <2> DEFINE r == conn[c]
  <2>1. PICK e \in BOOLEAN :
            Set(c, SignalClosed([r EXCEPT !.thread = "ended", !.error = @ \/ e,
                                          !.overlap = @ \/ Closing(c)]))
    BY <1>6 DEF ThreadEnds
  <2>2. /\ Good(r, c \in todo, mid = c) /\ r \in Connection /\ Live(r)
        /\ UNCHANGED <<todo, mid>>
    BY <1>6 DEF ThreadEnds, Live
  <2>3. /\ [r EXCEPT !.thread = "ended", !.error = @ \/ e, !.overlap = @ \/ Closing(c)]
             = [r EXCEPT !.thread = "ended", !.error = r.error \/ e,
                         !.overlap = r.overlap \/ Closing(c)]
        /\ (r.error \/ e) \in BOOLEAN /\ (r.overlap \/ Closing(c)) \in BOOLEAN
    BY <2>2, ConnectionType
  <2> DEFINE t == c \in todo
             m == mid = c
             e1 == r.error \/ e
             o == r.overlap \/ Closing(c)
             v == [r EXCEPT !.thread = "ended", !.error = e1, !.overlap = o]
  <2>4. /\ t \in BOOLEAN /\ m \in BOOLEAN /\ Good(r, t, m)
        /\ (c \in todo <=> t) /\ (mid = c <=> m)
    BY <2>2
  <2>5. e1 \in BOOLEAN /\ o \in BOOLEAN /\ (r.overlap => o) /\ (t \/ m => o)
    BY <2>3 DEF Closing
  <2>6. Set(c, SignalClosed(v))
    BY <2>1, <2>3
  <2> HIDE DEF e1, o
  <2>7. /\ v \in Connection /\ v.queue = r.queue /\ v.thread = "ended" /\ v.widget = r.widget
        /\ v.obj = r.obj /\ v.stage = r.stage /\ v.panels = r.panels /\ v.fault = r.fault
        /\ v.overlap = o
    BY <2>2, <2>5, ConnectionType
  <2> HIDE DEF r, t, m, v
  <2>8. (r.overlap => v.overlap) /\ (t \/ m => v.overlap)
    BY <2>5, <2>7
  <2>9. Good(SignalClosed(v), t, m)
    BY <2>2, <2>4, <2>7, <2>8, EndsGood
  <2>10. QED
    BY <2>2, <2>4, <2>6, <2>9, StepOn
<1>7. ASSUME NEW c \in Conns, Idle(c)
      PROVE  IInv'
  <2> DEFINE r == conn[c]
             p == [r EXCEPT !.queue = Tail(@)]
             h == Head(r.queue)
  <2>1. Good(r, FALSE, FALSE) /\ r.queue # <<>> /\ c \notin todo /\ mid # c
    BY <1>7, LoopFacts DEF Idle
  <2>2. PICK s : /\ Set(c, s)
                 /\ \/ p.widget = "freed" /\ s = [p EXCEPT !.fault = "freed gp"]
                    \/ p.widget # "freed" /\ h = "opened" /\ s = conn_opened(p)
                    \/ p.widget # "freed" /\ h = "update" /\ s = update(p)
                    \/ p.widget # "freed" /\ h = "closed" /\ s = conn_closed(p)
    BY <1>7 DEF Idle
  <2>3. Good(s, FALSE, FALSE)
    BY <2>1, <2>2, IdleGood
  <2>4. QED
    BY <1>7, <2>1, <2>2, <2>3, StepOn DEF Idle
<1>8. ASSUME NEW c \in Conns, TabClose(c)
      PROVE  IInv'
  <2> DEFINE r == conn[c]
  <2>1. Good(r, FALSE, FALSE) /\ r.obj /\ c \notin todo /\ mid # c /\ todo = {} /\ UNCHANGED mid
    BY <1>8, LoopFacts DEF TabClose, InLoop
  <2>2. ActedOn(c) = Acted(r)
    BY DEF ActedOn, Acted
  <2>3. CASE r.closed
    <3>1. ~Live(r)
      BY <2>1, <2>3 DEF Good, Opening, Live
    <3>2. Good(closewin(Acted(r)), FALSE, FALSE)
      BY <2>1, <3>1, ActedOver, ClosewinGood
    <3>3. Set(c, closewin(Acted(r))) /\ UNCHANGED todo
      BY <1>8, <2>2, <2>3 DEF TabClose
    <3>4. QED
      BY <2>1, <3>2, <3>3, StepOn
  <2>4. CASE ~r.closed
    <3>1. Good(Acted(r), TRUE, FALSE)
      BY <2>1, AskedGood
    <3>2. Set(c, Acted(r)) /\ todo' = {c}
      BY <1>8, <2>2, <2>4 DEF TabClose
    <3>3. QED
      BY <2>1, <3>1, <3>2, StepOn
  <2>5. QED
    BY <2>3, <2>4
<1>9. ASSUME NEW c \in Conns, Disconnect(c)
      PROVE  IInv'
  <2>1. /\ Good(conn[c], FALSE, FALSE) /\ conn[c].obj /\ mid # c /\ todo = {}
        /\ UNCHANGED mid /\ todo' = {c} /\ Set(c, Acted(conn[c]))
    BY <1>9, LoopFacts DEF Disconnect, InLoop, ActedOn, Acted
  <2>2. Good(Acted(conn[c]), TRUE, FALSE)
    BY <2>1, AskedGood
  <2>3. QED
    BY <2>1, <2>2, StepOn
<1>10. ASSUME DeleteWindow
       PROVE  IInv'
  <2> DEFINE tabs == {c \in Conns : conn[c].obj}
  <2>1. /\ InLoop /\ mid' = mid /\ todo' = tabs
        /\ conn' = [c \in Conns |-> IF c \in tabs THEN Acted(conn[c]) ELSE conn[c]]
    BY <1>10 DEF DeleteWindow, ActedOn, Acted
  <2>2. ASSUME NEW c \in Conns
        PROVE  conn'[c] \in Connection /\ Good(conn'[c], c \in todo', mid' = c)
    <3>1. Good(conn[c], FALSE, FALSE) /\ mid # c
      BY <2>1, LoopFacts
    <3>2. CASE c \in tabs
      <4>1. Good(Acted(conn[c]), TRUE, FALSE) /\ conn'[c] = Acted(conn[c])
        BY <2>1, <3>1, <3>2, AskedGood
      <4>2. QED
        BY <2>1, <3>1, <3>2, <4>1 DEF Good, Types, Pending
    <3>3. CASE c \notin tabs
      <4>1. conn'[c] = conn[c] /\ (c \in todo' <=> FALSE) /\ (mid' = c <=> FALSE)
        BY <2>1, <3>1, <3>3
      <4>2. QED
        BY <3>1, <4>1 DEF Good, Types, Pending
    <3>4. QED
      BY <3>2, <3>3
  <2>3. conn' \in [Conns -> Connection]
    BY <2>1, <2>2
  <2>4. QED
    BY <2>1, <2>2, <2>3
<1>11. ASSUME NEW c \in Conns, CloseCheck(c)
       PROVE  IInv'
  <2> DEFINE r == conn[c]
  <2>1. /\ c \in todo /\ mid = None /\ todo' = todo \ {c}
        /\ mid' = IF r.closed THEN None ELSE c
        /\ Set(c, close_check(r))
    BY <1>11 DEF CloseCheck
  <2>2. Good(r, TRUE, FALSE)
    BY <2>1, LifecycleAssumption DEF Good, Pending
  <2>3. CASE r.closed
    BY <2>1, <2>2, <2>3, LifecycleAssumption, CheckedOverGood, StepOn
  <2>4. CASE ~r.closed
    <3>1. Good(close_check(r), FALSE, TRUE)
      BY <2>2, <2>4, CheckedGood
    <3>2. mid' = c /\ c \notin todo'
      BY <2>1, <2>4
    <3>3. \A d \in Conns \ {c} : (d \in todo' <=> d \in todo) /\ (mid' = d <=> mid = d)
      BY <2>1, <3>2, LifecycleAssumption
    <3>4. QED
      BY <2>1, <3>1, <3>2, <3>3, StepOn
  <2>5. QED
    BY <2>3, <2>4
<1>12. ASSUME NEW c \in Conns, PluginClose(c)
       PROVE  IInv'
  <2>1. mid = c /\ mid' = None /\ Set(c, plugin_close(conn[c])) /\ UNCHANGED todo
    BY <1>12 DEF PluginClose
  <2>2. c \notin todo
    BY <2>1 DEF Good, Pending
  <2>3. Good(conn[c], FALSE, TRUE)
    BY <2>1, <2>2 DEF Good, Pending
  <2>4. Good(plugin_close(conn[c]), FALSE, FALSE)
    BY <2>3, PluginClosedGood
  <2>5. QED
    BY <2>1, <2>2, <2>4, LifecycleAssumption, StepOn
<1>13. ASSUME NEW c \in Conns, ConfirmError(c)
       PROVE  IInv'
  <2>1. /\ Good(conn[c], FALSE, FALSE) /\ "error" \in conn[c].panels /\ c \notin todo /\ mid # c
        /\ UNCHANGED <<todo, mid>> /\ Set(c, closewin(Acted(conn[c])))
    BY <1>13, LoopFacts DEF ConfirmError, ActedOn, Acted
  <2>2. Good(closewin(Acted(conn[c])), FALSE, FALSE)
    BY <2>1, PanelsMeanOver, ActedOver, ClosewinGood
  <2>3. QED
    BY <2>1, <2>2, StepOn
<1>14. ASSUME NEW c \in Conns, ConfirmPrompt(c)
       PROVE  IInv'
  <2>1. /\ Good(conn[c], FALSE, FALSE) /\ "prompt" \in conn[c].panels /\ c \notin todo /\ mid # c
        /\ UNCHANGED <<todo, mid>> /\ Set(c, conn_closed_real(Acted(conn[c])))
    BY <1>14, LoopFacts DEF ConfirmPrompt, ActedOn, Acted
  <2>2. Good(conn_closed_real(Acted(conn[c])), FALSE, FALSE)
    BY <2>1, ConfirmedGood
  <2>3. QED
    BY <2>1, <2>2, StepOn
<1>15. CASE UNCHANGED vars
  BY <1>15 DEF vars
<1>16. QED
  BY <1>1, <1>2, <1>3, <1>4, <1>5, <1>6, <1>7, <1>8, <1>9, <1>10, <1>11, <1>12, <1>13, <1>14,
     <1>15 DEF Next, Main, Thread, User

-----------------------------------------------------------------------------
(* What a step may do to a tab.                                            *)

\* A handler that keeps the queue of sources.
LEMMA QueueKept ==
    ASSUME NEW r, r \in Connection
    PROVE  /\ closewin(r).queue = r.queue /\ on_disconnect(r).queue = r.queue
           /\ conn_closed_real(r).queue = r.queue /\ close_check(r).queue = r.queue
<1>1. \A s \in Connection : closewin(s).queue = s.queue
  BY ConnectionType DEF closewin
<1>2. ASSUME NEW s \in Connection
      PROVE  on_disconnect(s).queue = s.queue
  <2> DEFINE d == [s EXCEPT !.widget = "detached", !.connected = FALSE]
  <2>1. d \in Connection /\ d.queue = s.queue
    BY <1>2, ConnectionType
  <2>2. closewin(d).queue = s.queue /\ [d EXCEPT !.panels = @ \cup {"error"}].queue = s.queue
    BY <1>1, <2>1, ConnectionType
  <2>3. [s EXCEPT !.fault = "no cnnobj"].queue = s.queue
    BY <1>2, ConnectionType
  <2> HIDE DEF d
  <2>4. on_disconnect(s) \in {[s EXCEPT !.fault = "no cnnobj"],
                              [d EXCEPT !.panels = @ \cup {"error"}], closewin(d)}
    BY DEF on_disconnect, d
  <2>5. QED
    BY <2>2, <2>3, <2>4
<1>3. /\ [r EXCEPT !.tunnels = FALSE] \in Connection /\ [r EXCEPT !.tunnels = FALSE].queue = r.queue
      /\ [r EXCEPT !.error = FALSE] \in Connection /\ [r EXCEPT !.error = FALSE].queue = r.queue
      /\ [r EXCEPT !.user = TRUE].queue = r.queue
  BY ConnectionType
<1>4. conn_closed_real(r).queue = r.queue
  BY <1>2, <1>3 DEF conn_closed_real
<1>5. close_check(r).queue = r.queue
  BY <1>2, <1>3 DEF close_check
<1>6. QED
  BY <1>1, <1>2, <1>4, <1>5

\* Handlers that report leave the tab.
LEMMA TabKept ==
    ASSUME NEW r, r \in Connection
    PROVE  /\ conn_opened(r).obj = r.obj /\ update(r).obj = r.obj
           /\ [r EXCEPT !.fault = "freed gp"].obj = r.obj
           /\ r.error => on_disconnect(r).obj = r.obj
           /\ ~r.user /\ ~r.error /\ r.prompt => conn_closed(r).obj = r.obj
<1>1. /\ [r EXCEPT !.fault = "no cnnobj"].obj = r.obj
      /\ [r EXCEPT !.panels = @ \ {"connect"}, !.connected = TRUE].obj = r.obj
      /\ [r EXCEPT !.panels = @ \cup {"prompt"}].obj = r.obj
      /\ [r EXCEPT !.fault = "freed gp"].obj = r.obj
      /\ [[r EXCEPT !.widget = "detached", !.connected = FALSE]
            EXCEPT !.panels = @ \cup {"error"}].obj = r.obj
  BY ConnectionType
<1>2. QED
  BY <1>1 DEF conn_opened, update, on_disconnect, conn_closed

\* The source that reports the end takes the tab only if there is nothing to read.
LEMMA ClosedTakesTab ==
    ASSUME NEW p, p \in Connection, p.obj, ~conn_closed(p).obj
    PROVE  ~p.error /\ (p.prompt => p.user)
<1>1. ~(~p.user /\ ~p.error /\ p.prompt)
  BY TabKept
<1> DEFINE s == [p EXCEPT !.tunnels = FALSE]
<1>2. conn_closed(p) = on_disconnect(s)
  BY <1>1 DEF conn_closed, conn_closed_real
<1>3. s \in Connection /\ s.obj = p.obj /\ s.error = p.error
  BY ConnectionType
<1> HIDE DEF s
<1>4. ~p.error
  BY <1>2, <1>3, TabKept
<1>5. QED
  BY <1>1, <1>4

\* The plugin and its thread leave the tab.
LEMMA PluginKeepsTab ==
    ASSUME NEW r, r \in Connection
    PROVE  /\ plugin_close(r).obj = r.obj
           /\ ~r.closed => plugin_close(close_check(r)).obj = r.obj
           /\ \A x \in Sources : Push(r, x).obj = r.obj
           /\ Push([r EXCEPT !.thread = "up"], "opened").obj = r.obj
           /\ SignalClosed(r).obj = r.obj
<1>1. \A s \in Connection : plugin_close(s).obj = s.obj
  BY ConnectionType DEF plugin_close, SignalClosed, Push
<1>2. ~r.closed => plugin_close(close_check(r)).obj = r.obj
  <2>1. [r EXCEPT !.user = TRUE] \in Connection /\ [r EXCEPT !.user = TRUE].obj = r.obj
    BY ConnectionType
  <2>2. QED
    BY <1>1, <2>1 DEF close_check
<1>3. \A x \in Sources : Push(r, x).obj = r.obj
  BY ConnectionType DEF Push
<1>4. Push([r EXCEPT !.thread = "up"], "opened").obj = r.obj
  BY ConnectionType DEF Push
<1>5. SignalClosed(r).obj = r.obj
  BY ConnectionType DEF SignalClosed, Push
<1>6. QED
  BY <1>1, <1>2, <1>3, <1>4, <1>5

\* The action property, for one step.
LEMMA StepSilent ==
    ASSUME IInv, [Next]_vars, NEW c \in Conns,
           conn[c].obj, ~conn'[c].obj, conn'[c].queue # conn[c].queue
    PROVE  ~conn[c].error /\ (conn[c].prompt => conn[c].user)
<1> DEFINE r == conn[c]
<1>1. r \in Connection /\ r.obj
  BY DEF IInv
<1>0. Acted(r).obj = r.obj /\ Acted(r).queue = r.queue /\ Acted(r) \in Connection
  BY <1>1, ActedFields
<1>2. \A s : Set(c, s) => conn'[c] = s
  BY DEF Set, IInv
<1>3. ASSUME NEW d \in Conns, d # c, Main(d) \/ Thread(d) \/ User(d)
      PROVE  FALSE
  <2>1. \E s : Set(d, s)
    BY <1>3, Zenon DEF Main, Thread, User, Open, SizeAllocated, LastStage, ThreadOpened,
       ThreadUpdate, ThreadEnds, Idle, TabClose, Disconnect, CloseCheck, PluginClose, ConfirmError, ConfirmPrompt
  <2>2. conn'[c] = conn[c]
    BY <1>3, <2>1 DEF Set, IInv
  <2>3. QED
    BY <2>2
<1>4. CASE DeleteWindow
  <2>1. conn'[c] = Acted(r) \/ conn'[c] = r
    BY <1>4 DEF DeleteWindow, ActedOn, Acted
  <2>2. QED
    BY <1>0, <2>1
<1>5. CASE Open(c) \/ SizeAllocated(c)
  <2>1. \/ Set(c, [r EXCEPT !.widget = "tree", !.obj = TRUE, !.stage = "sizing"])
        \/ Set(c, [r EXCEPT !.stage = "timer"])
    BY <1>5 DEF Open, SizeAllocated
  <2>2. /\ [r EXCEPT !.widget = "tree", !.obj = TRUE, !.stage = "sizing"].queue = r.queue
        /\ [r EXCEPT !.stage = "timer"].queue = r.queue
    BY <1>1, ConnectionType
  <2>3. QED
    BY <1>2, <2>1, <2>2
<1>6. CASE LastStage(c)
  <2> DEFINE q == [r EXCEPT !.stage = "open"]
             o == [q EXCEPT !.panels = {"connect"}, !.closed = FALSE]
  <2>1. /\ q \in Connection /\ q.queue = r.queue /\ q.obj = r.obj
        /\ o \in Connection /\ o.obj = r.obj /\ o.closed = FALSE
    BY <1>1, ConnectionType
  <2>2. \/ Set(c, [q EXCEPT !.fault = "freed gp"])
        \/ Set(c, [q EXCEPT !.fault = "no cnnobj"])
        \/ \E u \in BOOLEAN : Set(c, [o EXCEPT !.thread = "run", !.tunnels = u])
        \/ \E e \in BOOLEAN : Set(c, plugin_close(close_check([o EXCEPT !.error = e])))
    BY <1>6 DEF LastStage
  <2> HIDE DEF q, o
  <2>3. /\ [q EXCEPT !.fault = "freed gp"].queue = r.queue
        /\ [q EXCEPT !.fault = "no cnnobj"].queue = r.queue
    BY <2>1, ConnectionType
  <2>4. \A u \in BOOLEAN : [o EXCEPT !.thread = "run", !.tunnels = u].obj
    BY <1>1, <2>1, ConnectionType
  <2>5. ASSUME NEW e \in BOOLEAN
        PROVE  plugin_close(close_check([o EXCEPT !.error = e])).obj
    <3> DEFINE v == [o EXCEPT !.error = e]
    <3>1. v \in Connection /\ v.obj = o.obj /\ v.closed = o.closed
      BY <2>1, ConnectionType
    <3> HIDE DEF v
    <3>2. v.obj /\ ~v.closed
      BY <1>1, <2>1, <3>1
    <3>3. plugin_close(close_check(v)).obj
      BY <3>1, <3>2, PluginKeepsTab
    <3>4. QED
      BY <3>3 DEF v
  <2>6. QED
    BY <1>2, <2>2, <2>3, <2>4, <2>5
<1>7. CASE Thread(c)
  <2>1. CASE ThreadOpened(c) \/ ThreadUpdate(c)
    <3>1. Set(c, Push([r EXCEPT !.thread = "up"], "opened")) \/ Set(c, Push(r, "update"))
      BY <2>1 DEF ThreadOpened, ThreadUpdate
    <3> HIDE DEF r
    <3>2. Push([r EXCEPT !.thread = "up"], "opened").obj = r.obj /\ Push(r, "update").obj = r.obj
      BY <1>1, PluginKeepsTab DEF Sources
    <3>3. conn'[c].obj
      BY <1>1, <1>2, <3>1, <3>2
    <3>4. QED
      BY <3>3
  <2>2. CASE ThreadEnds(c)
    <3>1. PICK e \in BOOLEAN :
              Set(c, SignalClosed([r EXCEPT !.thread = "ended", !.error = @ \/ e,
                                            !.overlap = @ \/ Closing(c)]))
      BY <2>2 DEF ThreadEnds
    <3>2. /\ [r EXCEPT !.thread = "ended", !.error = @ \/ e, !.overlap = @ \/ Closing(c)]
               = [r EXCEPT !.thread = "ended", !.error = r.error \/ e,
                           !.overlap = r.overlap \/ Closing(c)]
          /\ (r.error \/ e) \in BOOLEAN /\ (r.overlap \/ Closing(c)) \in BOOLEAN
      BY <1>1, ConnectionType
    <3> DEFINE e1 == r.error \/ e
               o1 == r.overlap \/ Closing(c)
               s == [r EXCEPT !.thread = "ended", !.error = e1, !.overlap = o1]
    <3>3. conn'[c] = SignalClosed(s) /\ e1 \in BOOLEAN /\ o1 \in BOOLEAN
      BY <1>2, <3>1, <3>2
    <3> HIDE DEF e1, o1
    <3>4. s \in Connection /\ s.obj = r.obj
      BY <1>1, <3>3, ConnectionType
    <3> HIDE DEF r, s
    <3>5. SignalClosed(s).obj = r.obj
      BY <3>4, PluginKeepsTab
    <3>6. QED
      BY <1>1, <3>3, <3>5
  <2>3. QED
    BY <1>7, <2>1, <2>2 DEF Thread
<1>8. CASE Idle(c)
  <2> DEFINE p == [r EXCEPT !.queue = Tail(@)]
  <2>1. r.queue # <<>> /\ Good(r, FALSE, FALSE)
    BY <1>8, LoopFacts DEF Idle
  <2>2. p \in Connection
    BY <2>1, Popped
  <2>3. p.obj = r.obj /\ p.error = r.error /\ p.prompt = r.prompt /\ p.user = r.user
    BY <1>1, ConnectionType
  <2>4. \/ Set(c, [p EXCEPT !.fault = "freed gp"]) \/ Set(c, conn_opened(p))
        \/ Set(c, update(p)) \/ Set(c, conn_closed(p))
    BY <1>8 DEF Idle
  <2> HIDE DEF p
  <2>5. Set(c, conn_closed(p))
    <3>1. [p EXCEPT !.fault = "freed gp"].obj /\ conn_opened(p).obj /\ update(p).obj
      BY <1>1, <2>2, <2>3, TabKept
    <3>2. QED
      BY <1>2, <2>4, <3>1
  <2>6. ~p.error /\ (p.prompt => p.user)
    BY <1>1, <1>2, <2>2, <2>3, <2>5, ClosedTakesTab
  <2>7. QED
    BY <2>3, <2>6
<1>9. CASE TabClose(c) \/ Disconnect(c) \/ ConfirmError(c) \/ ConfirmPrompt(c)
  <2>1. \/ Set(c, closewin(Acted(r))) \/ Set(c, Acted(r)) \/ Set(c, conn_closed_real(Acted(r)))
    BY <1>9 DEF TabClose, Disconnect, ConfirmError, ConfirmPrompt, ActedOn, Acted
  <2>2. QED
    BY <1>2, <1>0, <2>1, QueueKept
<1>10. CASE CloseCheck(c)
  BY <1>1, <1>2, <1>10, QueueKept DEF CloseCheck
<1>11. CASE PluginClose(c)
  BY <1>1, <1>2, <1>11, PluginKeepsTab DEF PluginClose
<1>12. CASE UNCHANGED vars
  BY <1>12 DEF vars
<1>13. QED
  BY <1>3, <1>4, <1>5, <1>6, <1>7, <1>8, <1>9, <1>10, <1>11, <1>12 DEF Next, Main, Thread, User

-----------------------------------------------------------------------------
(* The write of rco_closewin to a widget it has freed.                     *)

\* The panel that tells an error is shown after the widget is detached, the one that asks
\* comes before that and only where it may; a widget written to is gone, and if nothing
\* overlapped the panel that asks was on it.
Told(r) ==
    /\ "error" \in r.panels => r.widget # "tree"
    /\ "prompt" \in r.panels => r.closed /\ r.prompt /\ ~r.user /\ ~r.error
    /\ r.written => r.widget = "freed"
    /\ r.written /\ ~r.overlap => r.prompt /\ ~r.user /\ ~r.error

TInv == \A c \in Conns : Told(conn[c])

\* A record that differs in nothing that Told speaks of.
LEMMA ToldSame ==
    ASSUME NEW r, NEW s, Told(r), s.widget = r.widget, s.panels \subseteq r.panels,
           s.closed = r.closed, s.prompt = r.prompt, s.user = r.user, s.error => r.error,
           s.written = r.written, r.overlap => s.overlap
    PROVE  Told(s)
  BY DEF Told

\* A record with neither panel whose widget was not written to.
LEMMA ToldFresh ==
    ASSUME NEW s, ~s.written, s.panels \subseteq {"connect"}
    PROVE  Told(s)
  BY DEF Told

\* rco_on_disconnect takes the widget out of the tree before it removes the page.
LEMMA ToldDisconnect ==
    ASSUME NEW r, r \in Connection, Told(r), r.obj => r.widget # "freed"
    PROVE  Told(on_disconnect(r))
<1>1. CASE ~r.obj
  <2>1. on_disconnect(r) = [r EXCEPT !.fault = "no cnnobj"]
    BY <1>1 DEF on_disconnect
  <2> DEFINE s == [r EXCEPT !.fault = "no cnnobj"]
  <2>2. /\ s.widget = r.widget /\ s.panels = r.panels /\ s.closed = r.closed
        /\ s.prompt = r.prompt /\ s.user = r.user /\ s.error = r.error
        /\ s.written = r.written /\ s.overlap = r.overlap
    BY ConnectionType
  <2> HIDE DEF s
  <2>3. Told(s)
    BY <2>2, ToldSame
  <2>4. QED
    BY <2>1, <2>3 DEF s
<1>2. CASE r.obj
  <2> DEFINE d == [r EXCEPT !.widget = "detached", !.connected = FALSE]
             e == [d EXCEPT !.panels = @ \cup {"error"}]
             z == closewin(d)
  <2>1. on_disconnect(r) = IF r.error THEN e ELSE z
    BY <1>2 DEF on_disconnect
  <2>2. ~r.written /\ r.panels \subseteq {"connect", "error", "prompt"}
    BY <1>2, FieldTypes DEF Told
  <2>3. /\ d \in Connection /\ d.widget = "detached" /\ d.panels = r.panels
        /\ d.closed = r.closed /\ d.prompt = r.prompt /\ d.user = r.user
        /\ d.error = r.error /\ d.written = r.written
    BY ConnectionType
  <2> HIDE DEF d
  <2>4. /\ e.widget = "detached" /\ e.panels = r.panels \cup {"error"}
        /\ e.closed = r.closed /\ e.prompt = r.prompt /\ e.user = r.user
        /\ e.error = r.error /\ e.written = r.written
    BY <2>3, ConnectionType
  <2>5. z.panels = {} /\ z.written = (IF d.widget = "tree" THEN TRUE ELSE d.written)
    BY <2>3, ConnectionType DEF closewin
  <2> HIDE DEF e, z
  <2>6. Told(e)
    BY <2>2, <2>4 DEF Told
  <2>7. Told(z)
    BY <2>2, <2>3, <2>5, ToldFresh
  <2>8. QED
    BY <2>1, <2>6, <2>7
<1>3. QED
  BY <1>1, <1>2

\* The same after a field that Told does not speak of, or the error, was reset.
LEMMA ToldReset ==
    ASSUME NEW r, r \in Connection, Told(r), r.obj => r.widget # "freed"
    PROVE  /\ Told(conn_closed_real(r))
           /\ Told(on_disconnect([r EXCEPT !.error = FALSE]))
<1> DEFINE s == [r EXCEPT !.tunnels = FALSE]
           v == [r EXCEPT !.error = FALSE]
<1>1. /\ s \in Connection /\ s.widget = r.widget /\ s.panels = r.panels /\ s.obj = r.obj
      /\ s.closed = r.closed /\ s.prompt = r.prompt /\ s.user = r.user
      /\ s.error = r.error /\ s.written = r.written /\ s.overlap = r.overlap
  BY ConnectionType
<1>2. /\ v \in Connection /\ v.widget = r.widget /\ v.panels = r.panels /\ v.obj = r.obj
      /\ v.closed = r.closed /\ v.prompt = r.prompt /\ v.user = r.user
      /\ v.error = FALSE /\ v.written = r.written /\ v.overlap = r.overlap
  BY ConnectionType
<1>0. conn_closed_real(r) = on_disconnect(s)
  BY DEF conn_closed_real
<1> HIDE DEF s, v
<1>3. Told(s) /\ Told(v)
  BY <1>1, <1>2, ToldSame
<1>4. Told(on_disconnect(s)) /\ Told(on_disconnect(v))
  BY <1>1, <1>2, <1>3, ToldDisconnect
<1>5. QED
  BY <1>0, <1>4 DEF v

\* The source that reports the end.
LEMMA ToldClosed ==
    ASSUME NEW r, r \in Connection, Told(r), r.obj => r.widget # "freed", r.closed
    PROVE  Told(conn_closed(r))
<1> DEFINE f == [r EXCEPT !.fault = "no cnnobj"]
           s == [r EXCEPT !.panels = @ \cup {"prompt"}]
<1>1. /\ f.widget = r.widget /\ f.panels = r.panels /\ f.closed = r.closed
      /\ f.prompt = r.prompt /\ f.user = r.user /\ f.error = r.error
      /\ f.written = r.written /\ f.overlap = r.overlap
  BY ConnectionType
<1>2. /\ s.widget = r.widget /\ s.panels = r.panels \cup {"prompt"} /\ s.closed = r.closed
      /\ s.prompt = r.prompt /\ s.user = r.user /\ s.error = r.error
      /\ s.written = r.written /\ s.overlap = r.overlap
  BY ConnectionType
<1>3. /\ ~r.user /\ ~r.error /\ r.prompt => conn_closed(r) = IF ~r.obj THEN f ELSE s
      /\ ~(~r.user /\ ~r.error /\ r.prompt) => conn_closed(r) = conn_closed_real(r)
  BY DEF conn_closed
<1> HIDE DEF f, s
<1>4. Told(f)
  BY <1>1, ToldSame
<1>5. ~r.user /\ ~r.error /\ r.prompt => Told(s)
  BY <1>2 DEF Told
<1>6. QED
  BY <1>3, <1>4, <1>5, ToldReset

\* Nothing is written to at the start.
LEMMA ToldInit == Init => TInv
<1> SUFFICES ASSUME Init, NEW c \in Conns
             PROVE  Told(conn[c])
  BY DEF TInv
<1>1. conn[c].panels = {} /\ conn[c].written = FALSE
  BY DEF Init
<1>2. QED
  BY <1>1, ToldFresh

\* A record that is not that of the step stays.
LEMMA ToldOn ==
    ASSUME IInv, TInv, NEW c \in Conns, NEW s, Set(c, s), Told(s)
    PROVE  TInv'
<1>1. conn'[c] = s /\ \A d \in Conns \ {c} : conn'[d] = conn[d]
  BY DEF Set, IInv
<1>2. QED
  BY <1>1 DEF TInv

\* What the user and the plugin change in a record.
LEMMA ToldActed ==
    ASSUME NEW r, r \in Connection, Told(r)
    PROVE  Told(Acted(r))
<1> DEFINE s == Acted(r)
<1>1. /\ s.widget = r.widget /\ s.panels = r.panels /\ s.closed = r.closed
      /\ s.prompt = r.prompt /\ s.user = r.user /\ s.error = r.error
      /\ s.written = r.written /\ (r.overlap => s.overlap)
  BY ConnectionType DEF Acted
<1> HIDE DEF s
<1>2. Told(s)
  BY <1>1, ToldSame
<1>3. QED
  BY <1>2 DEF s

\* The plugin closes, after its connection was found open, or it reports.
LEMMA ToldPlugin ==
    ASSUME NEW r, r \in Connection, ~r.written, r.panels \subseteq {"connect"}
    PROVE  /\ Told(plugin_close(r)) /\ Told(SignalClosed(r))
           /\ ~r.closed => Told(plugin_close(close_check(r))) /\ Told(close_check(r))
<1>1. ASSUME NEW v, v \in Connection, v.written = r.written, v.panels = r.panels
      PROVE  Told(plugin_close(v)) /\ Told(SignalClosed(v))
  <2>1. /\ plugin_close(v).written = v.written /\ plugin_close(v).panels = v.panels
        /\ SignalClosed(v).written = v.written /\ SignalClosed(v).panels = v.panels
    BY <1>1, ConnectionType DEF plugin_close, SignalClosed, Push
  <2>2. QED
    BY <1>1, <2>1, ToldFresh
<1> DEFINE u == [r EXCEPT !.user = TRUE]
<1>2. u \in Connection /\ u.written = r.written /\ u.panels = r.panels
  BY ConnectionType
<1>3. ~r.closed => close_check(r) = u
  BY DEF close_check
<1> HIDE DEF u
<1>4. Told(u)
  BY <1>2, ToldFresh
<1>5. QED
  BY <1>1, <1>2, <1>3, <1>4

\* The button of the tab of a connection that is over: without an overlap its end is in
\* a panel, and as the widget is in the tree it is the one that asks.
LEMMA ToldTabClose ==
    ASSUME NEW r, Good(r, FALSE, FALSE), Told(r), r.obj, r.closed
    PROVE  Told(closewin(Acted(r)))
<1> DEFINE a == Acted(r)
           z == closewin(a)
<1>1. r \in Connection /\ r.overlap \in BOOLEAN /\ r.stage \in {"new", "sizing", "timer", "open"}
  BY FieldTypes DEF Good, Types
<1>2. /\ a \in Connection /\ a.widget = r.widget /\ a.prompt = r.prompt /\ a.user = r.user
      /\ a.error = r.error /\ a.written = r.written /\ a.closed = r.closed
      /\ a.overlap <=> r.overlap \/ r.queue # <<>> \/ r.stage # "open"
  BY <1>1, ConnectionType DEF Acted
<1> HIDE DEF a
<1>3. /\ z.panels = {} /\ z.widget = (IF a.widget = "tree" THEN "freed" ELSE a.widget)
      /\ z.written = (IF a.widget = "tree" THEN TRUE ELSE a.written) /\ z.prompt = a.prompt
      /\ z.user = a.user /\ z.error = a.error /\ z.overlap = a.overlap
  BY <1>2, ConnectionType DEF closewin
<1> HIDE DEF z
<1>4. r.widget # "freed" /\ ~r.written
  BY <1>1, FieldTypes DEF Good, Types, Told
<1>5. ASSUME ~a.overlap, a.widget = "tree"
      PROVE  Told(z)
  <2>1. r.queue = <<>> /\ r.stage = "open" /\ r.queue \in Queues
    BY <1>1, <1>2, <1>5, FieldTypes
  <2>2. ~Says(r.queue)
    BY <2>1, Short
  <2>3. "prompt" \in r.panels
    BY <1>2, <1>5, <2>1, <2>2 DEF Good, EndShown, Told
  <2>4. r.prompt /\ ~r.user /\ ~r.error
    BY <2>3 DEF Told
  <2>5. QED
    BY <1>2, <1>3, <1>5, <2>4 DEF Told
<1>6. ASSUME a.overlap \/ a.widget # "tree"
      PROVE  Told(z)
  BY <1>2, <1>3, <1>4, <1>6 DEF Told
<1>7. Told(z)
  BY <1>5, <1>6
<1>8. QED
  BY <1>7 DEF z, a

\* The button of the panel that tells an error.
LEMMA ToldConfirmed ==
    ASSUME NEW r, Good(r, FALSE, FALSE), Told(r), r.obj, "error" \in r.panels
    PROVE  Told(closewin(Acted(r)))
<1> DEFINE a == Acted(r)
           z == closewin(a)
<1>1. r \in Connection
  BY DEF Good, Types
<1>2. a \in Connection /\ a.widget = r.widget /\ a.written = r.written
  BY <1>1, ConnectionType DEF Acted
<1>3. a.widget # "tree" /\ ~a.written
  BY <1>1, <1>2, FieldTypes DEF Told, Good, Types
<1> HIDE DEF a
<1>4. z.panels = {} /\ z.written = (IF a.widget = "tree" THEN TRUE ELSE a.written)
  BY <1>2, ConnectionType DEF closewin
<1>5. QED
  BY <1>3, <1>4, ToldFresh DEF a

\* Every action keeps it.
LEMMA ToldStep == IInv /\ TInv /\ [Next]_vars => TInv'
<1> SUFFICES ASSUME IInv, TInv, [Next]_vars
             PROVE  TInv'
  OBVIOUS
<1>0. ASSUME NEW c \in Conns
      PROVE  /\ conn[c] \in Connection /\ Good(conn[c], c \in todo, mid = c) /\ Told(conn[c])
             /\ conn[c].obj => conn[c].widget # "freed"
             /\ Live(conn[c]) => ~conn[c].written /\ conn[c].panels \subseteq {"connect"}
  BY DEF IInv, TInv, Good, Types, Alive, Told
<1>1. CASE DeleteWindow
  <2>1. ASSUME NEW c \in Conns
        PROVE  conn'[c] = Acted(conn[c]) \/ conn'[c] = conn[c]
    BY <1>1 DEF DeleteWindow, ActedOn, Acted
  <2>2. QED
    BY <1>0, <2>1, ToldActed DEF TInv
<1>2. ASSUME NEW c \in Conns, Open(c)
      PROVE  TInv'
  <2> DEFINE r == conn[c]
             s == [r EXCEPT !.widget = "tree", !.obj = TRUE, !.stage = "sizing"]
  <2>0. r \in Connection /\ Set(c, s)
    BY <1>0, <1>2 DEF Open
  <2>1. ~r.written /\ r.panels = {}
    BY <1>0, <1>2 DEF Open, Good, Opening, Told
  <2> HIDE DEF r
  <2>2. s.written = r.written /\ s.panels = r.panels /\ Set(c, s)
    BY <2>0, ConnectionType
  <2> HIDE DEF s
  <2>3. Told(s)
    BY <2>1, <2>2, ToldFresh
  <2>4. QED
    BY <2>2, <2>3, ToldOn
<1>3. ASSUME NEW c \in Conns, SizeAllocated(c)
      PROVE  TInv'
  <2> DEFINE r == conn[c]
             s == [r EXCEPT !.stage = "timer"]
  <2>0. r \in Connection /\ Told(r) /\ Set(c, s)
    BY <1>0, <1>3 DEF SizeAllocated
  <2> HIDE DEF r
  <2>1. /\ s.widget = r.widget /\ s.panels = r.panels /\ s.closed = r.closed
        /\ s.prompt = r.prompt /\ s.user = r.user /\ s.error = r.error
        /\ s.written = r.written /\ s.overlap = r.overlap
    BY <2>0, ConnectionType
  <2> HIDE DEF s
  <2>2. Told(s)
    BY <2>0, <2>1, ToldSame
  <2>3. QED
    BY <2>0, <2>2, ToldOn
<1>4. ASSUME NEW c \in Conns, LastStage(c)
      PROVE  TInv'
  <2> DEFINE r == conn[c]
             q == [r EXCEPT !.stage = "open"]
             o == [q EXCEPT !.panels = {"connect"}, !.closed = FALSE]
  <2>0. /\ r \in Connection /\ Told(r) /\ (r.obj => r.widget # "freed")
    BY <1>0
  <2> HIDE DEF r
  <2>1. /\ q \in Connection /\ q.obj = r.obj /\ o \in Connection /\ o.closed = FALSE
        /\ o.panels = {"connect"} /\ o.written = r.written
        /\ q.widget = r.widget /\ q.panels = r.panels /\ q.closed = r.closed
        /\ q.prompt = r.prompt /\ q.user = r.user /\ q.error = r.error
        /\ q.written = r.written /\ q.overlap = r.overlap
    BY <2>0, ConnectionType
  <2>2. \/ Set(c, [q EXCEPT !.fault = "freed gp"])
        \/ Set(c, [q EXCEPT !.fault = "no cnnobj"])
        \/ r.obj /\ \E u \in BOOLEAN : Set(c, [o EXCEPT !.thread = "run", !.tunnels = u])
        \/ r.obj /\ \E e \in BOOLEAN : Set(c, plugin_close(close_check([o EXCEPT !.error = e])))
    BY <1>4, <2>1 DEF LastStage, r
  <2> HIDE DEF q, o
  <2>3. ASSUME NEW x, Set(c, [q EXCEPT !.fault = x])
        PROVE  TInv'
    <3> DEFINE s == [q EXCEPT !.fault = x]
    <3>1. /\ s.widget = r.widget /\ s.panels = r.panels /\ s.closed = r.closed
          /\ s.prompt = r.prompt /\ s.user = r.user /\ s.error = r.error
          /\ s.written = r.written /\ s.overlap = r.overlap
      BY <2>1, ConnectionType
    <3> HIDE DEF s
    <3>2. Told(s)
      BY <2>0, <3>1, ToldSame
    <3>3. QED
      BY <2>3, <3>2, ToldOn DEF s
  <2>4. ASSUME r.obj, NEW u \in BOOLEAN, Set(c, [o EXCEPT !.thread = "run", !.tunnels = u])
        PROVE  TInv'
    <3> DEFINE s == [o EXCEPT !.thread = "run", !.tunnels = u]
    <3>1. ~s.written /\ s.panels = {"connect"}
      BY <2>0, <2>1, <2>4, ConnectionType DEF Told
    <3> HIDE DEF s
    <3>2. Told(s)
      BY <3>1, ToldFresh
    <3>3. QED
      BY <2>4, <3>2, ToldOn DEF s
  <2>5. ASSUME r.obj, NEW e \in BOOLEAN, Set(c, plugin_close(close_check([o EXCEPT !.error = e])))
        PROVE  TInv'
    <3> DEFINE s == [o EXCEPT !.error = e]
    <3>1. s \in Connection /\ ~s.written /\ s.panels = {"connect"} /\ ~s.closed
      BY <2>0, <2>1, <2>5, ConnectionType DEF Told
    <3> HIDE DEF s
    <3>2. Told(plugin_close(close_check(s)))
      BY <3>1, ToldPlugin
    <3>3. QED
      BY <2>5, <3>2, ToldOn DEF s
  <2>6. QED
    BY <2>2, <2>3, <2>4, <2>5
<1>5. ASSUME NEW c \in Conns, ThreadOpened(c) \/ ThreadUpdate(c)
      PROVE  TInv'
  <2> DEFINE r == conn[c]
             s1 == Push([r EXCEPT !.thread = "up"], "opened")
             s2 == Push(r, "update")
  <2>1. /\ Live(r) /\ (Set(c, s1) \/ Set(c, s2))
        /\ r \in Connection /\ ~r.written /\ r.panels \subseteq {"connect"}
    BY <1>0, <1>5 DEF ThreadOpened, ThreadUpdate, Live
  <2> HIDE DEF r
  <2>2. /\ s1.written = r.written /\ s1.panels = r.panels
        /\ s2.written = r.written /\ s2.panels = r.panels
    BY <2>1, ConnectionType DEF Push
  <2> HIDE DEF s1, s2
  <2>3. Told(s1) /\ Told(s2)
    BY <2>1, <2>2, ToldFresh
  <2>4. QED
    BY <2>1, <2>3, ToldOn
<1>6. ASSUME NEW c \in Conns, ThreadEnds(c)
      PROVE  TInv'
  <2> DEFINE r == conn[c]
  <2>1. PICK e \in BOOLEAN :
            Set(c, SignalClosed([r EXCEPT !.thread = "ended", !.error = @ \/ e,
                                          !.overlap = @ \/ Closing(c)]))
    BY <1>6 DEF ThreadEnds
  <2> DEFINE e1 == r.error \/ e
             o1 == r.overlap \/ Closing(c)
             s == [r EXCEPT !.thread = "ended", !.error = e1, !.overlap = o1]
  <2>2. Live(r) /\ r \in Connection /\ e1 \in BOOLEAN /\ o1 \in BOOLEAN
    BY <1>0, <1>6, ConnectionType DEF ThreadEnds, Live
  <2>3. Set(c, SignalClosed(s))
    BY <2>1, <2>2, ConnectionType
  <2> HIDE DEF e1, o1
  <2>4. s \in Connection /\ s.written = r.written /\ s.panels = r.panels
    BY <2>2, ConnectionType
  <2> HIDE DEF s
  <2>5. Told(SignalClosed(s))
    BY <1>0, <2>2, <2>4, ToldPlugin
  <2>6. QED
    BY <2>3, <2>5, ToldOn
<1>7. ASSUME NEW c \in Conns, Idle(c)
      PROVE  TInv'
  <2> DEFINE r == conn[c]
             p == [r EXCEPT !.queue = Tail(@)]
             f == [p EXCEPT !.fault = "freed gp"]
  <2>1. /\ Good(r, FALSE, FALSE) /\ r.queue # <<>> /\ Told(r) /\ r \in Connection
    BY <1>0, <1>7, LoopFacts DEF Idle
  <2>2. p \in Connection
    BY <2>1, Popped
  <2>3. /\ p.widget = r.widget /\ p.panels = r.panels /\ p.closed = r.closed /\ p.obj = r.obj
        /\ p.prompt = r.prompt /\ p.user = r.user /\ p.error = r.error
        /\ p.written = r.written /\ p.overlap = r.overlap
    BY <2>1, ConnectionType
  <2>4. \/ Set(c, f) \/ Set(c, conn_opened(p)) \/ Set(c, update(p))
        \/ Head(r.queue) = "closed" /\ Set(c, conn_closed(p))
    BY <1>7 DEF Idle
  <2> HIDE DEF p
  <2>5. Told(p)
    BY <2>1, <2>3, ToldSame
  <2>6. \A s \in {f, conn_opened(p), update(p)} :
            /\ s.widget = p.widget /\ s.panels \subseteq p.panels /\ s.closed = p.closed
            /\ s.prompt = p.prompt /\ s.user = p.user /\ s.error = p.error
            /\ s.written = p.written /\ s.overlap = p.overlap
    BY <2>2, ConnectionType DEF conn_opened, update
  <2> HIDE DEF f
  <2>7. Told(f) /\ Told(conn_opened(p)) /\ Told(update(p))
    BY <2>5, <2>6, ToldSame
  <2>8. ASSUME Head(r.queue) = "closed"
        PROVE  Told(conn_closed(p))
    <3>1. Says(r.queue) /\ r.stage = "open"
      BY <2>1, <2>8, Popping, FieldTypes DEF Good, Opening
    <3>2. r.closed
      BY <2>1, <3>1 DEF Good, Opening, Alive
    <3>3. QED
      BY <1>0, <2>2, <2>3, <2>5, <3>2, ToldClosed
  <2>9. QED
    BY <2>4, <2>7, <2>8, ToldOn
<1>8. ASSUME NEW c \in Conns, TabClose(c) \/ Disconnect(c) \/ ConfirmError(c) \/ ConfirmPrompt(c)
      PROVE  TInv'
  <2> DEFINE r == conn[c]
  <2>1. Good(r, FALSE, FALSE) /\ r.obj /\ Told(r) /\ r \in Connection
    BY <1>0, <1>8, LoopFacts DEF TabClose, Disconnect, ConfirmError, ConfirmPrompt
  <2>2. \/ r.closed /\ Set(c, closewin(Acted(r)))
        \/ Set(c, Acted(r))
        \/ "error" \in r.panels /\ Set(c, closewin(Acted(r)))
        \/ Set(c, conn_closed_real(Acted(r)))
    BY <1>8 DEF TabClose, Disconnect, ConfirmError, ConfirmPrompt, ActedOn, Acted
  <2>3. Acted(r) \in Connection /\ Acted(r).obj = r.obj /\ Acted(r).widget = r.widget
    BY <2>1, ConnectionType DEF Acted
  <2>4. Told(Acted(r)) /\ Told(conn_closed_real(Acted(r)))
    BY <1>0, <2>1, <2>3, ToldActed, ToldReset
  <2>5. QED
    BY <2>1, <2>2, <2>4, ToldTabClose, ToldConfirmed, ToldOn
<1>9. ASSUME NEW c \in Conns, CloseCheck(c)
      PROVE  TInv'
  <2>1. Set(c, close_check(conn[c]))
    BY <1>9 DEF CloseCheck
  <2>2. CASE conn[c].closed
    <3>1. close_check(conn[c]) = on_disconnect([conn[c] EXCEPT !.error = FALSE])
      BY <2>2 DEF close_check
    <3>2. QED
      BY <1>0, <2>1, <3>1, ToldReset, ToldOn
  <2>3. CASE ~conn[c].closed
    <3>1. Live(conn[c])
      BY <1>0, <2>3, FieldTypes DEF Good, Opening
    <3>2. QED
      BY <1>0, <2>1, <2>3, <3>1, ToldPlugin, ToldOn
  <2>4. QED
    BY <2>2, <2>3
<1>10. ASSUME NEW c \in Conns, PluginClose(c)
       PROVE  TInv'
  <2> DEFINE r == conn[c]
             s == plugin_close(r)
  <2>1. Set(c, s) /\ r \in Connection /\ Told(r)
    BY <1>0, <1>10 DEF PluginClose
  <2> HIDE DEF r
  <2>2. /\ s.widget = r.widget /\ s.panels = r.panels /\ (r.closed => s.closed)
        /\ s.prompt = r.prompt /\ s.user = r.user /\ s.error = r.error
        /\ s.written = r.written /\ s.overlap = r.overlap
    BY <2>1, ConnectionType DEF plugin_close, SignalClosed, Push
  <2> HIDE DEF s
  <2>3. Told(s)
    BY <2>1, <2>2 DEF Told
  <2>4. QED
    BY <2>1, <2>3, ToldOn
<1>11. CASE UNCHANGED vars
  BY <1>11 DEF vars, TInv
<1>12. QED
  BY <1>1, <1>2, <1>3, <1>4, <1>5, <1>6, <1>7, <1>8, <1>9, <1>10, <1>11 DEF Next, Main, Thread, User

-----------------------------------------------------------------------------
(* The theorems.                                                           *)

\* The invariant of the life of every connection holds in every reachable state.
THEOREM Invariance == Spec => []IInv
<1>1. Init => IInv
  BY InitInv
<1>2. IInv /\ [Next]_vars => IInv'
  BY StepInv
<1>3. QED
  BY <1>1, <1>2, PTL DEF Spec

\* The record of a connection keeps its type, a panel or a connection object always has its tab,
\* and at most four sources of a connection are queued.
THEOREM Typing == Spec => []TypeOK
<1>1. IInv => TypeOK
  BY DEF IInv, Good, Types, AtMost, TypeOK
<1>2. QED
  BY <1>1, Invariance, PTL

\* No source finds the widget freed or the connection object gone (conn_closed, conn_opened,
\* rco_on_disconnect), unless the closings of the user and of the plugin overlap; and without
\* an overlap rco_closewin writes to a freed widget only when the button of the tab is
\* pressed while the panel asks whether to disconnect.
THEOREM FaultsOverlap == Spec => []NoFault
<1>1. IInv /\ TInv => NoFault
  BY DEF IInv, TInv, Told, Good, Orderly, NoFault
<1>2. Spec => []TInv
  BY ToldInit, ToldStep, Invariance, PTL DEF Spec
<1>3. QED
  BY <1>1, <1>2, Invariance, PTL

\* The thread of a plugin runs only while its widget has its tab.
THEOREM ThreadsHaveWidgets == Spec => []ThreadHasWidget
<1>1. IInv => ThreadHasWidget
  BY DEF IInv, Good, Alive, Live, ThreadHasWidget
<1>2. QED
  BY <1>1, Invariance, PTL

\* A tab whose connection is over, with nothing more to come, says so in a panel.
THEOREM TabsSaySo == Spec => []ClosedTabSaysSo
<1>1. ASSUME IInv, NEW c \in Conns, conn[c].obj, conn[c].closed, conn[c].stage = "open",
             conn[c].queue = <<>>
      PROVE  conn[c].panels \cap {"error", "prompt"} # {}
  <2>1. ~Says(conn[c].queue)
    BY <1>1, Short
  <2>2. QED
    BY <1>1, <2>1 DEF IInv, Good, EndShown
<1>2. IInv => ClosedTabSaysSo
  BY <1>1 DEF ClosedTabSaysSo
<1>3. QED
  BY <1>2, Invariance, PTL

\* The report of the end takes the tab away only when there is no error to be read and no prompt
\* to be answered (conn_closed, rco_on_disconnect).
THEOREM NothingTakenUnread == Spec => NoSilentClose
<1>1. IInv /\ [Next]_vars =>
        [\A c \in Conns :
            conn[c].obj /\ ~conn'[c].obj /\ conn'[c].queue # conn[c].queue
               => ~conn[c].error /\ (conn[c].prompt => conn[c].user)]_vars
  BY StepSilent
<1>2. QED
  BY <1>1, Invariance, PTL DEF Spec, NoSilentClose

=============================================================================
